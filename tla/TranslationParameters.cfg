SPECIFICATION Spec
CONSTANT Exchanges <- WithTemperature
INVARIANT SamplingSurvives
