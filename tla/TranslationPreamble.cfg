SPECIFICATION Spec
CONSTANT Exchanges <- WithPreamble
INVARIANT PreamblePrepended
