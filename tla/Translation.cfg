SPECIFICATION Spec
CONSTANT Exchanges <- MCExchanges
INVARIANTS
    TypeOK
    ConversationSurvives
    RefusedForCause
    TurnsStayValid
    AnswerSurvives
    SecretsStay
    Mirrored
    NotesArrive
