CONSTANTS
    Tokens <- MCTokens
    Backends <- MCBackends
    ClientHeaders <- MCClientHeaders
    ReplyHeaders <- MCReplyHeaders
    RequestHooks <- MCRequestHooks
    ResponseHooks <- MCResponseHooks
SPECIFICATION Spec
INVARIANTS
    TypeOK
    KeysStayApart
    CredentialFits
    TraceSurvives
