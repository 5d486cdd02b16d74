CONSTANTS
    Tokens <- MCTokens
    Backends <- MCBackends
    ClientHeaders <- MCClientHeaders
    ReplyHeaders <- MCReplyHeaders
    RequestHooks <- MCRequestHooks
    ResponseHooks <- MCResponseHooks
SPECIFICATION Spec
INVARIANT ApiKeyIsUsed
