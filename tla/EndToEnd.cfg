\* The test's inferAsync call from the asynchronous client to the
\* asynchronous server with one HandleRpcs thread; the client may start and
\* shut down twice, the server may fail to build and is shut down once the
\* caller has its answer.
CONSTANTS
    c1 = c1
    cs1 = cs1
    ss1 = ss1
    d1 = d1
    infer = infer
    Callers <- MCCallers
    ClientShutdowners <- MCClientShutdowners
    ShutdownRepeat = 2
    FireAndForget = TRUE
    MaxStarts = 2
    Methods <- MCMethods
    Dispatchers <- MCDispatchers
    ServerShutdowners <- MCServerShutdowners
    MaxCalls = 1
    MaxTags = 3
    BuildMayFail = TRUE
    MethodOf <- MCMethodOf
    FinishingMethods <- MCFinishing
SPECIFICATION Spec
INVARIANT TypeOK
INVARIANT RefCountSound
INVARIANT NoRequestAbandoned
PROPERTY NoLiveThreadReplaced
PROPERTY CallAnswered
