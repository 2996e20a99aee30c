\* After message_handler_disconnected: a client sends all its requests,
\* drops its request Sender, then receives with a timeout, so a client that
\* timed out leaves replies nobody can receive.  Unlike that test, the
\* caller does not keep its MessageServiceChannel: with it gone, a send
\* fails and a recv ends once every worker has stopped, paths the test
\* cannot reach.  The workers' exit does not depend on it.
CONSTANTS
    c1 = c1
    c2 = c2
    w1 = w1
    w2 = w2
    Clients <- MC_Clients
    Workers <- MC_Workers
    ReqCap = 2
    RepCap = 1
    PerClient = 2
    Window = 2
    ServiceHeld = FALSE
    RecvTimeout = TRUE
    MayPanic = TRUE
    CallbackWorkers <- MC_Callback
    Configs <- MC_NoConfig
    MaySpawnFail = TRUE
SPECIFICATION FairSpec
INVARIANTS
    TypeOK
    RequestConservation
PROPERTIES
    WorkersStop
