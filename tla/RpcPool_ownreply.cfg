\* Two ping-pong clients share one reply channel: a client may receive the
\* reply to the other client's request.
CONSTANTS
    c1 = c1
    c2 = c2
    w1 = w1
    w2 = w2
    Clients <- MC_Clients
    Workers <- MC_Workers
    ReqCap = 1
    RepCap = 1
    PerClient = 1
    Window = 1
    ServiceHeld = TRUE
    RecvTimeout = FALSE
    MayPanic = FALSE
    CallbackWorkers <- MC_NoCallback
    Configs <- MC_NoConfig
    MaySpawnFail = FALSE
SPECIFICATION Spec
INVARIANTS
    OwnReply
