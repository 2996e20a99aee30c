\* Two clients, two workers, channels of capacity 1, service held.  Each
\* client sends two requests and may have both in flight before it reads a
\* reply (window 2), so runs range from the multi-client test's ping-pong
\* to a pool filled to req_cap + rep_cap + one per worker = 4 requests.
CONSTANTS
    c1 = c1
    c2 = c2
    w1 = w1
    w2 = w2
    Clients <- MC_Clients
    Workers <- MC_Workers
    ReqCap = 1
    RepCap = 1
    PerClient = 2
    Window = 2
    ServiceHeld = TRUE
    RecvTimeout = FALSE
    MayPanic = FALSE
    CallbackWorkers <- MC_NoCallback
    Configs <- MC_Configs
    MaySpawnFail = TRUE
SPECIFICATION FairSpec
INVARIANTS
    TypeOK
    RequestConservation
    NoReplyDiscarded
PROPERTIES
    EveryRequestAnswered
