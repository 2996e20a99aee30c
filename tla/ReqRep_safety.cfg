\* Safety of the gateway and its refinement of ReqRepGateway, with an mpsc
\* buffer of 1 so that sends both return at once and park, and four
\* requests so that an envelope queues behind a returned one and a parked
\* one.  No symmetry: the refinement property is temporal.
CONSTANTS
    s1 = s1
    s2 = s2
    Senders <- MC_Senders
    Buffer = 1
    MaxMsgs = 4
SPECIFICATION Spec
INVARIANTS
    TypeOK
    BackpressureHolds
    QueueBound
    OutcomeAgreement
PROPERTIES
    GatewayRefinement
