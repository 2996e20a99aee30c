\* Liveness of the gateway under the executor's and consumer's fairness,
\* with a rendezvous-like buffer of 0 so every send parks.
CONSTANTS
    s1 = s1
    s2 = s2
    Senders <- MC_Senders
    Buffer = 0
    MaxMsgs = 3
SPECIFICATION FairSpec
PROPERTIES
    EveryWaiterResolved
    GatewayLiveness
