\* The channel holds more envelopes than chan_buf_size when several
\* ReqRep clones send: each clone may park one envelope beyond the buffer.
CONSTANTS
    s1 = s1
    s2 = s2
    Senders <- MC_Senders
    Buffer = 1
    MaxMsgs = 3
SPECIFICATION Spec
INVARIANTS
    QueueWithinCapacity
