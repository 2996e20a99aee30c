--------------------------- MODULE ReqRepGateway ---------------------------
(***************************************************************************)
(* What the ReqRep gateway of reqrep.rs promises, without the mechanism of *)
(* the futures mpsc channel that provides it.  Each request gets an        *)
(* envelope with a private reply slot; envelopes reach the one consumer    *)
(* in the order they were queued; ReqRep::send returns Ok only once its    *)
(* envelope fits in the buffer (backpressure), or the channel has closed;  *)
(* the consumer answers or drops each envelope it takes, and the caller    *)
(* sees exactly what happened to its own envelope.                         *)
(*                                                                         *)
(* Per-clone state is reduced to the number of live clones (`live`) and    *)
(* the envelopes built but not yet queued (`outbox`); the parked-sender    *)
(* queue has no counterpart here.                                          *)
(***************************************************************************)
EXTENDS Naturals, Sequences, SequencesExt, FiniteSets

CONSTANTS Senders, Buffer, MaxMsgs

Msgs == 1..MaxMsgs

VARIABLES
    queue,     \* queued envelopes, FIFO
    outbox,    \* envelopes built by a send that has not queued them yet
    live,      \* ReqRep clones not dropped
    open,      \* the consumer's stream is alive
    ended,     \* the stream returned None
    nextId, slot, rx, held, replied

vars == <<queue, outbox, live, open, ended, nextId, slot, rx, held, replied>>

RxAlive(m) == rx[m] \in {"sending", "waiting"}

(* Sends in flight: one per clone at most (send takes &mut self).          *)
InFlight == Cardinality({m \in Msgs : rx[m] = "sending"})

Returned == {"waiting", "closed", "ok", "canceled"}

(* The envelope m may be counted among the returned sends of `q` without   *)
(* exceeding the buffer.                                                   *)
Fits(m, q) == Quantify(ToSet(q), LAMBDA x : rx[x] \in Returned \/ x = m) <= Buffer

(* Queue m: the send returns now if its envelope fits, or stays blocked.   *)
Enqueue(m) ==
    /\ queue' = Append(queue, m)
    /\ rx' \in {[rx EXCEPT ![m] = "sending"]}
               \cup (IF Fits(m, queue') THEN {[rx EXCEPT ![m] = "waiting"]} ELSE {})

(* ReqRep::send builds envelope m: fails on a closed channel, or holds it  *)
(* back, or queues it.                                                     *)
Create ==
    /\ nextId <= MaxMsgs
    /\ live > InFlight
    /\ LET m == nextId IN
       /\ nextId' = nextId + 1
       /\ \/ /\ ~open
             /\ slot' = [slot EXCEPT ![m] = "dropped"]
             /\ rx' = [rx EXCEPT ![m] = "senderr"]
             /\ UNCHANGED <<queue, outbox>>
          \/ /\ open
             /\ slot' = [slot EXCEPT ![m] = "empty"]
             /\ rx' = [rx EXCEPT ![m] = "sending"]
             /\ outbox' = outbox \cup {m}
             /\ UNCHANGED queue
          \/ /\ open
             /\ slot' = [slot EXCEPT ![m] = "empty"]
             /\ Enqueue(m)
             /\ UNCHANGED outbox
    /\ UNCHANGED <<live, open, ended, held, replied>>

(* A held-back envelope is queued.                                         *)
Release(m) ==
    /\ m \in outbox
    /\ open
    /\ outbox' = outbox \ {m}
    /\ Enqueue(m)
    /\ UNCHANGED <<live, open, ended, nextId, slot, held, replied>>

(* A held-back envelope meets a closed channel: send returns Err.          *)
Fail(m) ==
    /\ m \in outbox
    /\ ~open
    /\ outbox' = outbox \ {m}
    /\ slot' = [slot EXCEPT ![m] = "dropped"]
    /\ rx' = [rx EXCEPT ![m] = "senderr"]
    /\ UNCHANGED <<queue, live, open, ended, nextId, held, replied>>

(* A blocked send of a queued envelope returns Ok once it fits.            *)
Return(m) ==
    /\ rx[m] = "sending"
    /\ m \notin outbox
    /\ ~open \/ Fits(m, queue)
    /\ rx' = [rx EXCEPT ![m] = "waiting"]
    /\ UNCHANGED <<queue, outbox, live, open, ended, nextId, slot, held, replied>>

(* The caller drops its send future.                                       *)
Abandon(m) ==
    /\ rx[m] = "sending"
    /\ rx' = [rx EXCEPT ![m] = "abandoned"]
    /\ slot' = IF m \in outbox THEN [slot EXCEPT ![m] = "dropped"] ELSE slot
    /\ outbox' = outbox \ {m}
    /\ UNCHANGED <<queue, live, open, ended, nextId, held, replied>>

(* A clone with no send in flight is dropped.                              *)
DropClone ==
    /\ live > InFlight
    /\ live' = live - 1
    /\ UNCHANGED <<queue, outbox, open, ended, nextId, slot, rx, held, replied>>

Take ==
    /\ open
    /\ queue # <<>>
    /\ held' = held \cup {Head(queue)}
    /\ queue' = Tail(queue)
    /\ UNCHANGED <<outbox, live, open, ended, nextId, slot, rx, replied>>

End ==
    /\ open /\ ~ended
    /\ queue = <<>>
    /\ live = 0
    /\ ended' = TRUE
    /\ UNCHANGED <<queue, outbox, live, open, nextId, slot, rx, held, replied>>

Answer(m) ==
    /\ m \in held
    /\ held' = held \ {m}
    /\ \/ /\ slot' = [slot EXCEPT ![m] = IF RxAlive(m) THEN "value" ELSE @]
          /\ replied' = [replied EXCEPT ![m] = IF RxAlive(m) THEN "ok"
                                                             ELSE "disconnected"]
       \/ /\ slot' = [slot EXCEPT ![m] = "dropped"]
          /\ UNCHANGED replied
    /\ UNCHANGED <<queue, outbox, live, open, ended, nextId, rx>>

CloseStream ==
    /\ open
    /\ open' = FALSE
    /\ queue' = <<>>
    /\ slot' = [m \in Msgs |-> IF m \in ToSet(queue) THEN "dropped" ELSE slot[m]]
    /\ UNCHANGED <<outbox, live, ended, nextId, rx, held, replied>>

Collect(m) ==
    /\ rx[m] = "waiting"
    /\ \/ /\ slot[m] \in {"value", "dropped"}
          /\ rx' = [rx EXCEPT ![m] = IF slot[m] = "value" THEN "ok" ELSE "canceled"]
       \/ rx' = [rx EXCEPT ![m] = "closed"]
    /\ UNCHANGED <<queue, outbox, live, open, ended, nextId, slot, held, replied>>

Init ==
    /\ queue = <<>>
    /\ outbox = {}
    /\ live = Cardinality(Senders)
    /\ open = TRUE
    /\ ended = FALSE
    /\ nextId = 1
    /\ slot = [m \in Msgs |-> "none"]
    /\ rx = [m \in Msgs |-> "none"]
    /\ held = {}
    /\ replied = [m \in Msgs |-> "none"]

Next ==
    \/ Create \/ DropClone \/ Take \/ End \/ CloseStream
    \/ \E m \in Msgs : Release(m) \/ Fail(m) \/ Return(m) \/ Abandon(m)
                       \/ Answer(m) \/ Collect(m)

(* What the gateway promises over time: a held-back envelope is queued or  *)
(* fails once the channel's state allows it, a queued send returns once    *)
(* its envelope fits, the consumer keeps taking envelopes and answers or   *)
(* drops each one it takes, and a waiting caller gets its result.          *)
Fairness ==
    /\ WF_vars(Take)
    /\ \A m \in Msgs :
          /\ WF_vars(Release(m)) /\ WF_vars(Fail(m)) /\ WF_vars(Return(m))
          /\ WF_vars(Answer(m)) /\ WF_vars(Collect(m))

Spec == Init /\ [][Next]_vars
FairSpec == Spec /\ Fairness
=============================================================================
