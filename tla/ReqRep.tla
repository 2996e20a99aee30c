------------------------------- MODULE ReqRep -------------------------------
(***************************************************************************)
(* The asynchronous request/reply gateway of                               *)
(* oysterpack-trust/src/concurrent/messaging/reqrep.rs.                    *)
(*                                                                         *)
(* A ReqRep holds a futures::channel::mpsc::Sender of ReqRepMessage        *)
(* envelopes; every envelope carries the Sender half of a private          *)
(* futures::channel::oneshot channel whose Receiver half is returned to    *)
(* the caller as a ReplyReceiver.  The model keeps the control of the two  *)
(* futures channels the code relies on:                                    *)
(*   - mpsc::channel(buffer): a send that makes the number of queued       *)
(*     messages exceed `buffer` still enqueues its message but parks its   *)
(*     Sender; the Send future's poll_flush waits until the Receiver pops  *)
(*     a message and unparks the head of the parked-sender queue.  A       *)
(*     parked sender's next poll_ready waits the same way.  poll_ready on  *)
(*     a closed channel fails; poll_flush on a closed channel succeeds.    *)
(*     Dropping the Receiver closes the channel, unparks every sender and  *)
(*     drops every queued message.                                         *)
(*   - oneshot: send fails when the receiver is gone; dropping the sender  *)
(*     without a value makes the receiver resolve to Canceled.             *)
(* Requests and replies are abstracted to the message id they belong to.  *)
(***************************************************************************)
EXTENDS Naturals, Sequences, SequencesExt, FiniteSets

CONSTANTS
    Senders,    \* the ReqRep clones, each owning one mpsc::Sender
    Buffer,     \* chan_buf_size passed to ReqRep::new
    MaxMsgs     \* bound on MessageId::generate calls (ids 1..MaxMsgs)

ASSUME Senders # {} /\ Buffer \in Nat /\ MaxMsgs \in Nat \ {0}

(* MessageIds.  MessageId::generate makes a ULID (milliseconds plus random *)
(* bits), so ids are not ordered within a millisecond: the model uses them *)
(* only as distinct identities and never compares two of them.            *)
Msgs == 1..MaxMsgs

(* States of the oneshot slot of a message.                                *)
(*   "none"    : not created yet                                           *)
(*   "empty"   : oneshot::Sender alive, no value                           *)
(*   "value"   : ReqRepMessage::reply stored the reply                     *)
(*   "dropped" : oneshot::Sender dropped without a value                   *)
SlotStates == {"none", "empty", "value", "dropped"}

(* The caller's side of a message.                                         *)
(*   "sending"   : ReqRep::send is suspended at await!(send(msg))          *)
(*   "waiting"   : send returned Ok(ReplyReceiver), no result taken yet    *)
(*   "closed"    : the ReplyReceiver was closed or dropped                 *)
(*   "abandoned" : the send future was dropped before it completed         *)
(*   "ok"        : recv returned Ok(reply)                                 *)
(*   "canceled"  : recv returned Err(Canceled)                             *)
(*   "senderr"   : send returned Err(ChannelSendError)                     *)
RxStates == {"none", "sending", "waiting", "closed", "abandoned",
             "ok", "canceled", "senderr"}

(* The state of the one send future a ReqRep clone can run (send takes     *)
(* &mut self): "ready" waits in poll_ready, "flush" in poll_flush.         *)
SendStates == {"idle", "ready", "flush", "dropped"}

VARIABLES
    queue,          \* envelopes (message ids) in the mpsc channel, FIFO
    parkedQueue,    \* mpsc parked_queue of sender tasks, FIFO
    isParked,       \* SenderTask.is_parked of each clone
    sendState,      \* progress of each clone's send future
    sendMsg,        \* id of the message that send future carries (0: none)
    receiverAlive,  \* the mpsc::Receiver has not been dropped
    streamEnded,    \* the Receiver stream returned None
    nextId,         \* next id MessageId::generate hands out
    slot,           \* oneshot slot of each message
    rx,             \* caller side of each message
    held,           \* envelopes taken from the stream and not yet consumed
    replied         \* result of ReqRepMessage::reply for each message

vars == <<queue, parkedQueue, isParked, sendState, sendMsg, receiverAlive,
          streamEnded, nextId, slot, rx, held, replied>>

chanVars == <<queue, parkedQueue, isParked>>

(* The oneshot::Receiver of a message is still alive.                     *)
RxAlive(m) == rx[m] \in {"sending", "waiting"}

-----------------------------------------------------------------------------

(* mpsc Sender::start_send (do_send_b): count the message, park the sender *)
(* when the count exceeds the buffer, push the message; then the Send      *)
(* future's poll_flush completes at once unless the sender was parked.     *)
(* The library does the count, the park and the push as separate atomic    *)
(* operations; the model takes them as one step, so a spurious park        *)
(* between them is not represented.                                        *)
StartSend(s, m) ==
    LET over == Len(queue) + 1 > Buffer IN
    /\ queue' = Append(queue, m)
    /\ isParked' = [isParked EXCEPT ![s] = over]
    /\ parkedQueue' = IF over THEN Append(parkedQueue, s) ELSE parkedQueue
    /\ sendState' = [sendState EXCEPT ![s] = IF over THEN "flush" ELSE "idle"]
    /\ sendMsg' = [sendMsg EXCEPT ![s] = IF over THEN m ELSE 0]
    /\ rx' = [rx EXCEPT ![m] = IF over THEN "sending" ELSE "waiting"]

(* poll_ready found the channel closed: send returns Err; the envelope,    *)
(* and with it the oneshot::Sender, is dropped.                            *)
SendFails(s, m) ==
    /\ slot' = [slot EXCEPT ![m] = "dropped"]
    /\ rx' = [rx EXCEPT ![m] = "senderr"]
    /\ sendState' = [sendState EXCEPT ![s] = "idle"]
    /\ sendMsg' = [sendMsg EXCEPT ![s] = 0]
    /\ UNCHANGED chanVars

Send_IgnoreParked(s) ==
    /\ sendState[s] = "idle"
    /\ nextId <= MaxMsgs
    /\ LET m == nextId IN
       /\ nextId' = nextId + 1
       /\ \/ /\ ~receiverAlive
             /\ SendFails(s, m)
          \/ /\ receiverAlive
             /\ slot' = [slot EXCEPT ![m] = "empty"]
             /\ StartSend(s, m)
    /\ UNCHANGED <<receiverAlive, streamEnded, held, replied>>

(* ReqRep::send: create the oneshot pair, generate the MessageId, build    *)
(* the envelope and run the Send future up to its first suspension.        *)
Send(s) ==
    /\ sendState[s] = "idle"
    /\ nextId <= MaxMsgs
    /\ LET m == nextId IN
       /\ nextId' = nextId + 1
       /\ \/ /\ ~receiverAlive
             /\ SendFails(s, m)
          \/ /\ receiverAlive
             /\ isParked[s]
             /\ slot' = [slot EXCEPT ![m] = "empty"]
             /\ rx' = [rx EXCEPT ![m] = "sending"]
             /\ sendState' = [sendState EXCEPT ![s] = "ready"]
             /\ sendMsg' = [sendMsg EXCEPT ![s] = m]
             /\ UNCHANGED chanVars
          \/ /\ receiverAlive
             /\ ~isParked[s]
             /\ slot' = [slot EXCEPT ![m] = "empty"]
             /\ StartSend(s, m)
    /\ UNCHANGED <<receiverAlive, streamEnded, held, replied>>

(* The Send future is woken in poll_ready: fail if the channel closed,     *)
(* otherwise proceed once the sender has been unparked.                    *)
SendPollReady(s) ==
    /\ sendState[s] = "ready"
    /\ LET m == sendMsg[s] IN
       \/ /\ ~receiverAlive
          /\ SendFails(s, m)
       \/ /\ receiverAlive
          /\ ~isParked[s]
          /\ StartSend(s, m)
          /\ UNCHANGED slot
    /\ UNCHANGED <<receiverAlive, streamEnded, nextId, held, replied>>

SendPollFlush_NoWait(s) ==
    /\ sendState[s] = "flush"
    /\ rx' = [rx EXCEPT ![sendMsg[s]] = "waiting"]
    /\ sendState' = [sendState EXCEPT ![s] = "idle"]
    /\ sendMsg' = [sendMsg EXCEPT ![s] = 0]
    /\ UNCHANGED <<chanVars, receiverAlive, streamEnded, nextId, slot, held,
                   replied>>

(* The Send future is woken in poll_flush: it completes once unparked, and *)
(* also when the channel closed (a disconnected flush counts as flushed), *)
(* so send returns Ok(ReplyReceiver).                                      *)
SendPollFlush(s) ==
    /\ sendState[s] = "flush"
    /\ ~receiverAlive \/ ~isParked[s]
    /\ rx' = [rx EXCEPT ![sendMsg[s]] = "waiting"]
    /\ sendState' = [sendState EXCEPT ![s] = "idle"]
    /\ sendMsg' = [sendMsg EXCEPT ![s] = 0]
    /\ UNCHANGED <<chanVars, receiverAlive, streamEnded, nextId, slot, held,
                   replied>>

AbandonSend_KeepMsg(s) ==
    /\ sendState[s] \in {"ready", "flush"}
    /\ LET m == sendMsg[s] IN
       /\ rx' = [rx EXCEPT ![m] = "abandoned"]
       /\ slot' = IF sendState[s] = "ready"
                     THEN [slot EXCEPT ![m] = "dropped"] ELSE slot
    /\ sendState' = [sendState EXCEPT ![s] = "idle"]
    /\ UNCHANGED <<chanVars, sendMsg, receiverAlive, streamEnded, nextId, held,
                   replied>>

(* The caller drops a suspended send future (e.g. it lost a race with a   *)
(* timer).  The oneshot::Receiver goes with it.  An envelope not yet       *)
(* enqueued is dropped; an enqueued one stays queued.  The clone stays     *)
(* parked if it was.                                                       *)
AbandonSend(s) ==
    /\ sendState[s] \in {"ready", "flush"}
    /\ LET m == sendMsg[s] IN
       /\ rx' = [rx EXCEPT ![m] = "abandoned"]
       /\ slot' = IF sendState[s] = "ready"
                     THEN [slot EXCEPT ![m] = "dropped"] ELSE slot
    /\ sendState' = [sendState EXCEPT ![s] = "idle"]
    /\ sendMsg' = [sendMsg EXCEPT ![s] = 0]
    /\ UNCHANGED <<chanVars, receiverAlive, streamEnded, nextId, held, replied>>

(* A ReqRep clone with no send in flight is dropped.                      *)
DropReqRep(s) ==
    /\ sendState[s] = "idle"
    /\ sendState' = [sendState EXCEPT ![s] = "dropped"]
    /\ UNCHANGED <<chanVars, sendMsg, receiverAlive, streamEnded, nextId, slot,
                   rx, held, replied>>

-----------------------------------------------------------------------------
(* mpsc Receiver::unpark_one: wake the first parked sender, if any.        *)
UnparkOne ==
    IF parkedQueue = <<>>
    THEN UNCHANGED <<parkedQueue, isParked>>
    ELSE /\ isParked' = [isParked EXCEPT ![Head(parkedQueue)] = FALSE]
         /\ parkedQueue' = Tail(parkedQueue)

ReceiverNext_NoUnpark ==
    /\ receiverAlive
    /\ queue # <<>>
    /\ held' = held \cup {Head(queue)}
    /\ queue' = Tail(queue)
    /\ UNCHANGED <<parkedQueue, isParked, sendState, sendMsg, receiverAlive,
                   streamEnded, nextId, slot, rx, replied>>

(* The consumer's req_receiver.next() yields the next envelope:            *)
(* next_message pops it, unparks one sender and decrements the count.      *)
ReceiverNext ==
    /\ receiverAlive
    /\ queue # <<>>
    /\ held' = held \cup {Head(queue)}
    /\ queue' = Tail(queue)
    /\ UnparkOne
    /\ UNCHANGED <<sendState, sendMsg, receiverAlive, streamEnded, nextId,
                   slot, rx, replied>>

(* next() yields None: the queue is empty and every Sender is dropped.     *)
StreamEnd ==
    /\ receiverAlive
    /\ ~streamEnded
    /\ queue = <<>>
    /\ \A s \in Senders : sendState[s] = "dropped"
    /\ streamEnded' = TRUE
    /\ UNCHANGED <<chanVars, sendState, sendMsg, receiverAlive, nextId, slot,
                   rx, held, replied>>

(* ReqRepMessage::reply consumes the envelope and sends on the oneshot;    *)
(* it reports ChannelSendError::Disconnected when the receiver is gone.    *)
Reply(m) ==
    /\ m \in held
    /\ held' = held \ {m}
    /\ slot' = [slot EXCEPT ![m] = IF RxAlive(m) THEN "value" ELSE @]
    /\ replied' = [replied EXCEPT ![m] = IF RxAlive(m) THEN "ok"
                                                       ELSE "disconnected"]
    /\ UNCHANGED <<chanVars, sendState, sendMsg, receiverAlive, streamEnded,
                   nextId, rx>>

(* The consumer drops an envelope without replying.                        *)
DropMessage(m) ==
    /\ m \in held
    /\ held' = held \ {m}
    /\ slot' = [slot EXCEPT ![m] = "dropped"]
    /\ UNCHANGED <<chanVars, sendState, sendMsg, receiverAlive, streamEnded,
                   nextId, rx, replied>>

(* Drop of the mpsc::Receiver: close() unparks every parked sender, then   *)
(* the queued envelopes are drained and dropped.  Envelopes the consumer   *)
(* already holds are not affected.                                         *)
DropReceiver ==
    /\ receiverAlive
    /\ receiverAlive' = FALSE
    /\ queue' = <<>>
    /\ parkedQueue' = <<>>
    /\ isParked' = [s \in Senders |-> FALSE]
    /\ slot' = [m \in Msgs |-> IF m \in ToSet(queue) THEN "dropped"
                                                       ELSE slot[m]]
    /\ UNCHANGED <<sendState, sendMsg, streamEnded, nextId, rx, held, replied>>

Recv_NoWait(m) ==
    /\ rx[m] = "waiting"
    /\ rx' = [rx EXCEPT ![m] = IF slot[m] = "value" THEN "ok" ELSE "canceled"]
    /\ UNCHANGED <<chanVars, sendState, sendMsg, receiverAlive, streamEnded,
                   nextId, slot, held, replied>>

(* ReplyReceiver::recv resolves once the oneshot holds a value or its      *)
(* sender is gone.                                                         *)
Recv(m) ==
    /\ rx[m] = "waiting"
    /\ slot[m] \in {"value", "dropped"}
    /\ rx' = [rx EXCEPT ![m] = IF slot[m] = "value" THEN "ok" ELSE "canceled"]
    /\ UNCHANGED <<chanVars, sendState, sendMsg, receiverAlive, streamEnded,
                   nextId, slot, held, replied>>

(* ReplyReceiver::close, or a plain drop of the ReplyReceiver.             *)
Close(m) ==
    /\ rx[m] = "waiting"
    /\ rx' = [rx EXCEPT ![m] = "closed"]
    /\ UNCHANGED <<chanVars, sendState, sendMsg, receiverAlive, streamEnded,
                   nextId, slot, held, replied>>

(* Every caller has its answer and nothing is in flight: the program has  *)
(* nothing left to do.                                                     *)
Done ==
    /\ \A s \in Senders : sendState[s] \in {"idle", "dropped"}
    /\ queue = <<>>
    /\ held = {}
    /\ \A m \in Msgs : rx[m] \notin {"sending", "waiting"}
    /\ nextId > MaxMsgs \/ ~receiverAlive \/ \A s \in Senders : sendState[s] = "dropped"
    /\ UNCHANGED vars

-----------------------------------------------------------------------------
Init ==
    /\ queue = <<>>
    /\ parkedQueue = <<>>
    /\ isParked = [s \in Senders |-> FALSE]
    /\ sendState = [s \in Senders |-> "idle"]
    /\ sendMsg = [s \in Senders |-> 0]
    /\ receiverAlive = TRUE
    /\ streamEnded = FALSE
    /\ nextId = 1
    /\ slot = [m \in Msgs |-> "none"]
    /\ rx = [m \in Msgs |-> "none"]
    /\ held = {}
    /\ replied = [m \in Msgs |-> "none"]

Next ==
    \/ \E s \in Senders :
          \/ Send(s) \/ SendPollReady(s) \/ SendPollFlush(s)
          \/ AbandonSend(s) \/ DropReqRep(s)
    \/ ReceiverNext \/ StreamEnd \/ DropReceiver
    \/ \E m \in Msgs : Reply(m) \/ DropMessage(m) \/ Recv(m) \/ Close(m)
    \/ Done

(* Woken futures are polled again (the executor's promise), and the        *)
(* consumer keeps draining its stream and answers or drops each envelope   *)
(* it takes.  Sending, closing, abandoning and dropping handles are the    *)
(* callers' choice and carry no fairness.                                  *)
Fairness ==
    /\ \A s \in Senders : WF_vars(SendPollReady(s)) /\ WF_vars(SendPollFlush(s))
    /\ WF_vars(ReceiverNext)
    /\ \A m \in Msgs : WF_vars(Reply(m) \/ DropMessage(m)) /\ WF_vars(Recv(m))

Spec == Init /\ [][Next]_vars
FairSpec == Spec /\ Fairness

-----------------------------------------------------------------------------
TypeOK ==
    /\ queue \in Seq(Msgs)
    /\ parkedQueue \in Seq(Senders)
    /\ isParked \in [Senders -> BOOLEAN]
    /\ sendState \in [Senders -> SendStates]
    /\ sendMsg \in [Senders -> 0..MaxMsgs]
    /\ \A s \in Senders : (sendMsg[s] # 0) <=> sendState[s] \in {"ready", "flush"}
    /\ receiverAlive \in BOOLEAN
    /\ streamEnded \in BOOLEAN
    /\ nextId \in 1..(MaxMsgs + 1)
    /\ slot \in [Msgs -> SlotStates]
    /\ rx \in [Msgs -> RxStates]
    /\ held \subseteq Msgs
    /\ replied \in [Msgs -> {"none", "ok", "disconnected"}]

(* Backpressure as ReqRep::send gives it: of the envelopes in the channel, *)
(* at most `chan_buf_size` belong to sends that already returned; every    *)
(* other queued envelope's send is still suspended (or was abandoned).     *)
Returned == {"waiting", "closed", "ok", "canceled"}
BackpressureHolds ==
    Quantify(ToSet(queue), LAMBDA m : rx[m] \in Returned) <= Buffer

(* Memory bound of the channel: at most one envelope beyond the buffer per *)
(* ReqRep clone.                                                           *)
QueueBound == Len(queue) <= Buffer + Cardinality(Senders)

(* The two ends of every oneshot agree: a caller gets a reply only if the  *)
(* consumer's reply() succeeded; reply() reports Disconnected only to a    *)
(* caller that had closed, abandoned or failed; Canceled and a send error  *)
(* are seen only for envelopes that are nowhere left to be answered.       *)
OutcomeAgreement ==
    \A m \in Msgs :
        /\ rx[m] = "ok" => replied[m] = "ok"
        /\ replied[m] = "disconnected" => rx[m] \in {"closed", "abandoned"}
        /\ rx[m] \in {"canceled", "senderr"} =>
               /\ replied[m] = "none"
               /\ m \notin held
               /\ m \notin ToSet(queue)

(* Every request a caller is sending or awaiting is eventually resolved:   *)
(* send returns, and the reply or Canceled arrives, unless the caller      *)
(* itself gives up.                                                        *)
EveryWaiterResolved ==
    \A m \in Msgs : rx[m] \in {"sending", "waiting"} ~>
                    rx[m] \in {"ok", "canceled", "closed", "abandoned", "senderr"}

(* The spec's reading of chan_buf_size as the channel's capacity: the      *)
(* channel never holds more than `chan_buf_size` envelopes.                *)
QueueWithinCapacity == Len(queue) <= Buffer


-----------------------------------------------------------------------------
(* Refinement mapping onto ReqRepGateway: a clone waiting in poll_ready    *)
(* holds its envelope back (outbox); the clones not dropped are counted;   *)
(* the parked-sender queue and is_parked flags are hidden.                 *)
GW == INSTANCE ReqRepGateway
        WITH outbox <- {sendMsg[s] : s \in {c \in Senders : sendState[c] = "ready"}},
             live <- Cardinality({s \in Senders : sendState[s] # "dropped"}),
             open <- receiverAlive,
             ended <- streamEnded

(* ReqRep with the futures mpsc channel implements the gateway's promise:  *)
(* FIFO delivery, a send returns Ok only once its envelope fits in the     *)
(* buffer or the channel closed, and every caller sees the fate of its own *)
(* envelope, across any interleaving of clones, consumer and callers.      *)
GatewayRefinement == GW!Spec

(* The mpsc parking protocol also keeps the gateway's promises over time:  *)
(* under the executor's and consumer's fairness, no envelope is held back, *)
(* no send stays suspended and no caller waits for ever while the gateway  *)
(* could go on.  A lost wake-up of a parked sender breaks it.              *)
GatewayLiveness == GW!FairSpec

=============================================================================
