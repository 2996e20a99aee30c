------------------------------- MODULE RpcPool -------------------------------
(***************************************************************************)
(* The synchronous worker pool of oysterpack-message/src/op_nng/rpc/mod.rs. *)
(*                                                                         *)
(* channels(req_cap, rep_cap) builds two crossbeam bounded channels: the   *)
(* client side holds the request Sender and the reply Receiver, the        *)
(* service side the request Receiver and the reply Sender.  Every worker   *)
(* started by MessageProcessor::bind owns a clone of the service side and  *)
(* runs `for msg in request_channel { reply = process(msg);                *)
(* reply_channel.send(reply) }`, logging a failed send and going on.       *)
(* crossbeam semantics kept by the model: send blocks while the channel is *)
(* full and fails once every receiver is gone; recv blocks while the       *)
(* channel is empty and fails (ending the for loop) once it is empty and   *)
(* every sender is gone.                                                   *)
(*                                                                         *)
(* Client threads follow the tests' pattern: each sends PerClient requests *)
(* with at most Window of them unanswered, receives from the shared reply  *)
(* channel, drops its request Sender after its last send and its reply     *)
(* Receiver when it has all its replies.  Requests are ids; process() is   *)
(* the tests' Echo, so a reply is the id of its request.                   *)
(***************************************************************************)
EXTENDS Naturals, Sequences, SequencesExt, FiniteSets

CONSTANTS
    Clients,      \* client threads, each with a MessageClientChannel clone
    Workers,      \* workers bound to MessageServiceChannel clones
    ReqCap,       \* req_cap
    RepCap,       \* rep_cap
    PerClient,    \* requests each client sends
    Window,       \* most unanswered requests a client has before it receives
    ServiceHeld,  \* the caller keeps the original MessageServiceChannel
    RecvTimeout,  \* clients receive with recv_timeout and give up on timeout
    MayPanic,     \* MessageProcessor::process may panic
    CallbackWorkers, \* workers bound with bind_with_reply_callback
    Configs,      \* thread configs the caller passes to bind: None or a raw name
    MaySpawnFail  \* thread::Builder::spawn may return Err (no thread created)

ASSUME /\ Clients # {} /\ Workers # {}
       /\ ReqCap \in Nat \ {0} /\ RepCap \in Nat \ {0}
       /\ PerClient \in Nat \ {0} /\ Window \in 1..PerClient
       /\ ServiceHeld \in BOOLEAN /\ RecvTimeout \in BOOLEAN /\ MayPanic \in BOOLEAN
       /\ CallbackWorkers \subseteq Workers /\ MaySpawnFail \in BOOLEAN

(* A thread name as the caller writes it: its text without surrounding     *)
(* whitespace (blank, a word, or a word holding a NUL byte) and whether it *)
(* is padded with whitespace.                                              *)
NameCores == {"", "Echo", "Ec<NUL>ho"}
RawNames == [core : NameCores, padded : BOOLEAN]
(* bind(.., None): no config, so no name (same shape as a raw name).     *)
NoConfig == [core |-> "<none>", padded |-> FALSE]
ASSUME Configs \subseteq RawNames \cup {NoConfig}

(* ThreadConfig::new(name): a name whose trim() is empty is replaced by    *)
(* ULID::generate().to_string(); any other name is kept as given, padding  *)
(* included.                                                               *)
ThreadConfigNew(raw) ==
    IF raw.core = "" THEN [core |-> "ulid", padded |-> FALSE] ELSE raw

(* The name bind gives the thread::Builder: none without a config.         *)
ThreadName(cfg) == IF cfg = NoConfig THEN NoConfig ELSE ThreadConfigNew(cfg)

(* Builder::spawn turns the name into a CString and panics on a NUL byte.  *)
NameHasNul(name) == name # NoConfig /\ name.core = "Ec<NUL>ho"

MaxReqs == PerClient * Cardinality(Clients)
Reqs == 1..MaxReqs

VARIABLES
    reqQ,         \* the request channel
    repQ,         \* the reply channel
    wpc,          \* where each worker is in its loop
    wreq,         \* the request a worker is processing or replying to
    owner,        \* owner[r]: the client that sent request r (ids in order)
    sentBy,       \* requests each client has sent
    got,          \* replies each client has received
    cSender,      \* the client still holds its request Sender
    cReceiver,    \* the client still holds its reply Receiver
    discarded,    \* replies whose send failed and were logged and dropped
    lost,         \* requests whose worker panicked in process()
    handled,      \* replies passed to a worker's reply callback
    caller,       \* the thread running the bind loop: binding, bound, panicked
    wname         \* the name each spawned worker thread was given

vars == <<reqQ, repQ, wpc, wreq, owner, sentBy, got, cSender,
          cReceiver, discarded, lost, handled, caller, wname>>

bindVars == <<handled, caller, wname>>

clientVars == <<owner, sentBy, got, cSender, cReceiver>>

Running(w) == wpc[w] \in {"recv", "send"}

(* Who still holds each end of the two channels.                           *)
ReqSendersAlive == \E c \in Clients : cSender[c]
(* The caller's original service side is dropped if the caller panics.     *)
CallerHoldsService == ServiceHeld /\ caller # "panicked"
ReqReceiversAlive == CallerHoldsService \/ \E w \in Workers : Running(w)
(* A callback worker holds a request Receiver but no reply Sender.        *)
RepSendersAlive ==
    CallerHoldsService \/ \E w \in Workers \ CallbackWorkers : Running(w)
RepReceiversAlive == \E c \in Clients : cReceiver[c]

Unanswered(c) == sentBy[c] - Cardinality(got[c])

(* What the client thread's program does next.                             *)
ClientWantsToSend(c) ==
    /\ caller = "bound"
    /\ sentBy[c] < PerClient
    /\ Unanswered(c) < Window
ClientWantsToRecv(c) ==
    /\ ~ClientWantsToSend(c)
    /\ Unanswered(c) > 0
    /\ cReceiver[c]

-----------------------------------------------------------------------------
ClientSend_NoBlock(c) ==
    /\ ClientWantsToSend(c)
    /\ ReqReceiversAlive
    /\ reqQ' = Append(reqQ, Len(owner) + 1)
    /\ owner' = Append(owner, c)
    /\ sentBy' = [sentBy EXCEPT ![c] = @ + 1]
    /\ UNCHANGED <<repQ, wpc, wreq, got, cSender, cReceiver, discarded, lost, bindVars>>

(* client.sender().send(msg): blocks while the channel is full.            *)
ClientSend(c) ==
    /\ ClientWantsToSend(c)
    /\ ReqReceiversAlive
    /\ Len(reqQ) < ReqCap
    /\ reqQ' = Append(reqQ, Len(owner) + 1)
    /\ owner' = Append(owner, c)
    /\ sentBy' = [sentBy EXCEPT ![c] = @ + 1]
    /\ UNCHANGED <<repQ, wpc, wreq, got, cSender, cReceiver, discarded, lost, bindVars>>

(* send fails: every request Receiver is gone (each worker exited or       *)
(* panicked, and the service side is not held).  The tests unwrap the      *)
(* result or then unwrap recv(), so the client thread ends, dropping its   *)
(* channel clone.                                                          *)
ClientSendFails(c) ==
    /\ ClientWantsToSend(c)
    /\ ~ReqReceiversAlive
    /\ cSender' = [cSender EXCEPT ![c] = FALSE]
    /\ cReceiver' = [cReceiver EXCEPT ![c] = FALSE]
    /\ UNCHANGED <<reqQ, repQ, wpc, wreq, owner, sentBy, got, discarded, lost, bindVars>>

(* The client's request Sender is dropped once it has sent everything.     *)
ClientDropSender(c) ==
    /\ cSender[c]
    /\ sentBy[c] = PerClient
    /\ cSender' = [cSender EXCEPT ![c] = FALSE]
    /\ UNCHANGED <<reqQ, repQ, wpc, wreq, owner, sentBy, got,
                   cReceiver, discarded, lost, bindVars>>

(* client.receiver().recv(): takes whichever reply is first in the shared  *)
(* reply channel.                                                          *)
ClientRecv(c) ==
    /\ ClientWantsToRecv(c)
    /\ repQ # <<>>
    /\ got' = [got EXCEPT ![c] = @ \cup {Head(repQ)}]
    /\ repQ' = Tail(repQ)
    /\ UNCHANGED <<reqQ, wpc, wreq, owner, sentBy, cSender,
                   cReceiver, discarded, lost, bindVars>>

(* recv (or recv_timeout) on an empty reply channel with every reply       *)
(* Sender gone returns Err: the client stops receiving and its thread      *)
(* ends.                                                                   *)
ClientRecvDisconnected(c) ==
    /\ ClientWantsToRecv(c)
    /\ repQ = <<>>
    /\ ~RepSendersAlive
    /\ cSender' = [cSender EXCEPT ![c] = FALSE]
    /\ cReceiver' = [cReceiver EXCEPT ![c] = FALSE]
    /\ UNCHANGED <<reqQ, repQ, wpc, wreq, owner, sentBy, got, discarded, lost, bindVars>>

ClientDropReceiver_Early(c) ==
    /\ cReceiver[c]
    /\ sentBy[c] = PerClient
    /\ cReceiver' = [cReceiver EXCEPT ![c] = FALSE]
    /\ UNCHANGED <<reqQ, repQ, wpc, wreq, owner, sentBy, got,
                   cSender, discarded, lost, bindVars>>

(* The client has all its replies and drops its reply Receiver.            *)
ClientDropReceiver(c) ==
    /\ cReceiver[c]
    /\ sentBy[c] = PerClient
    /\ Unanswered(c) = 0
    /\ cReceiver' = [cReceiver EXCEPT ![c] = FALSE]
    /\ UNCHANGED <<reqQ, repQ, wpc, wreq, owner, sentBy, got,
                   cSender, discarded, lost, bindVars>>

(* recv_timeout found no reply in time (message_handler_disconnected):     *)
(* the client stops receiving and drops its reply Receiver.                *)
ClientRecvTimeout(c) ==
    /\ RecvTimeout
    /\ ClientWantsToRecv(c)
    /\ repQ = <<>>
    /\ cReceiver' = [cReceiver EXCEPT ![c] = FALSE]
    /\ UNCHANGED <<reqQ, repQ, wpc, wreq, owner, sentBy, got, cSender,
                   discarded, lost, bindVars>>

-----------------------------------------------------------------------------
(* `for msg in channels.request_channel`: the worker takes the next        *)
(* request; process() (Echo) turns it into its reply.                      *)
WorkerRecv(w) ==
    /\ wpc[w] = "recv"
    /\ reqQ # <<>>
    /\ wreq' = [wreq EXCEPT ![w] = Head(reqQ)]
    /\ reqQ' = Tail(reqQ)
    /\ wpc' = [wpc EXCEPT ![w] = "send"]
    /\ UNCHANGED <<repQ, clientVars, discarded, lost, bindVars>>

(* The for loop ends: the channel is empty and every request Sender is     *)
(* gone.  The thread exits and drops its service channel clone.            *)
WorkerExit(w) ==
    /\ wpc[w] = "recv"
    /\ reqQ = <<>>
    /\ ~ReqSendersAlive
    /\ wpc' = [wpc EXCEPT ![w] = "exited"]
    /\ UNCHANGED <<reqQ, repQ, wreq, clientVars, discarded, lost, bindVars>>

SendReply_TryAndDrop(w) ==
    /\ wpc[w] = "send"
    /\ \/ /\ Len(repQ) < RepCap
          /\ repQ' = Append(repQ, wreq[w])
          /\ UNCHANGED discarded
       \/ /\ Len(repQ) = RepCap
          /\ discarded' = discarded \cup {wreq[w]}
          /\ UNCHANGED repQ
    /\ wpc' = [wpc EXCEPT ![w] = "recv"]
    /\ wreq' = [wreq EXCEPT ![w] = 0]
    /\ UNCHANGED <<reqQ, clientVars, lost, bindVars>>

SendReply_Retry(w) ==
    /\ wpc[w] = "send"
    /\ \/ /\ RepReceiversAlive
          /\ Len(repQ) < RepCap
          /\ repQ' = Append(repQ, wreq[w])
          /\ UNCHANGED <<discarded, wpc, wreq>>
       \/ /\ ~RepReceiversAlive
          /\ discarded' = discarded \cup {wreq[w]}
          /\ wpc' = [wpc EXCEPT ![w] = "recv"]
          /\ wreq' = [wreq EXCEPT ![w] = 0]
          /\ UNCHANGED repQ
    /\ UNCHANGED <<reqQ, clientVars, lost, bindVars>>

(* reply_channel.send(reply): blocks while the reply channel is full; when *)
(* no reply Receiver is left it fails, the error is logged and the reply   *)
(* dropped.  Either way the loop goes on to the next request.              *)
SendReply(w) ==
    /\ w \notin CallbackWorkers
    /\ wpc[w] = "send"
    /\ \/ /\ RepReceiversAlive
          /\ Len(repQ) < RepCap
          /\ repQ' = Append(repQ, wreq[w])
          /\ UNCHANGED discarded
       \/ /\ ~RepReceiversAlive
          /\ discarded' = discarded \cup {wreq[w]}
          /\ UNCHANGED repQ
    /\ wpc' = [wpc EXCEPT ![w] = "recv"]
    /\ wreq' = [wreq EXCEPT ![w] = 0]
    /\ UNCHANGED <<reqQ, clientVars, lost, bindVars>>

(* bind_with_reply_callback's loop: handle_reply(reply) is called in place *)
(* of a channel send; it never blocks and never fails.                     *)
CallbackReply(w) ==
    /\ w \in CallbackWorkers
    /\ wpc[w] = "send"
    /\ handled' = handled \cup {wreq[w]}
    /\ wpc' = [wpc EXCEPT ![w] = "recv"]
    /\ wreq' = [wreq EXCEPT ![w] = 0]
    /\ UNCHANGED <<reqQ, repQ, clientVars, discarded, lost, caller, wname>>

-----------------------------------------------------------------------------
(* The caller's bind loop (`for _ in 0..n { Echo::default().bind(          *)
(* service.clone(), config) }`) starts the workers one at a time, before   *)
(* any client thread is spawned.                                           *)

(* bind / bind_with_reply_callback: the thread::Builder is built from the  *)
(* config and spawn succeeds; the worker enters its loop.                  *)
Bind(w, cfg) ==
    /\ caller = "binding"
    /\ wpc[w] = "unbound"
    /\ ~NameHasNul(ThreadName(cfg))
    /\ wpc' = [wpc EXCEPT ![w] = "recv"]
    /\ wname' = [wname EXCEPT ![w] = ThreadName(cfg)]
    /\ caller' = IF \A u \in Workers \ {w} : wpc[u] # "unbound" THEN "bound" ELSE "binding"
    /\ UNCHANGED <<reqQ, repQ, wreq, clientVars, discarded, lost, handled>>

(* spawn(..).unwrap(): spawn returns Err, or panics on a NUL in the name;  *)
(* either way the caller's thread unwinds.  The workers already started    *)
(* keep running; the caller drops its client and service sides, and no     *)
(* client thread is ever spawned.                                          *)
BindPanics(w, cfg) ==
    /\ caller = "binding"
    /\ wpc[w] = "unbound"
    /\ MaySpawnFail \/ NameHasNul(ThreadName(cfg))
    /\ caller' = "panicked"
    /\ cSender' = [c \in Clients |-> FALSE]
    /\ cReceiver' = [c \in Clients |-> FALSE]
    /\ UNCHANGED <<reqQ, repQ, wpc, wreq, owner, sentBy, got, discarded, lost,
                   handled, wname>>

-----------------------------------------------------------------------------
(* process() panics: the worker thread unwinds, the request it took is     *)
(* lost and its MessageServiceChannel clone is dropped.  bind() does not   *)
(* catch the unwind, so no reply is ever sent and no worker replaces it.   *)
(* (process runs between the two steps of the loop, so the panic is the    *)
(* alternative to the reply send.)                                         *)
WorkerPanic(w) ==
    /\ MayPanic
    /\ wpc[w] = "send"
    /\ lost' = lost \cup {wreq[w]}
    /\ wpc' = [wpc EXCEPT ![w] = "panicked"]
    /\ wreq' = [wreq EXCEPT ![w] = 0]
    /\ UNCHANGED <<reqQ, repQ, clientVars, discarded, bindVars>>

(* Every client thread has finished and every worker is idle or gone.      *)
Done ==
    /\ \A c \in Clients : ~cSender[c] /\ ~cReceiver[c]
    /\ \A w \in Workers : wpc[w] \in {"recv", "exited", "panicked", "unbound"}
    /\ caller # "binding"
    /\ UNCHANGED vars

-----------------------------------------------------------------------------
Init ==
    /\ reqQ = <<>>
    /\ repQ = <<>>
    /\ wpc = [w \in Workers |-> "unbound"]
    /\ wreq = [w \in Workers |-> 0]
    /\ owner = <<>>
    /\ sentBy = [c \in Clients |-> 0]
    /\ got = [c \in Clients |-> {}]
    /\ cSender = [c \in Clients |-> TRUE]
    /\ cReceiver = [c \in Clients |-> TRUE]
    /\ discarded = {}
    /\ lost = {}
    /\ handled = {}
    /\ caller = "binding"
    /\ wname = [w \in Workers |-> NoConfig]

Next ==
    \/ \E c \in Clients :
          \/ ClientSend(c) \/ ClientSendFails(c) \/ ClientDropSender(c)
          \/ ClientRecv(c) \/ ClientRecvDisconnected(c)
          \/ ClientDropReceiver(c) \/ ClientRecvTimeout(c)
    \/ \E w \in Workers :
          \/ \E cfg \in Configs : Bind(w, cfg) \/ BindPanics(w, cfg)
          \/ WorkerRecv(w) \/ WorkerExit(w) \/ SendReply(w) \/ CallbackReply(w)
          \/ WorkerPanic(w)
    \/ Done

(* Every thread is scheduled by the OS and woken when the channel it       *)
(* blocks on changes, so each thread's next step is weakly fair; a         *)
(* recv_timeout always returns.  A panic is never forced.  The caller's    *)
(* bind loop is a running thread, so it keeps spawning until it is done   *)
(* or has panicked.                                                        *)
Fairness ==
    /\ \A c \in Clients :
          /\ WF_vars(ClientSend(c)) /\ WF_vars(ClientSendFails(c))
          /\ WF_vars(ClientDropSender(c))
          /\ WF_vars(ClientRecv(c)) /\ WF_vars(ClientRecvDisconnected(c))
          /\ WF_vars(ClientDropReceiver(c)) /\ WF_vars(ClientRecvTimeout(c))
    /\ \A w \in Workers :
          /\ WF_vars(WorkerRecv(w)) /\ WF_vars(WorkerExit(w))
          /\ WF_vars(SendReply(w)) /\ WF_vars(CallbackReply(w))
    /\ WF_vars(\E w \in Workers, cfg \in Configs : Bind(w, cfg) \/ BindPanics(w, cfg))

Spec == Init /\ [][Next]_vars
FairSpec == Spec /\ Fairness

-----------------------------------------------------------------------------
TypeOK ==
    /\ reqQ \in Seq(Reqs) /\ Len(reqQ) <= ReqCap
    /\ repQ \in Seq(Reqs) /\ Len(repQ) <= RepCap
    /\ wpc \in [Workers -> {"unbound", "recv", "send", "exited", "panicked"}]
    /\ wreq \in [Workers -> 0..MaxReqs]
    /\ owner \in Seq(Clients) /\ Len(owner) <= MaxReqs
    /\ sentBy \in [Clients -> 0..PerClient]
    /\ got \in [Clients -> SUBSET Reqs]
    /\ cSender \in [Clients -> BOOLEAN]
    /\ cReceiver \in [Clients -> BOOLEAN]
    /\ discarded \subseteq Reqs
    /\ lost \subseteq Reqs
    /\ handled \subseteq Reqs
    /\ caller \in {"binding", "bound", "panicked"}
    /\ wname \in [Workers -> {ThreadName(cfg) : cfg \in RawNames \cup {NoConfig}}]

Sent == DOMAIN owner

(* How many copies of request r exist across the system.                  *)
Copies(r) ==
      Len(SelectSeq(reqQ, LAMBDA x : x = r))
    + Cardinality({w \in Workers : wpc[w] = "send" /\ wreq[w] = r})
    + Len(SelectSeq(repQ, LAMBDA x : x = r))
    + Cardinality({c \in Clients : r \in got[c]})
    + (IF r \in discarded THEN 1 ELSE 0)
    + (IF r \in lost THEN 1 ELSE 0)
    + (IF r \in handled THEN 1 ELSE 0)

(* Every request a client sent is, at every moment, in exactly one place:  *)
(* the request channel, a worker's hands, the reply channel, a client, the *)
(* log of failed reply sends, or the hands of a worker that panicked.      *)
(* Nothing else loses or duplicates a request, whatever the interleaving   *)
(* of workers and clients.                                                 *)
RequestConservation == \A r \in Sent : Copies(r) = 1

(* bind's worker logs and drops a reply whose send failed.  With clients  *)
(* that receive as many replies as they sent requests, no reply is ever    *)
(* dropped: a client may take another client's reply from the shared      *)
(* channel, yet the last reply Receiver goes only after every reply was    *)
(* taken, and a full reply channel blocks the worker rather than failing.  *)
NoReplyDiscarded == discarded = {}

(* Every request sent is eventually received, as a reply, by some client: *)
(* no worker or client thread blocks forever and no reply is stranded.     *)
EveryRequestAnswered ==
    \A r \in Reqs : r \in ToSet(reqQ) ~> \E c \in Clients : r \in got[c]

(* bind's doc: a worker runs until its request channel is disconnected and *)
(* drained, or its reply channel is disconnected.  With the service side   *)
(* not held, every worker thread eventually stops (exits or has panicked), *)
(* whatever the clients' timeouts, the workers' panics and a bind loop     *)
(* that panicked half way: no thread is left blocked on a channel nobody   *)
(* will touch again (a worker never spawned counts as stopped).            *)
WorkersStop ==
    <>(/\ caller # "binding"
       /\ \A w \in Workers : wpc[w] \in {"exited", "panicked", "unbound"})

(* The spec's scenario for the pooled model: every caller receives back    *)
(* its own echoed payload.                                                 *)
OwnReply == \A c \in Clients : \A r \in got[c] : owner[r] = c

=============================================================================
