# TLA+ models of oysterpack

This directory holds TLC-checked TLA+ models of this repository's request/reply
mechanisms, its metrics registry and its App actor, plus a plan for the parts not
modelled yet.

## The system

| Part | Source | What it does |
|---|---|---|
| ReqRep gateway | `oysterpack-trust/src/concurrent/messaging/reqrep.rs` | async; `ReqRep::send` wraps a request in a `ReqRepMessage` envelope with a private oneshot reply sender, and awaits the send on a futures `mpsc::channel(chan_buf_size)`. A consumer task reads envelopes from the `Receiver` stream and `reply`s. The caller awaits `ReplyReceiver::recv` or `close`s it. `ReqRep` is `Clone`: every clone is one more mpsc `Sender`. |
| Worker pool | `oysterpack-message/src/op_nng/rpc/mod.rs` | synchronous; `channels(req_cap, rep_cap)` builds two crossbeam bounded channels. `bind` spawns a thread that loops `for msg in request_channel { send(process(msg)) }`, logging a failed reply send and continuing. Clients share both channels through clones. |
| ThreadConfig | `rpc/mod.rs` 222-267 | thread name (a blank name is replaced by a ULID) and stack size for `bind` |
| Metrics | `oysterpack-trust/src/metrics.rs` | a global `MetricRegistry`: a prometheus registry plus a list of collectors under an `RwLock`; checks on help, labels and buckets; gather |
| nng conversion | `oysterpack-message/src/op_nng/mod.rs` | bincode encode/decode into nng messages |
| ULID ids | `oysterpack-uid` | the `op_ulid` macro for u128 id types |
| App actor | `oysterpack-core/src/actor/app.rs` | an actix actor holding build info, instance id and log config |

The two messaging parts interact only with their own callers. In the gateway the
hard behaviour comes from the futures channel:
- a send beyond the buffer *parks* the sending clone but still enqueues the envelope;
- `poll_flush` waits until the clone is unparked;
- the receiver unparks one parked clone per message it takes;
- dropping the receiver closes the channel, unparks everyone and drops the queued
  envelopes, so their callers see `Canceled`.

In the pool the hard behaviour comes from blocking sends on both bounded queues
and from the shared, uncorrelated reply queue.

## Modules

### `ReqRep.tla`: the gateway (MC module `MC_ReqRep.tla`)

Constants:
- `Senders` are the ReqRep clones;
- `Buffer` is `chan_buf_size`;
- `MaxMsgs` bounds the number of requests; request `m` stands for the `MessageId`
  generated by the `m`-th send. A `MessageId` is a ULID: milliseconds plus random
  bits, so two ids of one millisecond are in no particular order. The model uses
  ids only as distinct names and never compares them.

State:
- the channel: `queue`, `parkedQueue`, `isParked`, `receiverAlive`, `streamEnded`;
- each clone's in-flight send future: `sendState`, `sendMsg`;
- each envelope's oneshot slot: `slot` (none / empty / value / dropped);
- each caller's view: `rx`;
- the consumer: the envelopes it `held`, and what `reply` returned (`replied`);

Actions:
- `Send` is `ReqRep::send` up to its first suspension. `poll_ready` and
  `start_send` are one step, and `StartSend` counts, parks and pushes in one step.
  In futures' mpsc these are separate atomic operations, so a send can park
  spuriously between them; the model does not show that window:
  - fail if the channel is closed;
  - park at `poll_ready` if the clone is parked;
  - otherwise `StartSend`.
- `SendPollReady` and `SendPollFlush` are the later polls of the Send future.
- `AbandonSend` drops the future.
- `DropReqRep` drops a clone.
- `ReceiverNext` and `StreamEnd` are the consumer's `next()`.
- `Reply` and `DropMessage` are the consumer's two ways to finish an envelope.
- `DropReceiver` is the consumer task dropping the stream (as in
  `req_rep_with_disconnected_receiver`).
- `Recv` and `Close` are the caller's two ways to finish.
- `Done` is the quiescent stutter once every clone is dropped and the stream ended.

### `RpcPool.tla`: the worker pool (MC module `MC_RpcPool.tla`)

Constants:
- `Clients` are caller threads sharing one `MessageClientChannel`;
- `Workers` are the `bind` threads;
- `ReqCap` and `RepCap` are the channel capacities;
- `PerClient` is the number of requests each client sends;
- `Window` is how many a client sends before it must read a reply (1 = ping-pong as
  in the multi-client test);
- `ServiceHeld` says whether a service-side channel clone outlives the workers (as
  `service` does in the tests). The disconnect run sets it FALSE, unlike
  `message_handler_disconnected`, to reach a failing send and a disconnected recv;
  the workers' exit does not depend on it;
- `RecvTimeout` enables the `recv_timeout` give-up of `message_handler_disconnected`;
- `MayPanic` lets `process` panic;
- `CallbackWorkers` are the workers bound with `bind_with_reply_callback` on a clone
  of the request receiver;
- `Configs` are the `Option<ThreadConfig>` values the caller passes to `bind`: `None`
  (`NoConfig`) or a raw name, given by its trimmed text (blank, a word, a word
  holding a NUL byte) and whether it is padded;
- `MaySpawnFail` lets `thread::Builder::spawn` return `Err` (for example, no memory
  for the requested stack).

State:
- the queues `reqQ` and `repQ` (request numbers; `owner[r]` is the client that sent
  `r`);
- each worker's program counter `wpc` and held request `wreq`;
- per client: `sentBy`, `got`, and whether it still holds its sender and receiver;
- the replies logged and dropped (`discarded`);
- the requests lost with a panicking worker (`lost`);
- the replies handed to a reply callback (`handled`);
- the caller's bind loop (`caller`: binding, bound, panicked) and each worker's
  thread name (`wname`).

Operators:
- `ThreadConfigNew` is `ThreadConfig::new`: a name whose `trim()` is empty becomes
  a ULID, and any other name is kept as given, padding included;
- `ThreadName` is the builder `bind` makes from the `Option<ThreadConfig>`;
- `NameHasNul` is the check `Builder::spawn` makes when it turns the name into a
  `CString`, panicking on a NUL byte;
- `RepSendersAlive` counts only the `bind` workers, because a callback worker holds a
  request Receiver but no reply Sender.

Actions:
- `Bind(w, cfg)` is one turn of the tests' loop
  `for _ in 0..n { Echo::default().bind(service.clone(), config) }`: the thread is
  spawned and the worker enters its loop. Clients start only once the loop has
  finished (`caller = "bound"`), as in every test.
- `BindPanics(w, cfg)` is `spawn(..).unwrap()` failing: `spawn` returned `Err`, or it
  panicked on a NUL in the name. The caller's thread unwinds and drops its client
  and service sides. The workers already started keep running, and no client
  thread is ever spawned.
- `WorkerRecv`, `SendReply` and `WorkerExit` are the three points of the `bind` loop.
- `CallbackReply` is `handle_reply(reply)` in `bind_with_reply_callback`'s loop.
  It never blocks and never fails.
- `SendReply` is one step because a crossbeam send is either a blocking append or,
  with no receivers left, an error that is logged.
- `ClientSend` blocks while `reqQ` is full.
- `ClientRecv` blocks while `repQ` is empty.
- `ClientDropSender`, `ClientDropReceiver` and `ClientRecvTimeout` release the
  client's handles.
- `ClientSendFails` and `ClientRecvDisconnected` are a send or recv that meets a
  disconnected channel. The tests unwrap these results, so the client thread ends.
- `WorkerPanic` is a panic in `process`. `bind` does not catch it, so the thread
  unwinds: the request it took is lost and its channel clone is dropped.

### `ReqRepGateway.tla`: what the gateway promises

The gateway without the parking machinery:
- `queue` is the FIFO of envelopes;
- `outbox` holds envelopes built by a send that has not queued them yet;
- `live` counts the clones not dropped;
- `open` and `ended` describe the consumer's stream;
- the per-envelope `slot`, `rx`, `held` and `replied` are as in ReqRep.

Its one non-trivial guard is backpressure. `Return(m)` (a blocked send returning
`Ok`) is allowed only when the channel is closed, or when `m` counted among the
returned sends still `Fits` in `Buffer`.

ReqRep defines `GW == INSTANCE ReqRepGateway WITH ...`:
- `outbox` is the envelopes of clones waiting in `poll_ready`;
- `live` is the number of clones not dropped;
- `open` and `ended` are the receiver flags;
- `parkedQueue` and `isParked` are hidden.

`GatewayRefinement == GW!Spec` is checked as a PROPERTY.

`ReqRepGateway.Fairness` states what the gateway promises over time. A held-back
envelope is queued, or fails once the channel has closed (`Release`, `Fail`). A
queued send returns once its envelope fits (`Return`). The consumer keeps taking
envelopes (`Take`) and answers or drops each one (`Answer`). A waiting caller
gets its result (`Collect`). `GatewayLiveness == GW!FairSpec` checks that
ReqRep's fair behaviours meet these conditions. The abstract gateway has no
parking, so `Release` and `Return` are enabled as soon as the buffer allows.
ReqRep meets them only if every parked clone is unparked by a later `next()`.

### `MetricRegistry.tla`: registration and readers (MC module `MC_MetricRegistry.tla`)

Constants:
- `Threads` are the threads calling the `register_*` wrappers;
- `MetricIds` are the metric names used;
- `MaxRegs` bounds the number of calls, and `MaxReads` the number of
  `gather_for_desc_ids` calls;
- `Policy` is the `std::sync::RwLock` priority policy. std leaves it to the
  platform: reader-preferring, or writer-preferring like the futex lock on Linux.

A metric is reduced to its single descriptor:
- its name;
- its trimmed help;
- its trimmed const label value, or none;
- whether it has variable labels.

Raw help and label text is a record `[core, padded]`, so that `trim` is modelled by
what it does.

State:
- `registered`: the prometheus registry's descriptors;
- `collectors`: the `metric_collectors` list;
- `pending`: per thread, a descriptor registered but not pushed yet. The thread
  is then waiting for the write lock of `metric_collectors`.
- `calls`;
- `rpc`: per thread, whether `gather_for_desc_ids` holds its read guard;
- `reads`.

Actions:
- `Register(t, ...)` runs a wrapper up to the end of `registry.register`:
  - the constructor checks: an empty label slice, a blank help or a blank const
    label fails;
  - then prometheus's duplicate-id and dim-hash checks.
- `Push(t)` is the later write-locked push onto the list, once no read guard is
  held.
- `GatherLock(t)` and `GatherFindDescs(t)` are `gather_for_desc_ids`. It takes the
  read lock, then calls `find_descs`, which takes the same read lock again on the
  same thread. Under the writer-preferring policy, a read waits while a writer
  waits (`CanRead`).

The readers are operators:
- `ListedDescs` models `descs`;
- `MetricFamilyCount` models `metric_family_count`, with the recursive `DedupAdjacent`
  for `Vec::dedup_by`;
- `GatheredFamilies` models `gather`;
- `FindDescs(F)` models `find_descs` and `find_collectors`. Each listed collector
  has one descriptor, so both filter the list in order;
- `DescsForMetricId(s)`, `DescsForLabels`, `CollectorsForMetricId(s)`,
  `CollectorsForDescId(s)`, `CollectorCount`, `GatherForDescNames`,
  `GatherForMetricIds`, `GatherForLabels` and `GatherProcessMetrics` are the
  lookups built on them. `GatherForLabels(q)` takes a label query `q`: a value for
  the const label's name (or none) and whether the map names the variable label.
  `GatherProcessMetrics` runs `ProcessMetrics::collect` (`ProcessMetricsCollect`)
  on the first listed collector: a family named in `METRIC_NAMES` sets its field,
  any other name reaches the `debug_assert!`;
  `SelectedForLabels` is the `find_collectors` filter. `KeptMetrics` is the
  per-metric `retain` loop over the metrics a collector yields (`CollectedMetrics`:
  a plain metric yields one metric carrying its const label; a `*_vec` metric
  with no label values observed yields none);
  The `*_ids` maps are functions whose domain holds only the ids that had a
  non-empty result, as the code's `fold` inserts. `gather_for_desc_names` yields
  one family per collector and does not merge families by name.

Each reader takes the read lock once, so it is one atomic look at the list.
`collectors_for_*_ids` take the lock once per id. No property asks for a snapshot
across ids, because the code does not promise one.

One observation is left out of the runs. `gather_for_desc_ids` filters the
families it collects (`metrics.rs:756-783`). A family with const labels is kept
only if `const_labels_match()` holds, that is, if some label of its first metric
differs from a const label pair of the descriptor. A plain (non-vec) metric with
one const label has exactly that label on its metric, so the test fails and the
family is dropped. `gather_for_desc_ids` returns nothing for such a metric, even
though its doc says the id "enables you to gather metrics with specific constant
label values". No test calls `gather_for_desc_ids`. A unit test reaches this, and
the model does not compute what the call returns (only its locking), so it has no
run here.

### `Buckets.tla`: `check_buckets` (MC module `MC_Buckets.tla`)

A pure algorithm checked over every input list of up to four bounds drawn from
{0, 1, 2, NaN}, and over every timer-built list (below). `NaN` is a model value, and every comparison with it is false.

The sort:
- `Sort` is the insertion sort that `sort_unstable_by` runs on slices of at most
  20 elements: `ShiftTail` is `shift_tail`, and the comparator of lines 684-695 is
  `Lt` both ways;
- this also captures that the comparator calls NaN `Equal` to everything.

The dedupe:
- `DedupePass` is one pass of `dedupe`'s while loop, including its index advancing
  after a `remove`;
- `Dedupe` repeats the pass while it finds duplicates.

`CheckBuckets` is the one action: `Err` on an empty list, otherwise the sorted and
deduped list.

The timer path:
- `register_histogram_timer` passes a `TimerBuckets` (Durations built by
  `AddBucket`) through `TimerIntoF64`, which is `Into<Vec<f64>>`;
- `AsFloatSecs` rounds each Duration to f64 seconds. Durations and their f64
  images are naturals on one scale. The f64 mantissa is scaled down to
  `Mantissa` bits (`RoundToMantissa`, round to nearest, ties to even), so that
  rounding happens among small values;
- `Init` draws `buckets` from the plain f64 lists and from every converted
  `TimerBuckets` of up to `MaxLen` Durations (`TimerInputs`).

### `AppActor.tla`: the App actor and `App::run` (MC module `MC_AppActor.tla`)

State:
- the App and EventLog mailboxes (FIFO);
- `build`, `events` and `running`;
- `App::run`'s future chain as a program counter (`runPc`) with the reply it
  awaits;
- the user workflow `f`, which sends App messages and awaits each reply.

Actions:
- `AppHandle` is the App handlers: `SetBuild`, `GetAppInstanceInfo`, `StopApp` (stop
  the System) and the other queries.
- `LogHandle` is the EventLog.
- The `Run*` actions are the chain's `.then` steps, each enabled by the previous
  reply.
- `FSend`, `FRecv` and `FDone` are the workflow.
- `Stopped` is the stutter after `System::stop`.

## Runs

| run | checks | result |
|---|---|---|
| `ReqRep_safety` | TypeOK, BackpressureHolds (at most `Buffer` queued envelopes belong to sends that have returned), QueueBound (queue <= buffer + clones), OutcomeAgreement (a caller's result agrees with the slot and with what `reply` returned), GatewayRefinement (ReqRep implements ReqRepGateway) | pass, 411k states, about 30 s |
| `ReqRep_liveness` | EveryWaiterResolved under fairness of the executor's polls and the consumer; GatewayLiveness (the fair behaviours of ReqRep are fair behaviours of ReqRepGateway under the refinement mapping, so a parked send is always woken) | pass |
| `ReqRep_capacity` | QueueWithinCapacity (queue <= chan_buf_size) | **violated**: finding 1 |
| `RpcPool_clients` | TypeOK, RequestConservation (each sent request is in exactly one place: queue, worker, reply queue, a client's `got`, discarded, lost or handled), NoReplyDiscarded (no reply is ever logged and dropped: a client may take another client's reply, yet the last reply Receiver goes only after every reply was taken), EveryRequestAnswered (which also fails if a worker leaves its loop with requests queued); a bind loop with blank, padded and NUL names that may fail, then two clients with up to two requests each in flight | pass, 49k states |
| `RpcPool_disconnect` | TypeOK, RequestConservation (here also across panics, callback replies and late replies dropped after a timeout) and WorkersStop (once the bind loop is over, every worker thread eventually exits, has panicked or was never spawned), with a callback worker, spawn failures, timeouts, panics in `process` and no held service channel | pass, 96k states |
| `RpcPool_ownreply` | OwnReply (a client only receives replies to its own requests) | **violated**: finding 2 |
| `MetricRegistry_concurrent` | TypeOK, NoDuplicateListed, QuiescentAgreement (with no call in flight, list and registry agree one to one), ReadersAgreeWithRegistry (with no call in flight, every lookup by metric id, Desc.id, const label value or label query answers what the registry holds) | pass, three threads |
| `MetricRegistry_familycount` | FamilyCountMatchesGather (`metric_family_count` = number of gathered families) | **violated**: finding 3 |
| `MetricRegistry_rwlock` | GatherReturns (every `gather_for_desc_ids` call returns) with a writer-preferring RwLock | **violated**: finding 5 |
| `Buckets_sorted` | TypeOK (an `Ok` result is never empty), SortedSetForFinite (NaN-free input, plain or timer-built, gives its values sorted, once each, compared with `SetToSortSeq`), StrictlyIncreasing (for every input, NaN included) | pass |
| `Buckets_nan` | FiniteBucketsKept (every finite bound passed is kept) | **violated**: finding 4 |
| `AppActor_run` | TypeOK, LifecycleLogged (when the System stops, Started then Stopped were logged, and Started names the run's build), EventuallyStops | pass |

Every property of a passing run has a mutant in `PROJECT.json`. A mutant is a
plausible bug in the modelled code that TLC must catch, for example:
- a parked clone sending again;
- an unpark dropped;
- a caller's recv returning before the oneshot is filled;
- a reply dropped when the reply channel is full;
- a push skipped after a successful registration;
- a single pass of `shift_tail`;
- a `StopApp` sent before the Stopped event is logged.

### Bounds

ReqRep:
- Two clones and buffer 1 is the smallest setting where one clone runs while
  another is parked.
- Four requests let a clone be parked, unparked and park again, with an envelope
  queued behind a returned one and a parked one.
- Buffer 0 (liveness) makes every send park, the hardest case for progress.

RpcPool:
- Two clients and two workers give both cross-delivery and worker races.
- With window 2 the pool fills to exactly req_cap + rep_cap + workers = 4 requests.
  More would deadlock, as expected from blocking channels: a client must not
  pipeline past that limit.
- Two workers let the bind loop fail before any spawn or after the first, leaving
  a started worker behind. Three names cover the `ThreadConfig::new` cases: blank
  (replaced), padded (kept) and holding a NUL (spawn panics).
- The disconnect run binds `w2` with `bind_with_reply_callback`. Requests it takes
  then never reach the clients' reply channel, which timeouts must absorb.

MetricRegistry:
- One gather call and one register call are enough for the deadlock; the passing
  run adds one gather call to its four register calls.
- Four calls from three threads (symmetry over threads and metric ids; 9.8k
  distinct states, about 20 s) reach every interleaving that matters:
  - two threads between `register` and push at once, while a third registers
    the same name or reads;
  - a duplicate rejected;
  - a dim-hash conflict;
  - blank and padded text.

Buckets:
- Lists of up to four bounds cover:
  - every relative order of three finite values plus NaN;
  - repeated values;
  - NaN at each position.
- Durations 4..7 with a 2-bit mantissa: 4 and 6 convert exactly, 5 rounds down
  onto 4, and 7 rounds up to 8. Timer lists of up to four Durations therefore
  contain exact values, merged values and a value outside the plain bounds.

AppActor:
- Up to three workflow messages interleave with every step of the run chain.

### Fairness

Only steps the runtime drives are fair:
- the executor re-polling a woken Send future;
- the consumer task taking and finishing envelopes;
- a ReplyReceiver's recv being polled;
- the OS scheduling blocked threads in the pool;
- the actix arbiter delivering mailbox messages and resolving chain steps.

Caller choices are never fair: dropping a clone, closing a receiver, giving up.

A `recv_timeout` always returns, so a timeout is weakly fair. A panic is never
forced. The caller's bind loop is a running thread, so its next spawn is weakly
fair. Whether that spawn succeeds is nondeterministic, never forced either way.

The workflow `f` is assumed to finish, as the doc of `App::run` requires.

## Findings

1. **Gateway capacity is `chan_buf_size + clones`** (`reqrep.rs:68`). A send past
   the buffer parks its clone, but its envelope is already queued. So the consumer
   can see more than C envelopes, while the spec describes a queue of capacity C.
   The backpressure ReqRep does give, as ReqRepGateway states it, holds.
2. **Cross-delivery with one outstanding request per caller** (`rpc/mod.rs:155`).
   With two ping-pong clients, c2 can receive the reply to c1's request. The spec's
   open question claims this cannot happen with one outstanding request per caller.
   The multi-client test does not compare payloads.
3. **`metric_family_count` counts a name twice** (`metrics.rs:462`). `dedup_by`
   removes only adjacent duplicates. A name registered with two const label values
   and another metric in between is counted twice, so the count differs from
   `gather().len()`, which the test asserts.
4. **NaN buckets drop finite bounds** (`metrics.rs:667`). The comparator calls NaN
   `Equal` to everything, so NaN can stay first, and `dedupe` then removes every
   later bound. `[NaN, 0.0]` gives `Ok([NaN])`.
5. **`gather_for_desc_ids` can deadlock with `register`** (`metrics.rs:732`). It
   holds `metric_collectors.read()` and calls `find_descs`, which calls `read()`
   again. On a writer-preferring RwLock, a `register` waiting for the write lock
   between the two reads blocks the second read. The writer in turn waits for the
   first guard: t1 reads, t2 registers, and neither thread moves again.

The App actor also has a documented gap that is kept as a hazard in `PROJECT.json`
rather than a run. A workflow that sends `StopApp` itself stops the System before
the chain logs Stopped (`app.rs:162`).

## Not modelled and plan

Observations without a run:
- `bind`'s doc says a worker runs until the request channel is drained and
  disconnected, or until the reply receiver is dropped. The code logs a failed reply
  send and goes on reading requests (`SendReply`). So a worker whose clients stopped
  listening but keep a request Sender stays up. In the bounded model every client
  eventually drops its Sender, so `WorkersStop` still holds.
- `ThreadConfig::new`'s doc says "name is trimmed", but the code keeps a padded name
  as given (`ThreadConfigNew`). Only a blank name is replaced. The spec only asks
  that a thread's name is never blank, which holds.
- `gather_for_labels` removes the metrics without a requested label pair from
  each family but keeps a family it has emptied (`metrics.rs:813-833`). A
  `*_vec` metric selected because the map names its variable label comes back
  as a family with no metrics when none of its children has the requested
  value (`KeptMetrics` is empty). The doc says it "gathers metrics that contain
  the specified labels"; callers must skip empty families.
- Two timer buckets closer than f64's resolution at their magnitude become one
  f64 in `TimerBuckets::into` (`metrics.rs:1078`), and `check_buckets` then merges
  them. A `TimerBuckets` of 5 and 4 units yields one bucket in the model. In
  real f64 this needs durations above about 10^7 s that differ by nanoseconds.
  No document promises one bucket per Duration.
- `set_stack_size` and `ThreadConfig::builder` are not translated. A stack size only
  decides whether `spawn` can fail, and `MaySpawnFail` covers that.

Not modelled, and why a faithful model adds nothing checkable:
- the result of `gather_for_desc_ids`, and `gather_for_labels` on `*_vec` metrics
  with observed children. The filters compare label values per child metric, so
  the model would need per-child label values for every registered metric; with
  three threads that grows `MetricRegistry_concurrent` past a usable size, and the
  family-level answer is already checked by `ReadersAgreeWithRegistry`;
- `ReqRepMessage::take_request` and the message accessors. `take_request` moves the
  request out of a held message once (`Option::take`); no property of the gateway
  depends on it, and tracking it doubles the states of the already slowest run;
- the `ProcessMetrics` field accessors and the ID types' `Display`/`FromStr`
  (formatting and parsing with no state). `MetricId::from_str` slices `s[1..]` and
  panics on an empty string, a unit-testable edge with no concurrency;
- the `op_nng` message conversions between nng and bincode (pure I/O).

Left out for good:
- nng/bincode conversion (pure I/O);
- the ULID macros (generated code);
- logging and `init_logging`.
