--------------------------- MODULE MetricRegistry ---------------------------
(***************************************************************************)
(* The metrics registry of oysterpack-trust (src/metrics.rs): a            *)
(* MetricRegistry pairs a prometheus::Registry with a list of the          *)
(* registered collectors kept under an RwLock.  Threads call the           *)
(* register_* wrappers concurrently: each builds a metric (check_labels,   *)
(* check_help, check_const_labels), registers it with the prometheus       *)
(* registry, and only then, in a separate critical section, pushes it onto *)
(* metric_collectors.  Readers (descs, collectors, collector_count,        *)
(* metric_family_count, gather_process_metrics) read the list under the    *)
(* read lock; gather reads the prometheus registry.                        *)
(*                                                                         *)
(* A metric is abstracted to its one descriptor: its metric id (the        *)
(* fully-qualified name), its help text, the value of its const label (if  *)
(* any; the label's name is fixed) and whether it has a variable label.    *)
(***************************************************************************)
EXTENDS Naturals, Sequences, SequencesExt, FiniteSets

CONSTANTS
    Threads,    \* threads calling register_* concurrently
    MetricIds,  \* MetricId values passed to register_*
    MaxRegs,    \* bound on the number of register_* calls
    MaxReads,   \* bound on the number of gather_for_desc_ids calls
    Policy      \* the std RwLock's policy on this platform

ASSUME MaxRegs \in Nat /\ MaxReads \in Nat
(* std::sync::RwLock leaves the priority policy to the platform: with a    *)
(* reader-preferring lock a read() succeeds whenever no writer holds it;   *)
(* with a writer-preferring one (the futex lock std uses on Linux) a       *)
(* read() also waits while a writer is waiting.                            *)
ASSUME Policy \in {"reader_pref", "writer_pref"}

(* Text as a caller passes it: trim() removes the padding.                 *)
Texts == {"", "h1", "h2"}
RawText == [core : Texts, padded : BOOLEAN]
Trim(raw) == raw.core

(* Const labels: None, or one label whose value is some raw text.          *)
NoLabel == "none"
ConstLabelArgs == {[present |-> FALSE, value |-> [core |-> "", padded |-> FALSE]]}
                    \cup [present : {TRUE}, value : RawText]

(* Variable labels: a plain metric has none; a *_vec metric is given a     *)
(* slice of LabelIds, which may be empty.                                  *)
LabelArgs == {"plain", "vec_empty", "vec"}

Descs == [name : MetricIds, help : Texts \ {""},
          label : (Texts \ {""}) \cup {NoLabel}, vlabel : BOOLEAN]

(* MetricRegistry::default registers ProcessCollector::for_self() first.   *)
ProcessDesc == [name |-> "process", help |-> "h1", label |-> NoLabel,
                vlabel |-> FALSE]

VARIABLES
    registered,   \* descriptors held by the prometheus Registry
    collectors,   \* metric_collectors: Vec<ArcCollector>
    pending,      \* per thread: <<d>> registered, waiting for the write lock
    calls,        \* register_* calls made so far
    rpc,          \* per thread: "outer" while gather_for_desc_ids holds its read lock
    reads         \* gather_for_desc_ids calls made so far

vars == <<registered, collectors, pending, calls, rpc, reads>>
readVars == <<rpc, reads>>

(* check_help: trimmed help, Err when blank.                               *)
CheckHelp(h) == Trim(h)

(* check_const_labels: trimmed values, Err when a value is blank.          *)
CheckConstLabels(c) == IF c.present THEN Trim(c.value) ELSE NoLabel

(* The new_* constructor fails on an empty label slice (check_labels), a   *)
(* blank help (check_help) or a blank const label value.                   *)
ConstructorFails(h, c, l) ==
    \/ l = "vec_empty"
    \/ CheckHelp(h) = ""
    \/ CheckConstLabels(c) = ""

NewMetric(id, h, c, l) ==
    [name |-> id, help |-> CheckHelp(h), label |-> CheckConstLabels(c),
     vlabel |-> l = "vec"]

(* prometheus Desc.id hashes the name and the const label values;          *)
(* dim_hash hashes the help and the label names.                           *)
DescId(d) == <<d.name, d.label>>
DimHash(d) == <<d.help, d.label # NoLabel, d.vlabel>>

(* Registry::register rejects a descriptor whose id is already registered  *)
(* (AlreadyReg) or whose name is registered with another dim_hash.         *)
RegistryRejects(d) ==
    \E e \in registered :
        \/ DescId(e) = DescId(d)
        \/ e.name = d.name /\ DimHash(e) # DimHash(d)

Idle(t) == pending[t] = <<>>

(* The thread is in no call of the registry.                               *)
Free(t) == Idle(t) /\ rpc[t] = "idle"

(* A read() of metric_collectors can be granted now.  Writes are one       *)
(* atomic step (Push), so no writer ever holds the lock between steps; a   *)
(* thread with a pending descriptor is a writer waiting for it.            *)
CanRead == Policy = "reader_pref" \/ \A u \in Threads : Idle(u)

Init ==
    /\ registered = {ProcessDesc}
    /\ collectors = <<ProcessDesc>>
    /\ pending = [t \in Threads |-> <<>>]
    /\ calls = 0
    /\ rpc = [t \in Threads |-> "idle"]
    /\ reads = 0

RegisterNoDupCheck(t, id, h, c, l) ==
    /\ Free(t)
    /\ calls < MaxRegs
    /\ calls' = calls + 1
    /\ UNCHANGED readVars
    /\ IF ConstructorFails(h, c, l)
          THEN UNCHANGED <<registered, collectors, pending>>
          ELSE LET d == NewMetric(id, h, c, l) IN
               IF \E e \in registered : e.name = d.name /\ DimHash(e) # DimHash(d)
                  THEN UNCHANGED <<registered, collectors, pending>>
                  ELSE /\ registered' = registered \cup {d}
                       /\ pending' = [pending EXCEPT ![t] = <<d>>]
                       /\ UNCHANGED collectors

RegisterNoHelpCheck(t, id, h, c, l) ==
    /\ Free(t)
    /\ calls < MaxRegs
    /\ calls' = calls + 1
    /\ UNCHANGED readVars
    /\ IF l = "vec_empty" \/ CheckConstLabels(c) = ""
          THEN UNCHANGED <<registered, collectors, pending>>
          ELSE LET d == NewMetric(id, h, c, l) IN
               IF RegistryRejects(d)
                  THEN UNCHANGED <<registered, collectors, pending>>
                  ELSE /\ registered' = registered \cup {d}
                       /\ pending' = [pending EXCEPT ![t] = <<d>>]
                       /\ UNCHANGED collectors

(* A register_* wrapper up to the end of registry.register: the new_*      *)
(* constructor's checks, then the prometheus registry's own checks (under  *)
(* its lock).  Any error returns Err through `?` with nothing pushed.      *)
Register(t, id, h, c, l) ==
    /\ Free(t)
    /\ calls < MaxRegs
    /\ calls' = calls + 1
    /\ UNCHANGED readVars
    /\ IF ConstructorFails(h, c, l)
          THEN UNCHANGED <<registered, collectors, pending>>
          ELSE LET d == NewMetric(id, h, c, l) IN
               IF RegistryRejects(d)
                  THEN UNCHANGED <<registered, collectors, pending>>
                  ELSE /\ registered' = registered \cup {d}
                       /\ pending' = [pending EXCEPT ![t] = <<d>>]
                       /\ UNCHANGED collectors

PushSkipped(t) ==
    /\ ~Idle(t)
    /\ pending' = [pending EXCEPT ![t] = <<>>]
    /\ UNCHANGED <<registered, collectors, calls, readVars>>

(* The rest of MetricRegistry::register: take the write lock once no read  *)
(* guard is held, push the collector, release, return Ok.                  *)
Push(t) ==
    /\ ~Idle(t)
    /\ \A u \in Threads : rpc[u] = "idle"
    /\ collectors' = Append(collectors, Head(pending[t]))
    /\ pending' = [pending EXCEPT ![t] = <<>>]
    /\ UNCHANGED <<registered, calls, readVars>>

(* gather_for_desc_ids: take metric_collectors.read() and hold it ...      *)
GatherLock(t) ==
    /\ Free(t)
    /\ reads < MaxReads
    /\ CanRead
    /\ rpc' = [rpc EXCEPT ![t] = "outer"]
    /\ reads' = reads + 1
    /\ UNCHANGED <<registered, collectors, pending, calls>>

(* ... then call self.find_descs, which takes metric_collectors.read()     *)
(* again on the same thread; once it returns, collect the matching         *)
(* collectors' families, filter them and drop the outer guard.             *)
GatherFindDescs(t) ==
    /\ rpc[t] = "outer"
    /\ CanRead
    /\ rpc' = [rpc EXCEPT ![t] = "idle"]
    /\ UNCHANGED <<registered, collectors, pending, calls, reads>>

(* Every call has returned and the bounds are reached.                     *)
Done ==
    /\ calls = MaxRegs /\ reads = MaxReads
    /\ \A t \in Threads : Free(t)
    /\ UNCHANGED vars

Next ==
    \/ \E t \in Threads, id \in MetricIds, h \in RawText, c \in ConstLabelArgs,
          l \in LabelArgs : Register(t, id, h, c, l)
    \/ \E t \in Threads : Push(t) \/ GatherLock(t) \/ GatherFindDescs(t)
    \/ Done

Spec == Init /\ [][Next]_vars

(* A thread blocked on the lock is woken when the lock is released.        *)
Fairness == \A t \in Threads : WF_vars(Push(t)) /\ WF_vars(GatherFindDescs(t))

FairSpec == Spec /\ Fairness

-----------------------------------------------------------------------------
(* Readers.                                                                *)

(* descs(): the descriptors of the listed collectors.                      *)
ListedDescs == ToSet(collectors)

RECURSIVE DedupAdjacent(_)
(* Vec::dedup_by on fq_name: drops an element equal to its predecessor.    *)
DedupAdjacent(s) ==
    IF Len(s) < 2 THEN s
    ELSE IF s[1] = s[2] THEN DedupAdjacent(Tail(s))
         ELSE <<s[1]>> \o DedupAdjacent(Tail(s))

(* metric_family_count(): names of the listed descriptors, adjacent        *)
(* duplicates removed, counted.                                            *)
MetricFamilyCount ==
    Len(DedupAdjacent([i \in 1..Len(collectors) |-> collectors[i].name]))

(* gather(): one MetricFamily per name registered with prometheus.         *)
GatheredFamilies == {d.name : d \in registered}

(* find_descs(filter) / find_collectors(filter): the listed collectors     *)
(* whose one descriptor passes the filter, in list order.  The filter is   *)
(* given as the set of descriptors it accepts.                             *)
FindDescs(filter) == SelectSeq(collectors, LAMBDA d : d \in filter)

AllDescs == Descs \cup {ProcessDesc}

(* descs_for_metric_ids / descs_for_metric_id: descriptors by fq_name.     *)
DescsForMetricIds(ids) == FindDescs({d \in AllDescs : d.name \in ids})
DescsForMetricId(id) == FindDescs({d \in AllDescs : d.name = id})

(* descs_for_labels: the const label name is fixed, so the map passed in   *)
(* is absent or gives that name the value v.                               *)
DescsForLabels(v) == FindDescs({d \in AllDescs : d.label = v})

(* collectors_for_metric_id, and collectors_for_metric_ids, which calls it *)
(* once per id (one read lock each) and keeps the non-empty results.       *)
CollectorsForMetricId(id) == FindDescs({d \in AllDescs : d.name = id})
CollectorsForMetricIds(ids) ==
    [id \in {i \in ids : CollectorsForMetricId(i) # <<>>} |-> CollectorsForMetricId(id)]

CollectorsForDescId_ByName(did) ==
    LET s == FindDescs({d \in AllDescs : d.name = did[1]})
    IN IF s = <<>> THEN <<>> ELSE <<Head(s)>>

(* collectors_for_desc_id: the first collector with that Desc.id, as an    *)
(* Option (<<>> for None); collectors_for_desc_ids keeps the Some results. *)
CollectorsForDescId(did) ==
    LET s == FindDescs({d \in AllDescs : DescId(d) = did})
    IN IF s = <<>> THEN <<>> ELSE <<Head(s)>>
CollectorsForDescIds(dids) ==
    [did \in {i \in dids : CollectorsForDescId(i) # <<>>} |-> Head(CollectorsForDescId(did))]

(* collector_count(): the length of the list.                              *)
CollectorCount == Len(collectors)

(* gather_for_desc_names: collect each listed collector with a requested   *)
(* name and keep the families with a requested name; a collector yields    *)
(* one family, named after its descriptor, so families are not merged by   *)
(* name as gather() merges them.  Result: the families' names, in order.   *)
GatherForDescNames(names) ==
    LET found == FindDescs({d \in AllDescs : d.name \in names})
    IN [i \in 1..Len(found) |-> found[i].name]

(* gather_for_metric_ids: gather_for_desc_names on the ids' names.         *)
GatherForMetricIds(ids) == GatherForDescNames(ids)

(* gather_for_labels: the labels map either gives the const label's name  *)
(* a value (cl, or NoLabel when absent) and/or names the variable label    *)
(* (vl).  find_collectors keeps a collector whose descriptor has a         *)
(* variable label named in the map, or whose const label has the mapped    *)
(* value.  Each collected family then drops the metrics that carry no      *)
(* label pair of the map: a plain metric carries its const label pair; a   *)
(* *_vec metric with no label values observed has no metrics.  Result:    *)
(* the families, as name and number of metrics kept, in list order.       *)
LabelQueries == [cl : (Texts \ {""}) \cup {NoLabel}, vl : BOOLEAN]
SelectedForLabels(q) ==
    {d \in AllDescs : (d.vlabel /\ q.vl) \/ (d.label # NoLabel /\ d.label = q.cl)}
CollectedMetrics(d) == IF d.vlabel THEN {} ELSE {d.label}
KeptMetrics(d, q) == {m \in CollectedMetrics(d) : m # NoLabel /\ m = q.cl}
GatherForLabels(q) ==
    LET found == FindDescs(SelectedForLabels(q))
    IN [i \in 1..Len(found) |->
          [name |-> found[i].name, metrics |-> Cardinality(KeptMetrics(found[i], q))]]

(* ProcessMetrics::METRIC_NAMES: the six families the ProcessCollector    *)
(* reports; any other collector reports the family of its own descriptor. *)
ProcessMetricNames == {"cpu_seconds_total", "open_fds", "max_fds",
                       "virtual_memory_bytes", "resident_memory_bytes",
                       "start_time_seconds"}
FamilyNamesOf(c) == IF c = ProcessDesc THEN ProcessMetricNames ELSE {c.name}

(* ProcessMetrics::collect: every family with a known name sets its field; *)
(* any other name reaches debug_assert!(false).                            *)
ProcessMetricsCollect(c) ==
    [set     |-> FamilyNamesOf(c) \cap ProcessMetricNames,
     unknown |-> FamilyNamesOf(c) \ ProcessMetricNames]

(* gather_process_metrics: collects collectors[0], taken to be the        *)
(* ProcessCollector.                                                       *)
GatherProcessMetrics == ProcessMetricsCollect(collectors[1])

-----------------------------------------------------------------------------
(* Properties.                                                             *)

TypeOK ==
    /\ registered \subseteq Descs \cup {ProcessDesc}
    /\ collectors \in Seq(Descs \cup {ProcessDesc})
    /\ pending \in [Threads -> Seq(Descs)]
    /\ \A t \in Threads : Len(pending[t]) <= 1
    /\ calls \in 0..MaxRegs
    /\ rpc \in [Threads -> {"idle", "outer"}]
    /\ reads \in 0..MaxReads

(* The collector list never holds one descriptor twice, so descs() and     *)
(* collector_count() never double count, even with concurrent registers.  *)
NoDuplicateListed == IsInjective(collectors)

(* Once no register call is in flight, the list and the prometheus         *)
(* registry agree: every accepted registration was pushed exactly once.    *)
QuiescentAgreement ==
    (\A t \in Threads : Idle(t)) =>
        /\ ListedDescs = registered
        /\ Len(collectors) = Cardinality(registered)

(* metric_family_count() is "the total number of unique registered metric  *)
(* descriptor fully qualified names", i.e. the number of families that     *)
(* gather() returns once no register call is in flight.                    *)
FamilyCountMatchesGather ==
    (\A t \in Threads : Idle(t)) => MetricFamilyCount = Cardinality(GatheredFamilies)

(* Once no register call is in flight, every lookup on the collector list *)
(* answers what the prometheus registry holds: descriptors and collectors  *)
(* by metric id, Desc.id and const label value, the families               *)
(* gather_for_metric_ids and gather_for_labels return, the collector      *)
(* count, and gather_process_metrics filling all six process fields and   *)
(* never reaching its debug_assert on an unknown family.                   *)
ReadersAgreeWithRegistry ==
    (\A t \in Threads : Idle(t)) =>
        /\ \A id \in MetricIds \cup {"process"} :
              /\ ToSet(DescsForMetricId(id)) = {d \in registered : d.name = id}
              /\ ToSet(GatherForMetricIds({id})) = {id} \cap GatheredFamilies
        /\ ToSet(DescsForMetricIds(MetricIds)) = registered \ {ProcessDesc}
        /\ DOMAIN CollectorsForMetricIds(MetricIds) = GatheredFamilies \ {"process"}
        /\ \A d \in registered : CollectorsForDescIds({DescId(d)}) = [i \in {DescId(d)} |-> d]
        /\ \A v \in Texts \ {""} :
              ToSet(DescsForLabels(v)) = {d \in registered : d.label = v}
        /\ \A q \in LabelQueries :
              LET fams == GatherForLabels(q) IN
              {fams[i].name : i \in DOMAIN fams} =
                  {e.name : e \in {d \in registered : (d.vlabel /\ q.vl) \/ (q.cl # NoLabel /\ d.label = q.cl)}}
        /\ CollectorCount = Cardinality(registered)
        /\ GatherProcessMetrics = [set |-> ProcessMetricNames, unknown |-> {}]

(* Every gather_for_desc_ids call returns: the read lock it already holds  *)
(* never keeps its own second read() waiting, whatever register calls do   *)
(* meanwhile.                                                              *)
GatherReturns == \A t \in Threads : rpc[t] = "outer" ~> rpc[t] = "idle"
=============================================================================
