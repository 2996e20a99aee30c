------------------------------ MODULE Buckets ------------------------------
(***************************************************************************)
(* MetricRegistry::check_buckets (src/metrics.rs), called by new_histogram *)
(* and new_histogram_vec: reject an empty bucket list, otherwise sort it   *)
(* with sort_unstable_by and a comparator built from < and >, then remove  *)
(* every element that is not partial_cmp-Less than its predecessor,        *)
(* repeating the pass until it removes nothing.                            *)
(*                                                                         *)
(* Bucket bounds are f64: a small set of finite values, ordered, and NaN,  *)
(* for which every comparison is false and partial_cmp is None.  On        *)
(* slices of at most 20 elements sort_unstable_by runs an insertion sort   *)
(* (shift each element left while it is_less than its predecessor), which  *)
(* is what Sort models for the bounded inputs checked here.                *)
(*                                                                         *)
(* register_histogram_timer and register_histogram_vec_timer pass a        *)
(* TimerBuckets (a list of Durations) converted by Into<Vec<f64>>: each    *)
(* Duration becomes f64 seconds, rounded to the f64 mantissa.  Durations   *)
(* and their f64 images are naturals on one scale; the mantissa is scaled  *)
(* down to `Mantissa` bits so that rounding happens among small values.    *)
(***************************************************************************)
EXTENDS Naturals, Sequences, SequencesExt, FiniteSets

CONSTANTS
    Finite,     \* finite bucket bounds, a set of naturals standing for f64s
    NaN,        \* the f64 NaN, a model value
    MaxLen,     \* longest bucket list checked
    Durations,  \* Durations a TimerBuckets may hold, on the f64 scale
    Mantissa    \* significant bits of the scaled f64

ASSUME /\ Finite \subseteq Nat /\ NaN \notin Finite /\ MaxLen \in Nat
       /\ Durations \subseteq Nat /\ Mantissa \in Nat \ {0}

RECURSIVE BitLength(_)
BitLength(x) == IF x = 0 THEN 0 ELSE 1 + BitLength(x \div 2)

(* Round to nearest, ties to even, keeping Mantissa significant bits.      *)
RoundToMantissa(x) ==
    IF BitLength(x) <= Mantissa THEN x
    ELSE LET e == 2^(BitLength(x) - Mantissa)
             q == x \div e
             r == x % e
         IN (IF 2 * r > e \/ (2 * r = e /\ q % 2 = 1) THEN q + 1 ELSE q) * e

(* as_float_secs(nanos): (nanos as f64) / 1e9.  The model keeps the       *)
(* first rounding, u64 to f64 (here to Mantissa bits), where two close     *)
(* durations become one value; it leaves out the division by the constant  *)
(* 1e9, a second rounding that keeps the order of its inputs.              *)
AsFloatSecs(d) == RoundToMantissa(d)

(* TimerBuckets::add_bucket pushes a Duration; From<&[Duration]> and       *)
(* From<Vec<Duration>> copy a slice.  All build the list of Durations.     *)
AddBucket(tb, d) == Append(tb, d)

(* Into<Vec<f64>> for TimerBuckets: map every Duration to f64 seconds.     *)
TimerIntoF64(tb) == [i \in DOMAIN tb |-> AsFloatSecs(tb[i])]

Values == Finite \cup {AsFloatSecs(d) : d \in Durations} \cup {NaN}

(* a < b on f64, which is also partial_cmp(a, b) = Some(Less).             *)
Lt(a, b) == a # NaN /\ b # NaN /\ a < b

ShiftTailOnce(s, j) ==
    IF j > 1 /\ Lt(s[j], s[j-1])
       THEN [s EXCEPT ![j-1] = s[j], ![j] = s[j-1]]
       ELSE s

RECURSIVE ShiftTail(_, _)
(* core::slice::sort::shift_tail on s[1..j]: move s[j] left while it is   *)
(* less than the element before it.                                        *)
ShiftTail(s, j) ==
    IF j > 1 /\ Lt(s[j], s[j-1])
       THEN ShiftTail([s EXCEPT ![j-1] = s[j], ![j] = s[j-1]], j - 1)
       ELSE s

RECURSIVE InsertionFrom(_, _)
InsertionFrom(s, i) == IF i > Len(s) THEN s ELSE InsertionFrom(ShiftTail(s, i), i + 1)

(* sort(buckets): sort_unstable_by with the comparator of lines 684-695.   *)
Sort(b) == InsertionFrom(b, 2)

RECURSIVE DedupePass(_, _, _)
(* One run of dedupe's while loop, i counted from 1 for the pair           *)
(* (b[i], b[i+1]); after a remove, i still advances.  Returns the list and *)
(* found_dups.                                                             *)
DedupePass(b, i, found) ==
    IF i >= Len(b) THEN <<b, found>>
    ELSE IF Lt(b[i], b[i+1]) THEN DedupePass(b, i + 1, found)
    ELSE DedupePass(RemoveAt(b, i + 1), i + 1, TRUE)

DedupeOnce(b) == IF Len(b) > 1 THEN DedupePass(b, 1, FALSE)[1] ELSE b

RECURSIVE Dedupe(_)
(* dedupe: repeat the pass while it found duplicates.                      *)
Dedupe(b) ==
    IF Len(b) > 1
       THEN LET r == DedupePass(b, 1, FALSE)
            IN IF r[2] THEN Dedupe(r[1]) ELSE r[1]
       ELSE b

SortDedupe(b) == Dedupe(Sort(b))

Inputs == UNION {[1..n -> Finite \cup {NaN}] : n \in 0..MaxLen}

(* The bucket lists register_histogram_timer hands to check_buckets: every *)
(* TimerBuckets of up to MaxLen Durations, built by add_bucket, converted. *)
RECURSIVE TimerLists(_)
TimerLists(n) ==
    IF n = 0 THEN {<<>>}
    ELSE TimerLists(n - 1) \cup {AddBucket(tb, d) : tb \in TimerLists(n - 1), d \in Durations}
TimerInputs == {TimerIntoF64(tb) : tb \in TimerLists(MaxLen)}

VARIABLES
    buckets,  \* the Vec<f64> passed to new_histogram
    result    \* what check_buckets returned

vars == <<buckets, result>>

Init ==
    /\ buckets \in Inputs \cup TimerInputs
    /\ result = [status |-> "pending", value |-> <<>>]

CheckBucketsNoEmptyCheck ==
    /\ result.status = "pending"
    /\ result' = [status |-> "ok", value |-> SortDedupe(buckets)]
    /\ UNCHANGED buckets

(* check_buckets: Err on an empty list, otherwise Ok(sort_dedupe(..)).     *)
CheckBuckets ==
    /\ result.status = "pending"
    /\ result' = IF buckets = <<>>
                    THEN [status |-> "err", value |-> <<>>]
                    ELSE [status |-> "ok", value |-> SortDedupe(buckets)]
    /\ UNCHANGED buckets

Done ==
    /\ result.status # "pending"
    /\ UNCHANGED vars

Next == CheckBuckets \/ Done

Spec == Init /\ [][Next]_vars

-----------------------------------------------------------------------------
TypeOK ==
    /\ buckets \in Seq(Values)
    /\ result.status \in {"pending", "err", "ok"}
    /\ result.value \in Seq(Values)
    /\ result.status = "ok" => result.value # <<>>

(* Reference: for NaN-free input, the result is the set of the input's     *)
(* values in increasing order, each once ("will be sorted and deduped      *)
(* automatically", as the histogram tests say).                            *)
SortedSetForFinite ==
    (result.status = "ok" /\ NaN \notin ToSet(buckets)) =>
        result.value = SetToSortSeq(ToSet(buckets), <)

(* Whatever the input, an Ok result is strictly increasing, as prometheus  *)
(* HistogramOpts requires of its buckets.                                  *)
StrictlyIncreasing ==
    result.status = "ok" =>
        \A i \in 1..Len(result.value) - 1 : Lt(result.value[i], result.value[i+1])

(* Every finite bound the caller passed is kept.                           *)
FiniteBucketsKept ==
    result.status = "ok" =>
        \A v \in ToSet(buckets) \ {NaN} : v \in ToSet(result.value)
=============================================================================
