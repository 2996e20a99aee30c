--------------------------- MODULE MC_MetricRegistry ---------------------------
(* Model-checking instance of MetricRegistry: up to three registering     *)
(* threads and two metric ids.                                             *)
EXTENDS MetricRegistry, TLC

CONSTANTS t1, t2, t3, m1, m2

MC_Threads == {t1, t2}
MC_OneThread == {t1}
(* Three threads: two registrations pending the write lock while a third  *)
(* registers or reads.                                                     *)
MC_ThreeThreads == {t1, t2, t3}
MC_MetricIds == {m1, m2}

(* Threads are interchangeable, and so are metric ids: no property names   *)
(* one.                                                                    *)
MC_Symmetry == Permutations(MC_ThreeThreads) \cup Permutations(MC_MetricIds)
=============================================================================
