\* One thread registers three metrics; two share a name with different
\* const label values.
CONSTANTS
    t1 = t1
    t2 = t2
    t3 = t3
    m1 = m1
    m2 = m2
    Threads <- MC_OneThread
    MetricIds <- MC_MetricIds
    MaxRegs = 3
    MaxReads = 0
    Policy = "reader_pref"
SPECIFICATION Spec
INVARIANTS
    FamilyCountMatchesGather
