\* Three threads register up to four metrics concurrently, with blank and
\* padded help and label values, shared names and conflicting help.
CONSTANTS
    t1 = t1
    t2 = t2
    t3 = t3
    m1 = m1
    m2 = m2
    Threads <- MC_ThreeThreads
    MetricIds <- MC_MetricIds
    MaxRegs = 4
    MaxReads = 1
    Policy = "reader_pref"
SPECIFICATION Spec
SYMMETRY MC_Symmetry
INVARIANTS
    TypeOK
    NoDuplicateListed
    QuiescentAgreement
    ReadersAgreeWithRegistry
