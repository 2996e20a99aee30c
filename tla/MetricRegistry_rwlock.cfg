\* One thread gathers by desc id while another registers a metric, on a
\* platform whose std RwLock is writer-preferring.  The run can stop for
\* good: the property reports the thread left blocked.
CONSTANTS
    t1 = t1
    t2 = t2
    t3 = t3
    m1 = m1
    m2 = m2
    Threads <- MC_Threads
    MetricIds <- MC_MetricIds
    MaxRegs = 1
    MaxReads = 1
    Policy = "writer_pref"
SPECIFICATION FairSpec
PROPERTIES
    GatherReturns
CHECK_DEADLOCK FALSE
