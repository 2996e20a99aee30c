\* check_buckets on every list of up to four bounds drawn from 0, 1, 2 and
\* NaN, and on every TimerBuckets of up to four Durations converted to f64.
CONSTANTS
    nan = nan
    NaN <- nan
    Finite <- MC_Finite
    Durations <- MC_Durations
    Mantissa = 2
    MaxLen = 4
SPECIFICATION Spec
INVARIANTS
    TypeOK
    SortedSetForFinite
    StrictlyIncreasing
