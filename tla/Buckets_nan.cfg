\* A bucket list containing NaN loses finite bounds.
CONSTANTS
    nan = nan
    NaN <- nan
    Finite <- MC_Finite
    Durations <- MC_Durations
    Mantissa = 2
    MaxLen = 2
SPECIFICATION Spec
INVARIANTS
    FiniteBucketsKept
