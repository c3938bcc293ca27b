SPECIFICATION FairSpec
CONSTANTS
    LenMod = 65536
    BufSize = 131072
    MaxPkt = 2097152
    Overhead = 28
    Obfs = TRUE
    MinPad = 65495
    MaxPad = 65497
    Sizes = {32776, 65533, 65534, 65543}
    ReadSizes = {30000, 65533}
    MaxBytes = 200000
CHECK_DEADLOCK FALSE
INVARIANT NoConversionFails
PROPERTIES
    IsByteStream
    Drains
