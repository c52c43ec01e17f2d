\* Buffers of 3 samples, calls a little shorter, equal and a little longer.
SPECIFICATION FairSpec
CONSTANTS
    BufSamples = 3
    CallSizes = {2, 3, 4}
    MaxSamples = 16
INVARIANTS
    NoTornRead
    ConstantDelay
PROPERTIES
    PipeSpec
    AudioInReturns
\* The stream may be closed, and then nothing happens any more.
CHECK_DEADLOCK FALSE
