\* Three bytes each way; reads and writes of one or two; peers that may
\* take nothing and never close.
SPECIFICATION FairSpec
CONSTANTS
    BufferSize = 2
    Capacity = 2
    SpinLimit = 1
    MaxSent = 3
INVARIANTS IndInv InOrder DrainedAtEnd
PROPERTIES EveryByteMovesOn StopReturns
