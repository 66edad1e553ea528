\* Texts of up to nine bytes, read two at a time, with a cap of six.
SPECIFICATION FairSpec
CONSTANTS
    Messages <- MCMessages
    Cap = 6
    Chunk = 2
    Modulus = 32
    Bad = Bad
    HeadSize = 2
    AnswerSize = 3
INVARIANTS FramingInv SameHoweverCut CapHolds OkMeansActed
PROPERTY CallEnds
