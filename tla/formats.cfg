SPECIFICATION Spec
CONSTANTS
    None = None
    Junk = Junk
    NotAPdu = NotAPdu
    Numbers <- SomeNumbers
    Written <- SomeSpellings
    Payloads <- SomePayloads
    MaxRows = 2
CHECK_DEADLOCK FALSE
INVARIANTS
    EchoesIdentifiers
    AnswersAreNoRequests
    ChecksumVerifies
    ChunkIsPadded
    LongRowEndsExport
