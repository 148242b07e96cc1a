SPECIFICATION FairSpec
CONSTANTS
    BufferSize = 131
    KeyLengths = {16, 20, 21, 24, 28}
    Digests <- TwoDigests
    Frames <- SomeFrames
    Cuts <- SomeCuts
    MaxFrames = 2
INVARIANTS
    ResultsMatchFrames
    FrameBoundary
    PongsEcho
    AcceptKeyRight
PROPERTIES
    FramesServed
\* A connection that is closed has come to its end.
CHECK_DEADLOCK FALSE
