SPECIFICATION Spec
CONSTANTS
    Base = 3
    HeaderSize = 2
    Magic = 1
    Types = {1, 2}
    MaxFrameSize = 5
    Payloads <- SomePayloads
    MaxFrames = 3
INVARIANTS
    TypeOK
    OnBoundary
    OnlyBadFramesRefused
PROPERTY
    ImplementsFrameStream
CHECK_DEADLOCK FALSE
