CONSTANTS
    Base = 4
    NanosPerSecond = 3
    Nil = Nil
    MaxItems = 2
    Schema <- MCSchema
    Registrations <- MCRegistrations
    Samples <- MCSamples
SPECIFICATION CodecSpec
CHECK_DEADLOCK FALSE
INVARIANT ReadsBack
INVARIANT Canonical
INVARIANT ValidationOnlyNarrows
