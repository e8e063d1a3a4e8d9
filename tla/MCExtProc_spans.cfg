CONSTANTS
    s1 = s1
    s2 = s2
    Streams <- MCOneStream
    MaxMsgs <- MCLongStream
    Pipelined = TRUE
SPECIFICATION Spec
INVARIANT RequestSpanEndsWithPhase
