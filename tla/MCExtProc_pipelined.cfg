CONSTANTS
    s1 = s1
    s2 = s2
    Streams <- MCTwoStreams
    MaxMsgs <- MCLongAndShort
    Pipelined = TRUE
SPECIFICATION Spec
INVARIANT TypeOK
INVARIANT ResponsesMatchRequests
PROPERTY StreamEnds
