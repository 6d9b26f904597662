SPECIFICATION Spec
CONSTANTS
    short = short
    long = long
    Lines <- BothLines
    Length <- Lengths
    Capacity = 5
    BUFFER_SIZE = 4
    MaxLines = 5
INVARIANTS WholeLines LinesResume
PROPERTIES ImplementsLineChannel EveryMessageIsParsed
CHECK_DEADLOCK FALSE
