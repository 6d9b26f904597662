SPECIFICATION Spec
CONSTANTS
    Sockets = {1}
    INVALID_SOCKET = INVALID_SOCKET
    Names = {n1}
    NoName = NoName
    Passwords = {}
    NoPassword = NoPassword
    RoomIds = {r1}
    NoRoom = NoRoom
    NoRow = NoRow
    NoArg = NoArg
    MAX_MESSAGE_HISTORY = 2
    FreshIds = FALSE
    MaxSends = 3
    MaxCleanups = 1
    MaxRestarts = 1
    MaxSeconds = 2
VIEW WithoutOut
SYMMETRY Symmetry
INVARIANT HistoryIsSaved
INVARIANT HistoryInOrderAcrossSeconds
INVARIANT RowsHaveTheirRoom
PROPERTY BansHold
