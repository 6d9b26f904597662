SPECIFICATION Spec
CONSTANTS
    Sockets = {1, 2}
    INVALID_SOCKET = INVALID_SOCKET
    Names = {n1}
    NoName = NoName
    Passwords = {p1, p2}
    NoPassword = NoPassword
    RoomIds = {r1}
    NoRoom = NoRoom
    NoRow = NoRow
    NoArg = NoArg
    MAX_MESSAGE_HISTORY = 1
    FreshIds = TRUE
    MaxSends = 2
    MaxCleanups = 1
    MaxRestarts = 0
    MaxSeconds = 0
VIEW WithoutOut
SYMMETRY Symmetry
INVARIANT TypeOK
INVARIANT DatabaseMirrorsRooms
INVARIANT HistoryIsSaved
