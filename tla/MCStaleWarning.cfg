SPECIFICATION SpecBoth
CONSTANTS
    Sockets = {1, 2}
    Me = 1
    INVALID_SOCKET = INVALID_SOCKET
    Names = {n1, n2}
    NoName = NoName
    Passwords = {}
    NoPassword = NoPassword
    RoomIds = {r1}
    NoRoom = NoRoom
    NoRow = NoRow
    NoArg = NoArg
    MAX_MESSAGE_HISTORY = 1
    FreshIds = TRUE
    MaxSends = 0
    MaxCleanups = 1
    MaxRestarts = 0
    MaxSeconds = 0
    Vocabulary <- OwnersCommands
    MaxTraffic = 2
VIEW Relevant
INVARIANT ForceLeaveIsByOwner
