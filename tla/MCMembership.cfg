SPECIFICATION Spec
CONSTANTS
    Sockets = {1, 2, 3}
    INVALID_SOCKET = INVALID_SOCKET
    Names = {n1}
    NoName = NoName
    Passwords = {}
    NoPassword = NoPassword
    RoomIds = {r1, r2}
    NoRoom = NoRoom
    NoRow = NoRow
    NoArg = NoArg
    MAX_MESSAGE_HISTORY = 1
    FreshIds = TRUE
    MaxSends = 0
    MaxCleanups = 1
    MaxRestarts = 0
    MaxSeconds = 0
VIEW WithoutOut
SYMMETRY Symmetry
INVARIANT MembersKnowTheirRoom
INVARIANT RoomsKnowTheirMembers
INVARIANT OwnerRecordsAgree
INVARIANT UniqueNames
INVARIANT EmptyRoomsAwaitCleanup
INVARIANT DatabaseMirrorsRooms
PROPERTY ImplementsMembership
PROPERTY OnlyOwnersWalkingOutOrphan
