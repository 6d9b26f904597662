SPECIFICATION Spec
CONSTANTS
    Clients = {c1, c2}
    Rooms = {r1}
    NoRoom = NoRoom
    Nobody = Nobody
    Everyone = Everyone
    Addressees = {}
    MaxSends = 1
    MaxCleanups = 1
INVARIANTS TypeOK NoDataRace PublicMessagesReachOpenSockets DatabaseOutlivesItsUsers
PROPERTIES ShutdownCompletes QueueDrains
