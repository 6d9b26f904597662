SPECIFICATION Spec
CONSTANTS
    Clients = {c1, c2}
    Rooms = {r1}
    NoRoom = NoRoom
    Nobody = Nobody
    Everyone = Everyone
    Addressees = {c1, c2}
    MaxSends = 1
    MaxCleanups = 1
PROPERTIES ShutdownCompletes
CHECK_DEADLOCK FALSE
