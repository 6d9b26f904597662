SPECIFICATION Spec
CONSTANTS
    Clients = {c1, c2}
    Rooms = {r1, r2}
    NoRoom = NoRoom
    Nobody = Nobody
    Everyone = Everyone
    Addressees = {c1, c2}
    MaxSends = 1
    MaxCleanups = 1
SYMMETRY Symmetry
CONSTRAINT Running
INVARIANTS QuietMembership OnlyPrivateMessagesDeadlock StaleRecordsArePassing
PROPERTIES ImplementsMembership
CHECK_DEADLOCK FALSE
