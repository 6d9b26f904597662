SPECIFICATION Spec
CONSTANTS
    Names = {n1, n2}
    NoName = NoName
    RoomIds = {r1}
    NoRoom = NoRoom
    Passwords = {p1}
    NoPassword = NoPassword
    Vocabulary <- OneOfEach
    MaxUp = 1
    MaxDown = 1
PROPERTY QuitEndsClient
