------------------------------- MODULE Database -------------------------------
(***************************************************************************)
(* The SQLite store of CHAT_Server (Database.cpp): the tables rooms, bans   *)
(* and messages, and the operations the server calls.  Every operation is   *)
(* one or more autocommitted statements under m_dbMutex.  The users table,  *)
(* getPrivateMessages, roomExists, removeBan and getBannedUsers are never   *)
(* called by the server and are left out.                                   *)
(***************************************************************************)
EXTENDS ChatRoom, SequencesExt

CONSTANTS
    RoomIds,   \* six-digit room ids
    NoRow      \* "no row of table rooms has this room_id"

RoomRow == [isPrivate : BOOLEAN, owner : Usernames,
            password : Passwords \cup {NoPassword}]

ASSUME RowAssumption == NoRow \notin RoomRow

\* A row of table messages; its position in the sequence is its rowid order
\* and `second' its CURRENT_TIMESTAMP, which counts whole seconds.
MessageRow == [sender : Usernames, content : Nat, private : BOOLEAN,
               recipient : Usernames, second : Nat]

VARIABLES
    dbRooms,      \* table rooms, by room_id (UNIQUE)
    dbBans,       \* table bans: <<room_id, username>> (UNIQUE)
    dbMessages    \* table messages, by room_id, in insertion order

dbVars == <<dbRooms, dbBans, dbMessages>>

DatabaseTypeOK ==
    /\ dbRooms \in [RoomIds -> RoomRow \cup {NoRow}]
    /\ dbBans \subseteq RoomIds \X Names
    /\ dbMessages \in [RoomIds -> Seq(MessageRow)]

\* Database::initialize on a fresh file.
DatabaseInit ==
    /\ dbRooms = [r \in RoomIds |-> NoRow]
    /\ dbBans = {}
    /\ dbMessages = [r \in RoomIds |-> <<>>]

\* Database::saveMessage
SaveMessage(r, row) ==
    /\ dbMessages' = [dbMessages EXCEPT ![r] = Append(@, row)]
    /\ UNCHANGED <<dbRooms, dbBans>>

\* The public rows of the room, by rowid.
PublicRows(r) == {i \in DOMAIN dbMessages[r] : ~dbMessages[r][i].private}

LineOf(row) == <<row.sender, row.content>>

AtMost(limit, r) ==
    IF Cardinality(PublicRows(r)) > limit THEN limit ELSE Cardinality(PublicRows(r))

\* Mutant: ascending order, so that LIMIT keeps the oldest lines.
OldestHistory(r, limit) ==
    LET Older(i) == {j \in PublicRows(r) : j < i}
        Returned(n) == CHOOSE i \in PublicRows(r) : Cardinality(Older(i)) = n - 1
    IN  [k \in 1 .. AtMost(limit, r) |->
            LineOf(dbMessages[r][Returned(AtMost(limit, r) - k + 1)])]

\* The rows the query returns before row i.  ORDER BY timestamp DESC looks at the
\* second alone; SQLite's sorter keeps rows of one second in rowid order.
Before(r, i) ==
    LET time(j) == dbMessages[r][j].second IN
    {j \in PublicRows(r) : time(j) > time(i) \/ (time(j) = time(i) /\ j < i)}

\* Database::getMessageHistory: the first rows of that order, turned round.
GetMessageHistory(r, limit) ==
    LET Returned(n) == CHOOSE i \in PublicRows(r) : Cardinality(Before(r, i)) = n - 1
    IN  [k \in 1 .. AtMost(limit, r) |->
            LineOf(dbMessages[r][Returned(AtMost(limit, r) - k + 1)])]

\* Database::createRoom: the INSERT fails, and is ignored, when the id exists.
CreateRoomRow(r, row) ==
    /\ dbRooms' = IF dbRooms[r] = NoRow THEN [dbRooms EXCEPT ![r] = row]
                                        ELSE dbRooms
    /\ UNCHANGED <<dbBans, dbMessages>>

\* Mutant: the bans of a deleted room stay.
DeleteRoomKeepBans(r) ==
    /\ dbMessages' = [dbMessages EXCEPT ![r] = <<>>]
    /\ dbRooms' = [dbRooms EXCEPT ![r] = NoRow]
    /\ UNCHANGED dbBans

\* Database::deleteRoom: messages, then bans, then the room, a statement each.
DeleteRoom(r) ==
    /\ dbMessages' = [dbMessages EXCEPT ![r] = <<>>]
    /\ dbBans' = {b \in dbBans : b[1] # r}
    /\ dbRooms' = [dbRooms EXCEPT ![r] = NoRow]

\* Mutant: the room goes first.
DeleteRoomRowFirst(r) ==
    /\ dbRooms' = [dbRooms EXCEPT ![r] = NoRow]
    /\ UNCHANGED <<dbBans, dbMessages>>

\* The process dies inside deleteRoom: after the statement that deletes the
\* messages, or also after the one that deletes the bans.
DeleteRoomPartly(r) ==
    /\ dbMessages' = [dbMessages EXCEPT ![r] = <<>>]
    /\ dbBans' \in {dbBans, {b \in dbBans : b[1] # r}}
    /\ UNCHANGED dbRooms

\* Database::updateRoomOwner and updateRoomPassword: an UPDATE of the row, if any.
UpdateRoomOwner(r, name) ==
    /\ dbRooms' = IF dbRooms[r] = NoRow THEN dbRooms
                  ELSE [dbRooms EXCEPT ![r] = [@ EXCEPT !.owner = name]]
    /\ UNCHANGED <<dbBans, dbMessages>>

UpdateRoomPassword(r, password) ==
    /\ dbRooms' = IF dbRooms[r] = NoRow THEN dbRooms
                  ELSE [dbRooms EXCEPT ![r] = [@ EXCEPT !.password = password]]
    /\ UNCHANGED <<dbBans, dbMessages>>

\* Database::addBan (INSERT OR IGNORE) and isUserBanned
AddBan(r, name) ==
    /\ dbBans' = dbBans \cup {<<r, name>>}
    /\ UNCHANGED <<dbRooms, dbMessages>>

BannedInDatabase(r, name) == <<r, name>> \in dbBans
===============================================================================
