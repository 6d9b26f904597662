-------------------------- MODULE ChatServerDatabase --------------------------
(***************************************************************************)
(* The database beside the memory, proved for every instance of ChatServer: *)
(* no message or ban is left without its room, also after a crash in the    *)
(* middle of deleteRoom; until the first restart the tables hold the live   *)
(* rooms and nothing else; and a room remembers the newest of the lines     *)
(* that were saved, and replays them in order.  Last, every line that a step    *)
(* sends is one of the protocol, the replayed histories included.           *)
(***************************************************************************)
EXTENDS ChatServerMembership, SequenceTheorems

(***************************************************************************)
(* DatabaseMirrorsRooms, taken apart.                                       *)
(***************************************************************************)
\* What memory and table rooms both know of a room.
SameRow(row, room) ==
    row # NoRow /\ row.isPrivate = room.isPrivate /\ row.password = room.password

SameBans(r) == \A n \in Names : BannedInDatabase(r, n) <=> n \in chatRooms[r].banned

NoTrace(r) ==
    dbRooms[r] = NoRow /\ dbMessages[r] = <<>> /\ \A n \in Names : ~BannedInDatabase(r, n)

MirrorInv ==
    restarts = 0 =>
        /\ \A r \in live : SameRow(dbRooms[r], chatRooms[r]) /\ SameBans(r)
        /\ \A r \in RoomIds \ live : NoTrace(r)

StoreInv == StateTypeOK /\ RowsHaveTheirRoom /\ (FreshIds => MirrorInv)
StoreKept == RowsHaveTheirRoom' /\ (FreshIds => MirrorInv')

LEMMA MirrorsRooms == ASSUME StateTypeOK, MirrorInv PROVE DatabaseMirrorsRooms
<1> SUFFICES ASSUME restarts = 0, NEW r \in RoomIds
             PROVE  IF r \in live
                    THEN /\ dbRooms[r] # NoRow
                         /\ dbRooms[r].isPrivate = chatRooms[r].isPrivate
                         /\ dbRooms[r].password = chatRooms[r].password
                         /\ {n \in Names : BannedInDatabase(r, n)} = chatRooms[r].banned
                    ELSE /\ dbRooms[r] = NoRow
                         /\ {n \in Names : BannedInDatabase(r, n)} = {}
                         /\ dbMessages[r] = <<>>
  BY DEF DatabaseMirrorsRooms
<1>1. chatRooms[r].banned \subseteq Names
  BY DEF StateTypeOK, Room
<1>2. CASE r \in live
  <2>1. SameRow(dbRooms[r], chatRooms[r]) /\ SameBans(r)
    BY <1>2 DEF MirrorInv
  <2>2. {n \in Names : BannedInDatabase(r, n)} = chatRooms[r].banned
    BY <1>1, <2>1 DEF SameBans
  <2> QED BY <1>2, <2>1, <2>2 DEF SameRow
<1>3. CASE r \notin live
  BY <1>3 DEF MirrorInv, NoTrace
<1> QED BY <1>2, <1>3

(***************************************************************************)
(* What the room object's methods leave alone.                              *)
(***************************************************************************)
SameFace(room, other) ==
    /\ other.isPrivate = room.isPrivate
    /\ other.password = room.password
    /\ other.banned = room.banned

LEMMA MethodsKeepFace ==
    ASSUME NEW room \in Room, NEW s \in Sockets
    PROVE  /\ SameFace(room, RemoveClient(room, s))
           /\ SameFace(room, AddClient(room, s))
           /\ SameFace(room, SetOwner(room, s))
           /\ \A line \in ChatLines : SameFace(room, AddMessageToHistory(room, line))
BY DEF Room, SameFace, RemoveClient, AddClient, SetOwner, AddMessageToHistory

SameFaces(rooms) == \A r \in live : SameFace(chatRooms[r], rooms[r])

LEMMA RoomsWithoutKeepFaces ==
    ASSUME StateTypeOK, NEW s \in Sockets
    PROVE  SameFaces(RoomsWithout(s))
<1>1. \A r \in live : chatRooms[r] \in Room /\ SameFace(chatRooms[r], chatRooms[r])
  BY DEF StateTypeOK, SameFace
<1> QED BY <1>1, MethodsKeepFace DEF StateTypeOK, SameFaces, RoomsWithout

\* A member more, or another owner.
LEMMA UpdatesKeepFaces ==
    ASSUME StateTypeOK, NEW s \in Sockets, NEW rooms \in [RoomIds -> Room], SameFaces(rooms),
           NEW r \in RoomIds
    PROVE  /\ SameFaces([rooms EXCEPT ![r] = AddClient(@, s)])
           /\ SameFaces([rooms EXCEPT ![r] = SetOwner(@, s)])
BY MethodsKeepFace DEF StateTypeOK, SameFaces, SameFace

(***************************************************************************)
(* What a step may do to rooms and tables.                                  *)
(***************************************************************************)
\* No room comes or goes, no row of it changes, and messages are saved for live
\* rooms only.
LEMMA RoomsStay ==
    ASSUME StoreInv, SameFaces(chatRooms'), UNCHANGED <<live, dbRooms, dbBans, restarts>>,
           \A r \in RoomIds \ live : dbMessages'[r] = dbMessages[r]
    PROVE  StoreKept
<1>1. RowsHaveTheirRoom'
  BY DEF StoreInv, RowsHaveTheirRoom, BannedInDatabase
<1>2. ASSUME MirrorInv PROVE MirrorInv'
  <2> SUFFICES ASSUME restarts = 0 PROVE MirrorInv'
    BY DEF MirrorInv
  <2>1. \A r \in live : SameRow(dbRooms'[r], chatRooms'[r]) /\ SameBans(r)'
    BY <1>2 DEF MirrorInv, SameRow, SameBans, SameFaces, SameFace, BannedInDatabase
  <2>2. \A r \in RoomIds \ live : NoTrace(r)'
    BY <1>2 DEF MirrorInv, NoTrace, BannedInDatabase
  <2> QED BY <2>1, <2>2 DEF MirrorInv
<1> QED BY <1>1, <1>2 DEF StoreInv, StoreKept

LEMMA TablesStay ==
    ASSUME StoreInv, SameFaces(chatRooms'), UNCHANGED <<live, dbVars, restarts>>
    PROVE  StoreKept
BY RoomsStay DEF dbVars

LEMMA NothingStirs == ASSUME StoreInv, UNCHANGED state PROVE StoreKept
BY TablesStay DEF SameFaces, SameFace, state, memory

\* A room is erased; it is empty, or s was its last member.
LEMMA EraseRoomStore ==
    ASSUME StoreInv, NEW r \in RoomIds, NEW rooms \in [RoomIds -> Room], SameFaces(rooms),
           EraseRoom(r, rooms), UNCHANGED restarts
    PROVE  StoreKept
<1>1. /\ live' = live \ {r}
      /\ dbRooms'[r] = NoRow /\ dbMessages'[r] = <<>>
      /\ \A n : ~BannedInDatabase(r, n)'
  BY DEF EraseRoom, DeleteRoom, BannedInDatabase, StoreInv, StateTypeOK, DatabaseTypeOK
<1>2. \A q \in RoomIds \ {r} :
        /\ dbRooms'[q] = dbRooms[q] /\ dbMessages'[q] = dbMessages[q]
        /\ chatRooms'[q] = rooms[q]
        /\ \A n : BannedInDatabase(q, n)' <=> BannedInDatabase(q, n)
  BY DEF EraseRoom, DeleteRoom, BannedInDatabase, StoreInv, StateTypeOK, DatabaseTypeOK
<1>3. RowsHaveTheirRoom'
  BY <1>1, <1>2 DEF StoreInv, RowsHaveTheirRoom
<1>4. ASSUME MirrorInv PROVE MirrorInv'
  <2> SUFFICES ASSUME restarts = 0 PROVE MirrorInv'
    BY DEF MirrorInv
  <2>0. live \subseteq RoomIds
    BY DEF StoreInv, StateTypeOK
  <2>1. \A q \in live' : SameRow(dbRooms'[q], chatRooms'[q])
    BY <1>1, <1>2, <1>4, <2>0 DEF MirrorInv, SameRow, SameFaces, SameFace
  <2>2. \A q \in live' : SameBans(q)'
    BY <1>1, <1>2, <1>4, <2>0 DEF MirrorInv, SameBans, SameFaces, SameFace
  <2>3. \A q \in RoomIds \ live' : NoTrace(q)'
    BY <1>1, <1>2, <1>4 DEF MirrorInv, NoTrace
  <2> QED BY <2>1, <2>2, <2>3 DEF MirrorInv
<1> QED BY <1>3, <1>4 DEF StoreInv, StoreKept

(***************************************************************************)
(* The handlers that write to the tables.                                   *)
(***************************************************************************)
LEMMA CreateStore ==
    ASSUME StoreInv, NEW s \in connected, NEW isPrivate \in BOOLEAN,
           NEW password \in Passwords \cup {NoPassword}, NEW r \in RoomIds,
           CreateRoom(s, isPrivate, password, r)
    PROVE  StoreKept
<1> DEFINE row == [isPrivate |-> isPrivate, owner |-> clients[s].username,
                   password |-> password]
           room == AddClient(NewRoom(isPrivate, password, s), s)
<1>0. StateTypeOK /\ s \in Sockets
  BY DEF StoreInv, StateTypeOK
<1>1. row \in RoomRow /\ row # NoRow
  BY <1>0, RowAssumption DEF StateTypeOK, ClientInfo, RoomRow
<1>2. /\ room.isPrivate = isPrivate /\ room.password = password /\ room.banned = {}
      /\ room \in Room
  BY <1>0, NewRoomType, RoomMethodsType DEF AddClient, NewRoom
<1>3. /\ live' = live \cup {r} /\ UNCHANGED <<dbBans, dbMessages, restarts>>
      /\ chatRooms'[r] = room
      /\ \A q \in RoomIds \ {r} : chatRooms'[q] = RoomsWithout(s)[q]
      /\ FreshIds => r \notin live
  BY <1>0, RoomsWithoutType DEF CreateRoom, CreateRoomRow
<1>4. /\ dbRooms'[r] = IF dbRooms[r] = NoRow THEN row ELSE dbRooms[r]
      /\ \A q \in RoomIds \ {r} : dbRooms'[q] = dbRooms[q]
  BY <1>0 DEF CreateRoom, CreateRoomRow, StateTypeOK, DatabaseTypeOK
<1> HIDE DEF row, room
<1>5. dbRooms'[r] # NoRow
  BY <1>1, <1>4
<1>6. RowsHaveTheirRoom'
  BY <1>3, <1>4, <1>5 DEF StoreInv, RowsHaveTheirRoom, BannedInDatabase
<1>7. ASSUME FreshIds, MirrorInv PROVE MirrorInv'
  <2> SUFFICES ASSUME restarts = 0 PROVE MirrorInv'
    BY <1>3 DEF MirrorInv
  <2>1. NoTrace(r)
    BY <1>3, <1>7 DEF MirrorInv
  <2>2. SameRow(dbRooms'[r], chatRooms'[r]) /\ SameBans(r)'
    <3>1. row.isPrivate = isPrivate /\ row.password = password
      BY DEF row
    <3> QED BY <1>1, <1>2, <1>3, <1>4, <2>1, <3>1
            DEF SameRow, SameBans, NoTrace, BannedInDatabase
  <2>3. \A q \in live \ {r} : SameRow(dbRooms'[q], chatRooms'[q]) /\ SameBans(q)'
    <3>1. live \subseteq RoomIds /\ SameFaces(RoomsWithout(s))
      BY <1>0, RoomsWithoutKeepFaces DEF StateTypeOK
    <3> QED BY <1>3, <1>4, <1>7, <3>1
            DEF MirrorInv, SameRow, SameBans, SameFaces, SameFace, BannedInDatabase
  <2>4. \A q \in RoomIds \ live' : NoTrace(q)'
    BY <1>3, <1>4, <1>7 DEF MirrorInv, NoTrace, BannedInDatabase
  <2> QED BY <1>3, <2>2, <2>3, <2>4 DEF MirrorInv
<1> QED BY <1>6, <1>7 DEF StoreInv, StoreKept

LEMMA ChangePasswordStore ==
    ASSUME StoreInv, NEW s \in connected, NEW password \in Passwords \cup {NoPassword},
           handleChangePasswordCommand(s, password)
    PROVE  StoreKept
<1> DEFINE r == clients[s].roomId
<1>1. CASE UNCHANGED state
  BY <1>1, NothingStirs
<1>2. CASE /\ r \in live
           /\ chatRooms' = [chatRooms EXCEPT ![r] = SetPassword(@, password)]
           /\ UpdateRoomPassword(r, password)
           /\ UNCHANGED <<live, restarts>>
  <2>1. r \in RoomIds /\ live \subseteq RoomIds /\ chatRooms[r] \in Room
    BY <1>2 DEF StoreInv, StateTypeOK
  <2>2. dbRooms[r] # NoRow
    BY <1>2, <2>1 DEF StoreInv, RowsHaveTheirRoom
  <2>3. /\ dbRooms[r] \in RoomRow
        /\ dbRooms'[r] = [dbRooms[r] EXCEPT !.password = password]
        /\ \A q \in RoomIds \ {r} : dbRooms'[q] = dbRooms[q]
        /\ UNCHANGED <<dbBans, dbMessages>>
    BY <1>2, <2>1, <2>2 DEF UpdateRoomPassword, StoreInv, StateTypeOK, DatabaseTypeOK
  <2>4. dbRooms'[r] \in RoomRow /\ dbRooms'[r] # NoRow
    BY <2>3, RowAssumption DEF RoomRow
  <2>5. dbRooms'[r].password = password /\ dbRooms'[r].isPrivate = dbRooms[r].isPrivate
    BY <2>3 DEF RoomRow
  <2>6. /\ chatRooms'[r] = [chatRooms[r] EXCEPT !.password = password]
        /\ \A q \in RoomIds \ {r} : chatRooms'[q] = chatRooms[q]
    BY <1>2, <2>1 DEF SetPassword, StoreInv, StateTypeOK
  <2>7. /\ chatRooms'[r].password = password
        /\ chatRooms'[r].isPrivate = chatRooms[r].isPrivate
        /\ chatRooms'[r].banned = chatRooms[r].banned
    BY <2>1, <2>6 DEF Room
  <2>8. RowsHaveTheirRoom'
    BY <1>2, <2>3, <2>4 DEF StoreInv, RowsHaveTheirRoom, BannedInDatabase
  <2>9. ASSUME MirrorInv PROVE MirrorInv'
    <3> SUFFICES ASSUME restarts = 0 PROVE MirrorInv'
      BY <1>2 DEF MirrorInv
    <3>1. \A q \in live : SameRow(dbRooms'[q], chatRooms'[q])
      <4>1. SameRow(dbRooms'[r], chatRooms'[r])
        BY <1>2, <2>4, <2>5, <2>7, <2>9 DEF MirrorInv, SameRow
      <4>2. \A q \in live \ {r} : SameRow(dbRooms'[q], chatRooms'[q])
        BY <2>1, <2>3, <2>6, <2>9 DEF MirrorInv, SameRow
      <4> QED BY <4>1, <4>2
    <3>2. \A q \in live : SameBans(q)'
      BY <2>1, <2>3, <2>6, <2>7, <2>9 DEF MirrorInv, SameBans, BannedInDatabase
    <3>3. \A q \in RoomIds \ live : NoTrace(q)'
      BY <1>2, <2>3, <2>9 DEF MirrorInv, NoTrace, BannedInDatabase
    <3> QED BY <1>2, <3>1, <3>2, <3>3 DEF MirrorInv
  <2> QED BY <2>8, <2>9 DEF StoreInv, StoreKept
<1> QED BY <1>1, <1>2 DEF handleChangePasswordCommand, Reply

LEMMA BanStore ==
    ASSUME StoreInv, NEW s \in connected, NEW name \in Usernames, handleBanCommand(s, name)
    PROVE  StoreKept
<1> DEFINE r == clients[s].roomId
<1>1. CASE UNCHANGED state
  BY <1>1, NothingStirs
<1>2. ASSUME name # NoName, r \in live, AddBan(r, name), UNCHANGED <<live, restarts>>,
             NEW rooms \in [RoomIds -> Room], SameFaces(rooms),
             chatRooms' = Ban(r, rooms, name)
      PROVE  StoreKept
  <2>1. r \in RoomIds /\ live \subseteq RoomIds /\ name \in Names
    BY <1>2 DEF StoreInv, StateTypeOK, Usernames
  <2>2. /\ chatRooms'[r] = [rooms[r] EXCEPT !.banned = @ \cup {name}]
        /\ \A q \in RoomIds \ {r} : chatRooms'[q] = rooms[q]
    BY <1>2, <2>1 DEF Ban, BanUser
  <2>3. /\ SameFace(chatRooms[r], rooms[r]) /\ rooms[r] \in Room
        /\ chatRooms'[r].banned = chatRooms[r].banned \cup {name}
        /\ chatRooms'[r].isPrivate = chatRooms[r].isPrivate
        /\ chatRooms'[r].password = chatRooms[r].password
    BY <1>2, <2>1, <2>2 DEF SameFaces, SameFace, Room
  <2>4. /\ UNCHANGED <<dbRooms, dbMessages>>
        /\ \A q, n : BannedInDatabase(q, n)' <=>
                        (BannedInDatabase(q, n) \/ (q = r /\ n = name))
    BY <1>2 DEF AddBan, BannedInDatabase
  <2>5. RowsHaveTheirRoom'
    BY <1>2, <2>1, <2>4 DEF StoreInv, RowsHaveTheirRoom
  <2>6. ASSUME MirrorInv PROVE MirrorInv'
    <3> SUFFICES ASSUME restarts = 0 PROVE MirrorInv'
      BY <1>2 DEF MirrorInv
    <3>1. \A q \in live : SameRow(dbRooms'[q], chatRooms'[q])
      <4>1. \A q \in live : /\ chatRooms'[q].isPrivate = chatRooms[q].isPrivate
                            /\ chatRooms'[q].password = chatRooms[q].password
        BY <1>2, <2>1, <2>2, <2>3 DEF SameFaces, SameFace
      <4> QED BY <1>2, <2>4, <2>6, <4>1 DEF MirrorInv, SameRow
    <3>2. \A q \in live : SameBans(q)'
      <4> SUFFICES ASSUME NEW q \in live PROVE SameBans(q)'
        OBVIOUS
      <4>1. SameBans(q)
        BY <1>2, <2>6 DEF MirrorInv
      <4>2. /\ q = r => chatRooms'[q].banned = chatRooms[q].banned \cup {name}
            /\ q # r => chatRooms'[q].banned = chatRooms[q].banned
        BY <1>2, <2>1, <2>2, <2>3 DEF SameFaces, SameFace
      <4> QED BY <2>4, <4>1, <4>2 DEF SameBans
    <3>3. \A q \in RoomIds \ live : NoTrace(q)'
      BY <1>2, <2>4, <2>6 DEF MirrorInv, NoTrace
    <3> QED BY <1>2, <3>1, <3>2, <3>3 DEF MirrorInv
  <2> QED BY <2>5, <2>6 DEF StoreInv, StoreKept
<1>3. chatRooms \in [RoomIds -> Room] /\ SameFaces(chatRooms)
  BY DEF StoreInv, StateTypeOK, SameFaces, SameFace
<1>4. \A t \in findClientByUsername(name, r) :
            RoomsWithout(t) \in [RoomIds -> Room] /\ SameFaces(RoomsWithout(t))
  BY RoomsWithoutType, RoomsWithoutKeepFaces DEF findClientByUsername, StoreInv, StateTypeOK
<1> QED BY <1>1, <1>2, <1>3, <1>4 DEF handleBanCommand, Reply, NotForOwnerToDo

LEMMA TransferStore ==
    ASSUME StoreInv, NEW s \in connected, NEW name \in Usernames,
           handleTransferCommand(s, name)
    PROVE  StoreKept
<1> DEFINE r == clients[s].roomId
<1>1. CASE UNCHANGED state
  BY <1>1, NothingStirs
<1>2. ASSUME r \in live, UpdateRoomOwner(r, name), UNCHANGED <<live, restarts>>,
             NEW t \in findClientByUsername(name, r),
             chatRooms' = [chatRooms EXCEPT ![r] = SetOwner(@, t)]
      PROVE  StoreKept
  <2>1. r \in RoomIds /\ live \subseteq RoomIds /\ t \in Sockets
    BY <1>2 DEF StoreInv, StateTypeOK, findClientByUsername
  <2>2. SameFaces(chatRooms')
    <3>1. chatRooms \in [RoomIds -> Room] /\ SameFaces(chatRooms) /\ StateTypeOK
      BY DEF StoreInv, StateTypeOK, SameFaces, SameFace
    <3>2. SameFaces([chatRooms EXCEPT ![r] = SetOwner(@, t)])
      BY <2>1, <3>1, UpdatesKeepFaces
    <3> QED BY <1>2, <3>2
  <2>3. dbRooms[r] # NoRow
    BY <1>2, <2>1 DEF StoreInv, RowsHaveTheirRoom
  <2>4. /\ dbRooms[r] \in RoomRow
        /\ dbRooms'[r] = [dbRooms[r] EXCEPT !.owner = name]
        /\ \A q \in RoomIds \ {r} : dbRooms'[q] = dbRooms[q]
        /\ UNCHANGED <<dbBans, dbMessages>>
    BY <1>2, <2>1, <2>3 DEF UpdateRoomOwner, StoreInv, StateTypeOK, DatabaseTypeOK
  <2>5. dbRooms'[r] # NoRow
    BY <2>4, RowAssumption DEF RoomRow
  <2>6. /\ dbRooms'[r].password = dbRooms[r].password
        /\ dbRooms'[r].isPrivate = dbRooms[r].isPrivate
    BY <2>4 DEF RoomRow
  <2>7. RowsHaveTheirRoom'
    BY <1>2, <2>4, <2>5 DEF StoreInv, RowsHaveTheirRoom, BannedInDatabase
  <2>8. ASSUME MirrorInv PROVE MirrorInv'
    <3> SUFFICES ASSUME restarts = 0 PROVE MirrorInv'
      BY <1>2 DEF MirrorInv
    <3>1. \A q \in live : SameRow(dbRooms'[q], chatRooms'[q])
      BY <2>1, <2>2, <2>4, <2>5, <2>6, <2>8 DEF MirrorInv, SameRow, SameFaces, SameFace
    <3>2. \A q \in live : SameBans(q)'
      BY <2>2, <2>4, <2>8 DEF MirrorInv, SameBans, SameFaces, SameFace, BannedInDatabase
    <3>3. \A q \in RoomIds \ live : NoTrace(q)'
      BY <1>2, <2>4, <2>8 DEF MirrorInv, NoTrace, BannedInDatabase
    <3> QED BY <1>2, <3>1, <3>2, <3>3 DEF MirrorInv
  <2> QED BY <2>7, <2>8 DEF StoreInv, StoreKept
<1> QED BY <1>1, <1>2 DEF handleTransferCommand, Reply

(***************************************************************************)
(* The other steps.                                                         *)
(***************************************************************************)
\* A message is saved for a live room, or not at all.
LEMMA BroadcastStore == ASSUME StoreInv, broadcastMessages PROVE StoreKept
<1> DEFINE m == Head(messageQueue)
<1>0. /\ m \in Message /\ <<m.senderName, m.content>> \in ChatLines
      /\ UNCHANGED <<live, restarts>>
  <2>1. m \in Message
    BY DEF broadcastMessages, StoreInv, StateTypeOK
  <2>2. <<m.senderName, m.content>> \in ChatLines
    BY <2>1 DEF Message, ChatLines
  <2> QED BY <2>1, <2>2 DEF broadcastMessages
<1>1. CASE DropMessage(m)
  BY <1>0, <1>1, TablesStay DEF DropMessage, SameFaces, SameFace
<1>2. ASSUME m.roomId \in live, SaveMessage(m.roomId, RowOf(m)), SameFaces(chatRooms')
      PROVE  StoreKept
  <2>1. \A r \in RoomIds \ live : dbMessages'[r] = dbMessages[r]
    BY <1>2 DEF SaveMessage, StoreInv, StateTypeOK, DatabaseTypeOK
  <2> QED BY <1>0, <1>2, <2>1, RoomsStay DEF SaveMessage
<1>3. CASE DeliverPrivate(m)
  BY <1>0, <1>2, <1>3, TablesStay DEF DeliverPrivate, SameFaces, SameFace
<1>4. CASE DeliverPublic(m)
  <2>1. m.roomId \in RoomIds /\ chatRooms[m.roomId] \in Room
    BY <1>0 DEF Message, StoreInv, StateTypeOK
  <2>2. SameFaces(chatRooms')
    BY <1>0, <1>4, <2>1, MethodsKeepFace
       DEF DeliverPublic, SameFaces, SameFace, StoreInv, StateTypeOK, AddMessageToHistory, Room
  <2> QED BY <1>2, <1>4, <2>2 DEF DeliverPublic
<1> QED BY <1>1, <1>3, <1>4 DEF broadcastMessages

LEMMA JoinRoomStore ==
    ASSUME StoreInv, NEW s \in connected, NEW r \in RoomIds, JoinRoom(s, r)
    PROVE  StoreKept
<1>1. StateTypeOK /\ s \in Sockets
  BY DEF StoreInv, StateTypeOK
<1>2. SameFaces(chatRooms')
  BY <1>1, RoomsWithoutType, RoomsWithoutKeepFaces, UpdatesKeepFaces DEF JoinRoom
<1> QED BY <1>2, TablesStay DEF JoinRoom

LEMMA LeavingStore ==
    ASSUME StoreInv, NEW s \in connected,
           \/ handleLeaveCommand(s) \/ handleForceLeaveCommand(s)
           \/ \E name \in Usernames : handleKickCommand(s, name)
    PROVE  StoreKept
<1>0. StateTypeOK /\ s \in Sockets /\ connected \subseteq Sockets
  BY DEF StoreInv, StateTypeOK
<1>1. CASE UNCHANGED state
  BY <1>1, NothingStirs
<1>2. ASSUME NEW t \in Sockets, chatRooms' = RoomsWithout(t), UNCHANGED <<live, dbVars, restarts>>
      PROVE  StoreKept
  BY <1>0, <1>2, RoomsWithoutKeepFaces, TablesStay
<1>3. ASSUME NEW t \in connected, clients[s].roomId \in RoomIds,
             chatRooms' = [RoomsWithout(s) EXCEPT ![clients[s].roomId] = SetOwner(@, t)],
             UNCHANGED <<live, dbVars, restarts>>
      PROVE  StoreKept
  BY <1>0, <1>3, RoomsWithoutType, RoomsWithoutKeepFaces, UpdatesKeepFaces, TablesStay
<1>4. \A name, r : findClientByUsername(name, r) \subseteq Sockets
  BY <1>0 DEF findClientByUsername
<1>5. ASSUME NEW name \in Usernames, handleKickCommand(s, name) PROVE StoreKept
  BY <1>1, <1>2, <1>4, <1>5 DEF handleKickCommand, Reply
<1>6. CASE handleLeaveCommand(s)
  BY <1>0, <1>1, <1>2, <1>6 DEF handleLeaveCommand, Reply
<1>7. CASE handleForceLeaveCommand(s)
  <2>1. clients[s].roomId # NoRoom => clients[s].roomId \in RoomIds
    BY <1>0 DEF StateTypeOK, ClientInfo
  <2> QED BY <1>0, <1>1, <1>2, <1>3, <1>7, <2>1
          DEF handleForceLeaveCommand, Reply, IsOwnerInRoom
<1> QED BY <1>5, <1>6, <1>7

LEMMA ClientMessageStore ==
    ASSUME StoreInv, NEW s \in connected, handleClientMessage(s)
    PROVE  StoreKept
<1>1. ASSUME UNCHANGED state PROVE StoreKept
  BY <1>1, NothingStirs
<1>2. ASSUME NEW name \in Usernames,
             \/ handleKickCommand(s, name) \/ handleBanCommand(s, name)
             \/ handleTransferCommand(s, name)
      PROVE  StoreKept
  BY <1>2, LeavingStore, BanStore, TransferStore
<1>3. ASSUME UNCHANGED <<live, chatRooms, dbVars, restarts>> PROVE StoreKept
  BY <1>3, TablesStay DEF SameFaces, SameFace
<1>4. ASSUME NEW name \in Usernames,
             handleSetNameCommand(s, name) \/ handlePrivateMessage(s, name)
      PROVE  StoreKept
  BY <1>1, <1>3, <1>4 DEF handleSetNameCommand, handlePrivateMessage, Enqueue, Reply
<1>5. ASSUME NEW isPrivate \in BOOLEAN, NEW password \in Passwords \cup {NoPassword},
             handleCreateCommand(s, isPrivate, password)
      PROVE  StoreKept
  BY <1>1, <1>5, CreateStore DEF handleCreateCommand, Reply
<1>6. ASSUME NEW password \in Passwords \cup {NoPassword},
             \/ handleChangePasswordCommand(s, password)
             \/ \E r \in RoomIds : handleJoinCommand(s, r, password)
      PROVE  StoreKept
  BY <1>1, <1>6, ChangePasswordStore, JoinRoomStore DEF handleJoinCommand, Reply
<1>7. CASE handleLeaveCommand(s) \/ handleForceLeaveCommand(s)
  BY <1>7, LeavingStore
<1>8. CASE \/ handleListCommand(s) \/ handleUsersCommand(s) \/ handleGetPasswordCommand(s)
           \/ handleChatMessage(s)
  BY <1>1, <1>3, <1>8 DEF handleListCommand, handleUsersCommand, handleGetPasswordCommand,
                          handleChatMessage, Enqueue, Reply
<1> QED BY <1>2, <1>4, <1>5, <1>6, <1>7, <1>8 DEF handleClientMessage

LEMMA DisconnectStore ==
    ASSUME StoreInv, NEW s \in connected, handleClientDisconnect(s)
    PROVE  StoreKept
<1>1. StateTypeOK /\ s \in Sockets
  BY DEF StoreInv, StateTypeOK
<1>2. RoomsWithout(s) \in [RoomIds -> Room] /\ SameFaces(RoomsWithout(s))
  BY <1>1, RoomsWithoutType, RoomsWithoutKeepFaces
<1>3. CASE LeavesRoomEmpty(s)
  <2>1. clients[s].roomId \in RoomIds
    BY <1>1, <1>3 DEF LeavesRoomEmpty, StateTypeOK
  <2> QED BY <1>2, <1>3, <2>1, EraseRoomStore DEF handleClientDisconnect
<1>4. CASE ~LeavesRoomEmpty(s)
  BY <1>2, <1>4, TablesStay DEF handleClientDisconnect
<1> QED BY <1>3, <1>4

LEMMA CleanupStore ==
    ASSUME StoreInv, NEW r \in RoomIds, cleanupEmptyRoom(r)
    PROVE  StoreKept
<1>1. chatRooms \in [RoomIds -> Room] /\ SameFaces(chatRooms)
  BY DEF StoreInv, StateTypeOK, SameFaces, SameFace
<1>2. CASE EraseRoom(r, chatRooms)
  BY <1>1, <1>2, EraseRoomStore DEF cleanupEmptyRoom
<1>3. CASE UNCHANGED <<live, chatRooms, dbVars>>
  BY <1>3, TablesStay DEF cleanupEmptyRoom, SameFaces, SameFace
<1> QED BY <1>2, <1>3 DEF cleanupEmptyRoom

\* A new process finds no rooms, so that every row it finds has its room's row
\* beside it, also when the old one died between two statements of deleteRoom.
LEMMA NewProcessStore ==
    ASSUME StoreInv, Restart \/ \E r \in RoomIds : CrashInDelete(r)
    PROVE  StoreKept
<1>1. /\ restarts \in Nat /\ restarts' = restarts + 1 /\ live' = {}
  BY DEF Restart, CrashInDelete, NewProcess, StoreInv, StateTypeOK
<1>2. MirrorInv'
  BY <1>1 DEF MirrorInv
<1>3. /\ dbRooms' = dbRooms /\ dbBans' \subseteq dbBans
      /\ \A q \in RoomIds : dbMessages'[q] \in {dbMessages[q], <<>>}
  BY DEF Restart, CrashInDelete, DeleteRoomPartly, dbVars, StoreInv, StateTypeOK, DatabaseTypeOK
<1>4. RowsHaveTheirRoom'
  BY <1>1, <1>3 DEF StoreInv, RowsHaveTheirRoom, BannedInDatabase
<1> QED BY <1>2, <1>4 DEF StoreKept

LEMMA InitStore == Init => StoreInv
<1> SUFFICES ASSUME Init PROVE StoreInv
  OBVIOUS
<1>1. RowsHaveTheirRoom
  BY DEF Init, DatabaseInit, RowsHaveTheirRoom, BannedInDatabase
<1>2. MirrorInv
  BY DEF Init, DatabaseInit, MirrorInv, NoTrace, BannedInDatabase
<1> QED BY <1>1, <1>2, InitType DEF StoreInv

LEMMA NextStore == StoreInv /\ [Next]_vars => StoreInv'
<1> SUFFICES ASSUME StoreInv, [Next]_vars PROVE StoreKept
  BY NextType DEF StoreInv, StoreKept
<1>1. ASSUME UNCHANGED <<live, chatRooms, dbVars, restarts>> PROVE StoreKept
  BY <1>1, TablesStay DEF SameFaces, SameFace
<1>2. ASSUME NEW s \in Sockets, Accept(s) PROVE StoreKept
  BY <1>1, <1>2 DEF Accept
<1>3. ASSUME NEW s \in connected, handleClientMessage(s) \/ handleClientDisconnect(s)
      PROVE  StoreKept
  BY <1>3, ClientMessageStore, DisconnectStore
<1>4. ASSUME NEW r \in RoomIds, cleanupEmptyRoom(r) PROVE StoreKept
  BY <1>4, CleanupStore
<1>5. CASE Tick \/ UNCHANGED vars
  BY <1>1, <1>5 DEF Tick, vars, state, memory
<1> QED BY <1>2, <1>3, <1>4, <1>5, BroadcastStore, NewProcessStore DEF Next

\* No message and no ban is ever left without a row of its room, whatever the
\* rooms, clients and bounds: every handler that writes to a room's rows finds
\* the room live, and deleteRoom deletes the row of the room last.
THEOREM NoRowIsOrphaned == Spec => []RowsHaveTheirRoom
<1>1. StoreInv => RowsHaveTheirRoom
  BY DEF StoreInv
<1> QED BY <1>1, InitStore, NextStore, PTL DEF Spec

\* If no id of a live room is drawn again, then up to the first restart the tables
\* hold what g_chatRooms holds: kind, password and bans of each live room, and of
\* other rooms nothing, whatever messages were queued as they were erased.
THEOREM DatabaseIsInStep == Spec => [](FreshIds => DatabaseMirrorsRooms)
<1>1. StoreInv => (FreshIds => DatabaseMirrorsRooms)
  BY MirrorsRooms DEF StoreInv
<1> QED BY <1>1, InitStore, NextStore, PTL DEF Spec

(***************************************************************************)
(* What a step does to the histories of the rooms and to the messages.      *)
(***************************************************************************)
\* The room's lines stay, its messages and its object vanish, a new object is put
\* in place, or a message is delivered.
LinesStay(r) ==
    /\ r \in live /\ chatRooms'[r].history = chatRooms[r].history
    /\ dbMessages'[r] = dbMessages[r]

LinesVanish(r) == r \notin live' /\ dbMessages'[r] \in {dbMessages[r], <<>>}

LinesBegin(r) ==
    /\ chatRooms'[r].history = <<>> /\ dbMessages'[r] = dbMessages[r]
    /\ FreshIds => r \notin live

LineSaid(r) ==
    \E m \in Message :
        /\ r = m.roomId /\ r \in live /\ second' = second
        /\ dbMessages'[r] = Append(dbMessages[r], RowOf(m))
        /\ chatRooms'[r].history =
              IF m.private THEN chatRooms[r].history
              ELSE AddMessageToHistory(chatRooms[r], <<m.senderName, m.content>>).history

HistoryStep ==
    /\ \A r \in RoomIds : LinesStay(r) \/ LinesVanish(r) \/ LinesBegin(r) \/ LineSaid(r)
    /\ second' \in {second, second + 1}
    /\ restarts' = 0 => restarts = 0

SameHistories(rooms) == \A r \in live : rooms[r].history = chatRooms[r].history

LEMMA MethodsKeepHistory ==
    ASSUME NEW room \in Room, NEW s \in Sockets
    PROVE  /\ RemoveClient(room, s).history = room.history
           /\ AddClient(room, s).history = room.history
           /\ SetOwner(room, s).history = room.history
           /\ \A name : BanUser(room, name).history = room.history
           /\ \A password : SetPassword(room, password).history = room.history
BY DEF Room, RemoveClient, AddClient, SetOwner, BanUser, SetPassword

LEMMA RoomsWithoutKeepHistories ==
    ASSUME StateTypeOK, NEW s \in Sockets
    PROVE  SameHistories(RoomsWithout(s))
<1>1. \A r \in live : chatRooms[r] \in Room
  BY DEF StateTypeOK
<1> QED BY <1>1, MethodsKeepHistory DEF StateTypeOK, SameHistories, RoomsWithout

LEMMA UpdatesKeepHistories ==
    ASSUME StateTypeOK, NEW s \in Sockets, NEW rooms \in [RoomIds -> Room],
           SameHistories(rooms), NEW r \in RoomIds
    PROVE  /\ SameHistories([rooms EXCEPT ![r] = AddClient(@, s)])
           /\ SameHistories([rooms EXCEPT ![r] = SetOwner(@, s)])
           /\ \A name : SameHistories([rooms EXCEPT ![r] = BanUser(@, name)])
           /\ \A password : SameHistories([rooms EXCEPT ![r] = SetPassword(@, password)])
BY MethodsKeepHistory DEF StateTypeOK, SameHistories

LEMMA HistoriesStay ==
    ASSUME StateTypeOK, SameHistories(chatRooms'),
           UNCHANGED <<live, dbMessages, second, restarts>>
    PROVE  HistoryStep
<1>1. ASSUME NEW r \in RoomIds PROVE LinesStay(r) \/ LinesVanish(r)
  BY DEF SameHistories, LinesStay, LinesVanish
<1> QED BY <1>1 DEF HistoryStep

LEMMA NothingSaid == ASSUME StateTypeOK, UNCHANGED state PROVE HistoryStep
BY HistoriesStay DEF SameHistories, state, memory, dbVars

LEMMA EraseRoomHistory ==
    ASSUME StateTypeOK, NEW r \in RoomIds, NEW rooms \in [RoomIds -> Room],
           SameHistories(rooms), EraseRoom(r, rooms), UNCHANGED <<second, restarts>>
    PROVE  HistoryStep
<1>1. /\ live' = live \ {r} /\ dbMessages'[r] = <<>>
      /\ \A q \in RoomIds \ {r} : dbMessages'[q] = dbMessages[q] /\ chatRooms'[q] = rooms[q]
  BY DEF EraseRoom, DeleteRoom, StateTypeOK, DatabaseTypeOK
<1>2. LinesVanish(r)
  BY <1>1 DEF LinesVanish
<1>3. ASSUME NEW q \in RoomIds \ {r} PROVE LinesStay(q) \/ LinesVanish(q)
  BY <1>1 DEF SameHistories, LinesStay, LinesVanish
<1> QED BY <1>2, <1>3 DEF HistoryStep

LEMMA CreateHistory ==
    ASSUME StateTypeOK, NEW s \in connected, NEW isPrivate \in BOOLEAN,
           NEW password \in Passwords \cup {NoPassword}, NEW r \in RoomIds,
           CreateRoom(s, isPrivate, password, r)
    PROVE  HistoryStep
<1>0. s \in Sockets
  BY DEF StateTypeOK
<1>1. /\ live' = live \cup {r} /\ UNCHANGED <<dbMessages, second, restarts>>
      /\ FreshIds => r \notin live
      /\ chatRooms'[r] = AddClient(NewRoom(isPrivate, password, s), s)
      /\ \A q \in RoomIds \ {r} : chatRooms'[q] = RoomsWithout(s)[q]
  BY <1>0, RoomsWithoutType DEF CreateRoom, CreateRoomRow
<1>2. LinesBegin(r)
  BY <1>1 DEF LinesBegin, AddClient, NewRoom
<1>3. ASSUME NEW q \in RoomIds \ {r} PROVE LinesStay(q) \/ LinesVanish(q)
  BY <1>0, <1>1, RoomsWithoutKeepHistories DEF SameHistories, LinesStay, LinesVanish
<1> QED BY <1>1, <1>2, <1>3 DEF HistoryStep

LEMMA BroadcastHistory == ASSUME StateTypeOK, broadcastMessages PROVE HistoryStep
<1> DEFINE m == Head(messageQueue)
<1>0. m \in Message /\ UNCHANGED <<live, second, restarts>>
  BY DEF broadcastMessages, StateTypeOK
<1>1. CASE DropMessage(m)
  BY <1>0, <1>1, HistoriesStay DEF DropMessage, SameHistories, dbVars
<1>2. CASE DeliverPrivate(m)
  <2>1. CASE UNCHANGED dbVars
    BY <1>0, <1>2, <2>1, HistoriesStay DEF DeliverPrivate, SameHistories, dbVars
  <2>2. CASE SaveMessage(m.roomId, RowOf(m))
    <3>1. LineSaid(m.roomId)
      BY <1>0, <1>2, <2>2 DEF LineSaid, DeliverPrivate, SaveMessage, Message,
                              StateTypeOK, DatabaseTypeOK
    <3>2. ASSUME NEW q \in RoomIds \ {m.roomId} PROVE LinesStay(q) \/ LinesVanish(q)
      BY <1>0, <1>2, <2>2 DEF LinesStay, LinesVanish, DeliverPrivate, SaveMessage,
                              StateTypeOK, DatabaseTypeOK
    <3> QED BY <1>0, <3>1, <3>2 DEF HistoryStep
  <2> QED BY <1>2, <2>1, <2>2 DEF DeliverPrivate
<1>3. CASE DeliverPublic(m)
  <2>1. LineSaid(m.roomId)
    BY <1>0, <1>3 DEF LineSaid, DeliverPublic, SaveMessage, Message, StateTypeOK, DatabaseTypeOK
  <2>2. ASSUME NEW q \in RoomIds \ {m.roomId} PROVE LinesStay(q) \/ LinesVanish(q)
    BY <1>0, <1>3 DEF LinesStay, LinesVanish, DeliverPublic, SaveMessage,
                      StateTypeOK, DatabaseTypeOK
  <2> QED BY <1>0, <2>1, <2>2 DEF HistoryStep
<1> QED BY <1>1, <1>2, <1>3 DEF broadcastMessages

LEMMA NewProcessHistory ==
    ASSUME StateTypeOK, Restart \/ \E r \in RoomIds : CrashInDelete(r)
    PROVE  HistoryStep
<1>1. restarts \in Nat /\ restarts' = restarts + 1 /\ live' = {} /\ second' = second
  BY DEF Restart, CrashInDelete, NewProcess, StateTypeOK
<1>2. \A q \in RoomIds : LinesVanish(q)
  BY <1>1 DEF Restart, CrashInDelete, DeleteRoomPartly, dbVars, StateTypeOK, DatabaseTypeOK,
              LinesVanish
<1> QED BY <1>1, <1>2 DEF HistoryStep

\* The commands that leave a room, or change one of its members.
LEMMA RoomCommandHistory ==
    ASSUME StateTypeOK, NEW s \in connected,
           \/ handleLeaveCommand(s) \/ handleForceLeaveCommand(s)
           \/ \E name \in Usernames : \/ handleKickCommand(s, name)
                                      \/ handleBanCommand(s, name)
                                      \/ handleTransferCommand(s, name)
           \/ \E r \in RoomIds : JoinRoom(s, r)
           \/ \E password \in Passwords \cup {NoPassword} :
                  handleChangePasswordCommand(s, password)
    PROVE  HistoryStep
<1> DEFINE Same == UNCHANGED <<live, dbMessages, second, restarts>>
           r == clients[s].roomId
<1>0. s \in Sockets /\ connected \subseteq Sockets /\ chatRooms \in [RoomIds -> Room]
      /\ live \subseteq RoomIds /\ SameHistories(chatRooms)
      /\ r \in RoomIds \cup {NoRoom}
  BY DEF StateTypeOK, SameHistories, ClientInfo
<1>1. CASE UNCHANGED state
  BY <1>1, NothingSaid
<1>2. \A t \in Sockets : RoomsWithout(t) \in [RoomIds -> Room] /\ SameHistories(RoomsWithout(t))
  BY RoomsWithoutType, RoomsWithoutKeepHistories
<1>3. ASSUME SameHistories(chatRooms'), Same PROVE HistoryStep
  BY <1>3, HistoriesStay
<1>4. \A name, q : findClientByUsername(name, q) \subseteq Sockets
  BY <1>0 DEF findClientByUsername
<1>5. ASSUME NEW name \in Usernames, handleKickCommand(s, name) PROVE HistoryStep
  BY <1>1, <1>2, <1>3, <1>4, <1>5 DEF handleKickCommand, Reply, dbVars
<1>6. ASSUME NEW name \in Usernames, handleBanCommand(s, name) PROVE HistoryStep
  <2>1. CASE UNCHANGED state
    BY <1>1, <2>1
  <2>2. ASSUME r \in live, AddBan(r, name), UNCHANGED <<live, second, restarts>>,
               NEW rooms \in [RoomIds -> Room], SameHistories(rooms),
               chatRooms' = Ban(r, rooms, name)
        PROVE  HistoryStep
    BY <1>0, <1>3, <2>2, UpdatesKeepHistories DEF Ban, AddBan
  <2> QED BY <1>0, <1>2, <1>4, <1>6, <2>1, <2>2 DEF handleBanCommand, Reply
<1>7. ASSUME NEW name \in Usernames, handleTransferCommand(s, name) PROVE HistoryStep
  <2>1. CASE UNCHANGED state
    BY <1>1, <2>1
  <2>2. ASSUME r \in live, NEW t \in Sockets, UpdateRoomOwner(r, name),
               UNCHANGED <<live, second, restarts>>,
               chatRooms' = [chatRooms EXCEPT ![r] = SetOwner(@, t)]
        PROVE  HistoryStep
    BY <1>0, <1>3, <2>2, UpdatesKeepHistories DEF UpdateRoomOwner
  <2> QED BY <1>0, <1>4, <1>7, <2>1, <2>2 DEF handleTransferCommand, Reply
<1>8. ASSUME NEW q \in RoomIds, JoinRoom(s, q) PROVE HistoryStep
  BY <1>0, <1>2, <1>3, <1>8, UpdatesKeepHistories DEF JoinRoom, dbVars
<1>9. ASSUME NEW password \in Passwords \cup {NoPassword},
             handleChangePasswordCommand(s, password)
      PROVE  HistoryStep
  <2>1. CASE UNCHANGED state
    BY <1>1, <2>1
  <2>2. ASSUME r \in live, UpdateRoomPassword(r, password), UNCHANGED <<live, second, restarts>>,
               chatRooms' = [chatRooms EXCEPT ![r] = SetPassword(@, password)]
        PROVE  HistoryStep
    BY <1>0, <1>3, <2>2, UpdatesKeepHistories DEF UpdateRoomPassword
  <2> QED BY <1>9, <2>1, <2>2 DEF handleChangePasswordCommand, Reply
<1>10. CASE handleLeaveCommand(s)
  BY <1>0, <1>1, <1>2, <1>3, <1>10 DEF handleLeaveCommand, Reply, dbVars
<1>11. CASE handleForceLeaveCommand(s)
  <2>1. CASE UNCHANGED state
    BY <1>1, <2>1
  <2>2. ASSUME r \in RoomIds, NEW t \in Sockets, UNCHANGED <<live, dbVars, second, restarts>>,
               \/ chatRooms' = RoomsWithout(s)
               \/ chatRooms' = [RoomsWithout(s) EXCEPT ![r] = SetOwner(@, t)]
        PROVE  HistoryStep
    <3>1. SameHistories([RoomsWithout(s) EXCEPT ![r] = SetOwner(@, t)])
      BY <1>0, <1>2, <2>2, UpdatesKeepHistories
    <3>2. SameHistories(chatRooms')
      BY <1>0, <1>2, <2>2, <3>1
    <3> QED BY <1>3, <2>2, <3>2 DEF dbVars
  <2> QED BY <1>0, <1>11, <2>1, <2>2 DEF handleForceLeaveCommand, Reply, IsOwnerInRoom
<1> QED BY <1>5, <1>6, <1>7, <1>8, <1>9, <1>10, <1>11

LEMMA NextHistory == ASSUME StateTypeOK, [Next]_vars PROVE HistoryStep
<1>1. ASSUME UNCHANGED <<live, chatRooms, dbVars, second, restarts>> PROVE HistoryStep
  BY <1>1, HistoriesStay DEF SameHistories, dbVars
<1>2. ASSUME UNCHANGED state PROVE HistoryStep
  BY <1>2, NothingSaid
<1>3. ASSUME NEW s \in Sockets, Accept(s) PROVE HistoryStep
  BY <1>1, <1>3 DEF Accept
<1>4. ASSUME NEW s \in connected, handleClientMessage(s) PROVE HistoryStep
  <2>1. ASSUME NEW name \in Usernames,
               \/ handleKickCommand(s, name) \/ handleBanCommand(s, name)
               \/ handleTransferCommand(s, name)
        PROVE  HistoryStep
    BY <2>1, RoomCommandHistory
  <2>2. ASSUME NEW name \in Usernames,
               handleSetNameCommand(s, name) \/ handlePrivateMessage(s, name)
        PROVE  HistoryStep
    BY <1>1, <1>2, <2>2 DEF handleSetNameCommand, handlePrivateMessage, Enqueue, Reply
  <2>3. ASSUME NEW isPrivate \in BOOLEAN, NEW password \in Passwords \cup {NoPassword},
               handleCreateCommand(s, isPrivate, password)
        PROVE  HistoryStep
    BY <1>2, <2>3, CreateHistory DEF handleCreateCommand, Reply
  <2>4. ASSUME NEW password \in Passwords \cup {NoPassword},
               \/ handleChangePasswordCommand(s, password)
               \/ \E r \in RoomIds : handleJoinCommand(s, r, password)
        PROVE  HistoryStep
    BY <1>2, <2>4, RoomCommandHistory DEF handleJoinCommand, Reply
  <2>5. CASE handleLeaveCommand(s) \/ handleForceLeaveCommand(s)
    BY <2>5, RoomCommandHistory
  <2>6. CASE \/ handleListCommand(s) \/ handleUsersCommand(s) \/ handleGetPasswordCommand(s)
             \/ handleChatMessage(s)
    BY <1>1, <1>2, <2>6 DEF handleListCommand, handleUsersCommand, handleGetPasswordCommand,
                            handleChatMessage, Enqueue, Reply
  <2> QED BY <1>4, <2>1, <2>2, <2>3, <2>4, <2>5, <2>6 DEF handleClientMessage
<1>5. ASSUME NEW s \in connected, handleClientDisconnect(s) PROVE HistoryStep
  <2>0. s \in Sockets
    BY DEF StateTypeOK
  <2>1. RoomsWithout(s) \in [RoomIds -> Room] /\ SameHistories(RoomsWithout(s))
    BY <2>0, RoomsWithoutType, RoomsWithoutKeepHistories
  <2>2. CASE LeavesRoomEmpty(s)
    <3>1. clients[s].roomId \in RoomIds
      BY <2>2 DEF LeavesRoomEmpty, StateTypeOK
    <3> QED BY <1>5, <2>1, <2>2, <3>1, EraseRoomHistory DEF handleClientDisconnect
  <2>3. CASE ~LeavesRoomEmpty(s)
    BY <1>5, <2>1, <2>3, HistoriesStay DEF handleClientDisconnect, dbVars
  <2> QED BY <2>2, <2>3
<1>6. ASSUME NEW r \in RoomIds, cleanupEmptyRoom(r) PROVE HistoryStep
  <2>1. chatRooms \in [RoomIds -> Room] /\ SameHistories(chatRooms)
    BY DEF StateTypeOK, SameHistories
  <2> QED BY <1>1, <1>6, <2>1, EraseRoomHistory DEF cleanupEmptyRoom
<1>7. CASE Tick
  <2>1. second' = second + 1 /\ restarts' = restarts
    BY <1>7 DEF Tick
  <2>2. \A r \in RoomIds : LinesStay(r) \/ LinesVanish(r)
    BY <1>7 DEF Tick, memory, dbVars, LinesStay, LinesVanish
  <2> QED BY <2>1, <2>2 DEF HistoryStep
<1>8. CASE UNCHANGED vars
  BY <1>2, <1>8 DEF vars
<1> QED BY <1>3, <1>4, <1>5, <1>6, <1>7, <1>8, BroadcastHistory, NewProcessHistory DEF Next

(***************************************************************************)
(* The order of the messages saved.                                         *)
(***************************************************************************)
\* Table messages is in the order of its timestamps.
Chronological ==
    \A r \in RoomIds : \A i \in DOMAIN dbMessages[r] :
        /\ dbMessages[r][i].second <= second
        /\ \A j \in DOMAIN dbMessages[r] :
              i < j => dbMessages[r][i].second <= dbMessages[r][j].second

OrderInv == StateTypeOK /\ Chronological

LEMMA RowType == ASSUME NEW m \in Message, second \in Nat PROVE RowOf(m) \in MessageRow
BY DEF RowOf, Message, MessageRow

LEMMA NextChronological == OrderInv /\ [Next]_vars => OrderInv'
<1> SUFFICES ASSUME OrderInv, [Next]_vars PROVE Chronological'
  BY NextType DEF OrderInv
<1>0. HistoryStep /\ second \in Nat /\ second' \in Nat /\ second <= second'
  <2>1. HistoryStep /\ second \in Nat
    BY NextHistory DEF OrderInv, StateTypeOK
  <2> QED BY <2>1 DEF HistoryStep
<1> SUFFICES ASSUME NEW r \in RoomIds, NEW i \in DOMAIN dbMessages'[r]
             PROVE  /\ dbMessages'[r][i].second <= second'
                    /\ \A j \in DOMAIN dbMessages'[r] :
                          i < j => dbMessages'[r][i].second <= dbMessages'[r][j].second
  BY DEF Chronological
<1>1. dbMessages[r] \in Seq(MessageRow) /\ \A row \in MessageRow : row.second \in Nat
  BY DEF OrderInv, StateTypeOK, DatabaseTypeOK, MessageRow
<1>2. CASE dbMessages'[r] = dbMessages[r]
  <2>1. dbMessages[r][i].second \in Nat /\ dbMessages[r][i].second <= second
    BY <1>1, <1>2 DEF OrderInv, Chronological
  <2>2. \A j \in DOMAIN dbMessages[r] :
            i < j => dbMessages[r][i].second <= dbMessages[r][j].second
    BY <1>2 DEF OrderInv, Chronological
  <2> QED BY <1>0, <1>2, <2>1, <2>2
<1>3. CASE dbMessages'[r] = <<>>
  BY <1>3
<1>4. CASE LineSaid(r)
  <2>1. PICK m \in Message : /\ second' = second
                             /\ dbMessages'[r] = Append(dbMessages[r], RowOf(m))
    BY <1>4 DEF LineSaid
  <2>2. RowOf(m) \in MessageRow /\ RowOf(m).second = second
    BY <1>0, <2>1, RowType DEF RowOf
  <2>3. PICK rows, row, n : rows = dbMessages[r] /\ row = RowOf(m) /\ n = Len(dbMessages[r])
    OBVIOUS
  <2>4. /\ rows \in Seq(MessageRow) /\ n \in Nat /\ n = Len(rows)
        /\ dbMessages'[r] = Append(rows, row) /\ DOMAIN Append(rows, row) = 1 .. n + 1
        /\ \A j \in 1 .. n : Append(rows, row)[j] = rows[j] /\ rows[j].second \in Nat
        /\ Append(rows, row)[n + 1] = row
    BY <1>1, <2>1, <2>2, <2>3
  <2>5. \A k \in 1 .. n : rows[k].second <= second /\
            \A j \in 1 .. n : k < j => rows[k].second <= rows[j].second
    BY <1>1, <2>3 DEF OrderInv, Chronological
  <2>6. CASE i \in 1 .. n
    BY <1>0, <2>1, <2>2, <2>3, <2>4, <2>5, <2>6
  <2>7. CASE i = n + 1
    BY <1>0, <2>1, <2>2, <2>3, <2>4, <2>7
  <2> QED BY <2>4, <2>6, <2>7
<1> QED BY <1>0, <1>2, <1>3, <1>4 DEF HistoryStep, LinesStay, LinesVanish, LinesBegin

\* Messages saved in different seconds are replayed newest last and none skipped:
\* the order the query sorts by is then the order in which they were saved.
THEOREM HistoryIsInOrder == Spec => []HistoryInOrderAcrossSeconds
<1>1. Init => OrderInv
  <2> SUFFICES ASSUME Init PROVE OrderInv
    OBVIOUS
  <2>1. Chronological
    BY DEF Init, DatabaseInit, Chronological
  <2> QED BY <2>1, InitType DEF OrderInv
<1>0. \A row \in MessageRow : row.second \in Nat
  BY DEF MessageRow
<1>2. OrderInv => HistoryInOrderAcrossSeconds
  <2> SUFFICES ASSUME OrderInv, NEW r \in RoomIds,
                      \A i, j \in PublicRows(r) :
                          i # j => dbMessages[r][i].second # dbMessages[r][j].second
               PROVE  GetMessageHistory(r, MAX_MESSAGE_HISTORY)
                        = Newest(r, MAX_MESSAGE_HISTORY)
    BY DEF HistoryInOrderAcrossSeconds
  <2>1. ASSUME NEW i \in PublicRows(r)
        PROVE  Before(r, i) = {j \in PublicRows(r) : j > i}
    <3>1. ASSUME NEW j \in PublicRows(r) PROVE j \in Before(r, i) <=> j > i
      <4>1. PICK rows : rows = dbMessages[r]
        OBVIOUS
      <4>2. /\ rows \in Seq(MessageRow) /\ i \in DOMAIN rows /\ j \in DOMAIN rows
            /\ i < j => rows[i].second <= rows[j].second
            /\ j < i => rows[j].second <= rows[i].second
            /\ i # j => rows[i].second # rows[j].second
        BY <4>1 DEF PublicRows, OrderInv, Chronological, StateTypeOK, DatabaseTypeOK
      <4>3. /\ i \in Nat /\ j \in Nat
            /\ rows[i].second \in Nat /\ rows[j].second \in Nat
        <5>1. rows[i] \in MessageRow /\ rows[j] \in MessageRow
          BY <4>2
        <5> QED BY <1>0, <4>2, <5>1
      <4>4. j \in Before(r, i) <=> \/ rows[j].second > rows[i].second
                                   \/ rows[j].second = rows[i].second /\ j < i
        BY <4>1 DEF Before
      <4> QED BY <4>2, <4>3, <4>4
    <3>2. Before(r, i) \subseteq PublicRows(r)
      BY DEF Before
    <3> QED BY <3>1, <3>2
  <2> DEFINE Returned(n) ==
               CHOOSE i \in PublicRows(r) : Cardinality(Before(r, i)) = n - 1
             NthNewest(n) ==
               CHOOSE i \in PublicRows(r) : Cardinality({j \in PublicRows(r) : j > i}) = n - 1
             size == AtMost(MAX_MESSAGE_HISTORY, r)
  <2>2. \A n : Returned(n) = NthNewest(n)
    BY <2>1
  <2>3. /\ GetMessageHistory(r, MAX_MESSAGE_HISTORY)
             = [k \in 1 .. size |-> LineOf(dbMessages[r][Returned(size - k + 1)])]
        /\ Newest(r, MAX_MESSAGE_HISTORY)
             = [k \in 1 .. size |-> LineOf(dbMessages[r][NthNewest(size - k + 1)])]
    BY DEF GetMessageHistory, Newest
  <2> HIDE DEF Returned, NthNewest, size
  <2> QED BY <2>2, <2>3
<1> QED BY <1>1, <1>2, NextChronological, PTL DEF Spec

(***************************************************************************)
(* What a room remembers of what was saved.                                 *)
(***************************************************************************)
Public(rows) == {i \in DOMAIN rows : ~rows[i].private}
Behind(rows, i) == {j \in Public(rows) : j > i}

\* The lines are the newest public ones of the rows: as many public rows lie behind
\* each line's row as lines behind it.
AreNewest(lines, rows) ==
    /\ Len(lines) <= Cardinality(Public(rows))
    /\ \A k \in 1 .. Len(lines) : \E i \in Public(rows) :
          /\ Cardinality(Behind(rows, i)) = Len(lines) - k
          /\ lines[k] = LineOf(rows[i])

\* What is remembered in a room, of which these rows are saved.
Remembers(lines, rows) ==
    /\ Len(lines) <= MAX_MESSAGE_HISTORY
    /\ AreNewest(lines, rows)
    /\ restarts = 0 /\ FreshIds =>
          Len(lines) \in {Cardinality(Public(rows)), MAX_MESSAGE_HISTORY}

SavedInv == StoreInv /\ \A r \in live : Remembers(chatRooms[r].history, dbMessages[r])

LEMMA PublicIs ==
    ASSUME NEW rows \in Seq(MessageRow)
    PROVE  /\ Public(rows) \subseteq 1 .. Len(rows) /\ IsFiniteSet(Public(rows))
           /\ Cardinality(Public(rows)) \in Nat
           /\ \A i : /\ Behind(rows, i) \subseteq Public(rows) /\ IsFiniteSet(Behind(rows, i))
                     /\ Cardinality(Behind(rows, i)) \in Nat
<1>1. Public(rows) \subseteq 1 .. Len(rows) /\ \A i : Behind(rows, i) \subseteq Public(rows)
  BY DEF Public, Behind
<1>2. IsFiniteSet(1 .. Len(rows))
  BY FS_Interval
<1>3. IsFiniteSet(Public(rows))
  BY <1>1, <1>2, FS_Subset
<1>4. \A i : IsFiniteSet(Behind(rows, i))
  BY <1>1, <1>3, FS_Subset
<1> QED BY <1>1, <1>3, <1>4, FS_CardinalityType

\* A number of rows lies behind one row at most.
LEMMA OneRowHasThem ==
    ASSUME NEW rows \in Seq(MessageRow), NEW i \in Public(rows), NEW j \in Public(rows),
           Cardinality(Behind(rows, i)) = Cardinality(Behind(rows, j))
    PROVE  i = j
<1>1. ASSUME NEW k \in Public(rows), NEW l \in Public(rows), k < l,
             Cardinality(Behind(rows, k)) = Cardinality(Behind(rows, l))
      PROVE  FALSE
  <2>1. k \in Nat /\ l \in Nat /\ \A n \in Public(rows) : n \in Nat
    BY PublicIs
  <2>2. ASSUME NEW m \in Behind(rows, l) PROVE m \in Behind(rows, k)
    <3>1. m \in Public(rows) /\ m > l
      BY DEF Behind
    <3>2. m > k
      BY <1>1, <2>1, <3>1
    <3> QED BY <3>1, <3>2 DEF Behind
  <2>3. Behind(rows, k) = Behind(rows, l)
    BY <1>1, <2>2, PublicIs, FS_Subset
  <2>4. l \in Behind(rows, k) /\ l \notin Behind(rows, l)
    BY <1>1, <2>1 DEF Behind
  <2> QED BY <2>3, <2>4
<1>2. i \in Nat /\ j \in Nat
  BY PublicIs
<1>3. ~(i < j) /\ ~(j < i)
  BY <1>1
<1> QED BY <1>2, <1>3

LEMMA PrivateRow ==
    ASSUME NEW rows \in Seq(MessageRow), NEW row \in MessageRow, row.private
    PROVE  /\ Public(Append(rows, row)) = Public(rows)
           /\ \A i : Behind(Append(rows, row), i) = Behind(rows, i)
           /\ \A i \in Public(rows) : Append(rows, row)[i] = rows[i]
<1>1. PICK n, more : n = Len(rows) /\ more = Append(rows, row)
  OBVIOUS
<1>2. /\ n \in Nat /\ DOMAIN rows = 1 .. n /\ DOMAIN more = 1 .. n + 1
      /\ \A k \in 1 .. n : more[k] = rows[k]
      /\ more[n + 1] = row
  BY <1>1
<1>3. Public(more) = Public(rows)
  BY <1>2 DEF Public
<1> QED BY <1>1, <1>2, <1>3 DEF Behind, Public

LEMMA PublicRow ==
    ASSUME NEW rows \in Seq(MessageRow), NEW row \in MessageRow, ~row.private, NEW n,
           n = Len(rows) + 1
    PROVE  /\ n \in Public(Append(rows, row)) /\ Append(rows, row)[n] = row
           /\ Cardinality(Public(Append(rows, row))) = Cardinality(Public(rows)) + 1
           /\ Cardinality(Behind(Append(rows, row), n)) = 0
           /\ \A i \in Public(rows) :
                /\ i \in Public(Append(rows, row)) /\ Append(rows, row)[i] = rows[i]
                /\ Cardinality(Behind(Append(rows, row), i))
                     = Cardinality(Behind(rows, i)) + 1
<1>1. PICK more : more = Append(rows, row)
  OBVIOUS
<1>2. /\ n \in Nat /\ DOMAIN rows = 1 .. n - 1 /\ DOMAIN more = 1 .. n
      /\ \A k \in 1 .. n - 1 : more[k] = rows[k]
      /\ more[n] = row
  BY <1>1
<1>3. Public(more) = Public(rows) \cup {n} /\ n \notin Public(rows)
  BY <1>2 DEF Public
<1>4. \A i \in Public(rows) : i \in Nat /\ i < n
  BY <1>2 DEF Public
<1>5. Behind(more, n) = {}
  BY <1>2, <1>3, <1>4 DEF Behind
<1>6. \A i \in Public(rows) : Behind(more, i) = Behind(rows, i) \cup {n}
  BY <1>2, <1>3, <1>4 DEF Behind
<1>7. Cardinality(Public(more)) = Cardinality(Public(rows)) + 1
  BY <1>3, PublicIs, FS_AddElement
<1>8. \A i \in Public(rows) : Cardinality(Behind(more, i)) = Cardinality(Behind(rows, i)) + 1
  <2> SUFFICES ASSUME NEW i \in Public(rows)
               PROVE  Cardinality(Behind(more, i)) = Cardinality(Behind(rows, i)) + 1
    OBVIOUS
  <2>1. IsFiniteSet(Behind(rows, i)) /\ n \notin Behind(rows, i)
    BY <1>3, PublicIs DEF Behind
  <2>2. Cardinality(Behind(rows, i) \cup {n}) = Cardinality(Behind(rows, i)) + 1
    BY <2>1, FS_AddElement
  <2> QED BY <1>6, <2>2
<1>9. Cardinality(Behind(more, n)) = 0
  BY <1>5, FS_EmptySet
<1> QED BY <1>1, <1>2, <1>3, <1>7, <1>8, <1>9 DEF Public

LEMMA OneLineMore ==
    ASSUME NEW rows \in Seq(MessageRow), NEW row \in MessageRow, ~row.private,
           NEW lines \in Seq(ChatLines), AreNewest(lines, rows)
    PROVE  AreNewest(Append(lines, LineOf(row)), Append(rows, row))
<1>1. PICK more, longer, n, size :
          /\ more = Append(rows, row) /\ longer = Append(lines, LineOf(row))
          /\ n = Len(rows) + 1 /\ size = Len(lines)
  OBVIOUS
<1>2. /\ size \in Nat /\ Len(longer) = size + 1 /\ longer[size + 1] = LineOf(row)
      /\ \A k \in 1 .. size : longer[k] = lines[k]
  BY <1>1
<1>3. /\ n \in Public(more) /\ more[n] = row
      /\ Cardinality(Public(more)) = Cardinality(Public(rows)) + 1
      /\ Cardinality(Behind(more, n)) = 0
      /\ \A i \in Public(rows) :
            /\ i \in Public(more) /\ more[i] = rows[i]
            /\ Cardinality(Behind(more, i)) = Cardinality(Behind(rows, i)) + 1
  <2>1. n = Len(rows) + 1 /\ more = Append(rows, row)
    BY <1>1
  <2>2. n \in Public(Append(rows, row)) /\ Append(rows, row)[n] = row
    BY <2>1, PublicRow
  <2>3. Cardinality(Public(Append(rows, row))) = Cardinality(Public(rows)) + 1
    BY <2>1, PublicRow
  <2>4. Cardinality(Behind(Append(rows, row), n)) = 0
    BY <2>1, PublicRow
  <2>5. ASSUME NEW i \in Public(rows)
        PROVE  i \in Public(Append(rows, row)) /\ Append(rows, row)[i] = rows[i]
    <3>1. i \in Public(Append(rows, row))
      BY <2>1, PublicRow
    <3>2. i \in 1 .. Len(rows)
      BY DEF Public
    <3> QED BY <3>1, <3>2
  <2>6. ASSUME NEW i \in Public(rows)
        PROVE  Cardinality(Behind(Append(rows, row), i)) = Cardinality(Behind(rows, i)) + 1
    BY <2>1, PublicRow
  <2> QED BY <2>1, <2>2, <2>3, <2>4, <2>5, <2>6, Zenon
<1>4. size <= Cardinality(Public(rows)) /\ Cardinality(Public(rows)) \in Nat
  BY <1>1, PublicIs DEF AreNewest
<1>5. ASSUME NEW k \in 1 .. size + 1
      PROVE  \E i \in Public(more) : /\ Cardinality(Behind(more, i)) = size + 1 - k
                                     /\ longer[k] = LineOf(more[i])
  <2>1. CASE k = size + 1
    <3>1. size + 1 - k = 0
      BY <1>2, <2>1
    <3> QED BY <1>2, <1>3, <2>1, <3>1
  <2>2. CASE k \in 1 .. size
    <3>1. PICK i \in Public(rows) : /\ Cardinality(Behind(rows, i)) = size - k
                                    /\ lines[k] = LineOf(rows[i])
      BY <1>1, <2>2 DEF AreNewest
    <3>2. Cardinality(Behind(more, i)) = size + 1 - k
      BY <1>2, <1>3, <2>2, <3>1
    <3> QED BY <1>2, <1>3, <2>2, <3>1, <3>2
  <2> QED BY <1>2, <2>1, <2>2
<1>6. Len(longer) <= Cardinality(Public(more))
  BY <1>2, <1>3, <1>4
<1>7. AreNewest(longer, more)
  BY <1>2, <1>5, <1>6 DEF AreNewest
<1> QED BY <1>1, <1>7

LEMMA OneLineLess ==
    ASSUME NEW rows \in Seq(MessageRow), NEW lines \in Seq(ChatLines), lines # <<>>,
           AreNewest(lines, rows)
    PROVE  AreNewest(Tail(lines), rows)
<1>1. PICK size, rest : size = Len(lines) /\ rest = Tail(lines)
  OBVIOUS
<1>2. /\ size \in Nat \ {0} /\ Len(rest) = size - 1
      /\ \A k \in 1 .. size - 1 : rest[k] = lines[k + 1]
  BY <1>1
<1>3. size - 1 <= Cardinality(Public(rows))
  BY <1>1, <1>2, PublicIs DEF AreNewest
<1>4. ASSUME NEW k \in 1 .. size - 1
      PROVE  \E i \in Public(rows) : /\ Cardinality(Behind(rows, i)) = size - 1 - k
                                     /\ rest[k] = LineOf(rows[i])
  <2>1. k + 1 \in 1 .. size /\ size - (k + 1) = size - 1 - k
    BY <1>2
  <2>2. PICK i \in Public(rows) : /\ Cardinality(Behind(rows, i)) = size - (k + 1)
                                  /\ lines[k + 1] = LineOf(rows[i])
    BY <1>1, <2>1 DEF AreNewest
  <2> QED BY <1>2, <2>1, <2>2
<1> QED BY <1>1, <1>2, <1>3, <1>4 DEF AreNewest

LEMMA HistoryTypes ==
    ASSUME StateTypeOK, NEW r \in RoomIds
    PROVE  chatRooms[r].history \in Seq(ChatLines) /\ dbMessages[r] \in Seq(MessageRow)
<1>1. chatRooms[r] \in Room
  BY DEF StateTypeOK
<1> QED BY <1>1 DEF Room, StateTypeOK, DatabaseTypeOK

\* addMessageToHistory and saveMessage of the same line.
LEMMA PublicLineRemembered ==
    ASSUME NEW rows \in Seq(MessageRow), NEW row \in MessageRow, ~row.private,
           NEW room \in Room, Remembers(room.history, rows),
           LineOf(row) \in ChatLines
    PROVE  Remembers(AddMessageToHistory(room, LineOf(row)).history, Append(rows, row))
<1>1. PICK lines, line, size, saved :
          /\ lines = room.history /\ line = LineOf(row)
          /\ size = Len(lines) /\ saved = Cardinality(Public(rows))
  OBVIOUS
<1>2. /\ lines \in Seq(ChatLines) /\ line \in ChatLines /\ size \in Nat /\ saved \in Nat
      /\ size <= MAX_MESSAGE_HISTORY /\ MAX_MESSAGE_HISTORY \in Nat
      /\ restarts = 0 /\ FreshIds => size \in {saved, MAX_MESSAGE_HISTORY}
      /\ size <= saved
  BY <1>1, PublicIs, HistoryAssumption DEF Room, Remembers, AreNewest
<1>3. PICK longer, more : longer = Append(lines, line) /\ more = Append(rows, row)
  OBVIOUS
<1>4. /\ longer \in Seq(ChatLines) /\ longer # <<>> /\ Len(longer) = size + 1
      /\ Len(Tail(longer)) = size
  <2>1. longer \in Seq(ChatLines) /\ Len(longer) = size + 1
    BY <1>1, <1>2, <1>3
  <2>2. longer # <<>>
    BY <1>2, <2>1
  <2>3. Len(Tail(longer)) = Len(longer) - 1
    BY <2>1, <2>2
  <2> QED BY <1>2, <2>1, <2>2, <2>3
<1>5. more \in Seq(MessageRow) /\ Cardinality(Public(more)) = saved + 1
  BY <1>1, <1>3, PublicRow
<1>6. AreNewest(longer, more)
  BY <1>1, <1>2, <1>3, OneLineMore DEF Remembers
<1>7. AreNewest(Tail(longer), more)
  BY <1>4, <1>5, <1>6, OneLineLess
<1>8. AddMessageToHistory(room, line).history
        = IF Len(longer) > MAX_MESSAGE_HISTORY THEN Tail(longer) ELSE longer
  BY <1>1, <1>3 DEF AddMessageToHistory, Room
<1>9. CASE size = MAX_MESSAGE_HISTORY
  <2>1. AddMessageToHistory(room, line).history = Tail(longer)
    BY <1>2, <1>4, <1>8, <1>9
  <2>2. Remembers(Tail(longer), more)
    BY <1>2, <1>4, <1>7, <1>9 DEF Remembers
  <2> QED BY <1>1, <1>3, <2>1, <2>2
<1>10. CASE size # MAX_MESSAGE_HISTORY
  <2>1. AddMessageToHistory(room, line).history = longer
    BY <1>2, <1>4, <1>8, <1>10
  <2>2. Remembers(longer, more)
    BY <1>2, <1>4, <1>5, <1>6, <1>10 DEF Remembers
  <2> QED BY <1>1, <1>3, <2>1, <2>2
<1> QED BY <1>9, <1>10

LEMMA PrivateLineRemembered ==
    ASSUME NEW rows \in Seq(MessageRow), NEW row \in MessageRow, row.private,
           NEW lines \in Seq(ChatLines), Remembers(lines, rows)
    PROVE  Remembers(lines, Append(rows, row))
<1>1. PICK more : more = Append(rows, row)
  OBVIOUS
<1>2. Public(more) = Public(rows)
  BY <1>1, PrivateRow
<1>3. \A i : Behind(more, i) = Behind(rows, i)
  BY <1>1, PrivateRow
<1>4. \A i \in Public(rows) : more[i] = rows[i]
  BY <1>1, PrivateRow
<1>5. AreNewest(lines, more)
  BY <1>2, <1>3, <1>4 DEF Remembers, AreNewest
<1> QED BY <1>1, <1>2, <1>5 DEF Remembers

LEMMA NothingRemembered ==
    ASSUME NEW rows \in Seq(MessageRow), restarts = 0 /\ FreshIds => rows = <<>>
    PROVE  Remembers(<<>>, rows)
<1>1. rows = <<>> => Public(rows) = {}
  BY DEF Public
<1>2. Cardinality({}) = 0 /\ Len(<<>>) = 0
  BY FS_EmptySet
<1>3. 0 <= Cardinality(Public(rows))
  BY PublicIs
<1>4. AreNewest(<<>>, rows)
  BY <1>2, <1>3 DEF AreNewest
<1>5. restarts = 0 /\ FreshIds => Cardinality(Public(rows)) = 0
  BY <1>1, <1>2
<1>6. 0 <= MAX_MESSAGE_HISTORY
  BY HistoryAssumption
<1> QED BY <1>2, <1>4, <1>5, <1>6 DEF Remembers

LEMMA NextSaved == SavedInv /\ [Next]_vars => SavedInv'
<1> SUFFICES ASSUME SavedInv, [Next]_vars, NEW r \in live'
             PROVE  Remembers(chatRooms[r].history, dbMessages[r])'
  BY NextStore DEF SavedInv
<1>0. StateTypeOK /\ HistoryStep /\ StateTypeOK'
  BY NextHistory, NextType DEF SavedInv, StoreInv
<1>1. r \in RoomIds
  BY <1>0 DEF StateTypeOK
<1>2. /\ chatRooms[r] \in Room /\ chatRooms[r].history \in Seq(ChatLines)
      /\ dbMessages[r] \in Seq(MessageRow) /\ second \in Nat
      /\ r \in live => Remembers(chatRooms[r].history, dbMessages[r])
  BY <1>0, <1>1, HistoryTypes DEF SavedInv, StateTypeOK
<1>3. restarts' = 0 => restarts = 0
  BY <1>0 DEF HistoryStep
<1>4. ASSUME NEW lines, NEW rows, Remembers(lines, rows),
             chatRooms'[r].history = lines, dbMessages'[r] = rows
      PROVE  Remembers(chatRooms[r].history, dbMessages[r])'
  BY <1>3, <1>4 DEF Remembers, AreNewest, Public, Behind
<1>5. CASE LinesStay(r)
  BY <1>2, <1>4, <1>5 DEF LinesStay
<1>6. CASE LinesBegin(r)
  <2>1. restarts = 0 /\ FreshIds => dbMessages[r] = <<>>
    BY <1>1, <1>6 DEF LinesBegin, SavedInv, StoreInv, MirrorInv, NoTrace
  <2>2. Remembers(<<>>, dbMessages[r])
    BY <1>2, <2>1, NothingRemembered
  <2> QED BY <1>4, <1>6, <2>2 DEF LinesBegin
<1>7. CASE LineSaid(r)
  <2>1. PICK m \in Message :
            /\ r \in live
            /\ dbMessages'[r] = Append(dbMessages[r], RowOf(m))
            /\ chatRooms'[r].history =
                  IF m.private THEN chatRooms[r].history
                  ELSE AddMessageToHistory(chatRooms[r], <<m.senderName, m.content>>).history
    BY <1>7 DEF LineSaid
  <2>2. /\ RowOf(m) \in MessageRow /\ RowOf(m).private = m.private
        /\ LineOf(RowOf(m)) = <<m.senderName, m.content>> /\ LineOf(RowOf(m)) \in ChatLines
        /\ m.private \in BOOLEAN
    BY <1>2, RowType DEF RowOf, LineOf, Message, ChatLines
  <2>3. CASE m.private
    <3>1. Remembers(chatRooms[r].history, Append(dbMessages[r], RowOf(m)))
      BY <1>2, <2>1, <2>2, <2>3, PrivateLineRemembered
    <3> QED BY <1>4, <2>1, <2>3, <3>1
  <2>4. CASE ~m.private
    <3>1. Remembers(AddMessageToHistory(chatRooms[r], LineOf(RowOf(m))).history,
                    Append(dbMessages[r], RowOf(m)))
      BY <1>2, <2>1, <2>2, <2>4, PublicLineRemembered
    <3> QED BY <1>4, <2>1, <2>2, <2>4, <3>1
  <2> QED BY <2>3, <2>4
<1>8. CASE LinesVanish(r)
  BY <1>8 DEF LinesVanish
<1> QED BY <1>0, <1>1, <1>5, <1>6, <1>7, <1>8 DEF HistoryStep

\* What a room remembers is the newest of what was saved of it, in any run; up to
\* the first restart, if no id of a live room is drawn again, all of it or as much
\* as a room holds.
THEOREM HistoryIsTail == Spec => []HistoryIsSaved
<1>1. Init => SavedInv
  BY InitStore DEF Init, SavedInv
<1>2. SavedInv => HistoryIsSaved
  <2> SUFFICES ASSUME SavedInv, NEW r \in live
               PROVE  LET remembered == chatRooms[r].history
                          saved == Cardinality(PublicRows(r))
                      IN  /\ Len(remembered) <= saved
                          /\ remembered = Newest(r, Len(remembered))
                          /\ restarts = 0 /\ FreshIds =>
                               Len(remembered) \in {saved, MAX_MESSAGE_HISTORY}
    BY DEF HistoryIsSaved
  <2>1. PICK lines, rows, size : /\ lines = chatRooms[r].history /\ rows = dbMessages[r]
                                 /\ size = Len(lines)
    OBVIOUS
  <2>2. r \in RoomIds /\ StateTypeOK
    BY DEF SavedInv, StoreInv, StateTypeOK
  <2>3. /\ lines \in Seq(ChatLines) /\ rows \in Seq(MessageRow) /\ size \in Nat
        /\ AreNewest(lines, rows)
        /\ restarts = 0 /\ FreshIds =>
             size \in {Cardinality(Public(rows)), MAX_MESSAGE_HISTORY}
    BY <2>1, <2>2, HistoryTypes DEF SavedInv, Remembers
  <2>4. PublicRows(r) = Public(rows)
    BY <2>1 DEF PublicRows, Public
  <2>5. size <= Cardinality(Public(rows)) /\ Cardinality(Public(rows)) \in Nat
    BY <2>1, <2>3, PublicIs DEF AreNewest
  <2>6. AtMost(size, r) = size
    BY <2>3, <2>4, <2>5 DEF AtMost
  <2> DEFINE NthNewest(n) ==
                 CHOOSE i \in PublicRows(r) :
                     Cardinality({j \in PublicRows(r) : j > i}) = n - 1
  <2>7. ASSUME NEW k \in 1 .. size PROVE lines[k] = LineOf(rows[NthNewest(size - k + 1)])
    <3>1. PICK i \in Public(rows) : /\ Cardinality(Behind(rows, i)) = size - k
                                    /\ lines[k] = LineOf(rows[i])
      BY <2>1, <2>3 DEF AreNewest
    <3>2. PICK j : j = NthNewest(size - k + 1)
      OBVIOUS
    <3>3. (size - k + 1) - 1 = size - k
      BY <2>3
    <3>4. j = CHOOSE l \in Public(rows) : Cardinality(Behind(rows, l)) = size - k
      BY <2>4, <3>2, <3>3 DEF Behind
    <3>5. j \in Public(rows) /\ Cardinality(Behind(rows, j)) = size - k
      BY <3>1, <3>4
    <3>6. i = j
      BY <2>3, <3>1, <3>5, OneRowHasThem
    <3> QED BY <3>1, <3>2, <3>6
  <2>8. lines = Newest(r, size)
    <3>1. Newest(r, size) = [k \in 1 .. size |-> LineOf(rows[NthNewest(size - k + 1)])]
      BY <2>1, <2>6 DEF Newest
    <3> HIDE DEF NthNewest
    <3>2. lines = [k \in 1 .. size |-> lines[k]]
      BY <2>1, <2>3
    <3> QED BY <2>7, <3>1, <3>2
  <2> QED BY <2>1, <2>3, <2>4, <2>5, <2>8
<1> QED BY <1>1, <1>2, NextSaved, PTL DEF Spec

(***************************************************************************)
(* The lines a step sends.                                                  *)
(***************************************************************************)
LEMMA HistoryLines ==
    ASSUME StateTypeOK, NEW r \in RoomIds, NEW limit \in Nat
    PROVE  GetMessageHistory(r, limit) \in Seq(ChatLines)
<1> DEFINE S == PublicRows(r)
           B == [i \in S |-> Before(r, i)]
           Returned(n) == CHOOSE i \in S : Cardinality(Before(r, i)) = n - 1
           size == AtMost(limit, r)
<1>1. PICK rows : rows = dbMessages[r]
  OBVIOUS
<1>2. rows \in Seq(MessageRow) /\ S = Public(rows) /\ IsFiniteSet(S) /\ Cardinality(S) \in Nat
  BY <1>1, PublicIs DEF StateTypeOK, DatabaseTypeOK, PublicRows, Public
<1>3. /\ size \in Nat /\ size <= Cardinality(S)
  BY <1>2 DEF AtMost
<1>4. \A i \in S : i \in Nat /\ rows[i] \in MessageRow /\ rows[i].second \in Nat
  <2>1. \A i \in S : i \in Nat /\ rows[i] \in MessageRow
    BY <1>2 DEF Public
  <2> QED BY <2>1 DEF MessageRow
<1>5. \A i, j \in S : j \in Before(r, i) <=>
            \/ rows[j].second > rows[i].second
            \/ rows[j].second = rows[i].second /\ j < i
  BY <1>1 DEF Before
<1>6. B \in [S -> SUBSET S]
  BY DEF Before
<1>7. \A i \in S : i \notin B[i]
  BY <1>4, <1>5
<1> HIDE DEF S
<1>8. ASSUME NEW i \in S, NEW j \in S, i \in Before(r, j)
      PROVE  Before(r, i) \subseteq Before(r, j)
  <2> SUFFICES ASSUME NEW k \in S, k \in Before(r, i) PROVE k \in Before(r, j)
    BY <1>6
  <2> QED BY <1>4, <1>5, <1>8
<1>9. \A i, j \in S : i # j => \/ i \in B[j] /\ B[i] \subseteq B[j]
                               \/ j \in B[i] /\ B[j] \subseteq B[i]
  <2> SUFFICES ASSUME NEW i \in S, NEW j \in S, i # j
               PROVE  \/ i \in Before(r, j) /\ Before(r, i) \subseteq Before(r, j)
                      \/ j \in Before(r, i) /\ Before(r, j) \subseteq Before(r, i)
    OBVIOUS
  <2>1. i \in Before(r, j) \/ j \in Before(r, i)
    BY <1>4, <1>5
  <2> QED BY <1>8, <2>1
<1>10. ASSUME NEW n \in 1 .. size PROVE Returned(n) \in S
  <2>1. n \in 1 .. Cardinality(S)
    BY <1>2, <1>3
  <2> HIDE DEF B
  <2>2. \E i \in S : Cardinality(B[i]) = n - 1
    BY <1>2, <1>6, <1>7, <1>9, <2>1, EveryRank
  <2>3. \E i \in S : Cardinality(Before(r, i)) = n - 1
    BY <2>2 DEF B
  <2> QED BY <2>3
<1>11. GetMessageHistory(r, limit)
         = [k \in 1 .. size |-> LineOf(rows[Returned(size - k + 1)])]
  BY <1>1 DEF GetMessageHistory, S
<1> HIDE DEF Returned, size
<1>12. \A k \in 1 .. size : LineOf(rows[Returned(size - k + 1)]) \in ChatLines
  <2> SUFFICES ASSUME NEW k \in 1 .. size
               PROVE  LineOf(rows[Returned(size - k + 1)]) \in ChatLines
    OBVIOUS
  <2>1. size - k + 1 \in 1 .. size
    BY <1>3
  <2>2. rows[Returned(size - k + 1)] \in MessageRow
    BY <1>4, <1>10, <2>1
  <2> QED BY <2>2 DEF LineOf, MessageRow, ChatLines
<1> QED BY <1>3, <1>11, <1>12, IsASeq

\* A step sends lines of the protocol.
SendsLines == out' \in [Sockets -> Seq(Line)]

LEMMA Lines ==
    /\ \A kind \in LineKinds :
          /\ Plain(kind) \in Line
          /\ \A r \in RoomIds : <<kind, r>> \in Line
          /\ \A password \in Passwords \cup {NoPassword} : <<kind, password>> \in Line
          /\ \A line \in ChatLines : <<kind, line>> \in Line
BY DEF Line, LineKinds, Plain

LEMMA SendTypes ==
    ASSUME NEW L
    PROVE  /\ \A to : \A lines \in Seq(L) : Send(to, lines) \in [Sockets -> Seq(L)]
           /\ \A a, b \in [Sockets -> Seq(L)] : a ++ b \in [Sockets -> Seq(L)]
           /\ Silence \in [Sockets -> Seq(L)]
<1>1. \A to : \A lines \in Seq(L) : Send(to, lines) \in [Sockets -> Seq(L)]
  BY DEF Send
<1>2. \A a, b \in [Sockets -> Seq(L)] : a ++ b \in [Sockets -> Seq(L)]
  BY DEF ++
<1>3. Silence \in [Sockets -> Seq(L)]
  BY <1>1, <<>> \in Seq(L) DEF Silence
<1> QED BY <1>1, <1>2, <1>3

\* One line to some handles, and one after another.
LEMMA Sends ==
    /\ \A kind \in LineKinds : \A to :
          Send(to, <<Plain(kind)>>) \in [Sockets -> Seq(Line)]
    /\ \A line \in Line : \A to : Send(to, <<line>>) \in [Sockets -> Seq(Line)]
    /\ \A a, b \in [Sockets -> Seq(Line)] : a ++ b \in [Sockets -> Seq(Line)]
    /\ Silence \in [Sockets -> Seq(Line)]
    /\ \A s : Notice(s) \in [Sockets -> Seq(Line)]
    /\ \A t : ToRoomOf(t, "SYSTEM") \in [Sockets -> Seq(Line)]
    /\ \A t : Expelled(t) \in [Sockets -> Seq(Line)]
    /\ \A s, t : Succession(s, t) \in [Sockets -> Seq(Line)]
<1>1. \A kind \in LineKinds : <<Plain(kind)>> \in Seq(Line)
  BY Lines
<1>2. \A line \in Line : \A to : Send(to, <<line>>) \in [Sockets -> Seq(Line)]
  <2>1. \A line \in Line : <<line>> \in Seq(Line)
    OBVIOUS
  <2> QED BY <2>1, SendTypes
<1>3. \A kind \in LineKinds : \A to :
          Send(to, <<Plain(kind)>>) \in [Sockets -> Seq(Line)]
  BY <1>1, SendTypes
<1>4. {"SYSTEM", "OWNERSHIP_RECEIVED", "KICKED_FROM_ROOM"} \subseteq LineKinds
  BY DEF LineKinds
<1>5. \A s : Notice(s) \in [Sockets -> Seq(Line)]
  BY <1>3, <1>4 DEF Notice
<1>6. \A t : ToRoomOf(t, "SYSTEM") \in [Sockets -> Seq(Line)]
  BY <1>3, <1>4 DEF ToRoomOf
<1>7. \A t : Expelled(t) \in [Sockets -> Seq(Line)]
  <2>1. <<Plain("SYSTEM"), Plain("KICKED_FROM_ROOM")>> \in Seq(Line)
    BY <1>4, Lines
  <2> QED BY <1>6, <2>1, SendTypes DEF Expelled
<1>8. \A s, t : Succession(s, t) \in [Sockets -> Seq(Line)]
  BY <1>3, <1>4, <1>6, SendTypes DEF Succession
<1> QED BY <1>2, <1>3, <1>5, <1>6, <1>7, <1>8, SendTypes

LEMMA HistoryBlockType ==
    ASSUME StateTypeOK, NEW r \in RoomIds
    PROVE  HistoryBlock(r) \in Seq(Line)
<1> DEFINE saved == GetMessageHistory(r, MAX_MESSAGE_HISTORY)
<1>1. PICK history : history = IF saved = <<>> THEN chatRooms[r].history ELSE saved
  OBVIOUS
<1>2. history \in Seq(ChatLines)
  BY <1>1, HistoryLines, HistoryTypes, HistoryAssumption
<1>3. PICK lines : lines = [k \in DOMAIN history |-> <<"CHAT", history[k]>>]
  OBVIOUS
<1>4. lines \in Seq(Line)
  <2>1. DOMAIN history = 1 .. Len(history) /\ Len(history) \in Nat
        /\ \A k \in 1 .. Len(history) : history[k] \in ChatLines
    BY <1>2
  <2>2. \A k \in 1 .. Len(history) : <<"CHAT", history[k]>> \in Line
    BY <2>1, Lines DEF LineKinds
  <2> QED BY <1>3, <2>1, <2>2, IsASeq
<1>5. /\ Plain("MESSAGE_HISTORY_START") \in Line
      /\ Plain("MESSAGE_HISTORY_END") \in Line
  BY Lines DEF LineKinds
<1>6. HistoryBlock(r) = IF history = <<>> THEN <<>>
                        ELSE <<Plain("MESSAGE_HISTORY_START")>> \o lines
                                \o <<Plain("MESSAGE_HISTORY_END")>>
  BY <1>1, <1>3 DEF HistoryBlock
<1> QED BY <1>4, <1>5, <1>6

\* The handler answers.
LEMMA Replies ==
    ASSUME NEW s, NEW line \in Line, Reply(s, line)
    PROVE  SendsLines
BY Sends DEF Reply, SendsLines

LEMMA PlainReplies ==
    \A s, kind : Reply(s, Plain(kind)) /\ kind \in LineKinds => SendsLines
BY Lines, Replies

LEMMA CreateSends ==
    ASSUME NEW s, NEW isPrivate, NEW password, handleCreateCommand(s, isPrivate, password)
    PROVE  SendsLines
<1>1. CASE Reply(s, Plain("ERROR"))
  BY <1>1, PlainReplies DEF LineKinds
<1>2. ASSUME NEW r \in RoomIds, CreateRoom(s, isPrivate, password, r) PROVE SendsLines
  <2>1. <<"ROOM_CREATED", r>> \in Line
    BY Lines DEF LineKinds
  <2> QED BY <1>2, <2>1, Sends DEF CreateRoom, SendsLines
<1> QED BY <1>1, <1>2 DEF handleCreateCommand

LEMMA JoinSends ==
    ASSUME StateTypeOK, NEW s, NEW r \in RoomIds, NEW password, handleJoinCommand(s, r, password)
    PROVE  SendsLines
<1>1. CASE Reply(s, Plain(JoinRefusal(s, r, password)))
  BY <1>1, PlainReplies DEF LineKinds, JoinRefusal
<1>2. CASE JoinRoom(s, r)
  <2>1. <<<<"ROOM_JOINED", r>>>> \o HistoryBlock(r) \in Seq(Line)
    <3>1. <<"ROOM_JOINED", r>> \in Line
      BY Lines DEF LineKinds
    <3>2. HistoryBlock(r) \in Seq(Line)
      BY HistoryBlockType
    <3> QED BY <3>1, <3>2
  <2>2. Send({s}, <<<<"ROOM_JOINED", r>>>> \o HistoryBlock(r)) \in [Sockets -> Seq(Line)]
    BY <2>1, SendTypes
  <2>3. Send(chatRooms[r].clients \ {s}, <<Plain("SYSTEM")>>) \in [Sockets -> Seq(Line)]
    BY Sends DEF LineKinds
  <2>4. Notice(s) \in [Sockets -> Seq(Line)]
    BY Sends
  <2> QED BY <1>2, <2>2, <2>3, <2>4, Sends DEF JoinRoom, SendsLines
<1> QED BY <1>1, <1>2 DEF handleJoinCommand

LEMMA RoomCommandSends ==
    ASSUME StateTypeOK, NEW s \in connected,
           \/ handleGetPasswordCommand(s) \/ handleListCommand(s) \/ handleUsersCommand(s)
           \/ handleLeaveCommand(s) \/ handleForceLeaveCommand(s) \/ handleChatMessage(s)
           \/ \E password \in Passwords \cup {NoPassword} :
                  handleChangePasswordCommand(s, password)
    PROVE  SendsLines
<1>1. ASSUME NEW kind \in LineKinds, Reply(s, Plain(kind)) PROVE SendsLines
  BY <1>1, PlainReplies
<1>2. {"ERROR", "ROOMS_LIST", "USERS_LIST", "OWNER_LEAVE_WARNING", "LEFT_ROOM",
       "PASSWORD_CHANGED", "ROOM_PASSWORD"} \subseteq LineKinds
  BY DEF LineKinds
<1>3. CASE handleGetPasswordCommand(s)
  <2>1. CASE Reply(s, Plain("ERROR"))
    BY <1>1, <1>2, <2>1
  <2>2. CASE clients[s].roomId \in live
             /\ Reply(s, <<"ROOM_PASSWORD", chatRooms[clients[s].roomId].password>>)
    <3>1. chatRooms[clients[s].roomId] \in Room
      BY <2>2 DEF StateTypeOK
    <3>2. <<"ROOM_PASSWORD", chatRooms[clients[s].roomId].password>> \in Line
      BY <1>2, <3>1, Lines DEF Room
    <3> QED BY <2>2, <3>2, Replies
  <2> QED BY <1>3, <2>1, <2>2 DEF handleGetPasswordCommand
<1>4. CASE handleListCommand(s) \/ handleUsersCommand(s)
  BY <1>1, <1>2, <1>4 DEF handleListCommand, handleUsersCommand
<1>5. CASE handleLeaveCommand(s)
  BY <1>1, <1>2, <1>5, Sends DEF handleLeaveCommand, SendsLines
<1>6. CASE handleForceLeaveCommand(s)
  <2>1. Notice(s) ++ Send({s}, <<Plain("LEFT_ROOM")>>) \in [Sockets -> Seq(Line)]
    BY <1>2, Sends
  <2>2. \A t : Succession(s, t) ++ (Notice(s) ++ Send({s}, <<Plain("LEFT_ROOM")>>))
                  \in [Sockets -> Seq(Line)]
    BY <2>1, Sends
  <2> QED BY <1>1, <1>2, <1>6, <2>1, <2>2 DEF handleForceLeaveCommand, SendsLines
<1>7. CASE handleChatMessage(s)
  BY <1>1, <1>2, <1>7, Sends DEF handleChatMessage, Enqueue, SendsLines
<1>8. ASSUME NEW password \in Passwords \cup {NoPassword},
             handleChangePasswordCommand(s, password)
      PROVE  SendsLines
  <2>1. <<"PASSWORD_CHANGED", password>> \in Line
    BY <1>2, Lines
  <2>2. Send({s}, <<<<"PASSWORD_CHANGED", password>>>>) ++ Notice(s)
            \in [Sockets -> Seq(Line)]
    BY <2>1, Sends
  <2> QED BY <1>1, <1>2, <1>8, <2>2 DEF handleChangePasswordCommand, SendsLines
<1> QED BY <1>3, <1>4, <1>5, <1>6, <1>7, <1>8

LEMMA MemberCommandSends ==
    ASSUME StateTypeOK, NEW s \in connected, NEW name \in Usernames,
           \/ handleSetNameCommand(s, name) \/ handleKickCommand(s, name)
           \/ handleBanCommand(s, name) \/ handleTransferCommand(s, name)
           \/ handlePrivateMessage(s, name)
    PROVE  SendsLines
<1>1. ASSUME NEW kind \in LineKinds, Reply(s, Plain(kind)) PROVE SendsLines
  BY <1>1, PlainReplies
<1>2. {"ERROR", "NAME_TAKEN", "NAME_SET", "SUCCESS", "OWNERSHIP_RECEIVED"}
          \subseteq LineKinds
  BY DEF LineKinds
<1>3. CASE handleSetNameCommand(s, name)
  BY <1>1, <1>2, <1>3, Sends DEF handleSetNameCommand, SendsLines
<1>4. CASE handleKickCommand(s, name)
  BY <1>1, <1>2, <1>4, Sends DEF handleKickCommand, SendsLines
<1>5. CASE handleBanCommand(s, name)
  <2>1. Send({s}, <<Plain("SUCCESS")>>) \in [Sockets -> Seq(Line)]
    BY <1>2, Sends
  <2>2. \A t : Expelled(t) ++ Send({s}, <<Plain("SUCCESS")>>) \in [Sockets -> Seq(Line)]
    BY <2>1, Sends
  <2> QED BY <1>1, <1>2, <1>5, <2>1, <2>2 DEF handleBanCommand, SendsLines
<1>6. CASE handleTransferCommand(s, name)
  <2>1. \A t : (ToRoomOf(s, "SYSTEM") ++ Send({s}, <<Plain("SUCCESS")>>))
                   ++ Send({t}, <<Plain("OWNERSHIP_RECEIVED")>>) \in [Sockets -> Seq(Line)]
    BY <1>2, Sends
  <2> QED BY <1>1, <1>2, <1>6, <2>1 DEF handleTransferCommand, SendsLines
<1>7. CASE handlePrivateMessage(s, name)
  BY <1>1, <1>2, <1>7, Sends DEF handlePrivateMessage, Enqueue, SendsLines
<1> QED BY <1>3, <1>4, <1>5, <1>6, <1>7

\* What the broadcaster does with a message.
LEMMA DeliverySends ==
    ASSUME StateTypeOK, NEW m \in Message,
           DropMessage(m) \/ DeliverPrivate(m) \/ DeliverPublic(m)
    PROVE  SendsLines
<1> DEFINE line == <<m.senderName, m.content>>
<1>1. {"ERROR", "CHAT", "PM_FROM", "PM_SENT"} \subseteq LineKinds
  BY DEF LineKinds
<1>2. line \in ChatLines
  BY DEF Message, ChatLines
<1> HIDE DEF line
<1>3. \A kind \in {"CHAT", "PM_FROM", "PM_SENT"} : <<kind, line>> \in Line
  BY <1>1, <1>2, Lines
<1>4. CASE DropMessage(m)
  BY <1>4, Sends DEF DropMessage, SendsLines
<1>5. CASE DeliverPublic(m)
  BY <1>3, <1>5, Sends DEF DeliverPublic, SendsLines, line
<1>6. CASE DeliverPrivate(m)
  <2>1. SendToSender(m, Plain("ERROR")) \in [Sockets -> Seq(Line)]
    BY <1>1, Sends DEF SendToSender
  <2>2. SendToSender(m, <<"PM_SENT", line>>) \in [Sockets -> Seq(Line)]
    BY <1>3, Sends DEF SendToSender
  <2>3. \A t : Send({t}, <<<<"PM_FROM", line>>>>) ++ SendToSender(m, <<"PM_SENT", line>>)
                  \in [Sockets -> Seq(Line)]
    BY <1>3, <2>2, Sends
  <2> QED BY <1>6, <2>1, <2>3 DEF DeliverPrivate, SendsLines, line
<1> QED BY <1>4, <1>5, <1>6

LEMMA NextSends == ASSUME StateTypeOK, Next PROVE SendsLines
<1>1. ASSUME NEW s \in Sockets, Accept(s) PROVE SendsLines
  BY <1>1, Sends DEF Accept, SendsLines, LineKinds
<1>2. ASSUME NEW s \in connected, handleClientMessage(s) PROVE SendsLines
  <2>1. ASSUME NEW name \in Usernames,
               \/ handleSetNameCommand(s, name) \/ handleKickCommand(s, name)
               \/ handleBanCommand(s, name) \/ handleTransferCommand(s, name)
               \/ handlePrivateMessage(s, name)
        PROVE  SendsLines
    BY <2>1, MemberCommandSends
  <2>2. ASSUME NEW password \in Passwords \cup {NoPassword},
               \/ handleCreateCommand(s, TRUE, password)
               \/ handleChangePasswordCommand(s, password)
               \/ \E r \in RoomIds : handleJoinCommand(s, r, password)
        PROVE  SendsLines
    BY <2>2, CreateSends, RoomCommandSends, JoinSends
  <2>3. CASE \/ handleCreateCommand(s, FALSE, NoPassword)
             \/ handleListCommand(s) \/ handleUsersCommand(s) \/ handleGetPasswordCommand(s)
             \/ handleLeaveCommand(s) \/ handleForceLeaveCommand(s) \/ handleChatMessage(s)
    BY <2>3, CreateSends, RoomCommandSends
  <2> QED BY <1>2, <2>1, <2>2, <2>3 DEF handleClientMessage
<1>3. ASSUME NEW s \in connected, handleClientDisconnect(s) PROVE SendsLines
  BY <1>3, Sends DEF handleClientDisconnect, SendsLines
<1>4. ASSUME out' = Silence PROVE SendsLines
  BY <1>4, Sends DEF SendsLines
<1>5. CASE \/ \E r \in RoomIds : cleanupEmptyRoom(r) \/ CrashInDelete(r)
           \/ Restart \/ Tick
  BY <1>4, <1>5 DEF cleanupEmptyRoom, CrashInDelete, NewProcess, Restart, Tick
<1>6. CASE broadcastMessages
  <2>1. Head(messageQueue) \in Message
    BY <1>6 DEF broadcastMessages, StateTypeOK
  <2> QED BY <1>6, <2>1, DeliverySends DEF broadcastMessages
<1> QED BY <1>1, <1>2, <1>3, <1>5, <1>6 DEF Next

\* Every step sends lines of the protocol, and every state is typed.
THEOREM TypesAndLines == Spec => []TypeOK
<1>1. Init => TypeOK
  BY InitType, SendTypes DEF Init, TypeOK
<1>2. TypeOK /\ [Next]_vars => TypeOK'
  <2> SUFFICES ASSUME TypeOK, [Next]_vars PROVE out' \in [Sockets -> Seq(Line)]
    BY NextType DEF TypeOK
  <2>1. CASE UNCHANGED vars
    BY <2>1 DEF vars, TypeOK
  <2> QED BY <2>1, NextSends DEF TypeOK, SendsLines
<1> QED BY <1>1, <1>2, PTL DEF Spec
===============================================================================
