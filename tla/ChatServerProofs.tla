--------------------------- MODULE ChatServerProofs ---------------------------
(***************************************************************************)
(* Proofs about ChatServer, for every set of handles, names, passwords and  *)
(* room ids and for every bound: types, unique names and bans.              *)
(***************************************************************************)
EXTENDS ChatServer, TLAPS

(***************************************************************************)
(* The room object's methods return rooms.                                  *)
(***************************************************************************)

\* A new room, and the value that stands for no room, are rooms.
LEMMA NewRoomType ==
    ASSUME NEW isPrivate \in BOOLEAN, NEW password \in Passwords \cup {NoPassword},
           NEW owner \in Sockets \cup {INVALID_SOCKET}
    PROVE  NewRoom(isPrivate, password, owner) \in Room
BY DEF NewRoom, Room

LEMMA NoRoomObjectType == NoRoomObject \in Room
BY NewRoomType DEF NoRoomObject

\* The methods that change a room return a room.
LEMMA RoomMethodsType ==
    ASSUME NEW room \in Room, NEW s \in Sockets
    PROVE  /\ RemoveClient(room, s) \in Room
           /\ AddClient(room, s) \in Room
           /\ SetOwner(room, s) \in Room
           /\ \A name \in Names : BanUser(room, name) \in Room
           /\ \A password \in Passwords \cup {NoPassword} :
                SetPassword(room, password) \in Room
<1>1. RemoveClient(room, s) \in Room
  BY DEF RemoveClient, Room
<1>2. AddClient(room, s) \in Room
  BY DEF AddClient, Room
<1>3. SetOwner(room, s) \in Room
  BY DEF SetOwner, Room
<1>4. \A name \in Names : BanUser(room, name) \in Room
  BY DEF BanUser, Room
<1>5. \A password \in Passwords \cup {NoPassword} : SetPassword(room, password) \in Room
  BY DEF SetPassword, Room
<1> QED BY <1>1, <1>2, <1>3, <1>4, <1>5

\* addMessageToHistory returns a room.
LEMMA AddMessageType ==
    ASSUME NEW room \in Room, NEW line \in ChatLines
    PROVE  AddMessageToHistory(room, line) \in Room
<1> DEFINE longer == Append(room.history, line)
<1>1. longer \in Seq(ChatLines) /\ longer # <<>>
  BY DEF Room
<1>2. Tail(longer) \in Seq(ChatLines)
  BY <1>1
<1> QED BY <1>1, <1>2 DEF AddMessageToHistory, Room

(***************************************************************************)
(* What the helpers of the server return in a well-typed state.             *)
(***************************************************************************)
LEMMA RoomsWithoutType ==
    ASSUME StateTypeOK, NEW s \in Sockets
    PROVE  RoomsWithout(s) \in [RoomIds -> Room]
BY RoomMethodsType DEF StateTypeOK, RoomsWithout

LEMMA SpawnCleanupType ==
    ASSUME StateTypeOK, NEW s \in Sockets, SpawnCleanup(s)
    PROVE  cleanups' \in [RoomIds -> Nat]
BY DEF StateTypeOK, SpawnCleanup, LeavesRoomEmpty

LEMMA LeaveRoomRecordType ==
    ASSUME StateTypeOK, NEW t \in Sockets
    PROVE  LeaveRoomRecord(t) \in [Sockets -> ClientInfo]
BY DEF StateTypeOK, LeaveRoomRecord, ClientInfo

\* Changing one client's record keeps the table typed.
LEMMA ClientUpdateType ==
    ASSUME NEW table \in [Sockets -> ClientInfo], NEW s \in Sockets,
           NEW username \in Usernames, NEW roomId \in RoomIds \cup {NoRoom},
           NEW flag \in BOOLEAN
    PROVE  /\ [table EXCEPT ![s] = [@ EXCEPT !.username = username]]
                \in [Sockets -> ClientInfo]
           /\ [table EXCEPT ![s] = [@ EXCEPT !.roomId = roomId]] \in [Sockets -> ClientInfo]
           /\ [table EXCEPT ![s] = [@ EXCEPT !.isRoomOwner = flag]] \in [Sockets -> ClientInfo]
           /\ [table EXCEPT ![s] = [@ EXCEPT !.roomId = roomId, !.isRoomOwner = flag]]
                \in [Sockets -> ClientInfo]
           /\ [table EXCEPT ![s] = NewClient] \in [Sockets -> ClientInfo]
BY DEF ClientInfo, NewClient, Usernames

(***************************************************************************)
(* Type correctness, one lemma per handler.                                 *)
(***************************************************************************)
LEMMA UnchangedType == ASSUME StateTypeOK, UNCHANGED state PROVE StateTypeOK'
BY DEF StateTypeOK, DatabaseTypeOK, state, memory, dbVars

\* Every operation of the store keeps its tables typed.
LEMMA DatabaseStepType ==
    ASSUME DatabaseTypeOK, NEW r \in RoomIds,
           \/ UNCHANGED dbVars
           \/ \E row \in MessageRow : SaveMessage(r, row)
           \/ \E row \in RoomRow : CreateRoomRow(r, row)
           \/ DeleteRoom(r)
           \/ \E name \in Names : UpdateRoomOwner(r, name) \/ AddBan(r, name)
           \/ \E password \in Passwords : UpdateRoomPassword(r, password)
    PROVE  DatabaseTypeOK'
<1>1. CASE UNCHANGED dbVars
  BY <1>1 DEF DatabaseTypeOK, dbVars
<1>2. ASSUME NEW row \in MessageRow, SaveMessage(r, row) PROVE DatabaseTypeOK'
  BY <1>2 DEF DatabaseTypeOK, SaveMessage
<1>3. ASSUME NEW row \in RoomRow, CreateRoomRow(r, row) PROVE DatabaseTypeOK'
  BY <1>3 DEF DatabaseTypeOK, CreateRoomRow
<1>4. CASE DeleteRoom(r)
  BY <1>4 DEF DatabaseTypeOK, DeleteRoom
<1>5. ASSUME NEW name \in Names, UpdateRoomOwner(r, name) PROVE DatabaseTypeOK'
  <2>1. dbRooms[r] # NoRow => [dbRooms[r] EXCEPT !.owner = name] \in RoomRow
    BY DEF DatabaseTypeOK, RoomRow, Usernames
  <2> QED BY <1>5, <2>1 DEF DatabaseTypeOK, UpdateRoomOwner
<1>6. ASSUME NEW name \in Names, AddBan(r, name) PROVE DatabaseTypeOK'
  BY <1>6 DEF DatabaseTypeOK, AddBan
<1>7. ASSUME NEW password \in Passwords, UpdateRoomPassword(r, password)
      PROVE  DatabaseTypeOK'
  <2>1. dbRooms[r] # NoRow => [dbRooms[r] EXCEPT !.password = password] \in RoomRow
    BY DEF DatabaseTypeOK, RoomRow
  <2> QED BY <1>7, <2>1 DEF DatabaseTypeOK, UpdateRoomPassword
<1> QED BY <1>1, <1>2, <1>3, <1>4, <1>5, <1>6, <1>7

LEMMA AcceptType ==
    ASSUME StateTypeOK, NEW s \in Sockets, Accept(s)
    PROVE  StateTypeOK'
<1>1. clients' \in [Sockets -> ClientInfo]
  BY ClientUpdateType DEF Accept, StateTypeOK, ClientInfo, NewClient, Usernames
<1> QED BY <1>1 DEF StateTypeOK, DatabaseTypeOK, dbVars, Accept

LEMMA SetNameType ==
    ASSUME StateTypeOK, NEW s \in connected, NEW name \in Usernames,
           handleSetNameCommand(s, name)
    PROVE  StateTypeOK'
<1>1. CASE UNCHANGED state
  BY <1>1, UnchangedType
<1>2. CASE /\ clients' = [clients EXCEPT ![s] = [@ EXCEPT !.username = name]]
           /\ UNCHANGED <<connected, live, chatRooms, cleanups, messageQueue, dbVars,
                          second, sends, restarts>>
  <2>1. clients' \in [Sockets -> ClientInfo]
    BY <1>2 DEF StateTypeOK, ClientInfo
  <2> QED BY <1>2, <2>1 DEF StateTypeOK, DatabaseTypeOK, dbVars
<1> QED BY <1>1, <1>2 DEF handleSetNameCommand, Reply

LEMMA CreateRoomType ==
    ASSUME StateTypeOK, NEW s \in connected, NEW isPrivate \in BOOLEAN,
           NEW password \in Passwords \cup {NoPassword}, NEW r \in RoomIds,
           CreateRoom(s, isPrivate, password, r)
    PROVE  StateTypeOK'
<1> DEFINE row == [isPrivate |-> isPrivate, owner |-> clients[s].username,
                   password |-> password]
<1>0. s \in Sockets
  BY DEF StateTypeOK
<1>1. chatRooms' \in [RoomIds -> Room]
  <2>1. AddClient(NewRoom(isPrivate, password, s), s) \in Room
    BY <1>0, NewRoomType, RoomMethodsType
  <2> QED BY <1>0, <2>1, RoomsWithoutType DEF CreateRoom
<1>2. cleanups' \in [RoomIds -> Nat]
  BY <1>0, SpawnCleanupType DEF CreateRoom
<1>3. clients' \in [Sockets -> ClientInfo]
  BY <1>0 DEF StateTypeOK, ClientInfo, CreateRoom
<1>4. DatabaseTypeOK'
  <2>1. row \in RoomRow
    BY <1>0 DEF StateTypeOK, ClientInfo, RoomRow
  <2>2. CreateRoomRow(r, row)
    BY DEF CreateRoom
  <2> QED BY <2>1, <2>2, DatabaseStepType DEF StateTypeOK
<1> QED BY <1>1, <1>2, <1>3, <1>4 DEF StateTypeOK, CreateRoom

LEMMA JoinRoomType ==
    ASSUME StateTypeOK, NEW s \in connected, NEW r \in RoomIds, JoinRoom(s, r)
    PROVE  StateTypeOK'
<1>0. s \in Sockets
  BY DEF StateTypeOK
<1>1. chatRooms' \in [RoomIds -> Room]
  BY <1>0, RoomsWithoutType, RoomMethodsType DEF JoinRoom
<1>2. cleanups' \in [RoomIds -> Nat]
  BY <1>0, SpawnCleanupType DEF JoinRoom
<1>3. clients' \in [Sockets -> ClientInfo]
  BY <1>0 DEF StateTypeOK, ClientInfo, JoinRoom
<1> QED BY <1>1, <1>2, <1>3 DEF StateTypeOK, DatabaseTypeOK, dbVars, JoinRoom

LEMMA ChangePasswordType ==
    ASSUME StateTypeOK, NEW s \in connected,
           NEW password \in Passwords \cup {NoPassword},
           handleChangePasswordCommand(s, password)
    PROVE  StateTypeOK'
<1> DEFINE r == clients[s].roomId
<1>1. CASE UNCHANGED state
  BY <1>1, UnchangedType
<1>2. CASE /\ r \in live /\ password # NoPassword
           /\ chatRooms' = [chatRooms EXCEPT ![r] = SetPassword(@, password)]
           /\ UpdateRoomPassword(r, password)
           /\ UNCHANGED <<connected, clients, live, cleanups, messageQueue, second,
                          sends, restarts>>
  <2>1. r \in RoomIds /\ s \in Sockets
    BY <1>2 DEF StateTypeOK
  <2>2. DatabaseTypeOK'
    BY <1>2, <2>1, DatabaseStepType DEF StateTypeOK
  <2>3. chatRooms' \in [RoomIds -> Room]
    BY <1>2, <2>1, RoomMethodsType DEF StateTypeOK
  <2> QED BY <1>2, <2>2, <2>3 DEF StateTypeOK
<1> QED BY <1>1, <1>2 DEF handleChangePasswordCommand, Reply

LEMMA KickType ==
    ASSUME StateTypeOK, NEW s \in connected, NEW name \in Usernames,
           handleKickCommand(s, name)
    PROVE  StateTypeOK'
<1>1. CASE UNCHANGED state
  BY <1>1, UnchangedType
<1>2. ASSUME NEW t \in findClientByUsername(name, clients[s].roomId),
             chatRooms' = RoomsWithout(t), clients' = LeaveRoomRecord(t),
             UNCHANGED <<connected, live, cleanups, messageQueue, dbVars, second,
                         sends, restarts>>
      PROVE  StateTypeOK'
  <2>1. t \in Sockets
    BY DEF findClientByUsername, StateTypeOK
  <2> QED BY <1>2, <2>1, RoomsWithoutType, LeaveRoomRecordType
          DEF StateTypeOK, DatabaseTypeOK, dbVars
<1> QED BY <1>1, <1>2 DEF handleKickCommand, Reply

LEMMA BanType ==
    ASSUME StateTypeOK, NEW s \in connected, NEW name \in Usernames,
           handleBanCommand(s, name)
    PROVE  StateTypeOK'
<1> DEFINE r == clients[s].roomId
<1>1. CASE UNCHANGED state
  BY <1>1, UnchangedType
<1>2. CASE /\ name # NoName /\ r \in live /\ AddBan(r, name)
           /\ \/ chatRooms' = Ban(r, chatRooms, name) /\ UNCHANGED clients
              \/ \E t \in findClientByUsername(name, r) :
                    /\ chatRooms' = Ban(r, RoomsWithout(t), name)
                    /\ clients' = LeaveRoomRecord(t)
           /\ UNCHANGED <<connected, live, cleanups, messageQueue, second, sends,
                          restarts>>
  <2>1. r \in RoomIds /\ s \in Sockets /\ name \in Names
    BY <1>2 DEF StateTypeOK, Usernames
  <2>2. DatabaseTypeOK'
    BY <1>2, <2>1, DatabaseStepType DEF StateTypeOK
  <2>3. \A rooms \in [RoomIds -> Room] : Ban(r, rooms, name) \in [RoomIds -> Room]
    BY <2>1, RoomMethodsType DEF Ban
  <2>4. findClientByUsername(name, r) \subseteq Sockets
    BY DEF findClientByUsername, StateTypeOK
  <2>5. chatRooms' \in [RoomIds -> Room] /\ clients' \in [Sockets -> ClientInfo]
    BY <1>2, <2>3, <2>4, RoomsWithoutType, LeaveRoomRecordType DEF StateTypeOK
  <2> QED BY <1>2, <2>2, <2>5 DEF StateTypeOK
<1> QED BY <1>1, <1>2 DEF handleBanCommand, Reply, NotForOwnerToDo

LEMMA TransferType ==
    ASSUME StateTypeOK, NEW s \in connected, NEW name \in Usernames,
           handleTransferCommand(s, name)
    PROVE  StateTypeOK'
<1> DEFINE r == clients[s].roomId
<1>1. CASE UNCHANGED state
  BY <1>1, UnchangedType
<1>2. ASSUME NEW t \in findClientByUsername(name, r),
             name # NoName, r \in live, UpdateRoomOwner(r, name),
             chatRooms' = [chatRooms EXCEPT ![r] = SetOwner(@, t)],
             clients' = [clients EXCEPT ![s] = [@ EXCEPT !.isRoomOwner = FALSE],
                                        ![t] = [@ EXCEPT !.isRoomOwner = TRUE]],
             UNCHANGED <<connected, live, cleanups, messageQueue, second, sends, restarts>>
      PROVE  StateTypeOK'
  <2>1. r \in RoomIds /\ s \in Sockets /\ t \in Sockets /\ name \in Names
    BY <1>2 DEF StateTypeOK, Usernames, findClientByUsername
  <2>2. DatabaseTypeOK'
    BY <1>2, <2>1, DatabaseStepType DEF StateTypeOK
  <2>3. chatRooms' \in [RoomIds -> Room]
    BY <1>2, <2>1, RoomMethodsType DEF StateTypeOK
  <2>4. clients' \in [Sockets -> ClientInfo]
    BY <1>2, <2>1 DEF StateTypeOK, ClientInfo
  <2> QED BY <1>2, <2>2, <2>3, <2>4 DEF StateTypeOK
<1> QED BY <1>1, <1>2 DEF handleTransferCommand, Reply, NotForOwnerToDo

LEMMA LeaveType ==
    ASSUME StateTypeOK, NEW s \in connected, handleLeaveCommand(s)
    PROVE  StateTypeOK'
<1>0. s \in Sockets
  BY DEF StateTypeOK
<1>1. CASE UNCHANGED state
  BY <1>1, UnchangedType
<1>2. CASE /\ SpawnCleanup(s)
           /\ chatRooms' = RoomsWithout(s)
           /\ clients' = [clients EXCEPT ![s] = [@ EXCEPT !.roomId = NoRoom]]
           /\ UNCHANGED <<connected, live, messageQueue, dbVars, second, sends, restarts>>
  <2>1. clients' \in [Sockets -> ClientInfo]
    BY <1>0, <1>2, ClientUpdateType DEF StateTypeOK, ClientInfo
  <2> QED BY <1>0, <1>2, <2>1, RoomsWithoutType, SpawnCleanupType
          DEF StateTypeOK, DatabaseTypeOK, dbVars
<1> QED BY <1>1, <1>2 DEF handleLeaveCommand, Reply

LEMMA ForceLeaveType ==
    ASSUME StateTypeOK, NEW s \in connected, handleForceLeaveCommand(s)
    PROVE  StateTypeOK'
<1> DEFINE r == clients[s].roomId
<1>0. s \in Sockets
  BY DEF StateTypeOK
<1>1. CASE UNCHANGED state
  BY <1>1, UnchangedType
<1>2. CASE /\ SpawnCleanup(s)
           /\ \/ chatRooms' = RoomsWithout(s) /\ clients' = LeaveRoomRecord(s)
              \/ \E t \in connected :
                    /\ chatRooms' = [RoomsWithout(s) EXCEPT ![r] = SetOwner(@, t)]
                    /\ clients' = [LeaveRoomRecord(s) EXCEPT
                                      ![t] = [@ EXCEPT !.isRoomOwner = TRUE]]
           /\ UNCHANGED <<connected, live, messageQueue, dbVars, second, sends, restarts>>
  <2>1. \A t \in connected : [RoomsWithout(s) EXCEPT ![r] = SetOwner(@, t)]
                                \in [RoomIds -> Room]
    <3> TAKE t \in connected
    <3>1. t \in Sockets
      BY DEF StateTypeOK
    <3> QED BY <1>0, <3>1, RoomsWithoutType, RoomMethodsType
  <2>2. \A t \in connected : [LeaveRoomRecord(s) EXCEPT ![t] = [@ EXCEPT !.isRoomOwner = TRUE]]
                                \in [Sockets -> ClientInfo]
    <3>1. LeaveRoomRecord(s) \in [Sockets -> ClientInfo] /\ connected \subseteq Sockets
      BY <1>0, LeaveRoomRecordType DEF StateTypeOK
    <3> QED BY <3>1 DEF ClientInfo
  <2>3. chatRooms' \in [RoomIds -> Room] /\ clients' \in [Sockets -> ClientInfo]
    BY <1>0, <1>2, <2>1, <2>2, RoomsWithoutType, LeaveRoomRecordType
  <2>4. cleanups' \in [RoomIds -> Nat]
    BY <1>0, <1>2, SpawnCleanupType
  <2> QED BY <1>2, <2>3, <2>4 DEF StateTypeOK, DatabaseTypeOK, dbVars
<1> QED BY <1>1, <1>2 DEF handleForceLeaveCommand, Reply

LEMMA EnqueueType ==
    ASSUME StateTypeOK, NEW s \in connected, NEW private \in BOOLEAN,
           NEW recipient \in Usernames, clients[s].roomId # NoRoom,
           Enqueue(s, private, recipient)
    PROVE  StateTypeOK'
<1>1. sends' \in Nat
  BY DEF StateTypeOK, Enqueue
<1>2. messageQueue' \in Seq(Message)
  BY <1>1 DEF StateTypeOK, Enqueue, Message, ClientInfo
<1> QED BY <1>1, <1>2 DEF StateTypeOK, DatabaseTypeOK, dbVars, Enqueue

LEMMA BroadcastType ==
    ASSUME StateTypeOK, broadcastMessages
    PROVE  StateTypeOK'
<1> DEFINE m == Head(messageQueue)
<1>1. m \in Message /\ messageQueue' \in Seq(Message)
  BY DEF StateTypeOK, broadcastMessages
<1>2. RowOf(m) \in MessageRow
  BY <1>1 DEF Message, MessageRow, RowOf, StateTypeOK
<1>3. CASE DropMessage(m)
  BY <1>1, <1>3 DEF StateTypeOK, DatabaseTypeOK, dbVars, broadcastMessages, DropMessage
<1>4. CASE DeliverPrivate(m)
  <2>1. DatabaseTypeOK' /\ chatRooms' = chatRooms
    BY <1>1, <1>2, <1>4, DatabaseStepType DEF DeliverPrivate, StateTypeOK, Message
  <2> QED BY <1>1, <2>1 DEF StateTypeOK, broadcastMessages
<1>5. CASE DeliverPublic(m)
  <2>1. DatabaseTypeOK'
    BY <1>1, <1>2, <1>5, DatabaseStepType DEF DeliverPublic, StateTypeOK, Message
  <2>2. <<m.senderName, m.content>> \in ChatLines
    BY <1>1 DEF Message, ChatLines
  <2>3. chatRooms' \in [RoomIds -> Room]
    BY <1>1, <1>5, <2>2, AddMessageType DEF DeliverPublic, StateTypeOK, Message
  <2> QED BY <1>1, <2>1, <2>3 DEF StateTypeOK, broadcastMessages
<1> QED BY <1>3, <1>4, <1>5 DEF broadcastMessages

LEMMA EraseRoomType ==
    ASSUME StateTypeOK, NEW r \in RoomIds, NEW rooms \in [RoomIds -> Room],
           EraseRoom(r, rooms)
    PROVE  live' \subseteq RoomIds /\ chatRooms' \in [RoomIds -> Room] /\ DatabaseTypeOK'
BY NoRoomObjectType, DatabaseStepType DEF EraseRoom, StateTypeOK

LEMMA CleanupType ==
    ASSUME StateTypeOK, NEW r \in RoomIds, cleanupEmptyRoom(r)
    PROVE  StateTypeOK'
<1>1. cleanups' \in [RoomIds -> Nat]
  BY DEF StateTypeOK, cleanupEmptyRoom
<1>2. live' \subseteq RoomIds /\ chatRooms' \in [RoomIds -> Room] /\ DatabaseTypeOK'
  <2>1. CASE EraseRoom(r, chatRooms)
    BY <2>1, EraseRoomType DEF StateTypeOK
  <2>2. CASE UNCHANGED <<live, chatRooms, dbVars>>
    BY <2>2 DEF StateTypeOK, DatabaseTypeOK, dbVars
  <2> QED BY <2>1, <2>2 DEF cleanupEmptyRoom
<1> QED BY <1>1, <1>2 DEF StateTypeOK, cleanupEmptyRoom

LEMMA DisconnectType ==
    ASSUME StateTypeOK, NEW s \in connected, handleClientDisconnect(s)
    PROVE  StateTypeOK'
<1>0. s \in Sockets
  BY DEF StateTypeOK
<1>1. clients' \in [Sockets -> ClientInfo]
  BY <1>0 DEF handleClientDisconnect, StateTypeOK, ClientInfo, NewClient, Usernames
<1>2. live' \subseteq RoomIds /\ chatRooms' \in [RoomIds -> Room] /\ DatabaseTypeOK'
  <2>1. CASE LeavesRoomEmpty(s)
    <3>1. clients[s].roomId \in RoomIds
      BY <2>1 DEF LeavesRoomEmpty, StateTypeOK
    <3> QED BY <1>0, <2>1, <3>1, RoomsWithoutType, EraseRoomType DEF handleClientDisconnect
  <2>2. CASE ~LeavesRoomEmpty(s)
    BY <1>0, <2>2, RoomsWithoutType
       DEF handleClientDisconnect, StateTypeOK, DatabaseTypeOK, dbVars
  <2> QED BY <2>1, <2>2
<1> QED BY <1>1, <1>2 DEF StateTypeOK, handleClientDisconnect

LEMMA NewProcessType ==
    ASSUME StateTypeOK, NewProcess, DatabaseTypeOK'
    PROVE  StateTypeOK'
<1>1. NewClient \in ClientInfo
  BY DEF NewClient, ClientInfo, Usernames
<1> QED BY <1>1, NoRoomObjectType
        DEF NewProcess, StateTypeOK, NoClients, NoRooms, NoCleanups

LEMMA RestartType ==
    ASSUME StateTypeOK, Restart
    PROVE  StateTypeOK'
BY NewProcessType DEF Restart, StateTypeOK, DatabaseTypeOK, dbVars

LEMMA CrashType ==
    ASSUME StateTypeOK, NEW r \in RoomIds, CrashInDelete(r)
    PROVE  StateTypeOK'
<1>1. DatabaseTypeOK'
  BY DEF CrashInDelete, DeleteRoomPartly, StateTypeOK, DatabaseTypeOK
<1> QED BY <1>1, NewProcessType DEF CrashInDelete

\* The initial state is typed.
LEMMA InitType == Init => StateTypeOK
<1>1. NewClient \in ClientInfo
  BY DEF NewClient, ClientInfo, Usernames
<1> QED BY <1>1, NoRoomObjectType
        DEF Init, StateTypeOK, DatabaseTypeOK, DatabaseInit, NoClients, NoRooms, NoCleanups

\* Every command a client sends keeps the state typed.
LEMMA ClientMessageType ==
    ASSUME StateTypeOK, NEW s \in connected, handleClientMessage(s)
    PROVE  StateTypeOK'
<1>1. ASSUME NEW name \in Usernames,
             \/ handleSetNameCommand(s, name) \/ handleKickCommand(s, name)
             \/ handleBanCommand(s, name) \/ handleTransferCommand(s, name)
      PROVE  StateTypeOK'
  BY <1>1, SetNameType, KickType, BanType, TransferType
<1>2. ASSUME NEW name \in Usernames, handlePrivateMessage(s, name) PROVE StateTypeOK'
  BY <1>2, EnqueueType, UnchangedType DEF handlePrivateMessage, Reply
<1>3. ASSUME NEW isPrivate \in BOOLEAN, NEW password \in Passwords \cup {NoPassword},
             handleCreateCommand(s, isPrivate, password)
      PROVE  StateTypeOK'
  BY <1>3, CreateRoomType, UnchangedType DEF handleCreateCommand, Reply
<1>4. ASSUME NEW password \in Passwords \cup {NoPassword},
             \/ handleChangePasswordCommand(s, password)
             \/ \E r \in RoomIds : handleJoinCommand(s, r, password)
      PROVE  StateTypeOK'
  BY <1>4, ChangePasswordType, JoinRoomType, UnchangedType DEF handleJoinCommand, Reply
<1>5. CASE handleLeaveCommand(s) \/ handleForceLeaveCommand(s)
  BY <1>5, LeaveType, ForceLeaveType
<1>6. CASE handleListCommand(s) \/ handleUsersCommand(s) \/ handleGetPasswordCommand(s)
  BY <1>6, UnchangedType
     DEF handleListCommand, handleUsersCommand, handleGetPasswordCommand, Reply
<1>7. CASE handleChatMessage(s)
  <2>1. NoName \in Usernames
    BY DEF Usernames
  <2> QED BY <1>7, <2>1, EnqueueType, UnchangedType DEF handleChatMessage, Reply
<1> QED BY <1>1, <1>2, <1>3, <1>4, <1>5, <1>6, <1>7 DEF handleClientMessage

\* Every step keeps the state typed.
LEMMA NextType == StateTypeOK /\ [Next]_vars => StateTypeOK'
<1> SUFFICES ASSUME StateTypeOK, [Next]_vars PROVE StateTypeOK'
  OBVIOUS
<1>1. ASSUME NEW s \in Sockets, Accept(s) PROVE StateTypeOK'
  BY <1>1, AcceptType
<1>2. ASSUME NEW s \in connected, handleClientMessage(s) \/ handleClientDisconnect(s)
      PROVE  StateTypeOK'
  BY <1>2, ClientMessageType, DisconnectType
<1>3. CASE broadcastMessages
  BY <1>3, BroadcastType
<1>4. ASSUME NEW r \in RoomIds, cleanupEmptyRoom(r) PROVE StateTypeOK'
  BY <1>4, CleanupType
<1>5. CASE Restart
  BY <1>5, RestartType
<1>6. CASE Tick
  BY <1>6 DEF Tick, StateTypeOK, DatabaseTypeOK, memory, dbVars
<1>7. ASSUME NEW r \in RoomIds, CrashInDelete(r) PROVE StateTypeOK'
  BY <1>7, CrashType
<1>8. CASE UNCHANGED vars
  BY <1>8, UnchangedType DEF vars
<1> QED BY <1>1, <1>2, <1>3, <1>4, <1>5, <1>6, <1>7, <1>8 DEF Next

\* The server's tables, rooms, queue and database rows are always well typed,
\* whatever the handles, names and ids and whatever the bounds.
THEOREM TypeCorrect == Spec => []StateTypeOK
BY InitType, NextType, PTL DEF Spec

(***************************************************************************)
(* Usernames stay unique, and a banned name stays out, in every instance.   *)
(* Most steps rename nobody, and take a client to no other room than its    *)
(* own new one.  The two that do, SETNAME and JOIN, ask first.              *)
(***************************************************************************)
SameNames == \A u \in connected : clients'[u].username = clients[u].username

StayOut ==
    \A u \in connected : \/ clients'[u].roomId \in {clients[u].roomId, NoRoom}
                         \/ clients'[u].isRoomOwner

LEMMA LeaveRoomRecordClients ==
    ASSUME StateTypeOK, NEW t \in Sockets
    PROVE  \A u \in Sockets :
                /\ LeaveRoomRecord(t)[u].username = clients[u].username
                /\ LeaveRoomRecord(t)[u].roomId \in {clients[u].roomId, NoRoom}
<1>1. clients[t] \in ClientInfo
  BY DEF StateTypeOK
<1>2. LeaveRoomRecord(t)[t] = [clients[t] EXCEPT !.roomId = NoRoom, !.isRoomOwner = FALSE]
  BY DEF LeaveRoomRecord, StateTypeOK
<1>3. \A u \in Sockets \ {t} : LeaveRoomRecord(t)[u] = clients[u]
  BY DEF LeaveRoomRecord, StateTypeOK
<1>4. /\ LeaveRoomRecord(t)[t].username = clients[t].username
      /\ LeaveRoomRecord(t)[t].roomId = NoRoom
  BY <1>1, <1>2 DEF ClientInfo
<1> QED BY <1>3, <1>4

\* KICK, BAN and a FORCELEAVE without successor.
LEMMA ExpelClients ==
    ASSUME StateTypeOK, NEW t \in Sockets, clients' = LeaveRoomRecord(t)
    PROVE  SameNames /\ StayOut
BY LeaveRoomRecordClients DEF SameNames, StayOut, StateTypeOK

LEMMA LeaveClients ==
    ASSUME StateTypeOK, NEW s \in Sockets,
           clients' = [clients EXCEPT ![s] = [@ EXCEPT !.roomId = NoRoom]]
    PROVE  SameNames /\ StayOut
<1>1. clients[s] \in ClientInfo /\ connected \subseteq Sockets
  BY DEF StateTypeOK
<1>2. /\ clients'[s] = [clients[s] EXCEPT !.roomId = NoRoom]
      /\ \A u \in Sockets \ {s} : clients'[u] = clients[u]
  BY DEF StateTypeOK
<1>3. clients'[s].username = clients[s].username /\ clients'[s].roomId = NoRoom
  BY <1>1, <1>2 DEF ClientInfo
<1> QED BY <1>1, <1>2, <1>3 DEF SameNames, StayOut

\* A FORCELEAVE with a successor t.
LEMMA SucceedClients ==
    ASSUME StateTypeOK, NEW s \in Sockets, NEW t \in Sockets,
           clients' = [LeaveRoomRecord(s) EXCEPT ![t] = [@ EXCEPT !.isRoomOwner = TRUE]]
    PROVE  SameNames /\ StayOut
<1>1. LeaveRoomRecord(s) \in [Sockets -> ClientInfo] /\ connected \subseteq Sockets
  BY LeaveRoomRecordType DEF StateTypeOK
<1>2. /\ clients'[t] = [LeaveRoomRecord(s)[t] EXCEPT !.isRoomOwner = TRUE]
      /\ \A u \in Sockets \ {t} : clients'[u] = LeaveRoomRecord(s)[u]
  BY <1>1
<1>3. /\ clients'[t].username = LeaveRoomRecord(s)[t].username
      /\ clients'[t].roomId = LeaveRoomRecord(s)[t].roomId
  BY <1>1, <1>2 DEF ClientInfo
<1> QED BY <1>1, <1>2, <1>3, LeaveRoomRecordClients DEF SameNames, StayOut

LEMMA TransferClients ==
    ASSUME StateTypeOK, NEW s \in Sockets, NEW t \in Sockets,
           clients' = [clients EXCEPT ![s] = [@ EXCEPT !.isRoomOwner = FALSE],
                                      ![t] = [@ EXCEPT !.isRoomOwner = TRUE]]
    PROVE  SameNames /\ StayOut
<1> DEFINE given == [clients EXCEPT ![s] = [@ EXCEPT !.isRoomOwner = FALSE]]
<1>1. clients[s] \in ClientInfo /\ connected \subseteq Sockets
  BY DEF StateTypeOK
<1>2. given \in [Sockets -> ClientInfo]
  BY <1>1 DEF StateTypeOK, ClientInfo
<1>3. \A u \in Sockets : /\ given[u].username = clients[u].username
                         /\ given[u].roomId = clients[u].roomId
  BY <1>1 DEF StateTypeOK, ClientInfo
<1>4. \A u \in Sockets : /\ clients'[u].username = given[u].username
                         /\ clients'[u].roomId = given[u].roomId
  <2>1. clients' = [given EXCEPT ![t] = [@ EXCEPT !.isRoomOwner = TRUE]]
    OBVIOUS
  <2> HIDE DEF given
  <2>2. clients'[t] = [given[t] EXCEPT !.isRoomOwner = TRUE] /\ given[t] \in ClientInfo
    BY <1>2, <2>1
  <2>3. \A u \in Sockets \ {t} : clients'[u] = given[u]
    BY <1>2, <2>1
  <2>4. clients'[t].username = given[t].username /\ clients'[t].roomId = given[t].roomId
    BY <2>2 DEF ClientInfo
  <2> QED BY <2>3, <2>4
<1> QED BY <1>1, <1>3, <1>4 DEF SameNames, StayOut

\* CREATE and JOIN.
LEMMA EnterClients ==
    ASSUME StateTypeOK, NEW s \in Sockets, NEW r, NEW owner \in BOOLEAN,
           clients' = [clients EXCEPT ![s] = [@ EXCEPT !.roomId = r, !.isRoomOwner = owner]]
    PROVE  /\ SameNames
           /\ clients'[s].roomId = r /\ clients'[s].isRoomOwner = owner
           /\ \A u \in Sockets \ {s} : clients'[u] = clients[u]
<1>1. clients[s] \in ClientInfo /\ connected \subseteq Sockets
  BY DEF StateTypeOK
<1>2. /\ clients'[s] = [clients[s] EXCEPT !.roomId = r, !.isRoomOwner = owner]
      /\ \A u \in Sockets \ {s} : clients'[u] = clients[u]
  BY DEF StateTypeOK
<1>6. \A rec \in ClientInfo :
         LET new == [rec EXCEPT !.roomId = r, !.isRoomOwner = owner]
         IN  new.username = rec.username /\ new.roomId = r /\ new.isRoomOwner = owner
  BY DEF ClientInfo
<1>3. clients'[s].username = clients[s].username
  BY <1>1, <1>2, <1>6, Zenon
<1>5. clients'[s].roomId = r
  BY <1>1, <1>2, <1>6, Zenon
<1>4. clients'[s].isRoomOwner = owner
  BY <1>1, <1>2, <1>6, Zenon
<1> QED BY <1>1, <1>2, <1>3, <1>4, <1>5 DEF SameNames

(***************************************************************************)
(* The steps.                                                               *)
(***************************************************************************)
\* A step that is neither SETNAME nor JOIN.
LEMMA Ordinary ==
    ASSUME StateTypeOK, UniqueNames, SameNames, StayOut, connected' \subseteq connected,
           \A b \in dbBans : b \in dbBans' \/ b[1] \notin live'
    PROVE  UniqueNames' /\ BansKept
<1>1. UniqueNames'
  BY DEF UniqueNames, SameNames
<1>2. \A b \in dbBans : b[1] # NoRoom
  BY RoomIdsAssumption DEF StateTypeOK, DatabaseTypeOK
<1>3. BansKept
  BY <1>2 DEF BansKept, StayOut
<1> QED BY <1>1, <1>3

LEMMA UnchangedClients ==
    ASSUME StateTypeOK, UniqueNames, UNCHANGED <<connected, clients, dbBans>>
    PROVE  UniqueNames' /\ BansKept
BY Ordinary DEF SameNames, StayOut

LEMMA SetNameClients ==
    ASSUME StateTypeOK, UniqueNames, NEW s \in connected, NEW name \in Usernames,
           handleSetNameCommand(s, name)
    PROVE  UniqueNames' /\ BansKept
<1>1. CASE UNCHANGED state
  BY <1>1, UnchangedClients DEF state, memory, dbVars
<1>2. CASE /\ isUsernameAvailable(name, s)
           /\ clients' = [clients EXCEPT ![s] = [@ EXCEPT !.username = name]]
           /\ UNCHANGED <<connected, dbBans>>
  <2>1. s \in Sockets /\ clients[s] \in ClientInfo /\ connected \subseteq Sockets
    BY DEF StateTypeOK
  <2>2. /\ clients'[s] = [clients[s] EXCEPT !.username = name]
        /\ \A u \in connected \ {s} : clients'[u] = clients[u]
    BY <1>2, <2>1 DEF StateTypeOK
  <2>3. clients'[s].username = name
    BY <2>1, <2>2 DEF ClientInfo
  <2>4. clients'[s].roomId = clients[s].roomId
    BY <2>1, <2>2 DEF ClientInfo
  <2>5. UniqueNames'
    BY <1>2, <2>2, <2>3 DEF UniqueNames, isUsernameAvailable
  <2>6. \A u \in connected : clients'[u].roomId = clients[u].roomId
    BY <2>2, <2>4
  <2>7. BansKept
    BY <1>2, <2>6 DEF BansKept
  <2> QED BY <2>5, <2>7
<1> QED BY <1>1, <1>2 DEF handleSetNameCommand, Reply, dbVars

\* JOIN asks the database for the ban of the name it lets in.
LEMMA JoinClients ==
    ASSUME StateTypeOK, UniqueNames, NEW s \in connected, NEW r \in RoomIds,
           NEW password, handleJoinCommand(s, r, password)
    PROVE  UniqueNames' /\ BansKept
<1>1. CASE UNCHANGED state
  BY <1>1, UnchangedClients DEF state, memory, dbVars
<1>2. CASE MayJoin(s, r, password) /\ JoinRoom(s, r)
  <2>1. s \in Sockets /\ connected \subseteq Sockets
    BY DEF StateTypeOK
  <2>2. /\ SameNames /\ clients'[s].roomId = r
        /\ \A u \in Sockets \ {s} : clients'[u] = clients[u]
    BY <1>2, <2>1, EnterClients DEF JoinRoom
  <2>3. UNCHANGED <<connected, dbBans>> /\ <<r, clients[s].username>> \notin dbBans
    BY <1>2 DEF JoinRoom, MayJoin, IsBanned, BannedInDatabase, dbVars
  <2>4. UniqueNames'
    BY <2>2, <2>3 DEF UniqueNames, SameNames
  <2>5. ASSUME NEW b \in dbBans, NEW u \in connected, clients[u].username = b[2],
               clients[u].roomId # b[1], clients'[u].roomId = b[1]
        PROVE  FALSE
    <3>1. u = s /\ b[1] = r
      BY <2>1, <2>2, <2>5
    <3>2. b = <<r, clients[s].username>>
      BY <2>5, <3>1 DEF StateTypeOK, DatabaseTypeOK
    <3> QED BY <2>3, <3>2
  <2> QED BY <2>3, <2>4, <2>5 DEF BansKept
<1> QED BY <1>1, <1>2 DEF handleJoinCommand, Reply

\* Every command a client sends.
LEMMA ClientMessageClients ==
    ASSUME StateTypeOK, UniqueNames, NEW s \in connected, handleClientMessage(s)
    PROVE  UniqueNames' /\ BansKept
<1>0. s \in Sockets /\ \A name, r : findClientByUsername(name, r) \subseteq Sockets
  BY DEF StateTypeOK, findClientByUsername
<1>1. ASSUME UNCHANGED <<connected, clients, dbBans>> PROVE UniqueNames' /\ BansKept
  BY <1>1, UnchangedClients
<1>2. ASSUME NEW name \in Usernames, handleSetNameCommand(s, name)
      PROVE  UniqueNames' /\ BansKept
  BY <1>2, SetNameClients
<1>3. ASSUME NEW name \in Usernames, handleKickCommand(s, name)
      PROVE  UniqueNames' /\ BansKept
  BY <1>0, <1>1, <1>3, ExpelClients, Ordinary
     DEF handleKickCommand, Reply, state, memory, dbVars
<1>4. ASSUME NEW name \in Usernames, handleBanCommand(s, name)
      PROVE  UniqueNames' /\ BansKept
  <2>1. CASE UNCHANGED state
    BY <1>1, <2>1 DEF state, memory, dbVars
  <2>2. CASE AddBan(clients[s].roomId, name) /\ UNCHANGED <<connected, clients>>
    BY <2>2, Ordinary DEF AddBan, SameNames, StayOut
  <2>3. ASSUME AddBan(clients[s].roomId, name), UNCHANGED connected,
               NEW t \in findClientByUsername(name, clients[s].roomId),
               clients' = LeaveRoomRecord(t)
        PROVE  UniqueNames' /\ BansKept
    BY <1>0, <2>3, ExpelClients, Ordinary DEF AddBan
  <2> QED BY <1>4, <2>1, <2>2, <2>3 DEF handleBanCommand, Reply
<1>5. ASSUME NEW name \in Usernames, handleTransferCommand(s, name)
      PROVE  UniqueNames' /\ BansKept
  BY <1>0, <1>1, <1>5, TransferClients, Ordinary
     DEF handleTransferCommand, UpdateRoomOwner, Reply, state, memory, dbVars
<1>6. ASSUME NEW isPrivate \in BOOLEAN, NEW password \in Passwords \cup {NoPassword},
             handleCreateCommand(s, isPrivate, password)
      PROVE  UniqueNames' /\ BansKept
  <2>1. CASE UNCHANGED state
    BY <1>1, <2>1 DEF state, memory, dbVars
  <2>2. ASSUME NEW r \in RoomIds, CreateRoom(s, isPrivate, password, r)
        PROVE  UniqueNames' /\ BansKept
    <3>1. /\ clients' = [clients EXCEPT ![s] = [@ EXCEPT !.roomId = r, !.isRoomOwner = TRUE]]
          /\ UNCHANGED <<connected, dbBans>>
      BY <2>2 DEF CreateRoom, CreateRoomRow
    <3>2. /\ SameNames /\ clients'[s].isRoomOwner = TRUE
          /\ \A u \in Sockets \ {s} : clients'[u] = clients[u]
      BY <1>0, <3>1, EnterClients
    <3>3. StayOut
      BY <3>2 DEF StayOut, StateTypeOK
    <3> QED BY <3>1, <3>2, <3>3, Ordinary
  <2> QED BY <1>6, <2>1, <2>2 DEF handleCreateCommand, Reply
<1>7. ASSUME NEW password \in Passwords \cup {NoPassword},
             \/ handleChangePasswordCommand(s, password)
             \/ \E r \in RoomIds : handleJoinCommand(s, r, password)
      PROVE  UniqueNames' /\ BansKept
  BY <1>1, <1>7, JoinClients
     DEF handleChangePasswordCommand, UpdateRoomPassword, Reply, state, memory, dbVars
<1>8. CASE handleLeaveCommand(s)
  BY <1>0, <1>1, <1>8, LeaveClients, Ordinary
     DEF handleLeaveCommand, Reply, state, memory, dbVars
<1>9. CASE handleForceLeaveCommand(s)
  <2>1. CASE UNCHANGED state
    BY <1>1, <2>1 DEF state, memory, dbVars
  <2>2. CASE clients' = LeaveRoomRecord(s) /\ UNCHANGED <<connected, dbBans>>
    BY <1>0, <2>2, ExpelClients, Ordinary
  <2>3. ASSUME NEW t \in connected, UNCHANGED <<connected, dbBans>>,
               clients' = [LeaveRoomRecord(s) EXCEPT ![t] = [@ EXCEPT !.isRoomOwner = TRUE]]
        PROVE  UniqueNames' /\ BansKept
    BY <1>0, <2>3, SucceedClients, Ordinary DEF StateTypeOK
  <2> QED BY <1>9, <2>1, <2>2, <2>3 DEF handleForceLeaveCommand, Reply, dbVars
<1>10. ASSUME \/ handleListCommand(s) \/ handleUsersCommand(s)
              \/ handleGetPasswordCommand(s) \/ handleChatMessage(s)
              \/ \E name \in Usernames : handlePrivateMessage(s, name)
       PROVE  UniqueNames' /\ BansKept
  BY <1>1, <1>10 DEF handleListCommand, handleUsersCommand, handleGetPasswordCommand,
        handleChatMessage, handlePrivateMessage, Enqueue, Reply, state, memory, dbVars
<1> QED BY <1>2, <1>3, <1>4, <1>5, <1>6, <1>7, <1>8, <1>9, <1>10 DEF handleClientMessage

LEMMA DisconnectClients ==
    ASSUME StateTypeOK, UniqueNames, NEW s \in connected, handleClientDisconnect(s)
    PROVE  UniqueNames' /\ BansKept
<1>1. /\ connected' = connected \ {s} /\ clients'[s].roomId = NoRoom
      /\ \A u \in connected \ {s} : clients'[u] = clients[u]
  BY DEF handleClientDisconnect, NewClient, StateTypeOK
<1>2. UniqueNames'
  BY <1>1 DEF UniqueNames
<1>3. \A b \in dbBans : (b \in dbBans' \/ b[1] \notin live') /\ b[1] # NoRoom
  BY RoomIdsAssumption
     DEF handleClientDisconnect, EraseRoom, DeleteRoom, StateTypeOK, DatabaseTypeOK, dbVars
<1>4. BansKept
  BY <1>1, <1>3 DEF BansKept
<1> QED BY <1>2, <1>4

\* Every step keeps names unique and bans in force.
LEMMA NextClients ==
    StateTypeOK /\ UniqueNames /\ [Next]_vars => UniqueNames' /\ [BansKept]_vars
<1> SUFFICES ASSUME StateTypeOK, UniqueNames, [Next]_vars
             PROVE  UniqueNames' /\ [BansKept]_vars
  OBVIOUS
<1>1. ASSUME NEW s \in Sockets, Accept(s) PROVE UniqueNames' /\ BansKept
  <2>1. /\ connected' = connected \cup {s} /\ clients'[s].username = NoName
        /\ \A u \in connected : clients'[u] = clients[u]
        /\ UNCHANGED dbBans
    BY <1>1 DEF Accept, NewClient, StateTypeOK, dbVars
  <2>2. UniqueNames'
    BY <2>1 DEF UniqueNames
  <2>3. BansKept
    BY <2>1 DEF BansKept
  <2> QED BY <2>2, <2>3
<1>2. ASSUME NEW s \in connected, handleClientMessage(s) \/ handleClientDisconnect(s)
      PROVE  UniqueNames' /\ BansKept
  BY <1>2, ClientMessageClients, DisconnectClients
<1>3. CASE broadcastMessages
  <2>1. UNCHANGED <<connected, clients, dbBans>>
    BY <1>3 DEF broadcastMessages, DropMessage, DeliverPrivate, DeliverPublic,
                SaveMessage, dbVars
  <2> QED BY <2>1, UnchangedClients
<1>4. ASSUME NEW r \in RoomIds, cleanupEmptyRoom(r) PROVE UniqueNames' /\ BansKept
  <2>1. \A b \in dbBans : b \in dbBans' \/ b[1] \notin live'
    BY <1>4 DEF cleanupEmptyRoom, EraseRoom, DeleteRoom, dbVars
  <2>2. UNCHANGED <<connected, clients>>
    BY <1>4 DEF cleanupEmptyRoom
  <2> QED BY <2>1, <2>2, Ordinary DEF SameNames, StayOut
<1>5. CASE Restart \/ \E r \in RoomIds : CrashInDelete(r)
  <2>1. /\ connected' = {} /\ live' = {}
        /\ \A u \in connected : clients'[u].roomId = NoRoom
    BY <1>5 DEF Restart, CrashInDelete, NewProcess, NoClients, NewClient, StateTypeOK
  <2>2. \A b \in dbBans : b[1] # NoRoom
    BY RoomIdsAssumption DEF StateTypeOK, DatabaseTypeOK
  <2> QED BY <2>1, <2>2 DEF UniqueNames, BansKept
<1>6. CASE Tick
  BY <1>6, UnchangedClients DEF Tick, memory, dbVars
<1>7. CASE UNCHANGED vars
  BY <1>7, UnchangedClients DEF vars, state, memory, dbVars
<1> QED BY <1>1, <1>2, <1>3, <1>4, <1>5, <1>6, <1>7 DEF Next

LEMMA InitNames == Init => UniqueNames
BY DEF Init, UniqueNames

\* No two connected clients ever have the same username, whatever the order in
\* which they connect, claim names, disconnect and have their handles reused.
THEOREM NamesAreUnique == Spec => []UniqueNames
BY InitType, InitNames, NextType, NextClients, PTL DEF Spec

\* Nobody enters a room under a name its database row bans, and only the room's
\* end lifts the ban, also over collisions of room ids and over restarts.
THEOREM BansAreKept == Spec => BansHold
BY InitType, InitNames, NextType, NextClients, PTL DEF Spec, BansHold
===============================================================================
