------------------------------ MODULE ChatServer ------------------------------
(***************************************************************************)
(* The chat server (Server.cpp, main.cpp) at the granularity of a handler:  *)
(* the poll loop of the main thread runs the command handlers one at a      *)
(* time, the broadcaster thread takes one message per step, and the         *)
(* detached cleanup threads and server restarts come in between.            *)
(*                                                                          *)
(* A handler's critical sections are one step here.  KICK, LEAVE,           *)
(* FORCELEAVE, CREATE and disconnect change the room and the record of a    *)
(* client in two of them, and the broadcaster may deliver in between: who   *)
(* it finds there is the business of ServerThreads, and no property of this *)
(* module says who reads a message.                                         *)
(***************************************************************************)
EXTENDS Database

CONSTANTS
    NoRoom,        \* the empty room id of a client that is in no room
    NoArg,         \* the argument of a protocol line that has none
    FreshIds,      \* TRUE: generateRoomId never returns the id of a live room
    MaxSends,      \* bound: messages typed in a behaviour
    MaxCleanups,   \* bound: cleanup threads asleep for one room
    MaxRestarts,   \* bound: restarts of the server
    MaxSeconds     \* bound: ticks of the database's clock

ASSUME RoomIdsAssumption == NoRoom \notin RoomIds
ASSUME BoundsAssumption ==
    /\ FreshIds \in BOOLEAN
    /\ {MaxSends, MaxCleanups, MaxRestarts, MaxSeconds} \subseteq Nat

VARIABLES
    connected,      \* the handles in g_clients
    clients,        \* g_clients: the ClientInfo of every connected handle
    live,           \* the ids in g_chatRooms
    chatRooms,      \* g_chatRooms: the ChatRoom of every live id
    cleanups,       \* detached cleanup threads asleep, by room id
    messageQueue,   \* g_messageQueue
    second,         \* the database's clock, in seconds
    sends,          \* messages typed so far
    restarts,       \* restarts so far
    out             \* the lines the last step sent, by handle

memory == <<connected, clients, live, chatRooms, cleanups, messageQueue>>
state == <<memory, dbVars, second, sends, restarts>>
vars == <<state, out>>

ClientInfo == [username : Usernames, roomId : RoomIds \cup {NoRoom},
               isRoomOwner : BOOLEAN]

NewClient == [username |-> NoName, roomId |-> NoRoom, isRoomOwner |-> FALSE]

Message == [sender : Sockets, senderName : Usernames, roomId : RoomIds,
            private : BOOLEAN, recipient : Usernames, content : Nat]

LineKinds == {"WELCOME", "ERROR", "SYSTEM", "CHAT", "NAME_SET", "NAME_TAKEN",
              "ROOM_CREATED", "ROOM_JOINED", "ROOM_NOT_FOUND", "LEFT_ROOM",
              "PASSWORD_REQUIRED", "WRONG_PASSWORD", "ROOM_PASSWORD",
              "PASSWORD_CHANGED", "ROOMS_LIST", "USERS_LIST", "SUCCESS",
              "KICKED_FROM_ROOM", "OWNER_LEAVE_WARNING", "OWNERSHIP_RECEIVED",
              "MESSAGE_HISTORY_START", "MESSAGE_HISTORY_END", "PM_FROM", "PM_SENT"}

Line == LineKinds \X (RoomIds \cup Passwords \cup {NoPassword, NoArg} \cup ChatLines)

\* The types of everything but the lines sent.
StateTypeOK ==
    /\ connected \subseteq Sockets
    /\ clients \in [Sockets -> ClientInfo]
    /\ live \subseteq RoomIds
    /\ chatRooms \in [RoomIds -> Room]
    /\ cleanups \in [RoomIds -> Nat]
    /\ messageQueue \in Seq(Message)
    /\ DatabaseTypeOK
    /\ second \in Nat /\ sends \in Nat /\ restarts \in Nat

TypeOK == StateTypeOK /\ out \in [Sockets -> Seq(Line)]

(***************************************************************************)
(* What a step sends.                                                       *)
(***************************************************************************)
Plain(kind) == <<kind, NoArg>>
Send(to, lines) == [s \in Sockets |-> IF s \in to THEN lines ELSE <<>>]
first ++ then == [s \in Sockets |-> first[s] \o then[s]]
Silence == Send({}, <<>>)

\* The handler answers and changes nothing.
Reply(s, line) == out' = Send({s}, <<line>>) /\ UNCHANGED state

(***************************************************************************)
(* Helpers of Server.cpp.                                                   *)
(***************************************************************************)
\* Mutant: only the clients of the same room are asked.
AvailableInRoom(name, s) ==
    \A t \in connected \ {s} :
        clients[t].roomId = clients[s].roomId => clients[t].username # name

isUsernameAvailable(name, s) ==
    \A t \in connected \ {s} : clients[t].username # name

\* Every client whose record carries the name and the room; usernames are
\* unique, so the set stands for the one handle the code returns.
findClientByUsername(name, r) ==
    {t \in connected : clients[t].username = name /\ clients[t].roomId = r}

\* Mutant: the room keeps the client it should lose.
RoomsUnchanged(s) == chatRooms

\* The rooms once s has been removed from the one its record names.
RoomsWithout(s) ==
    LET r == clients[s].roomId IN
    IF r \in live THEN [chatRooms EXCEPT ![r] = RemoveClient(@, s)] ELSE chatRooms

\* Mutant: isEmpty is asked before the client is removed.
WasEmpty(s) ==
    LET r == clients[s].roomId IN r \in live /\ chatRooms[r].clients = {}

LeavesRoomEmpty(s) ==
    LET r == clients[s].roomId IN r \in live /\ chatRooms[r].clients \subseteq {s}

\* A detached thread that will call cleanupEmptyRoom in 100 ms.
SpawnCleanup(s) ==
    LET r == clients[s].roomId IN
    IF LeavesRoomEmpty(s)
    THEN cleanups[r] < MaxCleanups /\ cleanups' = [cleanups EXCEPT ![r] = @ + 1]
    ELSE UNCHANGED cleanups

\* ChatRoom::broadcast of a SYSTEM line in the room of s, to all but s.
Notice(s) ==
    LET r == clients[s].roomId IN
    Send(IF r \in live THEN chatRooms[r].clients \ {s} ELSE {}, <<Plain("SYSTEM")>>)

\* The guard common to the commands only a room's owner may give.
IsOwnerInRoom(s) == clients[s].roomId # NoRoom /\ clients[s].isRoomOwner

\* Mutant: setRoomId("") is forgotten.
KeepRoomId(t) == [clients EXCEPT ![t] = [@ EXCEPT !.isRoomOwner = FALSE]]

LeaveRoomRecord(t) ==
    [clients EXCEPT ![t] = [@ EXCEPT !.roomId = NoRoom, !.isRoomOwner = FALSE]]

\* main.cpp: accept a connection; the operating system picks an unused handle.
Accept(s) ==
    /\ s \notin connected
    /\ connected' = connected \cup {s}
    /\ clients' = [clients EXCEPT ![s] = NewClient]
    /\ out' = Send({s}, <<Plain("WELCOME")>>)
    /\ UNCHANGED <<live, chatRooms, cleanups, messageQueue, dbVars, second, sends, restarts>>

(***************************************************************************)
(* Command handlers; s is the handle whose data the poll loop has read.     *)
(***************************************************************************)
\* Mutant: a name is confirmed like any other command.
RenamedWithSuccess(s, name) ==
    /\ name # NoName /\ isUsernameAvailable(name, s)
    /\ clients' = [clients EXCEPT ![s] = [@ EXCEPT !.username = name]]
    /\ out' = Send({s}, <<Plain("SUCCESS")>>)
    /\ UNCHANGED <<connected, live, chatRooms, cleanups, messageQueue, dbVars,
                   second, sends, restarts>>

handleSetNameCommand(s, name) ==
    \/ name = NoName /\ Reply(s, Plain("ERROR"))
    \/ /\ name # NoName /\ ~isUsernameAvailable(name, s)
       /\ Reply(s, Plain("NAME_TAKEN"))
    \/ /\ name # NoName /\ isUsernameAvailable(name, s)
       /\ clients' = [clients EXCEPT ![s] = [@ EXCEPT !.username = name]]
       /\ out' = Send({s}, <<Plain("NAME_SET")>>)
       /\ UNCHANGED <<connected, live, chatRooms, cleanups, messageQueue, dbVars,
                      second, sends, restarts>>

\* r is what generateRoomId draws.
CreateRoom(s, isPrivate, password, r) ==
    /\ ~(isPrivate /\ password = NoPassword)
    /\ FreshIds => r \notin live
    /\ SpawnCleanup(s)
    /\ live' = live \cup {r}
    /\ chatRooms' = [RoomsWithout(s) EXCEPT
                        ![r] = AddClient(NewRoom(isPrivate, password, s), s)]
    /\ clients' = [clients EXCEPT ![s] = [@ EXCEPT !.roomId = r, !.isRoomOwner = TRUE]]
    /\ CreateRoomRow(r, [isPrivate |-> isPrivate, owner |-> clients[s].username,
                         password |-> password])
    /\ out' = Notice(s) ++ Send({s}, <<<<"ROOM_CREATED", r>>>>)
    /\ UNCHANGED <<connected, messageQueue, second, sends, restarts>>

handleCreateCommand(s, isPrivate, password) ==
    \/ isPrivate /\ password = NoPassword /\ Reply(s, Plain("ERROR"))
    \/ \E r \in RoomIds : CreateRoom(s, isPrivate, password, r)

\* Mutant: only the room object is asked, not the database.
BannedInMemory(s, r) == clients[s].username \in chatRooms[r].banned

IsBanned(s, r) ==
    \/ clients[s].username \in chatRooms[r].banned
    \/ BannedInDatabase(r, clients[s].username)

WrongPassword(r, password) ==
    chatRooms[r].isPrivate /\ password # chatRooms[r].password

\* The reply of a join that is refused.
JoinRefusal(s, r, password) ==
    IF r = clients[s].roomId THEN "ERROR"
    ELSE IF r \notin live THEN "ROOM_NOT_FOUND"
    ELSE IF IsBanned(s, r) THEN "ERROR"
    ELSE IF password = NoPassword THEN "PASSWORD_REQUIRED"
    ELSE "WRONG_PASSWORD"

MayJoin(s, r, password) ==
    /\ r # clients[s].roomId
    /\ r \in live
    /\ ~IsBanned(s, r)
    /\ ~WrongPassword(r, password)

\* The lines that replay a room's history: the database's, or else the room's.
HistoryBlock(r) ==
    LET saved == GetMessageHistory(r, MAX_MESSAGE_HISTORY)
        history == IF saved = <<>> THEN chatRooms[r].history ELSE saved
    IN  IF history = <<>> THEN <<>>
        ELSE <<Plain("MESSAGE_HISTORY_START")>>
                \o [k \in DOMAIN history |-> <<"CHAT", history[k]>>]
                \o <<Plain("MESSAGE_HISTORY_END")>>

\* Mutant: an owner that goes to another room keeps its owner flag.
JoinAsOwner(s, r) ==
    /\ SpawnCleanup(s)
    /\ chatRooms' = [RoomsWithout(s) EXCEPT ![r] = AddClient(@, s)]
    /\ clients' = [clients EXCEPT ![s] = [@ EXCEPT !.roomId = r]]
    /\ out' = Silence
    /\ UNCHANGED <<connected, live, messageQueue, dbVars, second, sends, restarts>>

JoinRoom(s, r) ==
    /\ SpawnCleanup(s)
    /\ chatRooms' = [RoomsWithout(s) EXCEPT ![r] = AddClient(@, s)]
    /\ clients' = [clients EXCEPT ![s] = [@ EXCEPT !.roomId = r, !.isRoomOwner = FALSE]]
    /\ out' = Notice(s) ++ Send({s}, <<<<"ROOM_JOINED", r>>>> \o HistoryBlock(r))
                        ++ Send(chatRooms[r].clients \ {s}, <<Plain("SYSTEM")>>)
    /\ UNCHANGED <<connected, live, messageQueue, dbVars, second, sends, restarts>>

handleJoinCommand(s, r, password) ==
    \/ /\ ~MayJoin(s, r, password)
       /\ Reply(s, Plain(JoinRefusal(s, r, password)))
    \/ MayJoin(s, r, password) /\ JoinRoom(s, r)

handleListCommand(s) == Reply(s, Plain("ROOMS_LIST"))

handleUsersCommand(s) ==
    LET r == clients[s].roomId IN
    \/ r = NoRoom /\ Reply(s, Plain("ERROR"))
    \/ r \in live /\ Reply(s, Plain("USERS_LIST"))

handleGetPasswordCommand(s) ==
    LET r == clients[s].roomId IN
    \/ ~IsOwnerInRoom(s) /\ Reply(s, Plain("ERROR"))
    \/ /\ IsOwnerInRoom(s) /\ r \in live
       /\ Reply(s, IF chatRooms[r].isPrivate
                   THEN <<"ROOM_PASSWORD", chatRooms[r].password>>
                   ELSE Plain("ERROR"))

handleChangePasswordCommand(s, password) ==
    LET r == clients[s].roomId
        refused == \/ password = NoPassword
                   \/ ~IsOwnerInRoom(s)
                   \/ r \in live /\ ~chatRooms[r].isPrivate
    IN
    \/ refused /\ Reply(s, Plain("ERROR"))
    \/ /\ ~refused /\ r \in live
       /\ chatRooms' = [chatRooms EXCEPT ![r] = SetPassword(@, password)]
       /\ UpdateRoomPassword(r, password)
       /\ out' = Send({s}, <<<<"PASSWORD_CHANGED", password>>>>) ++ Notice(s)
       /\ UNCHANGED <<connected, clients, live, cleanups, messageQueue, second,
                      sends, restarts>>

\* Mutant: an owner may name itself.
NotForOthersToDo(s, name) == name = NoName \/ ~IsOwnerInRoom(s)

\* Why KICK, BAN and TRANSFER answer ERROR before they look for the target.
NotForOwnerToDo(s, name) ==
    name = NoName \/ ~IsOwnerInRoom(s) \/ name = clients[s].username

\* The lines every member of the room of t reads, t still among them.
ToRoomOf(t, kind) ==
    LET r == clients[t].roomId IN
    Send(IF r \in live THEN chatRooms[r].clients ELSE {}, <<Plain(kind)>>)

Expelled(t) ==
    Send({t}, <<Plain("SYSTEM"), Plain("KICKED_FROM_ROOM")>>) ++ ToRoomOf(t, "SYSTEM")

handleKickCommand(s, name) ==
    LET targets == findClientByUsername(name, clients[s].roomId) IN
    \/ /\ NotForOwnerToDo(s, name) \/ targets = {}
       /\ Reply(s, Plain("ERROR"))
    \/ /\ ~NotForOwnerToDo(s, name)
       /\ \E t \in targets :
            /\ chatRooms' = RoomsWithout(t)
            /\ clients' = LeaveRoomRecord(t)
            /\ out' = Expelled(t)
       /\ UNCHANGED <<connected, live, cleanups, messageQueue, dbVars, second,
                      sends, restarts>>

Ban(r, rooms, name) == [rooms EXCEPT ![r] = BanUser(@, name)]

handleBanCommand(s, name) ==
    LET r == clients[s].roomId
        targets == findClientByUsername(name, r)
        success == Send({s}, <<Plain("SUCCESS")>>)
    IN
    \/ NotForOwnerToDo(s, name) /\ Reply(s, Plain("ERROR"))
    \/ /\ ~NotForOwnerToDo(s, name) /\ r \in live
       /\ AddBan(r, name)
       /\ \/ /\ targets = {}
             /\ chatRooms' = Ban(r, chatRooms, name)
             /\ out' = success
             /\ UNCHANGED clients
          \/ \E t \in targets :
                /\ chatRooms' = Ban(r, RoomsWithout(t), name)
                /\ clients' = LeaveRoomRecord(t)
                /\ out' = Expelled(t) ++ success
       /\ UNCHANGED <<connected, live, cleanups, messageQueue, second, sends, restarts>>

handleTransferCommand(s, name) ==
    LET r == clients[s].roomId
        targets == findClientByUsername(name, r)
    IN
    \/ /\ NotForOwnerToDo(s, name) \/ targets = {}
       /\ Reply(s, Plain("ERROR"))
    \/ /\ ~NotForOwnerToDo(s, name) /\ r \in live
       /\ \E t \in targets :
            /\ chatRooms' = [chatRooms EXCEPT ![r] = SetOwner(@, t)]
            /\ clients' = [clients EXCEPT ![s] = [@ EXCEPT !.isRoomOwner = FALSE],
                                          ![t] = [@ EXCEPT !.isRoomOwner = TRUE]]
            /\ out' = ToRoomOf(s, "SYSTEM") ++ Send({s}, <<Plain("SUCCESS")>>)
                                            ++ Send({t}, <<Plain("OWNERSHIP_RECEIVED")>>)
       /\ UpdateRoomOwner(r, name)
       /\ UNCHANGED <<connected, live, cleanups, messageQueue, second, sends, restarts>>

\* The owner flag is left alone: only clients without it get this far.
handleLeaveCommand(s) ==
    LET client == clients[s] IN
    \/ client.roomId = NoRoom /\ Reply(s, Plain("ERROR"))
    \/ IsOwnerInRoom(s) /\ Reply(s, Plain("OWNER_LEAVE_WARNING"))
    \/ /\ client.roomId # NoRoom /\ ~client.isRoomOwner
       /\ SpawnCleanup(s)
       /\ chatRooms' = RoomsWithout(s)
       /\ clients' = [clients EXCEPT ![s] = [@ EXCEPT !.roomId = NoRoom]]
       /\ out' = Notice(s) ++ Send({s}, <<Plain("LEFT_ROOM")>>)
       /\ UNCHANGED <<connected, live, messageQueue, dbVars, second, sends, restarts>>

\* Whom FORCELEAVE makes owner: the longest member, or, when that is s itself,
\* the other member with the smallest handle (std::set<SOCKET> is sorted).
Successors(room, s) ==
    LET longest == LongestMember(room)
        others == room.clients \ {s}
    IN  IF Cardinality(room.clients) <= 1 THEN {}
        ELSE IF s \notin longest THEN longest
        ELSE {m \in others : \A t \in others : m <= t}

\* The new owner is told, and announced, only if it has a name.
Succession(s, t) ==
    IF clients[t].username = NoName THEN Silence
    ELSE ToRoomOf(s, "SYSTEM") ++ Send({t}, <<Plain("OWNERSHIP_RECEIVED")>>)

\* FORCELEAVE updates the owner in memory only, not in the database.
handleForceLeaveCommand(s) ==
    LET r == clients[s].roomId
        successors == IF r \in live THEN Successors(chatRooms[r], s) \cap connected
                                    ELSE {}
        left == LeaveRoomRecord(s)
        bye == Notice(s) ++ Send({s}, <<Plain("LEFT_ROOM")>>)
    IN
    \/ ~IsOwnerInRoom(s) /\ Reply(s, Plain("ERROR"))
    \/ /\ IsOwnerInRoom(s)
       /\ SpawnCleanup(s)
       /\ \/ /\ successors = {}
             /\ chatRooms' = RoomsWithout(s)
             /\ clients' = left
             /\ out' = bye
          \/ \E t \in successors :
                /\ chatRooms' = [RoomsWithout(s) EXCEPT ![r] = SetOwner(@, t)]
                /\ clients' = [left EXCEPT ![t] = [@ EXCEPT !.isRoomOwner = TRUE]]
                /\ out' = Succession(s, t) ++ bye
       /\ UNCHANGED <<connected, live, messageQueue, dbVars, second, sends, restarts>>

(***************************************************************************)
(* Chat messages: handleClientMessage queues, broadcastMessages delivers.   *)
(***************************************************************************)
Enqueue(s, private, recipient) ==
    /\ sends < MaxSends
    /\ sends' = sends + 1
    /\ messageQueue' = Append(messageQueue,
            [sender |-> s, senderName |-> clients[s].username,
             roomId |-> clients[s].roomId, private |-> private,
             recipient |-> recipient, content |-> sends'])
    /\ out' = Silence
    /\ UNCHANGED <<connected, clients, live, chatRooms, cleanups, dbVars, second, restarts>>

\* Mutant: nobody asks whether the sender is in a room.
ChatAnywhere(s) == Enqueue(s, FALSE, NoName)

handleChatMessage(s) ==
    \/ clients[s].roomId = NoRoom /\ Reply(s, Plain("ERROR"))
    \/ clients[s].roomId # NoRoom /\ Enqueue(s, FALSE, NoName)

handlePrivateMessage(s, name) ==
    LET refused == \/ name = NoName
                   \/ clients[s].roomId = NoRoom
                   \/ name = clients[s].username
    IN
    \/ refused /\ Reply(s, Plain("ERROR"))
    \/ ~refused /\ Enqueue(s, TRUE, name)

RowOf(m) == [sender |-> m.senderName, content |-> m.content, private |-> m.private,
             recipient |-> m.recipient, second |-> second]

\* A line for the handle a message came from, which may be closed, or reused.
SendToSender(m, line) == Send({m.sender} \cap connected, <<line>>)

\* Mutant: a message is saved though its room is gone.
SaveOrphan(m) ==
    /\ m.roomId \notin live
    /\ out' = Silence
    /\ SaveMessage(m.roomId, RowOf(m))
    /\ UNCHANGED chatRooms

DropMessage(m) ==
    /\ m.roomId \notin live
    /\ out' = Silence
    /\ UNCHANGED <<chatRooms, dbVars>>

DeliverPrivate(m) ==
    LET recipients == findClientByUsername(m.recipient, m.roomId)
        line == <<m.senderName, m.content>>
    IN
    /\ m.roomId \in live /\ m.private
    /\ \/ /\ recipients = {}
          /\ out' = SendToSender(m, Plain("ERROR"))
          /\ UNCHANGED dbVars
       \/ /\ \E t \in recipients :
                out' = Send({t}, <<<<"PM_FROM", line>>>>)
                            ++ SendToSender(m, <<"PM_SENT", line>>)
          /\ SaveMessage(m.roomId, RowOf(m))
    /\ UNCHANGED chatRooms

DeliverPublic(m) ==
    LET line == <<m.senderName, m.content>>
        r == m.roomId
    IN
    /\ r \in live /\ ~m.private
    /\ chatRooms' = [chatRooms EXCEPT ![r] = AddMessageToHistory(@, line)]
    /\ out' = Send(chatRooms[r].clients \ {m.sender}, <<<<"CHAT", line>>>>)
    /\ SaveMessage(r, RowOf(m))

broadcastMessages ==
    /\ messageQueue # <<>>
    /\ messageQueue' = Tail(messageQueue)
    /\ LET m == Head(messageQueue) IN
       DropMessage(m) \/ DeliverPrivate(m) \/ DeliverPublic(m)
    /\ UNCHANGED <<connected, clients, live, cleanups, second, sends, restarts>>

(***************************************************************************)
(* Cleanup, disconnection, restart, time.                                   *)
(***************************************************************************)
EraseRoom(r, rooms) ==
    /\ live' = live \ {r}
    /\ chatRooms' = [rooms EXCEPT ![r] = NoRoomObject]
    /\ DeleteRoom(r)

\* Mutant: the room is not asked whether somebody has entered it since.
CleanupUnchecked(r) ==
    /\ cleanups[r] > 0
    /\ cleanups' = [cleanups EXCEPT ![r] = @ - 1]
    /\ IF r \in live THEN EraseRoom(r, chatRooms) ELSE UNCHANGED <<live, chatRooms, dbVars>>
    /\ out' = Silence
    /\ UNCHANGED <<connected, clients, messageQueue, second, sends, restarts>>

\* A detached thread wakes: the room may be occupied again, or gone.
cleanupEmptyRoom(r) ==
    /\ cleanups[r] > 0
    /\ cleanups' = [cleanups EXCEPT ![r] = @ - 1]
    /\ IF r \in live /\ chatRooms[r].clients = {}
       THEN EraseRoom(r, chatRooms)
       ELSE UNCHANGED <<live, chatRooms, dbVars>>
    /\ out' = Silence
    /\ UNCHANGED <<connected, clients, messageQueue, second, sends, restarts>>

\* removeClientFromRoom cleans up at once and hands the room to nobody.
handleClientDisconnect(s) ==
    /\ connected' = connected \ {s}
    /\ clients' = [clients EXCEPT ![s] = NewClient]
    /\ IF LeavesRoomEmpty(s)
       THEN EraseRoom(clients[s].roomId, RoomsWithout(s))
       ELSE chatRooms' = RoomsWithout(s) /\ UNCHANGED <<live, dbVars>>
    /\ out' = Notice(s)
    /\ UNCHANGED <<cleanups, messageQueue, second, sends, restarts>>

NoClients == [s \in Sockets |-> NewClient]
NoRooms == [r \in RoomIds |-> NoRoomObject]
NoCleanups == [r \in RoomIds |-> 0]

\* A new process on the same database file; it reads nothing back.
NewProcess ==
    /\ restarts < MaxRestarts
    /\ restarts' = restarts + 1
    /\ connected' = {} /\ clients' = NoClients
    /\ live' = {} /\ chatRooms' = NoRooms /\ cleanups' = NoCleanups
    /\ messageQueue' = <<>>
    /\ out' = Silence
    /\ UNCHANGED <<second, sends>>

\* A shutdown, or a crash between two steps.
Restart == NewProcess /\ UNCHANGED dbVars

\* Somebody is about to call deleteRoom(r): a cleanup thread, or the main thread
\* for the last client of the room, which disconnects.
DeletesRoom(r) ==
    /\ r \in live
    /\ \/ cleanups[r] > 0 /\ chatRooms[r].clients = {}
       \/ \E s \in connected : clients[s].roomId = r /\ chatRooms[r].clients = {s}

\* A crash inside deleteRoom.
CrashInDelete(r) == DeletesRoom(r) /\ NewProcess /\ DeleteRoomPartly(r)

Tick ==
    /\ second < MaxSeconds
    /\ second' = second + 1
    /\ out' = Silence
    /\ UNCHANGED <<memory, dbVars, sends, restarts>>

Init ==
    /\ connected = {} /\ clients = NoClients
    /\ live = {} /\ chatRooms = NoRooms /\ cleanups = NoCleanups
    /\ messageQueue = <<>>
    /\ DatabaseInit
    /\ second = 0 /\ sends = 0 /\ restarts = 0
    /\ out = Silence

\* One line read from a connected client.
handleClientMessage(s) ==
    \/ \E name \in Usernames : \/ handleSetNameCommand(s, name)
                               \/ handleKickCommand(s, name)
                               \/ handleBanCommand(s, name)
                               \/ handleTransferCommand(s, name)
                               \/ handlePrivateMessage(s, name)
    \/ \E password \in Passwords \cup {NoPassword} :
            \/ handleCreateCommand(s, TRUE, password)
            \/ handleChangePasswordCommand(s, password)
            \/ \E r \in RoomIds : handleJoinCommand(s, r, password)
    \/ handleCreateCommand(s, FALSE, NoPassword)
    \/ handleListCommand(s)
    \/ handleUsersCommand(s)
    \/ handleGetPasswordCommand(s)
    \/ handleLeaveCommand(s)
    \/ handleForceLeaveCommand(s)
    \/ handleChatMessage(s)

Next ==
    \/ \E s \in Sockets : Accept(s)
    \/ \E s \in connected : handleClientMessage(s) \/ handleClientDisconnect(s)
    \/ broadcastMessages
    \/ \E r \in RoomIds : cleanupEmptyRoom(r) \/ CrashInDelete(r)
    \/ Restart
    \/ Tick

Spec == Init /\ [][Next]_vars

(***************************************************************************)
(* Membership and ownership.                                                *)
(***************************************************************************)

\* Whoever a room counts as a member is connected and has that room in its own
\* record: no handler updates one side of the two-sided membership (g_chatRooms
\* and g_clients) and forgets the other, and a closed handle is in no room when
\* the operating system hands it out again.  Holds even when room ids collide.
MembersKnowTheirRoom ==
    \A r \in live : \A s \in chatRooms[r].clients :
        s \in connected /\ clients[s].roomId = r

\* Conversely, the room a client's record names exists and counts it as a
\* member, so that findClientByUsername, which reads the records, finds members.
RoomsKnowTheirMembers ==
    \A s \in connected : clients[s].roomId # NoRoom =>
        /\ clients[s].roomId \in live
        /\ s \in chatRooms[clients[s].roomId].clients

\* A client that passes the isRoomOwner check of KICK, BAN, TRANSFER, FORCELEAVE
\* and CHANGEPASSWORD is the one owner its room records: no room has two owners.
OwnerRecordsAgree ==
    \A s \in connected : clients[s].isRoomOwner =>
        /\ clients[s].roomId \in live
        /\ chatRooms[clients[s].roomId].owner = s

\* No two connected clients have the same username.
UniqueNames ==
    \A s, t \in connected :
        clients[s].username = clients[t].username /\ s # t
            => clients[s].username = NoName

\* An empty room never stays: a cleanup thread that will erase it is pending.
\* KICK and BAN start none, because the owner they leave behind is in the room.
EmptyRoomsAwaitCleanup ==
    \A r \in live : chatRooms[r].clients = {} => cleanups[r] > 0

HasOwner(r) == \E s \in connected : clients[s].roomId = r /\ clients[s].isRoomOwner

\* A room that stays occupied loses its owner only when the owner disconnects or
\* goes to another room (JOIN and CREATE hand over nothing).  No KICK, BAN,
\* TRANSFER, LEAVE or FORCELEAVE, of anybody, leaves an occupied room ownerless.
OnlyOwnersWalkingOutOrphan ==
    [][\A r \in live \cap live' :
        HasOwner(r) /\ ~HasOwner(r)' /\ chatRooms'[r].clients # {} =>
            \E s \in connected :
                /\ clients[s].roomId = r /\ clients[s].isRoomOwner
                /\ s \notin connected' \/ clients'[s].roomId \notin {r, NoRoom}]_vars

\* What the server promises about rooms; drawn ids being fresh, every step opens
\* or enters one room, leaves one, or takes an empty one away, and nothing else:
\* no handler puts a client into two rooms or takes a room from its members.
Membership == INSTANCE RoomMembership WITH
    Clients <- Sockets, Rooms <- RoomIds, online <- connected, exists <- live,
    inside <- {p \in Sockets \X live : p[1] \in chatRooms[p[2]].clients}

ImplementsMembership == Membership!Spec

(***************************************************************************)
(* The database beside the memory.                                          *)
(***************************************************************************)
\* Until the first restart the tables hold the live rooms and nothing else: the
\* room's kind, password and bans as in memory, and no row of an erased room,
\* even when a message of that room was still queued as it was erased.
DatabaseMirrorsRooms ==
    restarts = 0 => \A r \in RoomIds :
        IF r \in live
        THEN /\ dbRooms[r] # NoRow
             /\ dbRooms[r].isPrivate = chatRooms[r].isPrivate
             /\ dbRooms[r].password = chatRooms[r].password
             /\ {n \in Names : BannedInDatabase(r, n)} = chatRooms[r].banned
        ELSE /\ dbRooms[r] = NoRow
             /\ {n \in Names : BannedInDatabase(r, n)} = {}
             /\ dbMessages[r] = <<>>

\* The newest `limit' lines of a room, oldest first.
Newest(r, limit) ==
    LET Later(i) == {j \in PublicRows(r) : j > i}
        NthNewest(n) == CHOOSE i \in PublicRows(r) : Cardinality(Later(i)) = n - 1
    IN  [k \in 1 .. AtMost(limit, r) |->
            LineOf(dbMessages[r][NthNewest(AtMost(limit, r) - k + 1)])]

\* What a room remembers is the newest of what the database saved of it, over
\* collisions and restarts too; until the first restart it is all of it or
\* MAX_MESSAGE_HISTORY lines.
HistoryIsSaved ==
    \A r \in live :
        LET remembered == chatRooms[r].history
            saved == Cardinality(PublicRows(r))
        IN  /\ Len(remembered) <= saved
            /\ remembered = Newest(r, Len(remembered))
            /\ restarts = 0 /\ FreshIds =>
                 Len(remembered) \in {saved, MAX_MESSAGE_HISTORY}

\* Messages saved in different seconds are replayed as they were said: the
\* newest ones, and those in chronological order.
HistoryInOrderAcrossSeconds ==
    \A r \in RoomIds :
        (\A i, j \in PublicRows(r) :
            i # j => dbMessages[r][i].second # dbMessages[r][j].second)
        => GetMessageHistory(r, MAX_MESSAGE_HISTORY) = Newest(r, MAX_MESSAGE_HISTORY)

\* Messages and bans have a row of their room beside them, and so has every live
\* room, also when the process died in the middle of deleteRoom: what such a
\* crash leaves behind goes when a room of that id is next erased.
RowsHaveTheirRoom ==
    \A r \in RoomIds : dbRooms[r] = NoRow =>
        /\ r \notin live /\ dbMessages[r] = <<>>
        /\ \A name \in Usernames : ~BannedInDatabase(r, name)

\* What one step does to the bans.
BansKept ==
    \A b \in dbBans :
        /\ b \in dbBans' \/ b[1] \notin live'
        /\ ~\E s \in connected :
              /\ clients[s].username = b[2] /\ b \in dbBans'
              /\ clients[s].roomId # b[1] /\ clients'[s].roomId = b[1]
              /\ ~clients'[s].isRoomOwner

\* A banned name stays banned, and nobody enters the room under it, until the
\* room is erased: also when the room object was overwritten by a room with the
\* same id, and after a restart, where only the database remembers the ban.
BansHold == [][BansKept]_vars

(***************************************************************************)
(* What the documentation says and the code does not do.                    *)
(***************************************************************************)

\* "Transfer to longest member" (Server.cpp:684): when an owner leaves its room,
\* the new owner is whoever of those who stay joined first.
SuccessorIsLongestMember ==
    [][\A r \in live \cap live' :
        LET before == chatRooms[r]
            after == chatRooms'[r]
        IN  before.owner # after.owner /\ before.owner \notin after.clients
            => \A t \in after.clients : <<t, after.owner>> \notin after.earlier]_vars
===============================================================================
