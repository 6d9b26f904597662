-------------------------- MODULE ClientServerProofs --------------------------
(***************************************************************************)
(* Proofs about the client at the server, for any names, rooms, commands    *)
(* and bounds: the server stays within what the client program leaves open, *)
(* and client and server agree about the room and its owner.  Each step of  *)
(* the server is brought down to the lines it sends this client and to what *)
(* it does to this client's record; what those lines will make the client   *)
(* believe is then followed through the connection.                         *)
(***************************************************************************)
EXTENDS ClientServer, ChatServerDatabase

Program == INSTANCE ChatClientProofs WITH
    serverName <- clients[Me].username, MaxUp <- MaxTraffic, MaxDown <- MaxTraffic

(***************************************************************************)
(* Which lines the client acts on.                                          *)
(***************************************************************************)
ActedOn == {"NAME_SET", "NAME_TAKEN", "ROOM_CREATED", "ROOM_JOINED", "ROOM_NOT_FOUND",
            "KICKED_FROM_ROOM", "LEFT_ROOM", "OWNER_LEAVE_WARNING", "OWNERSHIP_RECEIVED"}

Idle == {line \in Line : line[1] \notin ActedOn}

\* The line as the client reads it.
Read(line) == <<line[1], IF line[2] \in RoomIds THEN line[2] ELSE NoRoom>>

\* Of the lines the client acts on one, which is this.
Hears(lines, line) ==
    /\ lines \in Seq(Line) /\ line \in Line \ Idle
    /\ \E k \in DOMAIN lines :
          lines[k] = line /\ \A j \in DOMAIN lines \ {k} : lines[j] \in Idle

\* These are the lines the receiver makes assignments for.
LEMMA Acting ==
    ASSUME NEW line
    PROVE  Client!Assignments(line) # <<>> <=> line[1] \in ActedOn
BY DEF Client!Assignments, ActedOn, Client!NameTaken, Client!Entered, Client!Outside,
       Client!Promoted

\* A step that sends nothing of the kind brings the client nothing,
LEMMA HearsNothing ==
    ASSUME NEW lines \in Seq(Idle)
    PROVE  ForClient(lines) = <<>>
<1> DEFINE told == {k \in DOMAIN lines : Client!Assignments(lines[k]) # <<>>}
<1>1. told = {}
  BY Acting DEF Idle
<1>2. Cardinality(told) = 0
  BY <1>1, FS_EmptySet
<1> DEFINE Nth(n) == CHOOSE k \in told : Cardinality({j \in told : j < k}) = n - 1
           Told(n) == <<lines[Nth(n)][1],
                        IF lines[Nth(n)][2] \in RoomIds THEN lines[Nth(n)][2] ELSE NoRoom>>
<1>3. ForClient(lines) = [n \in 1 .. Cardinality(told) |-> Told(n)]
  BY DEF ForClient
<1> HIDE DEF told, Told
<1>4. ForClient(lines) = [n \in 1 .. 0 |-> Told(n)]
  BY <1>2, <1>3
<1> QED BY <1>4

\* one that sends a single such line brings just that one,
LEMMA HearsOne ==
    ASSUME NEW lines, NEW line, Hears(lines, line)
    PROVE  ForClient(lines) = <<Read(line)>>
<1> DEFINE told == {k \in DOMAIN lines : Client!Assignments(lines[k]) # <<>>}
           Nth(n) == CHOOSE k \in told : Cardinality({j \in told : j < k}) = n - 1
<1>1. PICK k \in DOMAIN lines : lines[k] = line /\ \A j \in DOMAIN lines \ {k} : lines[j] \in Idle
  BY DEF Hears
<1>2. told = {k} /\ k \in Nat
  BY <1>1, Acting DEF Hears, Idle
<1>3. Cardinality(told) = 1
  BY <1>2, FS_Singleton
<1>4. {j \in told : j < k} = {}
  BY <1>2
<1>5. Cardinality({j \in told : j < k}) = 1 - 1
  BY <1>4, FS_EmptySet
<1>6. Nth(1) = k
  <2> HIDE DEF told
  <2> QED BY <1>2, <1>5
<1>7. ForClient(lines)
        = [n \in 1 .. Cardinality(told) |->
            <<lines[Nth(n)][1], IF lines[Nth(n)][2] \in RoomIds THEN lines[Nth(n)][2] ELSE NoRoom>>]
  BY DEF ForClient
<1> HIDE DEF told, Nth
<1> QED BY <1>1, <1>3, <1>6, <1>7 DEF Read

\* and what else is sent with it does not count.
LEMMA HearsTogether ==
    ASSUME NEW lines, NEW line, Hears(lines, line), NEW idle \in Seq(Idle)
    PROVE  Hears(lines \o idle, line) /\ Hears(idle \o lines, line)
<1>1. idle \in Seq(Line) /\ lines \in Seq(Line)
  BY DEF Idle, Hears
<1>2. PICK k \in DOMAIN lines : lines[k] = line /\ \A j \in DOMAIN lines \ {k} : lines[j] \in Idle
  BY DEF Hears
<1>3. Hears(lines \o idle, line)
  <2> DEFINE q == lines \o idle
  <2>1. q \in Seq(Line) /\ k \in DOMAIN q /\ q[k] = line
    BY <1>1, <1>2
  <2>2. \A j \in DOMAIN q \ {k} : q[j] \in Idle
    BY <1>1, <1>2
  <2> HIDE DEF q
  <2> QED BY <2>1, <2>2 DEF Hears, q
<1>4. Hears(idle \o lines, line)
  <2> DEFINE q == idle \o lines
  <2>1. q \in Seq(Line) /\ Len(idle) + k \in DOMAIN q /\ q[Len(idle) + k] = line
    BY <1>1, <1>2
  <2>2. \A j \in DOMAIN q \ {Len(idle) + k} : q[j] \in Idle
    BY <1>1, <1>2
  <2> HIDE DEF q
  <2> QED BY <2>1, <2>2 DEF Hears, q
<1> QED BY <1>3, <1>4

(***************************************************************************)
(* What a step of the server tells the client, and what it does to the      *)
(* client's record.                                                         *)
(***************************************************************************)
Rooms == {"ROOM_CREATED", "ROOM_JOINED"}
Departures == {"KICKED_FROM_ROOM", "LEFT_ROOM"}
Others == {"ROOM_NOT_FOUND", "OWNER_LEAVE_WARNING", "OWNERSHIP_RECEIVED"}

NameKept == clients'[Me].username = clients[Me].username

\* No line that matters, and a record that keeps its room.
Uneventful ==
    /\ out'[Me] \in Seq(Idle)
    /\ clients'[Me].roomId = clients[Me].roomId
    /\ clients'[Me].isRoomOwner => clients[Me].isRoomOwner

\* The line says what has become of the record.
Explains(line) ==
    \/ /\ line \in Rooms \X RoomIds
       /\ clients'[Me].roomId = line[2]
       /\ line[1] = "ROOM_JOINED" => ~clients'[Me].isRoomOwner
    \/ /\ line \in Departures \X {NoArg}
       /\ clients'[Me].roomId = NoRoom /\ ~clients'[Me].isRoomOwner
    \/ /\ line \in Others \X {NoArg}
       /\ clients'[Me].roomId = clients[Me].roomId
       /\ line[1] # "OWNERSHIP_RECEIVED" =>
            (clients'[Me].isRoomOwner => clients[Me].isRoomOwner)

Told == \E line : Hears(out'[Me], line) /\ Explains(line)

Reported == NameKept /\ (Uneventful \/ Told)

\* What others do moves the client out of its room at most.
GoesNowhereElse == clients'[Me].roomId \in {clients[Me].roomId, NoRoom}

Named == clients[Me].roomId # NoRoom => clients[Me].username # NoName

(***************************************************************************)
(* Lines that reach one handle.                                             *)
(***************************************************************************)
\* Kind by kind.
LEMMA IdleKinds ==
    /\ \A kind \in LineKinds \ ActedOn :
          /\ Plain(kind) \in Idle /\ <<Plain(kind)>> \in Seq(Idle)
          /\ \A x \in RoomIds \cup Passwords \cup {NoPassword} \cup ChatLines :
                <<kind, x>> \in Idle /\ <<<<kind, x>>>> \in Seq(Idle)
    /\ \A kind \in LineKinds \cap ActedOn :
          /\ Plain(kind) \in Line \ Idle
          /\ \A r \in RoomIds : <<kind, r>> \in Line \ Idle
<1>1. \A kind \in LineKinds \ ActedOn :
          /\ Plain(kind) \in Idle
          /\ \A x \in RoomIds \cup Passwords \cup {NoPassword} \cup ChatLines : <<kind, x>> \in Idle
  BY DEF Idle, Line, Plain
<1>2. \A x \in Idle : <<x>> \in Seq(Idle)
  OBVIOUS
<1>3. \A kind \in LineKinds \cap ActedOn :
          /\ Plain(kind) \in Line \ Idle
          /\ \A r \in RoomIds : <<kind, r>> \in Line \ Idle
  BY DEF Idle, Line, Plain
<1> QED BY <1>1, <1>2, <1>3

\* What a step that writes to several handles sends to this one.
LEMMA AtMe ==
    /\ \A to, lines : Send(to, lines)[Me] = IF Me \in to THEN lines ELSE <<>>
    /\ \A a, b : (a ++ b)[Me] = a[Me] \o b[Me]
BY MeAssumption DEF Send, ++

\* Idle lines add up to idle lines.
LEMMA IdleSeqs ==
    /\ <<>> \in Seq(Idle)
    /\ \A p, q \in Seq(Idle) : p \o q \in Seq(Idle)
OBVIOUS

\* What the client does not act on: notices, warnings to others, the history.
LEMMA IdleSends ==
    /\ \A to : \A lines \in Seq(Idle) : Send(to, lines)[Me] \in Seq(Idle)
    /\ \A kind \in LineKinds \ ActedOn : \A to : Send(to, <<Plain(kind)>>)[Me] \in Seq(Idle)
    /\ \A s : Notice(s)[Me] \in Seq(Idle)
    /\ \A t : ToRoomOf(t, "SYSTEM")[Me] \in Seq(Idle)
    /\ \A to, lines : Me \notin to => Send(to, lines)[Me] \in Seq(Idle)
    /\ Silence[Me] \in Seq(Idle)
<1>1. \A to : \A lines \in Seq(Idle) : Send(to, lines)[Me] \in Seq(Idle)
  BY AtMe, IdleSeqs
<1>2. \A kind \in LineKinds \ ActedOn : \A to : Send(to, <<Plain(kind)>>)[Me] \in Seq(Idle)
  BY <1>1, IdleKinds
<1>3. "SYSTEM" \in LineKinds \ ActedOn
  BY DEF LineKinds, ActedOn
<1>4. \A s : Notice(s)[Me] \in Seq(Idle)
  BY <1>2, <1>3 DEF Notice
<1>5. \A t : ToRoomOf(t, "SYSTEM")[Me] \in Seq(Idle)
  BY <1>2, <1>3 DEF ToRoomOf
<1>6. \A to, lines : Me \notin to => Send(to, lines)[Me] \in Seq(Idle)
  BY AtMe, IdleSeqs
<1>7. Silence[Me] \in Seq(Idle)
  BY <1>6 DEF Silence
<1> QED BY <1>1, <1>2, <1>4, <1>5, <1>6, <1>7

\* A reply of one line.
LEMMA HearsAlone ==
    ASSUME NEW line \in Line \ Idle
    PROVE  Hears(<<line>>, line)
<1>1. <<line>> \in Seq(Line) /\ DOMAIN <<line>> = {1} /\ <<line>>[1] = line
  OBVIOUS
<1> QED BY <1>1 DEF Hears

\* The block of saved messages a newcomer gets.
LEMMA HistoryIsIdle ==
    ASSUME StateTypeOK, NEW r \in RoomIds
    PROVE  HistoryBlock(r) \in Seq(Idle)
<1> DEFINE saved == GetMessageHistory(r, MAX_MESSAGE_HISTORY)
<1>1. PICK history : history = IF saved = <<>> THEN chatRooms[r].history ELSE saved
  OBVIOUS
<1>2. history \in Seq(ChatLines)
  BY <1>1, HistoryLines, HistoryTypes, HistoryAssumption
<1>3. PICK lines : lines = [k \in DOMAIN history |-> <<"CHAT", history[k]>>]
  OBVIOUS
<1>4. {"CHAT", "MESSAGE_HISTORY_START", "MESSAGE_HISTORY_END"} \subseteq LineKinds \ ActedOn
  BY DEF LineKinds, ActedOn
<1>5. lines \in Seq(Idle)
  <2>1. DOMAIN history = 1 .. Len(history) /\ Len(history) \in Nat
        /\ \A k \in 1 .. Len(history) : history[k] \in ChatLines
    BY <1>2
  <2>2. \A k \in 1 .. Len(history) : <<"CHAT", history[k]>> \in Idle
    BY <1>4, <2>1, IdleKinds
  <2> QED BY <1>3, <2>1, <2>2, IsASeq
<1>6. /\ Plain("MESSAGE_HISTORY_START") \in Idle /\ Plain("MESSAGE_HISTORY_END") \in Idle
  BY <1>4, IdleKinds
<1>7. HistoryBlock(r) = IF history = <<>> THEN <<>>
                        ELSE <<Plain("MESSAGE_HISTORY_START")>> \o lines
                                \o <<Plain("MESSAGE_HISTORY_END")>>
  BY <1>1, <1>3 DEF HistoryBlock
<1> QED BY <1>5, <1>6, <1>7

(***************************************************************************)
(* Commands, by whoever sends them: what they tell the client.              *)
(***************************************************************************)
Untouched == clients'[Me] = clients[Me]

\* A step that leaves the record alone need tell the client nothing.
LEMMA NothingHappens ==
    ASSUME Untouched, out'[Me] \in Seq(Idle)
    PROVE  Reported /\ GoesNowhereElse
BY DEF Untouched, Reported, Uneventful, NameKept, GoesNowhereElse

\* What is refused to others, or leaves no trace.
LEMMA RepliesToOthers ==
    ASSUME NEW s \in Sockets \ {Me}, NEW line, Reply(s, line)
    PROVE  Reported /\ GoesNowhereElse
BY NothingHappens, IdleSends DEF Reply, state, memory, Untouched

\* Nor do the answers the client ignores.
LEMMA IdleReplies ==
    ASSUME NEW s, NEW line \in Idle, Reply(s, line)
    PROVE  Reported /\ GoesNowhereElse
<1>1. <<line>> \in Seq(Idle)
  OBVIOUS
<1> QED BY <1>1, NothingHappens, IdleSends DEF Reply, state, memory, Untouched

LEMMA Refusals ==
    ASSUME NEW s, Reply(s, Plain("ERROR"))
    PROVE  Reported /\ GoesNowhereElse
BY IdleReplies, IdleKinds DEF LineKinds, ActedOn

LEMMA Warnings ==
    ASSUME NEW kind \in {"ROOM_NOT_FOUND", "OWNER_LEAVE_WARNING"}, NEW s, Reply(s, Plain(kind))
    PROVE  Reported /\ GoesNowhereElse
<1>1. CASE s # Me
  BY <1>1, NothingHappens, IdleSends DEF Reply, state, memory, Untouched
<1>2. CASE s = Me
  <2>1. Plain(kind) \in Line \ Idle
    BY IdleKinds DEF LineKinds, ActedOn
  <2>2. Hears(out'[Me], Plain(kind))
    BY <1>2, <2>1, HearsAlone, AtMe DEF Reply
  <2>3. Explains(Plain(kind)) /\ NameKept /\ GoesNowhereElse
    BY DEF Explains, NameKept, GoesNowhereElse, Plain, Others, Reply, state, memory
  <2> QED BY <2>2, <2>3 DEF Reported, Told
<1> QED BY <1>1, <1>2

\* SETNAME of another client.
LEMMA NamesSet ==
    ASSUME StateTypeOK, NEW s \in connected \ {Me}, NEW name, handleSetNameCommand(s, name)
    PROVE  Reported /\ GoesNowhereElse
<1>1. s \in Sockets \ {Me}
  BY DEF StateTypeOK
<1>2. CASE Reply(s, Plain("ERROR")) \/ Reply(s, Plain("NAME_TAKEN"))
  BY <1>1, <1>2, RepliesToOthers
<1>3. CASE /\ clients' = [clients EXCEPT ![s] = [@ EXCEPT !.username = name]]
           /\ out' = Send({s}, <<Plain("NAME_SET")>>)
  BY <1>1, <1>3, NothingHappens, IdleSends, MeAssumption DEF Untouched, StateTypeOK
<1> QED BY <1>2, <1>3 DEF handleSetNameCommand

LEMMA Creates ==
    ASSUME StateTypeOK, NEW s \in connected, NEW isPrivate, NEW password,
           handleCreateCommand(s, isPrivate, password)
    PROVE  Reported /\ (s # Me => GoesNowhereElse)
<1>1. s \in Sockets
  BY DEF StateTypeOK
<1>2. CASE Reply(s, Plain("ERROR"))
  BY <1>2, Refusals
<1>3. ASSUME NEW r \in RoomIds, CreateRoom(s, isPrivate, password, r)
      PROVE  Reported /\ (s # Me => GoesNowhereElse)
  <2>1. /\ clients' = [clients EXCEPT ![s] = [@ EXCEPT !.roomId = r, !.isRoomOwner = TRUE]]
        /\ out' = Notice(s) ++ Send({s}, <<<<"ROOM_CREATED", r>>>>)
    BY <1>3 DEF CreateRoom
  <2>2. out'[Me] = Notice(s)[Me] \o Send({s}, <<<<"ROOM_CREATED", r>>>>)[Me]
    BY <2>1, AtMe
  <2>3. CASE s # Me
    <3>1. Untouched
      BY <1>1, <2>1, <2>3, MeAssumption DEF Untouched, StateTypeOK
    <3>2. out'[Me] \in Seq(Idle)
      BY <2>2, <2>3, IdleSends, IdleSeqs
    <3> QED BY <3>1, <3>2, NothingHappens
  <2>4. CASE s = Me
    <3>1. <<"ROOM_CREATED", r>> \in Line \ Idle
      BY IdleKinds DEF LineKinds, ActedOn
    <3>2. Hears(Send({s}, <<<<"ROOM_CREATED", r>>>>)[Me], <<"ROOM_CREATED", r>>)
      BY <2>4, <3>1, HearsAlone, AtMe
    <3>3. Hears(out'[Me], <<"ROOM_CREATED", r>>)
      BY <2>2, <3>2, HearsTogether, IdleSends
    <3>4. /\ clients'[Me].roomId = r /\ clients'[Me].username = clients[Me].username
      BY <2>1, <2>4, MeAssumption DEF StateTypeOK, ClientInfo
    <3>5. Explains(<<"ROOM_CREATED", r>>) /\ NameKept
      BY <3>4 DEF Explains, NameKept, Rooms
    <3> QED BY <2>4, <3>3, <3>5 DEF Reported, Told
  <2> QED BY <2>3, <2>4
<1> QED BY <1>2, <1>3 DEF handleCreateCommand

LEMMA Joins ==
    ASSUME StateTypeOK, NEW s \in connected, NEW r \in RoomIds, NEW password,
           handleJoinCommand(s, r, password)
    PROVE  Reported /\ (s # Me => GoesNowhereElse)
<1>1. s \in Sockets
  BY DEF StateTypeOK
<1>2. CASE Reply(s, Plain(JoinRefusal(s, r, password)))
  <2>1. JoinRefusal(s, r, password) \in {"ERROR", "ROOM_NOT_FOUND",
                                        "PASSWORD_REQUIRED", "WRONG_PASSWORD"}
    BY DEF JoinRefusal
  <2>2. CASE JoinRefusal(s, r, password) = "ROOM_NOT_FOUND"
    BY <1>2, <2>2, Warnings
  <2>3. CASE JoinRefusal(s, r, password) # "ROOM_NOT_FOUND"
    <3>1. Plain(JoinRefusal(s, r, password)) \in Idle
      BY <2>1, <2>3, IdleKinds DEF LineKinds, ActedOn
    <3> QED BY <1>2, <3>1, IdleReplies
  <2> QED BY <2>2, <2>3
<1>3. CASE JoinRoom(s, r)
  <2> DEFINE before == Notice(s)
             mine == Send({s}, <<<<"ROOM_JOINED", r>>>> \o HistoryBlock(r))
             after == Send(chatRooms[r].clients \ {s}, <<Plain("SYSTEM")>>)
  <2>1. /\ clients' = [clients EXCEPT ![s] = [@ EXCEPT !.roomId = r, !.isRoomOwner = FALSE]]
        /\ out' = before ++ mine ++ after
    BY <1>3 DEF JoinRoom
  <2>2. out'[Me] = before[Me] \o mine[Me] \o after[Me]
    <3> HIDE DEF before, mine, after
    <3>1. out'[Me] = (before ++ mine)[Me] \o after[Me]
      BY <2>1, AtMe
    <3>2. (before ++ mine)[Me] = before[Me] \o mine[Me]
      BY AtMe
    <3> QED BY <3>1, <3>2
  <2>3. before[Me] \in Seq(Idle) /\ after[Me] \in Seq(Idle)
    BY IdleSends DEF LineKinds, ActedOn
  <2>4. CASE s # Me
    <3>1. Untouched
      BY <1>1, <2>1, <2>4, MeAssumption DEF Untouched, StateTypeOK
    <3>2. mine[Me] \in Seq(Idle)
      BY <2>4, IdleSends
    <3>3. out'[Me] \in Seq(Idle)
      <4> HIDE DEF before, mine, after
      <4> QED BY <2>2, <2>3, <3>2, IdleSeqs
    <3> QED BY <3>1, <3>3, NothingHappens
  <2>5. CASE s = Me
    <3>1. <<"ROOM_JOINED", r>> \in Line \ Idle
      BY IdleKinds DEF LineKinds, ActedOn
    <3>2. mine[Me] = <<<<"ROOM_JOINED", r>>>> \o HistoryBlock(r)
      BY <2>5, AtMe
    <3>3. Hears(mine[Me], <<"ROOM_JOINED", r>>)
      BY <3>1, <3>2, HearsAlone, HearsTogether, HistoryIsIdle
    <3>4. Hears(out'[Me], <<"ROOM_JOINED", r>>)
      <4> HIDE DEF before, mine, after
      <4>1. Hears(before[Me] \o mine[Me], <<"ROOM_JOINED", r>>)
        BY <2>3, <3>3, HearsTogether
      <4> QED BY <2>2, <2>3, <4>1, HearsTogether
    <3>5. /\ clients'[Me].roomId = r /\ clients'[Me].username = clients[Me].username
          /\ ~clients'[Me].isRoomOwner
      BY <2>1, <2>5, MeAssumption DEF StateTypeOK, ClientInfo
    <3>6. Explains(<<"ROOM_JOINED", r>>) /\ NameKept
      BY <3>5 DEF Explains, NameKept, Rooms
    <3> QED BY <2>5, <3>4, <3>6 DEF Reported, Told
  <2> QED BY <2>4, <2>5
<1> QED BY <1>2, <1>3 DEF handleJoinCommand

LEMMA Enquiries ==
    ASSUME StateTypeOK, NEW s \in connected,
           handleListCommand(s) \/ handleUsersCommand(s) \/ handleGetPasswordCommand(s)
    PROVE  Reported /\ GoesNowhereElse
<1>1. CASE Reply(s, Plain("ERROR"))
  BY <1>1, Refusals
<1>2. CASE Reply(s, Plain("ROOMS_LIST")) \/ Reply(s, Plain("USERS_LIST"))
  BY <1>2, IdleReplies, IdleKinds DEF LineKinds, ActedOn
<1>3. CASE clients[s].roomId \in live
           /\ Reply(s, <<"ROOM_PASSWORD", chatRooms[clients[s].roomId].password>>)
  <2>1. chatRooms[clients[s].roomId] \in Room
    BY <1>3 DEF StateTypeOK
  <2>2. <<"ROOM_PASSWORD", chatRooms[clients[s].roomId].password>> \in Idle
    BY <2>1, IdleKinds DEF Room, LineKinds, ActedOn
  <2> QED BY <1>3, <2>2, IdleReplies
<1> QED BY <1>1, <1>2, <1>3
    DEF handleListCommand, handleUsersCommand, handleGetPasswordCommand

LEMMA Messages ==
    ASSUME NEW s, NEW name, handleChatMessage(s) \/ handlePrivateMessage(s, name)
    PROVE  Reported /\ GoesNowhereElse
<1>1. CASE Reply(s, Plain("ERROR"))
  BY <1>1, Refusals
<1>2. CASE out' = Silence /\ UNCHANGED clients
  BY <1>2, NothingHappens, IdleSends DEF Untouched
<1> QED BY <1>1, <1>2 DEF handleChatMessage, handlePrivateMessage, Enqueue

LEMMA PasswordChanges ==
    ASSUME NEW s, NEW password \in Passwords \cup {NoPassword},
           handleChangePasswordCommand(s, password)
    PROVE  Reported /\ GoesNowhereElse
<1>1. CASE Reply(s, Plain("ERROR"))
  BY <1>1, Refusals
<1>2. CASE /\ out' = Send({s}, <<<<"PASSWORD_CHANGED", password>>>>) ++ Notice(s)
           /\ UNCHANGED clients
  <2>1. <<<<"PASSWORD_CHANGED", password>>>> \in Seq(Idle)
    BY IdleKinds DEF LineKinds, ActedOn
  <2>2. out'[Me] = Send({s}, <<<<"PASSWORD_CHANGED", password>>>>)[Me] \o Notice(s)[Me]
    BY <1>2, AtMe
  <2>3. out'[Me] \in Seq(Idle)
    BY <2>1, <2>2, IdleSends, IdleSeqs
  <2> QED BY <1>2, <2>3, NothingHappens DEF Untouched
<1> QED BY <1>1, <1>2 DEF handleChangePasswordCommand

\* Somebody is put out of a room: t is told, its room reads a SYSTEM line.
LEMMA Expels ==
    ASSUME StateTypeOK, NEW t \in connected,
           clients' = LeaveRoomRecord(t),
           NEW lines \in Seq(Idle), out'[Me] = Expelled(t)[Me] \o lines
    PROVE  Reported /\ GoesNowhereElse
<1>1. t \in Sockets
  BY DEF StateTypeOK
<1> DEFINE bye == Send({t}, <<Plain("SYSTEM"), Plain("KICKED_FROM_ROOM")>>)
           rest == ToRoomOf(t, "SYSTEM")
<1>2. Expelled(t)[Me] = bye[Me] \o rest[Me]
  BY AtMe DEF Expelled
<1>3. rest[Me] \in Seq(Idle)
  BY IdleSends
<1>4. CASE t # Me
  <2>1. Untouched
    BY <1>1, <1>4, MeAssumption DEF Untouched, LeaveRoomRecord, StateTypeOK
  <2>2. bye[Me] \in Seq(Idle)
    BY <1>4, IdleSends
  <2>3. out'[Me] \in Seq(Idle)
    <3> HIDE DEF bye, rest
    <3> QED BY <1>2, <1>3, <2>2, IdleSeqs
  <2> QED BY <2>1, <2>3, NothingHappens
<1>5. CASE t = Me
  <2>1. Plain("KICKED_FROM_ROOM") \in Line \ Idle /\ <<Plain("SYSTEM")>> \in Seq(Idle)
    BY IdleKinds DEF LineKinds, ActedOn
  <2>2. bye[Me] = <<Plain("SYSTEM")>> \o <<Plain("KICKED_FROM_ROOM")>>
    BY <1>5, AtMe
  <2>3. Hears(bye[Me], Plain("KICKED_FROM_ROOM"))
    BY <2>1, <2>2, HearsAlone, HearsTogether
  <2>4. Hears(out'[Me], Plain("KICKED_FROM_ROOM"))
    <3> HIDE DEF bye, rest
    <3>1. Hears(bye[Me] \o rest[Me], Plain("KICKED_FROM_ROOM"))
      BY <1>3, <2>3, HearsTogether
    <3> QED BY <1>2, <3>1, HearsTogether
  <2>5. /\ clients'[Me].roomId = NoRoom /\ clients'[Me].username = clients[Me].username
        /\ ~clients'[Me].isRoomOwner
    BY <1>5, MeAssumption DEF StateTypeOK, ClientInfo, LeaveRoomRecord
  <2>6. Explains(Plain("KICKED_FROM_ROOM")) /\ NameKept /\ GoesNowhereElse
    BY <2>5 DEF Explains, NameKept, Departures, Plain, GoesNowhereElse
  <2> QED BY <2>4, <2>6 DEF Reported, Told
<1> QED BY <1>4, <1>5

LEMMA Kicks ==
    ASSUME StateTypeOK, NEW s \in connected, NEW name, handleKickCommand(s, name)
    PROVE  Reported /\ GoesNowhereElse
<1>1. CASE Reply(s, Plain("ERROR"))
  BY <1>1, Refusals
<1>2. ASSUME NEW t \in findClientByUsername(name, clients[s].roomId),
             clients' = LeaveRoomRecord(t), out' = Expelled(t)
      PROVE  Reported /\ GoesNowhereElse
  <2>1. t \in connected
    BY DEF findClientByUsername
  <2>2. Expelled(t)[Me] \in Seq(Line)
    <3>1. Expelled(t) \in [Sockets -> Seq(Line)]
      BY Sends
    <3> QED BY <3>1, MeAssumption
  <2>3. out'[Me] = Expelled(t)[Me] \o <<>>
    BY <1>2, <2>2
  <2> QED BY <1>2, <2>1, <2>3, Expels, IdleSeqs
<1> QED BY <1>1, <1>2 DEF handleKickCommand

LEMMA Bans ==
    ASSUME StateTypeOK, NEW s \in connected, NEW name, handleBanCommand(s, name)
    PROVE  Reported /\ GoesNowhereElse
<1> DEFINE success == Send({s}, <<Plain("SUCCESS")>>)
<1>1. success[Me] \in Seq(Idle)
  BY IdleSends DEF LineKinds, ActedOn
<1>2. CASE Reply(s, Plain("ERROR"))
  BY <1>2, Refusals
<1>3. CASE out' = success /\ UNCHANGED clients
  BY <1>1, <1>3, NothingHappens DEF Untouched
<1>4. ASSUME NEW t \in findClientByUsername(name, clients[s].roomId),
             clients' = LeaveRoomRecord(t), out' = Expelled(t) ++ success
      PROVE  Reported /\ GoesNowhereElse
  <2>1. t \in connected
    BY DEF findClientByUsername
  <2>2. out'[Me] = Expelled(t)[Me] \o success[Me]
    <3> HIDE DEF success
    <3> QED BY <1>4, AtMe
  <2> QED BY <1>1, <1>4, <2>1, <2>2, Expels
<1> QED BY <1>2, <1>3, <1>4 DEF handleBanCommand

\* The room gets a new owner, which is told.
LEMMA Promotes ==
    ASSUME NEW before \in Seq(Idle), NEW after \in Seq(Idle),
           out'[Me] = before \o <<Plain("OWNERSHIP_RECEIVED")>> \o after,
           NameKept, clients'[Me].roomId = clients[Me].roomId
    PROVE  Reported /\ GoesNowhereElse
<1>1. Plain("OWNERSHIP_RECEIVED") \in Line \ Idle
  BY IdleKinds DEF LineKinds, ActedOn
<1>2. Hears(before \o <<Plain("OWNERSHIP_RECEIVED")>>, Plain("OWNERSHIP_RECEIVED"))
  BY <1>1, HearsAlone, HearsTogether
<1>3. Hears(out'[Me], Plain("OWNERSHIP_RECEIVED"))
  BY <1>2, HearsTogether
<1>4. Explains(Plain("OWNERSHIP_RECEIVED")) /\ GoesNowhereElse
  BY DEF Explains, Others, Plain, GoesNowhereElse
<1> QED BY <1>3, <1>4 DEF Reported, Told

LEMMA Transfers ==
    ASSUME StateTypeOK, NEW s \in connected, NEW name, handleTransferCommand(s, name)
    PROVE  Reported /\ GoesNowhereElse
<1>1. CASE Reply(s, Plain("ERROR"))
  BY <1>1, Refusals
<1>2. ASSUME NEW t \in findClientByUsername(name, clients[s].roomId), ~NotForOwnerToDo(s, name),
             clients' = [clients EXCEPT ![s] = [@ EXCEPT !.isRoomOwner = FALSE],
                                        ![t] = [@ EXCEPT !.isRoomOwner = TRUE]],
             out' = ToRoomOf(s, "SYSTEM") ++ Send({s}, <<Plain("SUCCESS")>>)
                                          ++ Send({t}, <<Plain("OWNERSHIP_RECEIVED")>>)
      PROVE  Reported /\ GoesNowhereElse
  <2>1. s \in Sockets /\ t \in Sockets /\ s # t
    BY <1>2 DEF findClientByUsername, NotForOwnerToDo, StateTypeOK
  <2> DEFINE first == ToRoomOf(s, "SYSTEM")
             middle == Send({s}, <<Plain("SUCCESS")>>)
             third == Send({t}, <<Plain("OWNERSHIP_RECEIVED")>>)
  <2>2. first[Me] \in Seq(Idle) /\ middle[Me] \in Seq(Idle)
    BY IdleSends DEF LineKinds, ActedOn
  <2>3. first[Me] \o middle[Me] \in Seq(Idle)
    <3> HIDE DEF first, middle
    <3> QED BY <2>2, IdleSeqs
  <2>4. out'[Me] = (first[Me] \o middle[Me]) \o third[Me]
    <3> HIDE DEF first, middle, third
    <3>1. out'[Me] = (first ++ middle)[Me] \o third[Me]
      BY <1>2, AtMe DEF first, middle, third
    <3>2. (first ++ middle)[Me] = first[Me] \o middle[Me]
      BY AtMe
    <3> QED BY <3>1, <3>2
  <2>5. /\ NameKept /\ clients'[Me].roomId = clients[Me].roomId
        /\ Me # t => (clients'[Me].isRoomOwner => clients[Me].isRoomOwner)
    BY <1>2, <2>1, MeAssumption DEF NameKept, StateTypeOK, ClientInfo
  <2>6. CASE t = Me
    <3>1. third[Me] = <<Plain("OWNERSHIP_RECEIVED")>> \o <<>>
      BY <2>6, AtMe
    <3> HIDE DEF first, middle, third
    <3>2. PICK before \in Seq(Idle) : before = first[Me] \o middle[Me]
      BY <2>3
    <3>3. out'[Me] = before \o <<Plain("OWNERSHIP_RECEIVED")>> \o <<>>
      BY <2>4, <3>1, <3>2
    <3> QED BY <2>5, <3>3, Promotes, IdleSeqs
  <2>7. CASE t # Me
    <3>1. third[Me] \in Seq(Idle)
      BY <2>7, IdleSends
    <3>2. out'[Me] \in Seq(Idle)
      <4> HIDE DEF first, middle, third
      <4> QED BY <2>3, <2>4, <3>1, IdleSeqs
    <3> QED BY <2>5, <2>7, <3>2 DEF Reported, Uneventful, GoesNowhereElse
  <2> QED BY <2>6, <2>7
<1> QED BY <1>1, <1>2 DEF handleTransferCommand

LEMMA Leaves ==
    ASSUME StateTypeOK, NEW s \in connected, handleLeaveCommand(s)
    PROVE  Reported /\ GoesNowhereElse
<1>1. s \in Sockets
  BY DEF StateTypeOK
<1>2. CASE Reply(s, Plain("ERROR"))
  BY <1>2, Refusals
<1>3. CASE Reply(s, Plain("OWNER_LEAVE_WARNING"))
  BY <1>3, Warnings
<1>4. CASE /\ ~clients[s].isRoomOwner
           /\ clients' = [clients EXCEPT ![s] = [@ EXCEPT !.roomId = NoRoom]]
           /\ out' = Notice(s) ++ Send({s}, <<Plain("LEFT_ROOM")>>)
  <2>1. out'[Me] = Notice(s)[Me] \o Send({s}, <<Plain("LEFT_ROOM")>>)[Me]
    BY <1>4, AtMe
  <2>2. CASE s # Me
    <3>1. Untouched
      BY <1>1, <1>4, <2>2, MeAssumption DEF Untouched, StateTypeOK
    <3>2. out'[Me] \in Seq(Idle)
      BY <2>1, <2>2, IdleSends, IdleSeqs
    <3> QED BY <3>1, <3>2, NothingHappens
  <2>3. CASE s = Me
    <3>1. Plain("LEFT_ROOM") \in Line \ Idle
      BY IdleKinds DEF LineKinds, ActedOn
    <3>2. Hears(Send({s}, <<Plain("LEFT_ROOM")>>)[Me], Plain("LEFT_ROOM"))
      BY <2>3, <3>1, HearsAlone, AtMe
    <3>3. Hears(out'[Me], Plain("LEFT_ROOM"))
      BY <2>1, <3>2, HearsTogether, IdleSends
    <3>4. /\ clients'[Me].roomId = NoRoom /\ clients'[Me].username = clients[Me].username
          /\ ~clients'[Me].isRoomOwner
      BY <1>4, <2>3, MeAssumption DEF StateTypeOK, ClientInfo
    <3>5. Explains(Plain("LEFT_ROOM")) /\ NameKept /\ GoesNowhereElse
      BY <3>4 DEF Explains, NameKept, Departures, Plain, GoesNowhereElse
    <3> QED BY <3>3, <3>5 DEF Reported, Told
  <2> QED BY <2>2, <2>3
<1> QED BY <1>2, <1>3, <1>4 DEF handleLeaveCommand, IsOwnerInRoom

\* What the room reads of the succession, and the successor.
LEMMA SuccessionLines ==
    ASSUME NEW s, NEW t
    PROVE  /\ t # Me => Succession(s, t)[Me] \in Seq(Idle)
           /\ t = Me /\ clients[t].username # NoName =>
                \E before \in Seq(Idle) :
                    Succession(s, t)[Me] = before \o <<Plain("OWNERSHIP_RECEIVED")>>
<1> DEFINE first == ToRoomOf(s, "SYSTEM")
           then == Send({t}, <<Plain("OWNERSHIP_RECEIVED")>>)
<1>1. first[Me] \in Seq(Idle)
  BY IdleSends
<1>2. CASE clients[t].username = NoName
  BY <1>2, IdleSends DEF Succession
<1>3. CASE clients[t].username # NoName
  <2>1. Succession(s, t)[Me] = first[Me] \o then[Me]
    <3>1. Succession(s, t) = first ++ then
      BY <1>3 DEF Succession
    <3> HIDE DEF first, then
    <3> QED BY <3>1, AtMe
  <2>2. t # Me => then[Me] \in Seq(Idle)
    BY IdleSends
  <2>3. t = Me => then[Me] = <<Plain("OWNERSHIP_RECEIVED")>>
    BY AtMe
  <2> HIDE DEF first, then
  <2> QED BY <1>1, <2>1, <2>2, <2>3, IdleSeqs
<1> QED BY <1>2, <1>3

LEMMA ForceLeaves ==
    ASSUME MembershipInv, Named, NEW s \in connected, handleForceLeaveCommand(s)
    PROVE  Reported /\ GoesNowhereElse
<1> DEFINE r == clients[s].roomId
           notice == Notice(s)
           left == Send({s}, <<Plain("LEFT_ROOM")>>)
           bye == notice ++ left
<1>0. s \in Sockets /\ StateTypeOK /\ MembersKnowTheirRoom
  BY DEF MembershipInv, StateTypeOK
<1>1. bye[Me] = notice[Me] \o left[Me] /\ notice[Me] \in Seq(Idle)
  BY AtMe, IdleSends
<1>2. s # Me => bye[Me] \in Seq(Idle)
  <2>1. s # Me => left[Me] \in Seq(Idle)
    BY IdleSends
  <2> HIDE DEF notice, left, bye
  <2> QED BY <1>1, <2>1, IdleSeqs
<1>3. s = Me => Hears(bye[Me], Plain("LEFT_ROOM"))
  <2>1. Plain("LEFT_ROOM") \in Line \ Idle
    BY IdleKinds DEF LineKinds, ActedOn
  <2>2. s = Me => Hears(left[Me], Plain("LEFT_ROOM"))
    BY <2>1, HearsAlone, AtMe
  <2> HIDE DEF notice, left, bye
  <2> QED BY <1>1, <2>2, HearsTogether
<1>4. CASE Reply(s, Plain("ERROR"))
  BY <1>4, Refusals
<1>5. ASSUME s = Me, clients'[Me] = LeaveRoomRecord(s)[Me],
             NEW lines \in Seq(Idle), out'[Me] = lines \o bye[Me]
      PROVE  Reported /\ GoesNowhereElse
  <2>1. /\ clients'[Me].roomId = NoRoom /\ clients'[Me].username = clients[Me].username
        /\ ~clients'[Me].isRoomOwner
    BY <1>0, <1>5, MeAssumption DEF StateTypeOK, ClientInfo, LeaveRoomRecord
  <2>2. Explains(Plain("LEFT_ROOM")) /\ NameKept /\ GoesNowhereElse
    BY <2>1 DEF Explains, NameKept, Departures, Plain, GoesNowhereElse
  <2> HIDE DEF bye
  <2>3. Hears(out'[Me], Plain("LEFT_ROOM"))
    BY <1>3, <1>5, HearsTogether
  <2> QED BY <2>2, <2>3 DEF Reported, Told
<1>6. CASE clients' = LeaveRoomRecord(s) /\ out' = bye
  <2>1. CASE s # Me
    <3>1. Untouched
      BY <1>0, <1>6, <2>1, MeAssumption DEF Untouched, StateTypeOK, LeaveRoomRecord
    <3> HIDE DEF bye
    <3> QED BY <1>2, <1>6, <2>1, <3>1, NothingHappens
  <2>2. CASE s = Me
    <3> HIDE DEF bye
    <3>1. bye[Me] = <<>> \o bye[Me]
      BY <1>3, <2>2 DEF Hears
    <3> QED BY <1>5, <1>6, <2>2, <3>1, IdleSeqs
  <2> QED BY <2>1, <2>2
<1>7. ASSUME r \in live, NEW t \in Successors(chatRooms[r], s) \cap connected,
             clients' = [LeaveRoomRecord(s) EXCEPT ![t] = [@ EXCEPT !.isRoomOwner = TRUE]],
             out' = Succession(s, t) ++ bye
      PROVE  Reported /\ GoesNowhereElse
  <2>1. t \in connected /\ t \in Sockets /\ t # s /\ clients[t].roomId = r
    <3> HIDE DEF notice, left, bye
    <3>1. t \in chatRooms[r].clients /\ t # s
      BY <1>7, SuccessorsAreMembers
    <3>2. t \in connected /\ t \in Sockets
      BY <1>0, <1>7 DEF StateTypeOK
    <3>3. clients[t].roomId = r
      BY <1>0, <1>7, <3>1 DEF MembersKnowTheirRoom
    <3> QED BY <3>1, <3>2, <3>3
  <2>2. out'[Me] = Succession(s, t)[Me] \o bye[Me]
    <3> HIDE DEF bye
    <3> QED BY <1>7, AtMe
  <2>3. LeaveRoomRecord(s) \in [Sockets -> ClientInfo]
    BY <1>0, LeaveRoomRecordType
  <2>4. CASE s = Me
    <3>1. clients'[Me] = LeaveRoomRecord(s)[Me]
      BY <1>7, <2>1, <2>3, <2>4, MeAssumption
    <3>2. Succession(s, t)[Me] \in Seq(Idle)
      BY <2>1, <2>4, SuccessionLines
    <3> HIDE DEF bye
    <3> QED BY <1>5, <2>2, <2>4, <3>1, <3>2
  <2>5. CASE t = Me
    <3>1. clients[Me].username # NoName
      BY <1>0, <1>7, <2>1, <2>5, RoomIdsAssumption DEF Named, StateTypeOK
    <3>2. LeaveRoomRecord(s)[Me] = clients[Me]
      BY <1>0, <2>1, <2>5 DEF LeaveRoomRecord, StateTypeOK
    <3>3. clients'[Me] = [clients[Me] EXCEPT !.isRoomOwner = TRUE]
      BY <1>7, <2>3, <2>5, <3>2, MeAssumption
    <3>4. NameKept /\ clients'[Me].roomId = clients[Me].roomId
      BY <1>0, <3>3, MeAssumption DEF NameKept, StateTypeOK, ClientInfo
    <3>5. PICK before \in Seq(Idle) :
            Succession(s, t)[Me] = before \o <<Plain("OWNERSHIP_RECEIVED")>>
      BY <2>5, <3>1, SuccessionLines
    <3>6. bye[Me] \in Seq(Idle)
      BY <1>2, <2>1, <2>5
    <3> HIDE DEF bye
    <3>7. out'[Me] = before \o <<Plain("OWNERSHIP_RECEIVED")>> \o bye[Me]
      BY <2>2, <3>5
    <3> QED BY <3>4, <3>6, <3>7, Promotes
  <2>6. CASE s # Me /\ t # Me
    <3>1. Untouched
      BY <1>0, <1>7, <2>3, <2>6, MeAssumption DEF Untouched, StateTypeOK, LeaveRoomRecord
    <3>2. Succession(s, t)[Me] \in Seq(Idle)
      BY <2>6, SuccessionLines
    <3>3. out'[Me] \in Seq(Idle)
      <4> HIDE DEF bye
      <4> QED BY <1>2, <2>2, <2>6, <3>2, IdleSeqs
    <3> QED BY <3>1, <3>3, NothingHappens
  <2> QED BY <2>4, <2>5, <2>6
<1> QED BY <1>4, <1>6, <1>7 DEF handleForceLeaveCommand

(***************************************************************************)
(* The other steps.                                                         *)
(***************************************************************************)
LEMMA Deliveries ==
    ASSUME StateTypeOK, broadcastMessages
    PROVE  Reported /\ GoesNowhereElse
<1> DEFINE m == Head(messageQueue)
           line == <<m.senderName, m.content>>
<1>1. m \in Message
  BY DEF broadcastMessages, StateTypeOK
<1>2. line \in ChatLines
  BY <1>1 DEF Message, ChatLines
<1>3. {"CHAT", "PM_FROM", "PM_SENT", "ERROR"} \subseteq LineKinds \ ActedOn
  BY DEF LineKinds, ActedOn
<1>4. \A kind \in LineKinds \ ActedOn : \A to : Send(to, <<<<kind, line>>>>)[Me] \in Seq(Idle)
  BY <1>2, IdleKinds, IdleSends
<1>5. out'[Me] \in Seq(Idle)
  <2>1. CASE DropMessage(m)
    BY <2>1, IdleSends DEF DropMessage
  <2>2. CASE DeliverPublic(m)
    BY <1>3, <1>4, <2>2 DEF DeliverPublic
  <2>3. CASE DeliverPrivate(m)
    <3>1. CASE out' = SendToSender(m, Plain("ERROR"))
      BY <1>3, <3>1, IdleSends DEF SendToSender
    <3>2. ASSUME NEW t, out' = Send({t}, <<<<"PM_FROM", line>>>>)
                               ++ SendToSender(m, <<"PM_SENT", line>>)
          PROVE  out'[Me] \in Seq(Idle)
      <4>1. Send({t}, <<<<"PM_FROM", line>>>>)[Me] \in Seq(Idle)
        BY <1>3, <1>4
      <4>2. SendToSender(m, <<"PM_SENT", line>>)[Me] \in Seq(Idle)
        BY <1>3, <1>4 DEF SendToSender
      <4>3. out'[Me] = Send({t}, <<<<"PM_FROM", line>>>>)[Me]
                          \o SendToSender(m, <<"PM_SENT", line>>)[Me]
        BY <3>2, AtMe
      <4> QED BY <4>1, <4>2, <4>3, IdleSeqs
    <3> QED BY <2>3, <3>1, <3>2 DEF DeliverPrivate
  <2> QED BY <2>1, <2>2, <2>3 DEF broadcastMessages
<1> QED BY <1>5, NothingHappens DEF broadcastMessages, Untouched

LEMMA Cleanups ==
    ASSUME NEW r \in RoomIds, cleanupEmptyRoom(r)
    PROVE  Reported /\ GoesNowhereElse
BY NothingHappens, IdleSends DEF cleanupEmptyRoom, Untouched

\* Connections of the others.
LEMMA Comings ==
    ASSUME StateTypeOK, NEW s \in Sockets \ {Me}, Accept(s)
    PROVE  Reported /\ GoesNowhereElse
BY NothingHappens, IdleSends, MeAssumption DEF Accept, Untouched, StateTypeOK

LEMMA Goings ==
    ASSUME StateTypeOK, NEW s \in Sockets \ {Me}, handleClientDisconnect(s)
    PROVE  Reported /\ GoesNowhereElse
BY NothingHappens, IdleSends, MeAssumption DEF handleClientDisconnect, Untouched, StateTypeOK

\* One line of another client.
LEMMA OthersCommands ==
    ASSUME MembershipInv, Named, NEW s \in connected \ {Me}, handleClientMessage(s)
    PROVE  Reported /\ GoesNowhereElse
<1>0. StateTypeOK
  BY DEF MembershipInv
<1>1. ASSUME NEW name \in Usernames,
             \/ handleSetNameCommand(s, name) \/ handleKickCommand(s, name)
             \/ handleBanCommand(s, name) \/ handleTransferCommand(s, name)
             \/ handlePrivateMessage(s, name)
      PROVE  Reported /\ GoesNowhereElse
  BY <1>0, <1>1, NamesSet, Kicks, Bans, Transfers, Messages
<1>2. ASSUME NEW password \in Passwords \cup {NoPassword},
             handleCreateCommand(s, TRUE, password) \/ handleChangePasswordCommand(s, password)
      PROVE  Reported /\ GoesNowhereElse
  BY <1>0, <1>2, Creates, PasswordChanges
<1>3. ASSUME NEW password \in Passwords \cup {NoPassword}, NEW r \in RoomIds,
             handleJoinCommand(s, r, password)
      PROVE  Reported /\ GoesNowhereElse
  BY <1>0, <1>3, Joins
<1>4. CASE handleCreateCommand(s, FALSE, NoPassword)
  BY <1>0, <1>4, Creates
<1>5. CASE handleListCommand(s) \/ handleUsersCommand(s) \/ handleGetPasswordCommand(s)
  BY <1>0, <1>5, Enquiries
<1>6. CASE handleLeaveCommand(s) \/ handleForceLeaveCommand(s)
  BY <1>0, <1>6, Leaves, ForceLeaves
<1>7. CASE handleChatMessage(s)
  BY <1>7, Messages
<1> QED BY <1>1, <1>2, <1>3, <1>4, <1>5, <1>6, <1>7, Zenon DEF handleClientMessage

(***************************************************************************)
(* The client's own commands.                                               *)
(***************************************************************************)
\* What a command carries is what its handler takes.
Fits(c) ==
    /\ c[1] \in {"SETNAME", "PM", "KICK", "BAN", "TRANSFER"} => c[2] \in Names
    /\ c[1] \in {"CREATE PRIVATE", "CHANGEPASSWORD"} => c[2] \in Passwords
    /\ c[1] = "JOIN" => c[2] \in RoomIds /\ c[3] \in Passwords \cup {NoPassword}

\* Each command of the vocabulary has arguments the handlers accept.
LEMMA CommandsFit ==
    ASSUME NEW c \in Client!Command
    PROVE  Fits(c)
<1>1. ASSUME c \in {"SETNAME", "PM", "KICK", "BAN", "TRANSFER"} \X Names PROVE Fits(c)
  BY <1>1 DEF Fits
<1>2. ASSUME c \in {"CREATE PRIVATE", "CHANGEPASSWORD"} \X Passwords PROVE Fits(c)
  BY <1>2 DEF Fits
<1>3. ASSUME c \in {"JOIN"} \X RoomIds \X (Passwords \cup {NoPassword}) PROVE Fits(c)
  BY <1>3 DEF Fits
<1>4. \A kind \in {"CHAT", "LEAVE", "LIST", "USERS", "GETPASSWORD", "CREATE PUBLIC",
                   "FORCELEAVE"} : Fits(<<kind>>)
  BY DEF Fits
<1>5. CASE c \in Client!InRoomCommands
  <2>1. c \in {"PM"} \X Names => c \in {"SETNAME", "PM", "KICK", "BAN", "TRANSFER"} \X Names
    OBVIOUS
  <2> QED BY <1>1, <1>4, <1>5, <2>1, Zenon DEF Client!InRoomCommands
<1>6. CASE c \in Client!OwnerCommands
  BY <1>1, <1>2, <1>6 DEF Client!OwnerCommands
<1>7. CASE c \in Client!FreeCommands
  <2>1. c \in {"CREATE PRIVATE"} \X Passwords
            => c \in {"CREATE PRIVATE", "CHANGEPASSWORD"} \X Passwords
    OBVIOUS
  <2> QED BY <1>2, <1>3, <1>4, <1>7, <2>1, Zenon DEF Client!FreeCommands
<1>8. CASE c \in {"SETNAME"} \X Names
  BY <1>8 DEF Fits
<1>9. CASE c = <<"FORCELEAVE">>
  BY <1>4, <1>9, Zenon
<1> QED BY <1>5, <1>6, <1>7, <1>8, <1>9, Zenon DEF Client!Command, Client!Commands

\* One command of the client is a line of a client, and its answer explains itself.
LEMMA OwnCommands ==
    ASSUME MembershipInv, Named, Me \in connected, NEW c, Fits(c), Dispatch(c)
    PROVE  handleClientMessage(Me) /\ (c[1] # "SETNAME" => Reported)
<1>0. StateTypeOK /\ Names \subseteq Usernames
  BY DEF MembershipInv, Usernames
<1>1. CASE c[1] = "SETNAME" /\ handleSetNameCommand(Me, c[2])
  BY <1>0, <1>1 DEF handleClientMessage, Fits
<1>2. CASE \/ c[1] = "PM" /\ handlePrivateMessage(Me, c[2])
           \/ c[1] = "KICK" /\ handleKickCommand(Me, c[2])
           \/ c[1] = "BAN" /\ handleBanCommand(Me, c[2])
           \/ c[1] = "TRANSFER" /\ handleTransferCommand(Me, c[2])
  <2>1. c[2] \in Usernames
    BY <1>0, <1>2 DEF Fits
  <2>2. Reported
    BY <1>0, <1>2, <2>1, Messages, Kicks, Bans, Transfers
  <2> QED BY <1>2, <2>1, <2>2, Zenon DEF handleClientMessage
<1>3. CASE \/ c[1] = "CREATE PRIVATE" /\ handleCreateCommand(Me, TRUE, c[2])
           \/ c[1] = "CHANGEPASSWORD" /\ handleChangePasswordCommand(Me, c[2])
  <2>1. c[2] \in Passwords \cup {NoPassword}
    BY <1>3 DEF Fits
  <2>2. Reported
    BY <1>0, <1>3, <2>1, Creates, PasswordChanges
  <2> QED BY <1>3, <2>1, <2>2, Zenon DEF handleClientMessage
<1>4. CASE c[1] = "JOIN" /\ handleJoinCommand(Me, c[2], c[3])
  <2>1. c[2] \in RoomIds /\ c[3] \in Passwords \cup {NoPassword}
    BY <1>4 DEF Fits
  <2>2. Reported
    BY <1>0, <1>4, <2>1, Joins
  <2> QED BY <1>4, <2>1, <2>2, Zenon DEF handleClientMessage
<1>5. CASE handleCreateCommand(Me, FALSE, NoPassword)
  <2>1. Reported
    BY <1>0, <1>5, Creates
  <2> QED BY <1>5, <2>1, Zenon DEF handleClientMessage
<1>6. CASE \/ handleListCommand(Me) \/ handleUsersCommand(Me) \/ handleGetPasswordCommand(Me)
           \/ handleChatMessage(Me) \/ handleLeaveCommand(Me) \/ handleForceLeaveCommand(Me)
  <2>1. Reported
    BY <1>0, <1>6, Enquiries, Messages, Leaves, ForceLeaves
  <2> QED BY <1>6, <2>1, Zenon DEF handleClientMessage
<1> QED BY <1>1, <1>2, <1>3, <1>4, <1>5, <1>6, Zenon DEF Dispatch

\* So is that of a command that others have run into.
LEMMA MergedCommands ==
    ASSUME MembershipInv, Named, Me \in connected, NEW c, Fits(c), c[1] # "SETNAME", Merged(c)
    PROVE  (handleClientMessage(Me) \/ UNCHANGED state) /\ Reported
<1>1. CASE Reply(Me, Plain("ERROR")) \/ Reply(Me, Plain("ROOM_NOT_FOUND"))
  BY <1>1, Refusals, Warnings DEF Reply
<1>2. ASSUME NEW password \in Passwords, c[1] = "JOIN", Dispatch(<<"JOIN", c[2], password>>)
      PROVE  handleClientMessage(Me) /\ Reported
  <2>1. Fits(<<"JOIN", c[2], password>>) /\ <<"JOIN", c[2], password>>[1] # "SETNAME"
    BY <1>2 DEF Fits
  <2> QED BY <1>2, <2>1, OwnCommands
<1>3. ASSUME NEW password \in Passwords, c[1] \in {"CREATE PRIVATE", "CHANGEPASSWORD"},
             Dispatch(<<c[1], password>>)
      PROVE  handleClientMessage(Me) /\ Reported
  <2>1. Fits(<<c[1], password>>) /\ <<c[1], password>>[1] # "SETNAME"
    BY <1>3 DEF Fits
  <2> QED BY <1>3, <2>1, OwnCommands
<1>4. ASSUME NEW name \in Names, c[1] \in {"SETNAME", "KICK", "BAN", "TRANSFER"},
             Dispatch(<<c[1], name>>)
      PROVE  handleClientMessage(Me) /\ Reported
  <2>1. Fits(<<c[1], name>>) /\ <<c[1], name>>[1] # "SETNAME"
    BY <1>4 DEF Fits
  <2> QED BY <1>4, <2>1, OwnCommands
<1>5. CASE Dispatch(c)
  BY <1>5, OwnCommands
<1> QED BY <1>1, <1>2, <1>3, <1>4, <1>5, Zenon DEF Merged

\* A name is answered once: it is taken, or it is the client's.
LEMMA OwnNames ==
    ASSUME StateTypeOK, NEW name \in Names, handleSetNameCommand(Me, name)
    PROVE  /\ \/ /\ Hears(out'[Me], Plain("NAME_SET")) /\ clients'[Me].username = name
              \/ Hears(out'[Me], Plain("NAME_TAKEN")) /\ NameKept
           /\ clients'[Me].roomId = clients[Me].roomId
           /\ clients'[Me].isRoomOwner = clients[Me].isRoomOwner
<1>1. name # NoName
  BY NamesAssumption
<1>2. \A kind \in {"NAME_SET", "NAME_TAKEN"} :
          Hears(Send({Me}, <<Plain(kind)>>)[Me], Plain(kind))
  <2>1. \A kind \in {"NAME_SET", "NAME_TAKEN"} : Plain(kind) \in Line \ Idle
    BY IdleKinds DEF LineKinds, ActedOn
  <2>2. \A kind : Send({Me}, <<Plain(kind)>>)[Me] = <<Plain(kind)>>
    BY AtMe
  <2> QED BY <2>1, <2>2, HearsAlone
<1>3. CASE Reply(Me, Plain("NAME_TAKEN"))
  BY <1>2, <1>3 DEF Reply, state, memory, NameKept
<1>4. CASE /\ clients' = [clients EXCEPT ![Me] = [@ EXCEPT !.username = name]]
           /\ out' = Send({Me}, <<Plain("NAME_SET")>>)
  <2>1. clients[Me] \in ClientInfo /\ clients'[Me] = [clients[Me] EXCEPT !.username = name]
    BY <1>4, MeAssumption DEF StateTypeOK
  <2>2. /\ clients'[Me].username = name /\ clients'[Me].roomId = clients[Me].roomId
        /\ clients'[Me].isRoomOwner = clients[Me].isRoomOwner
    BY <2>1 DEF ClientInfo
  <2> QED BY <1>2, <1>4, <2>2
<1> QED BY <1>1, <1>3, <1>4 DEF handleSetNameCommand

\* The kinds without a room id.
LEMMA PlainRead ==
    ASSUME NEW kind
    PROVE  Read(Plain(kind)) = <<kind, NoRoom>>
BY ArgumentAssumption DEF Read, Plain

\* What the client gets of a step is at most one line, and a line of its own.
LEMMA OneLine ==
    ASSUME Reported
    PROVE  \/ Uneventful /\ ForClient(out'[Me]) = <<>>
           \/ \E line : Explains(line) /\ ForClient(out'[Me]) = <<Read(line)>>
                        /\ Read(line) \in Client!Lines
<1>1. CASE Uneventful
  BY <1>1, HearsNothing DEF Uneventful
<1>2. ASSUME NEW line, Hears(out'[Me], line), Explains(line)
      PROVE  ForClient(out'[Me]) = <<Read(line)>> /\ Read(line) \in Client!Lines
  <2>1. ForClient(out'[Me]) = <<Read(line)>>
    BY <1>2, HearsOne
  <2>2. CASE line \in Rooms \X RoomIds
    <3>1. Read(line) = line
      BY <2>2 DEF Read
    <3> QED BY <2>1, <2>2, <3>1 DEF Rooms, Client!Lines
  <2>3. CASE line \in (Departures \cup Others) \X {NoArg}
    <3>1. line = Plain(line[1]) /\ line[1] \in Departures \cup Others
      BY <2>3 DEF Plain
    <3>2. Read(line) = <<line[1], NoRoom>>
      BY <3>1, PlainRead
    <3> QED BY <2>1, <3>1, <3>2 DEF Departures, Others, Client!Lines
  <2>4. line \in Departures \X {NoArg} \/ line \in Others \X {NoArg}
            => line \in (Departures \cup Others) \X {NoArg}
    OBVIOUS
  <2> QED BY <1>2, <2>2, <2>3, <2>4 DEF Explains
<1> QED BY <1>1, <1>2 DEF Reported, Told

(***************************************************************************)
(* What the client will believe when it has read what is on its way.        *)
(***************************************************************************)
\* The last of these assignments to the field gives it the value;
Ends(assignments, field, value) ==
    \E k \in 1 .. Len(assignments) :
        /\ assignments[k] = <<field, value>>
        /\ \A j \in k + 1 .. Len(assignments) : assignments[j][1] # field

\* none of them is to it.
Spares(assignments, field) == \A k \in 1 .. Len(assignments) : assignments[k][1] # field

\* When the line in hand is done with.
WillHave(field, value) ==
    \/ Ends(todo, field, value)
    \/ Spares(todo, field) /\ client[field] = value

Brings(k, field, value) == Ends(Client!Assignments(down[k]), field, value)
PassesBy(k, field) == Spares(Client!Assignments(down[k]), field)

\* When everything on its way is read.
WillBe(field, value) ==
    \/ \E k \in 1 .. Len(down) :
          Brings(k, field, value) /\ \A j \in k + 1 .. Len(down) : PassesBy(j, field)
    \/ (\A k \in 1 .. Len(down) : PassesBy(k, field)) /\ WillHave(field, value)

Fields == {"currentRoomId", "isRoomOwner"}

\* What each line makes of the two beliefs.
LEMMA LinesAssign ==
    ASSUME NEW line
    PROVE  /\ line[1] \in Rooms => Ends(Client!Assignments(line), "currentRoomId", line[2])
           /\ line[1] = "ROOM_CREATED" => Ends(Client!Assignments(line), "isRoomOwner", TRUE)
           /\ line[1] \in Departures => Ends(Client!Assignments(line), "currentRoomId", NoRoom)
           /\ line[1] \in {"NAME_SET", "NAME_TAKEN"} \cup Others =>
                 Spares(Client!Assignments(line), "currentRoomId")
           /\ line[1] \in {"NAME_SET", "NAME_TAKEN"} \cup (Others \ {"OWNERSHIP_RECEIVED"}) =>
                 Spares(Client!Assignments(line), "isRoomOwner")
           /\ line[1] = "OWNERSHIP_RECEIVED" => Ends(Client!Assignments(line), "isRoomOwner", TRUE)
<1> USE DEF Ends, Spares, Client!Assignments
<1>1. ASSUME line[1] \in Rooms
      PROVE  /\ Ends(Client!Assignments(line), "currentRoomId", line[2])
             /\ line[1] = "ROOM_CREATED" => Ends(Client!Assignments(line), "isRoomOwner", TRUE)
  <2> DEFINE a(owns) == Client!Entered(line[2], owns)
  <2>1. \A owns : Ends(a(owns), "currentRoomId", line[2]) /\ Ends(a(owns), "isRoomOwner", owns)
    <3> SUFFICES ASSUME NEW owns
                 PROVE  /\ Ends(a(owns), "currentRoomId", line[2])
                        /\ Ends(a(owns), "isRoomOwner", owns)
      OBVIOUS
    <3>1. /\ Len(a(owns)) = 3 /\ a(owns)[1] = <<"currentRoomId", line[2]>>
          /\ a(owns)[2] = <<"inRoom", TRUE>> /\ a(owns)[3] = <<"isRoomOwner", owns>>
      BY DEF Client!Entered
    <3> HIDE DEF a
    <3>2. Ends(a(owns), "currentRoomId", line[2])
      <4>1. \A j \in 2 .. 3 : a(owns)[j][1] # "currentRoomId"
        <5>1. \A j \in 2 .. 3 : j = 2 \/ j = 3
          OBVIOUS
        <5> QED BY <3>1, <5>1
      <4> QED BY <3>1, <4>1
    <3>3. Ends(a(owns), "isRoomOwner", owns)
      BY <3>1
    <3> QED BY <3>2, <3>3
  <2>2. \E owns : /\ Client!Assignments(line) = a(owns)
                  /\ line[1] = "ROOM_CREATED" => owns = TRUE
    BY <1>1 DEF Rooms
  <2> HIDE DEF a, Ends, Client!Assignments
  <2> QED BY <2>1, <2>2
<1>2. ASSUME line[1] \in Departures
      PROVE  Ends(Client!Assignments(line), "currentRoomId", NoRoom)
  <2> DEFINE a == Client!Outside
  <2>1. Client!Assignments(line) = a
    BY <1>2 DEF Departures
  <2>2. Len(a) = 4 /\ a[4] = <<"currentRoomId", NoRoom>>
    BY DEF Client!Outside
  <2> HIDE DEF a
  <2>3. 4 \in 1 .. Len(a) /\ \A j \in 4 + 1 .. Len(a) : a[j][1] # "currentRoomId"
    BY <2>2
  <2> QED BY <2>1, <2>2, <2>3, Zenon
<1>3. ASSUME line[1] \in {"NAME_SET", "NAME_TAKEN"} \cup (Others \ {"OWNERSHIP_RECEIVED"}),
             NEW field \in Fields
      PROVE  Spares(Client!Assignments(line), field)
  <2>1. CASE line[1] = "NAME_TAKEN"
    <3> DEFINE a == Client!NameTaken
    <3>1. Client!Assignments(line) = a
      BY <2>1
    <3>2. Len(a) = 2 /\ a[1][1] = "username" /\ a[2][1] = "waitingForNameValidation"
      BY DEF Client!NameTaken
    <3> HIDE DEF a
    <3>3. \A k \in 1 .. 2 : k = 1 \/ k = 2
      OBVIOUS
    <3> QED BY <3>1, <3>2, <3>3 DEF Fields
  <2>2. CASE line[1] # "NAME_TAKEN"
    <3>1. PICK f \in {"waitingForNameValidation", "inRoom", "ownerLeaveWarning"}, v \in BOOLEAN :
              Client!Assignments(line) = <<<<f, v>>>>
      BY <1>3, <2>2 DEF Others
    <3> HIDE DEF Client!Assignments
    <3>2. Len(<<<<f, v>>>>) = 1 /\ <<<<f, v>>>>[1][1] # field
      BY DEF Fields
    <3> QED BY <3>1, <3>2
  <2> QED BY <2>1, <2>2
<1>4. ASSUME line[1] = "OWNERSHIP_RECEIVED"
      PROVE  /\ Spares(Client!Assignments(line), "currentRoomId")
             /\ Ends(Client!Assignments(line), "isRoomOwner", TRUE)
  <2>1. Client!Assignments(line) = <<<<"isRoomOwner", TRUE>>>>
    BY <1>4 DEF Client!Promoted
  <2> HIDE DEF Client!Assignments
  <2>2. PICK a : a = <<<<"isRoomOwner", TRUE>>>>
    OBVIOUS
  <2>3. Len(a) = 1 /\ a[1] = <<"isRoomOwner", TRUE>> /\ a[1][1] = "isRoomOwner"
    BY <2>2
  <2>4. Client!Assignments(line) = a
    BY <2>1, <2>2
  <2>5. \A k \in 1 .. Len(a) : k = 1
    BY <2>3
  <2>6. Spares(a, "currentRoomId")
    BY <2>3, <2>5
  <2>7. 1 \in 1 .. Len(a) /\ \A j \in 1 + 1 .. Len(a) : a[j][1] # "isRoomOwner"
    BY <2>3
  <2>8. Ends(a, "isRoomOwner", TRUE)
    BY <2>3, <2>7, Zenon
  <2> QED BY <2>4, <2>6, <2>8, Zenon
<1> HIDE DEF Ends, Spares, Client!Assignments
<1>5. /\ line[1] \in {"NAME_SET", "NAME_TAKEN"} \cup (Others \ {"OWNERSHIP_RECEIVED"}) =>
            /\ Spares(Client!Assignments(line), "currentRoomId")
            /\ Spares(Client!Assignments(line), "isRoomOwner")
  BY <1>3 DEF Fields
<1>6. line[1] \in {"NAME_SET", "NAME_TAKEN"} \cup Others
        => \/ line[1] = "OWNERSHIP_RECEIVED"
           \/ line[1] \in {"NAME_SET", "NAME_TAKEN"} \cup (Others \ {"OWNERSHIP_RECEIVED"})
  OBVIOUS
<1>7. line[1] = "ROOM_CREATED" => line[1] \in Rooms
  BY DEF Rooms
<1> QED BY <1>1, <1>2, <1>4, <1>5, <1>6, <1>7, Zenon

\* The receiver gets on with the line in hand,
LEMMA Assigned ==
    ASSUME todo \in Seq(Client!Assignment), todo # <<>>, todo' = Tail(todo),
           client \in Client!ClientState,
           client' = [client EXCEPT ![Head(todo)[1]] = Head(todo)[2]],
           UNCHANGED down, NEW field \in Fields, NEW value, WillBe(field, value)
    PROVE  WillBe(field, value)'
<1>1. field \in DOMAIN client
  BY DEF Client!ClientState, Fields
<1>2. /\ Head(todo) = todo[1] /\ Len(todo) \in Nat \ {0} /\ Len(todo') = Len(todo) - 1
      /\ \A k \in 1 .. Len(todo') : todo'[k] = todo[k + 1]
  OBVIOUS
<1>3. ASSUME WillHave(field, value) PROVE WillHave(field, value)'
  <2>1. ASSUME NEW k \in 1 .. Len(todo), todo[k] = <<field, value>>,
               \A j \in k + 1 .. Len(todo) : todo[j][1] # field
        PROVE  WillHave(field, value)'
    <3>1. CASE k = 1
      <4>1. client'[field] = value
        BY <1>1, <1>2, <2>1, <3>1 DEF Client!ClientState
      <4>2. Spares(todo', field)
        BY <1>2, <2>1, <3>1 DEF Spares
      <4> QED BY <4>1, <4>2 DEF WillHave
    <3>2. CASE k # 1
      <4>1. k - 1 \in 1 .. Len(todo') /\ todo'[k - 1] = <<field, value>>
        BY <1>2, <2>1, <3>2
      <4>2. \A j \in (k - 1) + 1 .. Len(todo') : todo'[j][1] # field
        BY <1>2, <2>1, <3>2
      <4>3. Ends(todo', field, value)
        BY <4>1, <4>2 DEF Ends
      <4> QED BY <4>3 DEF WillHave
    <3> QED BY <3>1, <3>2
  <2>2. CASE Spares(todo, field) /\ client[field] = value
    <3>1. Spares(todo', field)
      BY <1>2, <2>2 DEF Spares
    <3>2. client'[field] = value
      BY <1>1, <1>2, <2>2 DEF Spares, Client!ClientState
    <3> QED BY <3>1, <3>2 DEF WillHave
  <2> QED BY <1>3, <2>1, <2>2 DEF WillHave, Ends
<1> QED BY <1>3 DEF WillBe, Brings, PassesBy

\* takes the next one in hand,
LEMMA TakenInHand ==
    ASSUME todo = <<>>, NEW S, down \in Seq(S), down # <<>>, down' = Tail(down),
           todo' = Client!Assignments(Head(down)), UNCHANGED client,
           NEW field, NEW value, WillBe(field, value)
    PROVE  WillBe(field, value)'
<1>1. /\ Head(down) = down[1] /\ Len(down) \in Nat \ {0} /\ Len(down') = Len(down) - 1
      /\ \A k \in 1 .. Len(down') : down'[k] = down[k + 1]
  OBVIOUS
<1>2. \A k \in 1 .. Len(down') : /\ PassesBy(k, field)' <=> PassesBy(k + 1, field)
                                 /\ Brings(k, field, value)' <=> Brings(k + 1, field, value)
  BY <1>1, Zenon DEF PassesBy, Brings
<1>3. /\ Brings(1, field, value) => Ends(todo', field, value)
      /\ PassesBy(1, field) => Spares(todo', field)
  BY <1>1 DEF PassesBy, Brings
<1>4. ASSUME NEW k \in 1 .. Len(down), Brings(k, field, value),
             \A j \in k + 1 .. Len(down) : PassesBy(j, field)
      PROVE  WillBe(field, value)'
  <2>1. CASE k = 1
    <3>1. \A j \in 1 .. Len(down') : PassesBy(j, field)'
      BY <1>1, <1>2, <1>4, <2>1
    <3>2. WillHave(field, value)'
      BY <1>3, <1>4, <2>1 DEF WillHave
    <3> QED BY <3>1, <3>2 DEF WillBe
  <2>2. CASE k # 1
    <3>1. k - 1 \in 1 .. Len(down') /\ Brings(k - 1, field, value)'
      BY <1>1, <1>2, <1>4, <2>2
    <3>2. \A j \in (k - 1) + 1 .. Len(down') : PassesBy(j, field)'
      BY <1>1, <1>2, <1>4, <2>2
    <3> QED BY <3>1, <3>2 DEF WillBe
  <2> QED BY <2>1, <2>2
<1>5. ASSUME \A k \in 1 .. Len(down) : PassesBy(k, field), WillHave(field, value)
      PROVE  WillBe(field, value)'
  <2>1. client[field] = value
    BY <1>5 DEF WillHave, Ends
  <2>2. \A j \in 1 .. Len(down') : PassesBy(j, field)'
    BY <1>1, <1>2, <1>5
  <2>3. PassesBy(1, field)
    BY <1>1, <1>5
  <2>4. Spares(todo', field)
    BY <1>3, <2>3
  <2> QED BY <2>1, <2>2, <2>4 DEF WillBe, WillHave
<1> QED BY <1>4, <1>5 DEF WillBe

\* and the server sends another.
LEMMA Sent ==
    ASSUME NEW S, down \in Seq(S), NEW line \in S, down' = down \o <<line>>,
           UNCHANGED <<client, todo>>, NEW field, NEW value
    PROVE  /\ Ends(Client!Assignments(line), field, value) => WillBe(field, value)'
           /\ Spares(Client!Assignments(line), field) /\ WillBe(field, value)
                => WillBe(field, value)'
<1>1. /\ Len(down) \in Nat /\ Len(down') = Len(down) + 1 /\ down'[Len(down) + 1] = line
      /\ \A k \in 1 .. Len(down) : down'[k] = down[k]
  OBVIOUS
<1>0. PICK n : n = Len(down) + 1
  OBVIOUS
<1>2. /\ Brings(n, field, value)' <=> Ends(Client!Assignments(line), field, value)
      /\ PassesBy(n, field)' <=> Spares(Client!Assignments(line), field)
  BY <1>0, <1>1 DEF Brings, PassesBy
<1>3. \A k \in 1 .. Len(down) : /\ PassesBy(k, field)' <=> PassesBy(k, field)
                                /\ Brings(k, field, value)' <=> Brings(k, field, value)
  BY <1>1, Zenon DEF PassesBy, Brings
<1>4. WillHave(field, value)' <=> WillHave(field, value)
  BY DEF WillHave
<1>5. ASSUME Ends(Client!Assignments(line), field, value) PROVE WillBe(field, value)'
  <2>1. n \in 1 .. Len(down') /\ Brings(n, field, value)'
    BY <1>0, <1>1, <1>2, <1>5
  <2>2. \A j \in n + 1 .. Len(down') : PassesBy(j, field)'
    BY <1>0, <1>1
  <2> QED BY <2>1, <2>2 DEF WillBe
<1>6. ASSUME Spares(Client!Assignments(line), field), WillBe(field, value)
      PROVE  WillBe(field, value)'
  <2>1. ASSUME NEW k \in 1 .. Len(down), Brings(k, field, value),
               \A j \in k + 1 .. Len(down) : PassesBy(j, field)
        PROVE  WillBe(field, value)'
    <3>1. k \in 1 .. Len(down') /\ Brings(k, field, value)'
      BY <1>1, <1>3, <2>1
    <3>2. \A j \in k + 1 .. Len(down') : j = n \/ j \in k + 1 .. Len(down)
      BY <1>0, <1>1
    <3>3. \A j \in k + 1 .. Len(down) : j \in 1 .. Len(down)
      BY <1>1
    <3>4. \A j \in k + 1 .. Len(down') : PassesBy(j, field)'
      BY <1>2, <1>3, <1>6, <2>1, <3>2, <3>3
    <3> QED BY <3>1, <3>4 DEF WillBe
  <2>2. ASSUME \A k \in 1 .. Len(down) : PassesBy(k, field), WillHave(field, value)
        PROVE  WillBe(field, value)'
    <3>1. \A j \in 1 .. Len(down') : j = n \/ j \in 1 .. Len(down)
      BY <1>0, <1>1
    <3>2. \A j \in 1 .. Len(down') : PassesBy(j, field)'
      BY <1>2, <1>3, <1>6, <2>2, <3>1
    <3> QED BY <1>4, <2>2, <3>2 DEF WillBe
  <2> QED BY <1>6, <2>1, <2>2 DEF WillBe
<1> QED BY <1>5, <1>6

\* Nothing of it moves.
LEMMA StillWillBe ==
    ASSUME UNCHANGED <<todo, down>>, NEW field, client'[field] = client[field],
           NEW value, WillBe(field, value)
    PROVE  WillBe(field, value)'
BY DEF WillBe, WillHave, Brings, PassesBy

(***************************************************************************)
(* The two instances of the client program are one.                         *)
(***************************************************************************)
\* Two instances with the same substitution, one of them with the lemmas.
LEMMA SameProgram ==
    /\ Client!Next <=> Program!Next
    /\ UNCHANGED Client!vars <=> UNCHANGED Program!vars
    /\ Client!Init <=> Program!Init
BY DEF
       Client!InRoomCommands, Program!InRoomCommands, Client!OwnerCommands,
       Program!OwnerCommands, Client!FreeCommands, Program!FreeCommands, Client!Commands,
       Program!Commands, Client!MayBeSent, Program!MayBeSent, Client!Insists,
       Program!Insists, Client!AsSent, Program!AsSent, Client!NameTaken,
       Program!NameTaken, Client!Entered, Program!Entered, Client!Outside,
       Program!Outside, Client!Promoted, Program!Promoted, Client!Assignments,
       Program!Assignments, Client!Set, Program!Set, Client!Step, Program!Step,
       Client!SendCommand, Program!SendCommand, Client!SendFails, Program!SendFails,
       Client!AskName, Program!AskName, Client!TypeName, Program!TypeName,
       Client!StartWaiting, Program!StartWaiting, Client!Poll, Program!Poll, Client!Wake,
       Program!Wake, Client!TimeOut, Program!TimeOut, Client!CheckName, Program!CheckName,
       Client!Prompt, Program!Prompt, Client!TypeQuit, Program!TypeQuit,
       Client!TypeInVain, Program!TypeInVain, Client!TypeCommand, Program!TypeCommand,
       Client!LookForExit, Program!LookForExit, Client!Receive, Program!Receive,
       Client!Assign, Program!Assign, Client!LineDone, Program!LineDone,
       Client!ReceiveEnd, Program!ReceiveEnd, Client!ReceiveError, Program!ReceiveError,
       Client!JoinSender, Program!JoinSender, Client!JoinReceiver, Program!JoinReceiver,
       Client!Replies, Program!Replies, Client!Lines, Program!Lines, Client!Answer,
       Program!Answer, Client!Serve, Program!Serve, Client!Lose, Program!Lose,
       Client!Terminated, Program!Terminated, Client!User, Program!User, Client!Sender,
       Program!Sender, Client!Receiver, Program!Receiver, Client!Main, Program!Main,
       Client!Threads, Program!Threads, Client!Server, Program!Server, Client!Next,
       Program!Next, Client!threads, Program!threads, Client!channel, Program!channel,
       Client!vars, Program!vars, Client!ThreadsInit, Program!ThreadsInit, Client!Init,
       Program!Init

(***************************************************************************)
(* The invariant of client and server.                                      *)
(***************************************************************************)
\* What is on its way tells the client of its room, and of being its owner.
AgreeInv ==
    link = "up" =>
        /\ WillBe("currentRoomId", clients[Me].roomId)
        /\ clients[Me].isRoomOwner => WillBe("isRoomOwner", TRUE)

\* The server's record of the client lasts as long as the connection.
ConnectionInv ==
    /\ Me \in connected => link = "up"
    /\ Me \notin connected => clients[Me].username = NoName /\ clients[Me].roomId = NoRoom

\* A name is sent when nothing else is on its way, and nothing is sent after it;
\* other commands, by a client that has its name.
CommandInv ==
    /\ \A k \in 1 .. Len(up) : up[k][1] = "SETNAME" => Len(up) = 1
    /\ link = "up" => \A k \in 1 .. Len(up) : up[k][1] # "SETNAME" => clients[Me].username # NoName

BothInv ==
    MembershipInv /\ Program!ClientInv /\ AgreeInv /\ ConnectionInv /\ CommandInv /\ Named

\* What the invariant of the client program says of the channels.
LEMMA ProgramFacts ==
    ASSUME Program!ClientInv
    PROVE  /\ up \in Seq(Client!Command) /\ todo \in Seq(Client!Assignment)
           /\ down \in Seq(Client!Lines \cup (Client!Replies \X {NoRoom}))
           /\ client \in Client!ClientState
           /\ receiver # "handling" => todo = <<>>
           /\ sender = "naming" => Len(up) = 0
           /\ sender = "typing" => /\ \A k \in 1 .. Len(up) : up[k][1] # "SETNAME"
                                   /\ link = "up" => clients[Me].username # NoName
<1>1. Program!TypeOK /\ Program!NameInv /\ Program!LineInv
  BY DEF Program!ClientInv
<1>2. up \in Seq(Client!Command)
  BY <1>1 DEF Program!TypeOK, Client!Command, Program!Command, Client!Commands, Program!Commands,
       Client!InRoomCommands, Program!InRoomCommands, Client!OwnerCommands, Program!OwnerCommands,
       Client!FreeCommands, Program!FreeCommands
<1>3. todo \in Seq(Client!Assignment) /\ client \in Client!ClientState
  BY <1>1 DEF Program!TypeOK, Client!Assignment, Program!Assignment, Client!ClientState,
       Program!ClientState
<1>4. down \in Seq(Client!Lines \cup (Client!Replies \X {NoRoom}))
  BY <1>1 DEF Program!TypeOK, Client!Lines, Program!Lines, Client!Replies, Program!Replies
<1>5. receiver # "handling" => todo = <<>>
  BY <1>1 DEF Program!LineInv
<1>6. ASSUME sender = "naming" PROVE Len(up) = 0
  <2>1. \A k \in 1 .. Len(up) : up[k][1] = "SETNAME" /\ up[k][1] # "SETNAME"
    BY <1>1, <1>6 DEF Program!NameInv, Program!Naming, Program!Settled, Program!NotAsked
  <2> QED BY <1>2, <2>1
<1>7. ASSUME sender = "typing"
      PROVE  /\ \A k \in 1 .. Len(up) : up[k][1] # "SETNAME"
             /\ link = "up" => clients[Me].username # NoName
  BY <1>1, <1>7 DEF Program!NameInv, Program!Chatting, Program!Settled, Program!NotAsked,
       Program!Known
<1> QED BY <1>2, <1>3, <1>4, <1>5, <1>6, <1>7

(***************************************************************************)
(* Steps of the program.                                                    *)
(***************************************************************************)
\* The receiver alone assigns what the server has told.
LEMMA ProgramBeliefs ==
    ASSUME Program!ClientInv, Client!Threads, NEW field \in Fields, NEW value,
           WillBe(field, value)
    PROVE  WillBe(field, value)'
<1>1. CASE Client!Receive
  <2>1. receiver # "handling" /\ down # <<>> /\ down' = Tail(down) /\ UNCHANGED client
        /\ todo' = Client!Assignments(Head(down))
    BY <1>1 DEF Client!Receive
  <2> QED BY <2>1, ProgramFacts, TakenInHand
<1>2. CASE Client!Assign
  BY <1>2, ProgramFacts, Assigned DEF Client!Assign, Client!Set, Client!channel
<1>3. CASE \/ Client!User \/ Client!Sender \/ Client!Main \/ Client!LookForExit
           \/ Client!LineDone \/ Client!ReceiveEnd \/ Client!ReceiveError
  <2>1. UNCHANGED <<todo, down>>
    BY <1>3 DEF Client!User, Client!TypeName, Client!TypeQuit, Client!TypeInVain,
         Client!TypeCommand, Client!Sender, Client!AskName, Client!StartWaiting, Client!Poll,
         Client!Wake, Client!TimeOut, Client!CheckName, Client!Prompt, Client!Step, Client!Main,
         Client!JoinSender, Client!JoinReceiver, Client!LookForExit, Client!LineDone,
         Client!ReceiveEnd, Client!ReceiveError, Client!channel
  <2>2. client'[field] = client[field]
    <3>1. client \in Client!ClientState
      BY ProgramFacts
    <3>2. \/ UNCHANGED client
          \/ \E f \in {"username", "ownerLeaveWarning", "waitingForNameValidation",
                       "shouldExit"} : \E v : client' = [client EXCEPT ![f] = v]
          \/ \E v, w : client' = [client EXCEPT !.username = v, !.shouldExit = w]
          \/ \E v, w : client' = [client EXCEPT !.ownerLeaveWarning = v, !.shouldExit = w]
      BY <1>3, Zenon DEF Client!User, Client!TypeName, Client!TypeQuit, Client!TypeInVain,
           Client!TypeCommand, Client!Sender, Client!AskName, Client!StartWaiting, Client!Poll,
           Client!Wake, Client!TimeOut, Client!CheckName, Client!Prompt, Client!Set, Client!Main,
           Client!JoinSender, Client!JoinReceiver, Client!LookForExit, Client!LineDone,
           Client!ReceiveEnd, Client!ReceiveError
    <3> QED BY <3>1, <3>2 DEF Client!ClientState, Fields
  <2> QED BY <2>1, <2>2, StillWillBe
<1> QED BY <1>1, <1>2, <1>3 DEF Client!Threads, Client!Receiver

\* What the lemmas of the client program assume of its constants.
LEMMA ProgramAssumptions == Program!ClientAssumption /\ Program!VocabularyAssumption
<1>1. Program!ClientAssumption
  BY NamesAssumption, RoomIdsAssumption, MeAssumption DEF Program!ClientAssumption
<1>2. Client!Commands = Program!Commands
  BY DEF Client!Commands, Program!Commands, Client!InRoomCommands, Program!InRoomCommands,
       Client!OwnerCommands, Program!OwnerCommands, Client!FreeCommands, Program!FreeCommands
<1> QED BY <1>1, <1>2, VocabularyAssumption DEF Program!VocabularyAssumption

\* What the sender makes of the lines typed by the user is in the vocabulary, and no name.
LEMMA SentCommands ==
    ASSUME NEW c \in Vocabulary
    PROVE  Client!AsSent(c) \in Client!Command /\ Client!AsSent(c)[1] # "SETNAME"
<1>1. Client!Commands = Program!Commands /\ Client!AsSent(c) = Program!AsSent(c)
      /\ Client!Command = Program!Command
  BY DEF Client!Command, Program!Command, Client!Commands, Program!Commands,
       Client!InRoomCommands, Program!InRoomCommands, Client!OwnerCommands, Program!OwnerCommands,
       Client!FreeCommands, Program!FreeCommands, Client!AsSent, Program!AsSent,
       Client!Insists, Program!Insists
<1>2. c \in Program!Commands
  BY <1>1, VocabularyAssumption
<1>3. Program!AsSent(c) \in Program!Command /\ Program!AsSent(c)[1] # "SETNAME"
  BY <1>2, ProgramAssumptions, Program!CommandsAsSent
<1> QED BY <1>1, <1>3

\* The sender sends its name first and alone.
LEMMA ProgramCommands ==
    ASSUME Program!ClientInv, CommandInv, Client!Threads, UNCHANGED vars
    PROVE  CommandInv'
<1>1. up \in Seq(Client!Command)
  BY ProgramFacts
<1>2. UNCHANGED clients /\ UNCHANGED link
  <2>1. CASE Client!User
    BY <2>1 DEF Client!User, Client!TypeName, Client!TypeQuit, Client!TypeInVain,
         Client!TypeCommand, Client!Step, Client!channel, vars, state, memory
  <2>2. CASE Client!Sender
    BY <2>2 DEF Client!Sender, Client!AskName, Client!StartWaiting, Client!Poll, Client!Wake,
         Client!TimeOut, Client!CheckName, Client!Prompt, Client!Step, Client!channel,
         vars, state, memory
  <2>3. CASE Client!Receiver \/ Client!Main
    BY <2>3 DEF Client!Main, Client!JoinSender, Client!JoinReceiver, Client!Receiver,
         Client!Receive, Client!Assign, Client!LookForExit, Client!LineDone,
         Client!ReceiveEnd, Client!ReceiveError, Client!channel, vars, state, memory
  <2> QED BY <2>1, <2>2, <2>3 DEF Client!Threads
<1>3. CASE UNCHANGED up
  BY <1>2, <1>3 DEF CommandInv
<1>4. ASSUME NEW name \in Names, Client!TypeName(name) PROVE CommandInv'
  <2>1. CASE up' = Append(up, <<"SETNAME", name>>)
    <3>1. Len(up) = 0
      BY <1>4, ProgramFacts DEF Client!TypeName
    <3>2. Len(up') = 1 /\ up'[1] = <<"SETNAME", name>>
      BY <1>1, <2>1, <3>1
    <3>3. \A k \in 1 .. Len(up') : up'[k][1] = "SETNAME"
      <4>1. \A k \in 1 .. Len(up') : k = 1
        BY <3>2
      <4>2. <<"SETNAME", name>>[1] = "SETNAME"
        OBVIOUS
      <4> QED BY <3>2, <4>1, <4>2, Zenon
    <3> QED BY <3>2, <3>3 DEF CommandInv
  <2> QED BY <1>3, <1>4, <2>1 DEF Client!TypeName, Client!SendCommand, Client!SendFails
<1>5. ASSUME NEW c \in Vocabulary, Client!TypeCommand(c) PROVE CommandInv'
  <2>1. CASE link = "up" /\ up' = Append(up, Client!AsSent(c))
    <3>1. Client!AsSent(c) \in Client!Command /\ Client!AsSent(c)[1] # "SETNAME"
      BY SentCommands
    <3>2. /\ \A k \in 1 .. Len(up) : up[k][1] # "SETNAME"
          /\ clients[Me].username # NoName
      BY <1>5, <2>1, ProgramFacts DEF Client!TypeCommand
    <3>3. \A x \in Client!Command : \A k \in 1 .. Len(Append(up, x)) :
              \/ Append(up, x)[k] = x
              \/ k \in 1 .. Len(up) /\ Append(up, x)[k] = up[k]
      BY <1>1
    <3>4. \A k \in 1 .. Len(up') : up'[k][1] # "SETNAME"
      BY <2>1, <3>1, <3>2, <3>3, Zenon
    <3> QED BY <1>2, <3>2, <3>4 DEF CommandInv
  <2> QED BY <1>3, <1>5, <2>1 DEF Client!TypeCommand, Client!SendCommand, Client!SendFails
<1>6. CASE \/ Client!TypeQuit \/ Client!TypeInVain \/ Client!Sender \/ Client!Receiver
           \/ Client!Main
  <2>1. UNCHANGED up
    BY <1>6 DEF Client!TypeQuit, Client!TypeInVain, Client!Sender, Client!AskName,
         Client!StartWaiting, Client!Poll, Client!Wake, Client!TimeOut, Client!CheckName,
         Client!Prompt, Client!Step, Client!Main, Client!JoinSender, Client!JoinReceiver,
         Client!Receiver, Client!Receive, Client!Assign, Client!LookForExit, Client!LineDone,
         Client!ReceiveEnd, Client!ReceiveError, Client!channel
  <2> QED BY <1>3, <2>1
<1> QED BY <1>4, <1>5, <1>6 DEF Client!Threads, Client!User

(***************************************************************************)
(* What the server does, as the client program expects it.                  *)
(***************************************************************************)
\* A line that explains what has become of the record carries it to the client.
LEMMA Explained ==
    ASSUME Program!ClientInv, AgreeInv, link = "up", UNCHANGED <<program, link>>,
           NEW line, Explains(line), Read(line) \in Client!Lines, down' = down \o <<Read(line)>>
    PROVE  AgreeInv'
<1> DEFINE S == Client!Lines \cup (Client!Replies \X {NoRoom})
<1>1. down \in Seq(S) /\ Read(line) \in S /\ UNCHANGED <<client, todo>>
  BY ProgramFacts DEF program
<1>2. ASSUME NEW field, NEW value
      PROVE  /\ Ends(Client!Assignments(Read(line)), field, value) => WillBe(field, value)'
             /\ Spares(Client!Assignments(Read(line)), field) /\ WillBe(field, value)
                  => WillBe(field, value)'
  <2> HIDE DEF S
  <2> QED BY <1>1, Sent
<1>3. Read(line)[1] = line[1]
  BY DEF Read
<1>7. PICK r : r = clients'[Me].roomId
  OBVIOUS
<1>8. ASSUME WillBe("currentRoomId", r)', clients'[Me].isRoomOwner => WillBe("isRoomOwner", TRUE)'
      PROVE  AgreeInv'
  <2>1. WillBe("currentRoomId", clients[Me].roomId)'
    BY <1>7, <1>8
  <2> QED BY <1>8, <2>1 DEF AgreeInv
<1>4. CASE /\ line \in Rooms \X RoomIds
           /\ clients'[Me].roomId = line[2]
           /\ line[1] = "ROOM_JOINED" => ~clients'[Me].isRoomOwner
  <2>1. /\ line[1] \in Rooms /\ Read(line)[2] = line[2]
        /\ line[1] = "ROOM_JOINED" \/ line[1] = "ROOM_CREATED"
    BY <1>4 DEF Rooms, Read
  <2>2. WillBe("currentRoomId", r)'
    <3>1. Ends(Client!Assignments(Read(line)), "currentRoomId", r)
      BY <1>3, <1>4, <1>7, <2>1, LinesAssign
    <3> QED BY <1>2, <3>1
  <2>3. clients'[Me].isRoomOwner => WillBe("isRoomOwner", TRUE)'
    BY <1>2, <1>3, <1>4, <2>1, LinesAssign
  <2> QED BY <1>8, <2>2, <2>3
<1>5. CASE /\ line \in Departures \X {NoArg}
           /\ clients'[Me].roomId = NoRoom /\ ~clients'[Me].isRoomOwner
  <2>1. Ends(Client!Assignments(Read(line)), "currentRoomId", r)
    BY <1>3, <1>5, <1>7, LinesAssign
  <2>2. WillBe("currentRoomId", r)'
    BY <1>2, <2>1
  <2> QED BY <1>5, <1>8, <2>2
<1>6. CASE /\ line \in Others \X {NoArg}
           /\ clients'[Me].roomId = clients[Me].roomId
           /\ line[1] # "OWNERSHIP_RECEIVED" =>
                (clients'[Me].isRoomOwner => clients[Me].isRoomOwner)
  <2>1. line[1] \in Others
    BY <1>6
  <2>2. Spares(Client!Assignments(Read(line)), "currentRoomId")
    BY <1>3, <2>1, LinesAssign
  <2>3. WillBe("currentRoomId", r)'
    <3>1. WillBe("currentRoomId", r)
      BY <1>6, <1>7 DEF AgreeInv
    <3> QED BY <1>2, <2>2, <3>1
  <2>4. clients'[Me].isRoomOwner => WillBe("isRoomOwner", TRUE)'
    <3>1. CASE line[1] = "OWNERSHIP_RECEIVED"
      <4>1. Ends(Client!Assignments(Read(line)), "isRoomOwner", TRUE)
        BY <1>3, <3>1, LinesAssign
      <4> QED BY <1>2, <4>1
    <3>2. CASE line[1] # "OWNERSHIP_RECEIVED"
      <4>1. Spares(Client!Assignments(Read(line)), "isRoomOwner")
        BY <1>3, <2>1, <3>2, LinesAssign
      <4>2. clients'[Me].isRoomOwner => WillBe("isRoomOwner", TRUE)
        BY <1>6, <3>2 DEF AgreeInv
      <4> QED BY <1>2, <4>1, <4>2
    <3> QED BY <3>1, <3>2
  <2> QED BY <1>8, <2>3, <2>4
<1> QED BY <1>4, <1>5, <1>6 DEF Explains

\* A line that says nothing of the record leaves the beliefs as they will be.
LEMMA Unexplained ==
    ASSUME AgreeInv, UNCHANGED <<program, link, down>>,
           clients'[Me].roomId = clients[Me].roomId,
           clients'[Me].isRoomOwner => clients[Me].isRoomOwner
    PROVE  AgreeInv'
<1>1. \A field, value : WillBe(field, value) => WillBe(field, value)'
  BY StillWillBe DEF program
<1> QED BY <1>1 DEF AgreeInv

\* Commands that are read leave those behind them.
LEMMA CommandsRead ==
    ASSUME Program!ClientInv, CommandInv, NEW n \in 0 .. Len(up),
           \A k \in 1 .. n : up[k][1] # "SETNAME", up' = SubSeq(up, n + 1, Len(up)),
           UNCHANGED link, NameKept
    PROVE  CommandInv'
<1>1. /\ Len(up') = Len(up) - n /\ Len(up) \in Nat
      /\ \A k \in 1 .. Len(up') : up'[k] = up[k + n] /\ k + n \in 1 .. Len(up)
  BY ProgramFacts
<1>2. ASSUME NEW k \in 1 .. Len(up'), up'[k][1] = "SETNAME" PROVE Len(up') = 1
  BY <1>1, <1>2 DEF CommandInv
<1>3. ASSUME link = "up", NEW k \in 1 .. Len(up'), up'[k][1] # "SETNAME"
      PROVE  clients'[Me].username # NoName
  BY <1>1, <1>3 DEF CommandInv, NameKept
<1> QED BY <1>2, <1>3 DEF CommandInv

\* Whatever the server does that is no answer to a name is a step Serve.
LEMMA Served ==
    ASSUME Program!ClientInv, AgreeInv, CommandInv, link = "up", UNCHANGED <<program, link>>,
           NEW n \in 0 .. Len(up), \A k \in 1 .. n : up[k][1] # "SETNAME",
           up' = SubSeq(up, n + 1, Len(up)), Reported, Deliver
    PROVE  Client!Next /\ AgreeInv' /\ CommandInv'
<1>1. CommandInv'
  BY CommandsRead DEF Reported
<1>2. down' = down \o ForClient(out'[Me]) /\ Traffic' <= MaxTraffic
  BY DEF Deliver
<1>3. Len(up') \in Nat
  BY ProgramFacts
<1>7. Len(up') + Len(down') + (IF receiver' = "handling" THEN 1 ELSE 0) <= MaxTraffic
  BY <1>2 DEF Traffic
<1>8. ASSUME Len(down') \in Nat PROVE Len(down') <= MaxTraffic
  <2>1. PICK a \in Nat, b \in Nat : a = Len(up') /\ b = Len(down')
    BY <1>3, <1>8
  <2>2. a + b + (IF receiver' = "handling" THEN 1 ELSE 0) <= MaxTraffic
    BY <1>7, <2>1, Zenon
  <2>3. CASE receiver' = "handling"
    <3>1. a + b + 1 <= MaxTraffic
      BY <2>2, <2>3
    <3> QED BY <2>1, <3>1, MeAssumption
  <2>4. CASE receiver' # "handling"
    <3>1. a + b + 0 <= MaxTraffic
      BY <2>2, <2>4
    <3> QED BY <2>1, <3>1, MeAssumption
  <2> QED BY <2>3, <2>4
<1>4. UNCHANGED <<Client!threads, link, clients[Me].username>>
  BY DEF Client!threads, program, Reported, NameKept
<1>5. CASE Uneventful /\ ForClient(out'[Me]) = <<>>
  <2>1. down' = down /\ down' = down \o <<>> /\ Len(down) \in Nat
    BY <1>2, <1>5, ProgramFacts
  <2>2. Len(down) + Len(<<>>) <= MaxTraffic
    BY <1>8, <2>1
  <2>3. Client!Serve(<<>>)
    BY <1>4, <2>1, <2>2 DEF Client!Serve
  <2>4. AgreeInv'
    BY <1>5, <2>1, Unexplained DEF Uneventful
  <2> QED BY <1>1, <2>3, <2>4 DEF Client!Next, Client!Server
<1>6. ASSUME NEW line, Explains(line), ForClient(out'[Me]) = <<Read(line)>>,
             Read(line) \in Client!Lines
      PROVE  Client!Next /\ AgreeInv'
  <2>1. down' = down \o <<Read(line)>> /\ Len(down) \in Nat /\ Len(down') = Len(down) + 1
        /\ Len(<<Read(line)>>) = 1
    BY <1>2, <1>6, ProgramFacts
  <2>2. Len(down) + Len(<<Read(line)>>) <= MaxTraffic
    BY <1>8, <2>1
  <2>3. Client!Serve(<<Read(line)>>)
    BY <1>4, <2>1, <2>2 DEF Client!Serve
  <2>4. AgreeInv'
    BY <1>6, <2>1, Explained
  <2> QED BY <1>6, <2>3, <2>4 DEF Client!Next, Client!Server
<1> QED BY <1>1, <1>5, <1>6, OneLine

\* A name is answered by a step Answer.
LEMMA NameAnswered ==
    ASSUME MembershipInv, Program!ClientInv, AgreeInv, CommandInv, link = "up",
           UNCHANGED <<program, link>>, up # <<>>, up[1][1] = "SETNAME",
           up' = SubSeq(up, 2, Len(up)), handleSetNameCommand(Me, up[1][2]), Deliver
    PROVE  /\ Client!Next /\ AgreeInv' /\ CommandInv'
           /\ clients'[Me].roomId = clients[Me].roomId
           /\ clients'[Me].username \in Names \cup {clients[Me].username}
<1>1. /\ up \in Seq(Client!Command) /\ Len(up) \in Nat \ {0} /\ up[1] \in Client!Command
      /\ Head(up) = up[1] /\ up' = Tail(up)
  BY ProgramFacts
<1>2. Len(up) = 1
  BY <1>1 DEF CommandInv
<1>3. Len(up') = 0
  BY <1>1, <1>2
<1>4. CommandInv'
  BY <1>3 DEF CommandInv
<1>5. up[1][2] \in Names
  BY <1>1, CommandsFit DEF Fits
<1>6. /\ \/ Hears(out'[Me], Plain("NAME_SET")) /\ clients'[Me].username = up[1][2]
         \/ Hears(out'[Me], Plain("NAME_TAKEN")) /\ NameKept
      /\ clients'[Me].roomId = clients[Me].roomId
      /\ clients'[Me].isRoomOwner = clients[Me].isRoomOwner
  BY <1>5, OwnNames DEF MembershipInv
<1>7. PICK reply \in Client!Replies :
        /\ Hears(out'[Me], Plain(reply))
        /\ clients'[Me].username = IF reply = "NAME_SET" THEN up[1][2] ELSE clients[Me].username
  BY <1>6 DEF Client!Replies, NameKept
<1>8. down' = down \o <<<<reply, NoRoom>>>>
  <2>1. ForClient(out'[Me]) = <<<<reply, NoRoom>>>>
    BY <1>7, HearsOne, PlainRead
  <2> QED BY <2>1 DEF Deliver
<1> DEFINE S == Client!Lines \cup (Client!Replies \X {NoRoom})
<1>9. down \in Seq(S) /\ <<reply, NoRoom>> \in S
  BY ProgramFacts
<1>10. down' = Append(down, <<reply, NoRoom>>)
  <2> HIDE DEF S
  <2> QED BY <1>8, <1>9
<1>11. Client!Next
  <2>1. Client!Answer(reply)
    BY <1>1, <1>7, <1>10 DEF Client!Answer, Client!threads, program
  <2> QED BY <2>1 DEF Client!Next, Client!Server
<1>12. AgreeInv'
  <2>1. \A field \in Fields : \A value : WillBe(field, value) => WillBe(field, value)'
    <3> HIDE DEF S
    <3>1. \A field \in Fields : Spares(Client!Assignments(<<reply, NoRoom>>), field)
      <4>1. <<reply, NoRoom>>[1] \in {"NAME_SET", "NAME_TAKEN"}
        BY DEF Client!Replies
      <4> QED BY <4>1, LinesAssign DEF Fields
    <3> QED BY <1>8, <1>9, <3>1, Sent DEF program
  <2> QED BY <1>6, <2>1 DEF AgreeInv, Fields
<1> QED BY <1>4, <1>5, <1>6, <1>11, <1>12 DEF NameKept

(***************************************************************************)
(* Every step of both.                                                      *)
(***************************************************************************)
\* A step that both programs may take, and that leaves the invariant true.
AsBothPromise ==
    /\ Client!Next \/ UNCHANGED Client!vars
    /\ MembershipInv' /\ AgreeInv' /\ ConnectionInv' /\ CommandInv' /\ Named'

\* The server keeps its invariant when it does nothing.
LEMMA NothingAtServer == ASSUME MembershipInv, UNCHANGED state PROVE MembershipInv'
BY SameMembers, UnchangedType DEF MembershipInv, state, memory

\* No command of a client ends a connection.
LEMMA CommandsKeepConnections ==
    ASSUME NEW s, handleClientMessage(s)
    PROVE  UNCHANGED connected
<1>1. ASSUME UNCHANGED state PROVE UNCHANGED connected
  BY <1>1 DEF state, memory
<1>2. ASSUME NEW name, \/ handleSetNameCommand(s, name) \/ handlePrivateMessage(s, name)
                       \/ handleKickCommand(s, name)
      PROVE  UNCHANGED connected
  BY <1>1, <1>2 DEF handleSetNameCommand, handlePrivateMessage, handleKickCommand, Reply, Enqueue
<1>3. ASSUME NEW name, handleBanCommand(s, name) \/ handleTransferCommand(s, name)
      PROVE  UNCHANGED connected
  BY <1>1, <1>3, Zenon DEF handleBanCommand, handleTransferCommand, Reply
<1>4. ASSUME NEW isPrivate, NEW password,
             \/ handleCreateCommand(s, isPrivate, password)
             \/ handleChangePasswordCommand(s, password)
             \/ \E r \in RoomIds : handleJoinCommand(s, r, password)
      PROVE  UNCHANGED connected
  BY <1>1, <1>4 DEF handleCreateCommand, CreateRoom, handleChangePasswordCommand,
                    handleJoinCommand, JoinRoom, Reply
<1>5. CASE handleListCommand(s) \/ handleUsersCommand(s) \/ handleGetPasswordCommand(s)
  BY <1>1, <1>5 DEF handleListCommand, handleUsersCommand, handleGetPasswordCommand, Reply
<1>6. CASE handleLeaveCommand(s) \/ handleForceLeaveCommand(s) \/ handleChatMessage(s)
  BY <1>1, <1>6 DEF handleLeaveCommand, handleForceLeaveCommand, handleChatMessage, Reply, Enqueue
<1> QED BY <1>2, <1>3, <1>4, <1>5, <1>6, Zenon DEF handleClientMessage

\* The threads of the client program.
LEMMA ProgramPromise ==
    ASSUME BothInv, UNCHANGED vars, Client!Threads
    PROVE  AsBothPromise
<1>1. Client!Next
  BY DEF Client!Next
<1>2. UNCHANGED <<state, connected, clients>>
  BY DEF vars, state, memory
<1>3. MembershipInv'
  BY <1>2, NothingAtServer DEF BothInv
<1>4. CommandInv'
  BY ProgramCommands DEF BothInv
<1>5. UNCHANGED link
  <2>1. CASE Client!User
    BY <2>1 DEF Client!User, Client!TypeName, Client!TypeQuit, Client!TypeInVain,
         Client!TypeCommand, Client!Step, Client!channel
  <2>2. CASE Client!Sender
    BY <2>2 DEF Client!Sender, Client!AskName, Client!StartWaiting, Client!Poll, Client!Wake,
         Client!TimeOut, Client!CheckName, Client!Prompt, Client!Step, Client!channel
  <2>3. CASE Client!Receiver \/ Client!Main
    BY <2>3 DEF Client!Main, Client!JoinSender, Client!JoinReceiver, Client!Receiver,
         Client!Receive, Client!Assign, Client!LookForExit, Client!LineDone,
         Client!ReceiveEnd, Client!ReceiveError, Client!channel
  <2> QED BY <2>1, <2>2, <2>3 DEF Client!Threads
<1>6. AgreeInv'
  <2>1. \A field \in Fields : \A value : WillBe(field, value) => WillBe(field, value)'
    BY ProgramBeliefs DEF BothInv
  <2> QED BY <1>2, <1>5, <2>1 DEF BothInv, AgreeInv, Fields
<1>7. ConnectionInv' /\ Named'
  BY <1>2, <1>5 DEF BothInv, ConnectionInv, Named
<1> QED BY <1>1, <1>3, <1>4, <1>6, <1>7 DEF AsBothPromise

\* The server reads one command, or several that have run together.
LEMMA ReadPromise ==
    ASSUME BothInv, ReadCommands
    PROVE  AsBothPromise
<1>1. PICK n \in 1 .. Len(up) :
        /\ Me \in connected /\ link = "up"
        /\ up' = SubSeq(up, n + 1, Len(up))
        /\ IF n = 1 THEN Dispatch(up[1]) ELSE Merged(up[1])
        /\ UNCHANGED <<program, link>>
        /\ Deliver
  BY DEF ReadCommands
<1>2. /\ up \in Seq(Client!Command) /\ Len(up) \in Nat \ {0} /\ 1 \in 1 .. Len(up)
      /\ up[1] \in Client!Command /\ up # <<>>
  BY <1>1, ProgramFacts DEF BothInv
<1>3. Fits(up[1])
  BY <1>2, CommandsFit
<1>4. CASE up[1][1] = "SETNAME"
  <2>1. n = 1
    BY <1>1, <1>2, <1>4 DEF BothInv, CommandInv
  <2>2. handleSetNameCommand(Me, up[1][2]) /\ handleClientMessage(Me)
    <3>1. handleSetNameCommand(Me, up[1][2])
      BY <1>1, <1>4, <2>1 DEF Dispatch
    <3>2. up[1][2] \in Usernames
      BY <1>3, <1>4 DEF Fits, Usernames
    <3> QED BY <3>1, <3>2 DEF handleClientMessage
  <2>3. /\ Client!Next /\ AgreeInv' /\ CommandInv'
        /\ clients'[Me].roomId = clients[Me].roomId
        /\ clients'[Me].username \in Names \cup {clients[Me].username}
    BY <1>1, <1>2, <1>4, <2>1, <2>2, NameAnswered DEF BothInv
  <2>4. MembershipInv' /\ UNCHANGED connected
    BY <1>1, <2>2, NextMembership, CommandsKeepConnections DEF Next, BothInv
  <2>5. ConnectionInv' /\ Named'
    BY <1>1, <2>3, <2>4, NamesAssumption DEF BothInv, ConnectionInv, Named
  <2> QED BY <2>3, <2>4, <2>5 DEF AsBothPromise
<1>5. CASE up[1][1] # "SETNAME"
  <2>1. /\ handleClientMessage(Me) \/ UNCHANGED state
        /\ Reported
    BY <1>1, <1>3, <1>5, OwnCommands, MergedCommands DEF BothInv
  <2>2. \A k \in 1 .. n : up[k][1] # "SETNAME"
    BY <1>1, <1>2, <1>5 DEF BothInv, CommandInv
  <2>3. n \in 0 .. Len(up)
    BY <1>1, <1>2
  <2>4. Client!Next /\ AgreeInv' /\ CommandInv'
    BY <1>1, <2>1, <2>2, <2>3, Served DEF BothInv
  <2>5. MembershipInv' /\ UNCHANGED connected
    <3>1. CASE handleClientMessage(Me)
      BY <1>1, <3>1, NextMembership, CommandsKeepConnections DEF Next, BothInv
    <3>2. CASE UNCHANGED state
      BY <3>2, NothingAtServer DEF BothInv, state, memory
    <3> QED BY <2>1, <3>1, <3>2
  <2>6. clients'[Me].username # NoName
    BY <1>1, <1>2, <1>5, <2>1 DEF BothInv, CommandInv, Reported, NameKept
  <2>7. ConnectionInv' /\ Named'
    BY <1>1, <2>5, <2>6 DEF BothInv, ConnectionInv, Named
  <2> QED BY <2>4, <2>5, <2>7 DEF AsBothPromise
<1> QED BY <1>4, <1>5

\* A new connection, with a record that was new already.
LEMMA AcceptPromise ==
    ASSUME BothInv, AcceptMe
    PROVE  AsBothPromise
<1>1. /\ link = "up" /\ Accept(Me) /\ UNCHANGED <<program, tcp>>
      /\ Me \notin connected /\ connected' = connected \cup {Me}
  BY DEF AcceptMe, Accept
<1>2. MembershipInv'
  BY <1>1, MeAssumption, NextMembership DEF Next, BothInv
<1>3. /\ clients[Me].username = NoName /\ clients[Me].roomId = NoRoom
      /\ clients'[Me].username = NoName /\ clients'[Me].roomId = NoRoom
      /\ ~clients'[Me].isRoomOwner
  BY <1>1, MeAssumption DEF BothInv, ConnectionInv, Accept, NewClient, MembershipInv, StateTypeOK
<1>4. UNCHANGED Client!vars
  BY <1>1, <1>3 DEF Client!vars, Client!threads, Client!channel, program, tcp
<1>5. AgreeInv'
  BY <1>1, <1>3, Unexplained DEF BothInv, program, tcp
<1>6. ConnectionInv' /\ CommandInv' /\ Named'
  BY <1>1, <1>3 DEF BothInv, ConnectionInv, CommandInv, Named, tcp
<1> QED BY <1>2, <1>4, <1>5, <1>6 DEF AsBothPromise

\* The connection is lost.
LEMMA LostPromise ==
    ASSUME BothInv, MembershipInv', UNCHANGED <<program, up, down>>, Me \notin connected',
           clients'[Me] = NewClient,
           \/ link = "up" /\ link' \in {"closed", "reset"}
           \/ link # "up" /\ link' = link
    PROVE  AsBothPromise
<1>1. clients'[Me].username = NoName /\ clients'[Me].roomId = NoRoom /\ link' # "up"
  BY DEF NewClient
<1>2. Client!Next \/ UNCHANGED Client!vars
  <2>1. CASE link = "up" /\ link' \in {"closed", "reset"}
    <3>1. Client!Lose
      BY <1>1, <2>1 DEF Client!Lose, Client!threads, program
    <3> QED BY <3>1 DEF Client!Next, Client!Server
  <2>2. CASE link # "up" /\ link' = link
    <3>1. clients[Me].username = NoName
      BY <2>2 DEF BothInv, ConnectionInv
    <3> QED BY <1>1, <2>2, <3>1 DEF Client!vars, Client!threads, Client!channel, program
  <2> QED BY <2>1, <2>2
<1>3. AgreeInv' /\ ConnectionInv' /\ CommandInv' /\ Named'
  BY <1>1 DEF AgreeInv, ConnectionInv, BothInv, CommandInv, Named
<1> QED BY <1>2, <1>3 DEF AsBothPromise

LEMMA DisconnectPromise ==
    ASSUME BothInv, DisconnectMe
    PROVE  AsBothPromise
<1>1. /\ Me \in connected /\ handleClientDisconnect(Me) /\ link' = "closed" /\ link = "up"
      /\ UNCHANGED <<program, up, down>>
  BY DEF DisconnectMe, BothInv, ConnectionInv
<1>2. Me \notin connected' /\ clients'[Me] = NewClient
  BY <1>1, MeAssumption DEF handleClientDisconnect, BothInv, MembershipInv, StateTypeOK
<1>3. MembershipInv'
  BY <1>1, NextMembership DEF Next, BothInv
<1> QED BY <1>1, <1>2, <1>3, LostPromise

LEMMA StopPromise ==
    ASSUME BothInv, ServerStops
    PROVE  AsBothPromise
<1>1. /\ Restart \/ \E r \in RoomIds : CrashInDelete(r)
      /\ UNCHANGED <<program, up, down>>
      /\ \/ link = "up" /\ link' \in {"closed", "reset"}
         \/ link # "up" /\ link' = link
  BY DEF ServerStops
<1>2. Me \notin connected' /\ clients'[Me] = NewClient
  BY <1>1, MeAssumption DEF Restart, CrashInDelete, NewProcess, NoClients
<1>3. MembershipInv'
  BY <1>1, NextMembership DEF Next, BothInv
<1> QED BY <1>1, <1>2, <1>3, LostPromise

\* What the others do.
LEMMA OthersPromise ==
    ASSUME BothInv, OthersAct
    PROVE  AsBothPromise
<1>1. UNCHANGED <<program, link, up>> /\ Deliver
  BY DEF OthersAct
<1>2. StateTypeOK
  BY DEF BothInv, MembershipInv
<1>3. /\ MembershipInv' /\ Reported /\ GoesNowhereElse
      /\ Me \in connected' <=> Me \in connected
  <2>1. ASSUME NEW s \in Sockets \ {Me}, Accept(s)
        PROVE  /\ MembershipInv' /\ Reported /\ GoesNowhereElse
               /\ Me \in connected' <=> Me \in connected
    <3>1. Next
      BY <2>1 DEF Next
    <3> QED BY <1>2, <2>1, <3>1, Comings, NextMembership DEF BothInv, Accept
  <2>2. ASSUME NEW s \in connected \ {Me}, handleClientMessage(s)
        PROVE  /\ MembershipInv' /\ Reported /\ GoesNowhereElse
               /\ Me \in connected' <=> Me \in connected
    <3>1. Next
      BY <2>2 DEF Next
    <3> QED BY <2>2, <3>1, OthersCommands, CommandsKeepConnections, NextMembership DEF BothInv
  <2>3. ASSUME NEW s \in connected \ {Me}, handleClientDisconnect(s)
        PROVE  /\ MembershipInv' /\ Reported /\ GoesNowhereElse
               /\ Me \in connected' <=> Me \in connected
    <3>1. Next /\ s \in Sockets \ {Me}
      BY <1>2, <2>3 DEF Next, StateTypeOK
    <3>2. Reported /\ GoesNowhereElse
      BY <1>2, <2>3, <3>1, Goings
    <3> QED BY <2>3, <3>1, <3>2, NextMembership DEF BothInv, handleClientDisconnect
  <2>4. ASSUME broadcastMessages
        PROVE  /\ MembershipInv' /\ Reported /\ GoesNowhereElse
               /\ Me \in connected' <=> Me \in connected
    <3>1. Next
      BY <2>4 DEF Next
    <3> QED BY <1>2, <2>4, <3>1, Deliveries, NextMembership DEF BothInv, broadcastMessages
  <2>5. ASSUME NEW r \in RoomIds, cleanupEmptyRoom(r)
        PROVE  /\ MembershipInv' /\ Reported /\ GoesNowhereElse
               /\ Me \in connected' <=> Me \in connected
    <3>1. Next
      BY <2>5 DEF Next
    <3> QED BY <2>5, <3>1, Cleanups, NextMembership DEF BothInv, cleanupEmptyRoom
  <2> QED BY <2>1, <2>2, <2>3, <2>4, <2>5 DEF OthersAct
<1>4. ConnectionInv' /\ Named'
  BY <1>1, <1>3 DEF BothInv, ConnectionInv, Named, Reported, NameKept, GoesNowhereElse
<1>5. CASE link = "up"
  <2>1. /\ 0 \in 0 .. Len(up) /\ up' = SubSeq(up, 0 + 1, Len(up))
        /\ \A k \in 1 .. 0 : up[k][1] # "SETNAME"
    BY <1>1, ProgramFacts DEF BothInv
  <2>2. Client!Next /\ AgreeInv' /\ CommandInv'
    BY <1>1, <1>3, <1>5, <2>1, Served DEF BothInv
  <2> QED BY <1>3, <1>4, <2>2 DEF AsBothPromise
<1>6. CASE link # "up"
  <2>1. UNCHANGED Client!vars
    BY <1>1, <1>3, <1>6
       DEF Deliver, Client!vars, Client!threads, Client!channel, program, Reported, NameKept
  <2>2. AgreeInv' /\ CommandInv'
    BY <1>1, <1>6 DEF BothInv, AgreeInv, CommandInv
  <2> QED BY <1>3, <1>4, <2>1, <2>2 DEF AsBothPromise
<1> QED BY <1>5, <1>6

\* Neither side acts.
LEMMA NothingPromise ==
    ASSUME BothInv, UNCHANGED <<vars, program, tcp>>
    PROVE  AsBothPromise
<1>1. UNCHANGED <<state, clients, connected, link, up, down, program>>
  BY DEF vars, state, memory, tcp
<1>2. UNCHANGED Client!vars
  BY <1>1 DEF Client!vars, Client!threads, Client!channel, program
<1>3. AgreeInv'
  BY <1>1, Unexplained DEF BothInv
<1> QED BY <1>1, <1>2, <1>3, NothingAtServer
        DEF AsBothPromise, BothInv, ConnectionInv, CommandInv, Named

\* Together: each step of both is a step of the client program, and keeps the invariant.
LEMMA BothStep ==
    ASSUME BothInv, [NextBoth]_<<vars, program, tcp>>
    PROVE  (Client!Next \/ UNCHANGED Client!vars) /\ BothInv'
<1>1. AsBothPromise
  <2>1. CASE LookFirst \/ ProgramActs
    <3>1. UNCHANGED vars /\ Client!Threads
      BY <2>1 DEF LookFirst, ProgramActs, Client!Threads, Client!Sender, Client!Receiver
    <3> QED BY <3>1, ProgramPromise
  <2> QED BY <2>1, ReadPromise, AcceptPromise, DisconnectPromise, StopPromise, OthersPromise,
             NothingPromise DEF NextBoth, Act, Stopped
<1>2. Program!ClientAssumption /\ Program!VocabularyAssumption
  BY ProgramAssumptions
<1>3. [Program!Next]_(Program!vars)
  BY <1>1, SameProgram DEF AsBothPromise
<1>4. Program!ClientInv'
  BY <1>2, <1>3, Program!ClientStep DEF BothInv
<1> QED BY <1>1, <1>4 DEF AsBothPromise, BothInv

\* It holds at the start, with no connection and an empty record.
LEMMA BothInit == ASSUME InitBoth PROVE BothInv
<1>1. MembershipInv
  BY InitMembership DEF InitBoth
<1>2. clients[Me] = NewClient /\ Me \notin connected
  BY MeAssumption DEF InitBoth, Init, NoClients
<1>3. clients[Me].username = NoName /\ clients[Me].roomId = NoRoom /\ ~clients[Me].isRoomOwner
  BY <1>2 DEF NewClient
<1>4. Client!Init
  BY <1>3 DEF InitBoth, Client!Init
<1>5. Program!Init
  BY <1>4, SameProgram
<1>6. Program!ClientInv
  BY <1>5, ProgramAssumptions, Program!TypeInit, Program!NameInit DEF Program!ClientInv
<1>7. ConnectionInv /\ CommandInv /\ Named
  BY <1>2, <1>3 DEF InitBoth, ConnectionInv, CommandInv, Named
<1>8. AgreeInv
  <2>1. todo = <<>> /\ down = <<>> /\ client.currentRoomId = NoRoom
    BY DEF InitBoth, Client!ThreadsInit
  <2>2. WillBe("currentRoomId", NoRoom)
    BY <2>1 DEF WillBe, WillHave, Spares
  <2> QED BY <1>3, <2>2 DEF AgreeInv
<1> QED BY <1>1, <1>6, <1>7, <1>8 DEF BothInv

\* The inductive invariant of client and server: the records of the server, the state of
\* the program, what the lines on their way will make the client believe
\* (Server.cpp handlers against NetworkClient.cpp receiveMessages), and the commands under way.
THEOREM BothInvariant == SpecBoth => []BothInv
<1>1. InitBoth => BothInv
  BY BothInit
<1>2. BothInv /\ [NextBoth]_<<vars, program, tcp>> => BothInv'
  BY BothStep
<1> QED BY <1>1, <1>2, PTL DEF SpecBoth

\* When nothing is on its way, what the client will be told is what it believes.
LEMMA QuietBeliefs ==
    ASSUME Quiet, NEW field, NEW value, WillBe(field, value)
    PROVE  client[field] = value
BY DEF Quiet, WillBe, WillHave, Ends

\* When no line is under way, the room the client shows (currentRoomId) is the one the server
\* has in its record, whatever kicks, bans, leaves and restarts came before.
THEOREM AgreeingOnRoom == SpecBoth => []AgreeOnRoom
<1>1. ASSUME BothInv, Quiet PROVE clients[Me].roomId = client.currentRoomId
  <2>1. WillBe("currentRoomId", clients[Me].roomId)
    BY <1>1 DEF BothInv, AgreeInv, Quiet
  <2> QED BY <1>1, <2>1, QuietBeliefs
<1>2. BothInv => AgreeOnRoom
  BY <1>1 DEF AgreeOnRoom
<1> QED BY <1>2, BothInvariant, PTL

\* When no line is under way, a client the server takes for the owner of a room knows it
\* (isRoomOwner): every handler that makes an owner tells that client, and no line that
\* clears the flag comes later.
THEOREM OwnersKnowIt == SpecBoth => []OwnerKnowsIt
<1>1. ASSUME BothInv, Quiet, clients[Me].isRoomOwner PROVE client.isRoomOwner
  <2>1. WillBe("isRoomOwner", TRUE)
    BY <1>1 DEF BothInv, AgreeInv, Quiet
  <2> QED BY <1>1, <2>1, QuietBeliefs
<1>2. BothInv => OwnerKnowsIt
  BY <1>1 DEF OwnerKnowsIt
<1> QED BY <1>2, BothInvariant, PTL

\* Whatever the server and the other clients do is a step the client program allows for:
\* its module leaves no answer, warning or loss of the connection out.
THEOREM ServerFitsClient == SpecBoth => ImplementsClient
<1>1. InitBoth => Client!Init
  <2>1. InitBoth => clients[Me].username = NoName
    BY MeAssumption DEF InitBoth, Init, NoClients, NewClient
  <2> QED BY <2>1 DEF InitBoth, Client!Init
<1>2. BothInv /\ [NextBoth]_<<vars, program, tcp>> => [Client!Next]_(Client!vars)
  BY BothStep
<1> QED BY <1>1, <1>2, BothInvariant, PTL DEF SpecBoth, ImplementsClient
===============================================================================
