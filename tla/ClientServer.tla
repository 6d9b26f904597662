----------------------------- MODULE ClientServer -----------------------------
(***************************************************************************)
(* The client program of ChatClient at one handle of ChatServer, over a     *)
(* TCP connection.  Other clients act at the other handles without delay.   *)
(***************************************************************************)
EXTENDS ChatServer

CONSTANTS
    Vocabulary,  \* bound: the commands the user knows
    Me,          \* the handle the server has for the client program
    MaxTraffic   \* bound: commands and lines on their way or in hand

ASSUME MeAssumption == Me \in Sockets /\ MaxTraffic \in Nat \ {0}

\* A line without an argument is no line about a room.
ASSUME ArgumentAssumption == NoArg \notin RoomIds

VARIABLES client, sender, receiver, todo, main, link, up, down

\* The server knows the client by the record of its handle.
Client == INSTANCE ChatClient WITH
    serverName <- clients[Me].username, MaxUp <- MaxTraffic, MaxDown <- MaxTraffic

\* The user types the commands of the client's menu.
ASSUME VocabularyAssumption == Vocabulary \subseteq Client!Commands

program == <<client, sender, receiver, todo, main>>
tcp == <<link, up, down>>

(***************************************************************************)
(* From the server to the client.                                           *)
(***************************************************************************)
\* The lines of a step that the client acts on, in their order.
ForClient(lines) ==
    LET Acts(line) == Client!Assignments(line) # <<>>
        Id(line) == IF line[2] \in RoomIds THEN line[2] ELSE NoRoom
        told == {k \in DOMAIN lines : Acts(lines[k])}
        Nth(n) == CHOOSE k \in told : Cardinality({j \in told : j < k}) = n - 1
    IN  [n \in 1 .. Cardinality(told) |-> <<lines[Nth(n)][1], Id(lines[Nth(n)])>>]

Traffic == Len(up) + Len(down) + (IF receiver = "handling" THEN 1 ELSE 0)

Deliver ==
    /\ down' = IF link = "up" THEN down \o ForClient(out'[Me]) ELSE down
    /\ Traffic' <= MaxTraffic

(***************************************************************************)
(* From the client to the server.                                           *)
(***************************************************************************)
Dispatch(c) ==
    \/ c[1] = "SETNAME" /\ handleSetNameCommand(Me, c[2])
    \/ c[1] = "CHAT" /\ handleChatMessage(Me)
    \/ c[1] = "PM" /\ handlePrivateMessage(Me, c[2])
    \/ c[1] = "CREATE PUBLIC" /\ handleCreateCommand(Me, FALSE, NoPassword)
    \/ c[1] = "CREATE PRIVATE" /\ handleCreateCommand(Me, TRUE, c[2])
    \/ c[1] = "JOIN" /\ handleJoinCommand(Me, c[2], c[3])
    \/ c[1] = "LIST" /\ handleListCommand(Me)
    \/ c[1] = "USERS" /\ handleUsersCommand(Me)
    \/ c[1] = "GETPASSWORD" /\ handleGetPasswordCommand(Me)
    \/ c[1] = "CHANGEPASSWORD" /\ handleChangePasswordCommand(Me, c[2])
    \/ c[1] = "KICK" /\ handleKickCommand(Me, c[2])
    \/ c[1] = "BAN" /\ handleBanCommand(Me, c[2])
    \/ c[1] = "TRANSFER" /\ handleTransferCommand(Me, c[2])
    \/ c[1] = "LEAVE" /\ handleLeaveCommand(Me)
    \/ c[1] = "FORCELEAVE" /\ handleForceLeaveCommand(Me)

\* The commands of which nothing is left when other text follows them.
Fragile == {"LIST", "USERS", "GETPASSWORD", "LEAVE", "FORCELEAVE"}

\* Nothing ends a command: what lies behind c runs into its last word, which then
\* may be any other name or password, and no room id.
Merged(c) ==
    \/ c[1] \in Fragile /\ Reply(Me, Plain("ERROR"))
    \/ c[1] = "JOIN" /\ c[3] = NoPassword /\ Reply(Me, Plain("ROOM_NOT_FOUND"))
    \/ /\ c[1] = "JOIN" /\ c[3] # NoPassword
       /\ \E password \in Passwords : Dispatch(<<"JOIN", c[2], password>>)
    \/ /\ c[1] \in {"CREATE PRIVATE", "CHANGEPASSWORD"}
       /\ \E password \in Passwords : Dispatch(<<c[1], password>>)
    \/ /\ c[1] \in {"SETNAME", "KICK", "BAN", "TRANSFER"}
       /\ \E name \in Names : Dispatch(<<c[1], name>>)
    \/ c[1] \in {"CHAT", "PM", "CREATE PUBLIC"} /\ Dispatch(c)

\* One recv of the poll loop: the commands that lie in the socket, up to n.
ReadCommands ==
    \E n \in 1 .. Len(up) :
        /\ Me \in connected /\ link = "up"
        /\ up' = SubSeq(up, n + 1, Len(up))
        /\ IF n = 1 THEN Dispatch(up[1]) ELSE Merged(up[1])
        /\ UNCHANGED <<program, link>>
        /\ Deliver

(***************************************************************************)
(* The connection comes and goes.                                           *)
(***************************************************************************)
AcceptMe ==
    /\ link = "up" /\ main # "exited" /\ Accept(Me)
    /\ UNCHANGED <<program, tcp>>

\* The client has closed its end.  The connection does not break otherwise: the
\* client calls 127.0.0.1.
DisconnectMe ==
    /\ Me \in connected /\ main = "exited" /\ handleClientDisconnect(Me)
    /\ link' = "closed"
    /\ UNCHANGED <<program, up, down>>

\* The server goes away, and its connections with it.
ServerStops ==
    /\ Restart \/ \E r \in RoomIds : CrashInDelete(r)
    /\ link' \in IF link = "up" THEN {"closed", "reset"} ELSE {link}
    /\ UNCHANGED <<program, up, down>>

\* Everybody else: the other clients, the broadcaster, the cleanup threads.  What
\* another client is refused is between the server and that client.
OthersAct ==
    /\ \/ \E s \in Sockets \ {Me} : Accept(s)
       \/ \E s \in connected \ {Me} : handleClientMessage(s) \/ handleClientDisconnect(s)
       \/ broadcastMessages
       \/ \E r \in RoomIds : cleanupEmptyRoom(r)
    /\ state' # state
    /\ UNCHANGED <<program, link, up>>
    /\ Deliver

ProgramActs ==
    /\ UNCHANGED vars /\ Client!Threads
    /\ Traffic' <= MaxTraffic

\* Bound: a thread that is about to look at shouldExit does so before anything
\* else happens, as long as nothing but the user can end the client.  ChatClient
\* leaves it all its time.
AboutToLook == link = "up" /\ (sender = "prompt" \/ receiver = "looping")
LookFirst == UNCHANGED vars /\ (Client!Prompt \/ Client!LookForExit)

Stopped == main = "exited" /\ UNCHANGED <<vars, program, tcp>>

-----------------------------------------------------------------------------
InitBoth == Init /\ Client!ThreadsInit /\ link = "up" /\ up = <<>> /\ down = <<>>

Act == ProgramActs \/ ReadCommands \/ AcceptMe \/ DisconnectMe \/ ServerStops \/ OthersAct

NextBoth ==
    \/ AboutToLook /\ LookFirst
    \/ ~AboutToLook /\ Act
    \/ Stopped

SpecBoth == InitBoth /\ [][NextBoth]_<<vars, program, tcp>>

(***************************************************************************)
(* Properties.                                                              *)
(***************************************************************************)
\* The server stays within what ChatClient leaves open: a name is never read
\* together with another command, and is answered once.
ImplementsClient == Client!Init /\ [][Client!Next]_(Client!vars)

\* The user has not quit, nothing is on its way, and every line is acted on.
Quiet == link = "up" /\ sender # "done" /\ up = <<>> /\ down = <<>> /\ todo = <<>>

\* Client and server agree about the room: when nothing is on its way, a client
\* that believes to be in a room is in that one, and one that the server counts
\* in a room has its id, even after ROOM_NOT_FOUND, which takes its flag.  So it
\* never chats into a room it has left or was expelled from and entered no other.
AgreeOnRoom ==
    Quiet =>
        /\ client.inRoom => clients[Me].roomId = client.currentRoomId
        /\ clients[Me].roomId # NoRoom => clients[Me].roomId = client.currentRoomId

\* An owner has been told that it is one: when nothing is on its way, its flag is set,
\* whether it opened the room, was handed it, or inherited it from an owner that
\* left; also when room and owner changed while its own commands were on their way.
\* Not that its client lets it act as owner: ROOM_NOT_FOUND clears inRoom as well
\* (NetworkClient.cpp:367), without which the client refuses the owner's commands.
OwnerKnowsIt ==
    Quiet /\ clients[Me].isRoomOwner => client.isRoomOwner

\* "Owner wants to force leave" (NetworkClient.cpp:169): who sends FORCELEAVE owns
\* the room it is in, so that the LEAVE the user typed is carried out.
ForceLeaveIsByOwner ==
    up # <<>> /\ up[1] = <<"FORCELEAVE">> => clients[Me].isRoomOwner
===============================================================================
