------------------------------ MODULE ChatClient ------------------------------
(***************************************************************************)
(* The client program (NetworkClient.cpp, ClientState.h, main.cpp): a       *)
(* sender and a receiver thread over the shared ClientState, and the main   *)
(* thread that joins them.  The two directions of the connection are FIFO   *)
(* sequences; what stands at their other end is left open here, so that     *)
(* ClientServer can put the server there.                                   *)
(***************************************************************************)
EXTENDS Naturals, Sequences

CONSTANTS
    Names,       \* what a user types at the name prompt; nothing is "Anonymous"
    NoName,      \* the empty username
    RoomIds,     \* room ids
    NoRoom,      \* the empty room id
    Passwords,   \* passwords a user types
    NoPassword,  \* no password typed
    Vocabulary,  \* bound: the commands the user knows
    MaxUp,       \* bound: commands on their way to the server
    MaxDown      \* bound: lines on their way to the client

ASSUME ClientAssumption ==
    /\ NoName \notin Names /\ NoRoom \notin RoomIds
    /\ MaxUp \in Nat \ {0} /\ MaxDown \in Nat \ {0}

VARIABLES
    client,       \* ClientState
    sender,       \* where sendMessageToServer is
    receiver,     \* where receiveMessages is
    todo,         \* what the receiver has still to assign for the line in hand
    main,         \* where main is: "joinSender", "joinReceiver" or "exited"
    link,         \* "up", "closed" (by the server) or "reset"
    up,           \* commands sent and not yet read
    down,         \* lines sent by the server and not yet received
    serverName    \* the name under which the server knows this client

threads == <<client, sender, receiver, todo, main>>
channel == <<link, up, down, serverName>>
vars == <<threads, channel>>

ClientState ==
    [username : Names \cup {NoName}, currentRoomId : RoomIds \cup {NoRoom},
     inRoom : BOOLEAN, isRoomOwner : BOOLEAN, ownerLeaveWarning : BOOLEAN,
     waitingForNameValidation : BOOLEAN, shouldExit : BOOLEAN]

\* "named": the name is sent; "polling" and "sleeping": the loop that waits for
\* the answer; "prompt" and "typing": a turn of the chat loop, and its getline.
SenderStates == {"askName", "naming", "named", "polling", "sleeping", "checking",
                 "prompt", "typing", "done"}

(***************************************************************************)
(* Commands, as the user types them and as they are sent.                   *)
(***************************************************************************)
InRoomCommands == {<<"CHAT">>, <<"LEAVE">>} \cup ({"PM"} \X Names)
OwnerCommands ==
    ({"KICK", "BAN", "TRANSFER"} \X Names) \cup ({"CHANGEPASSWORD"} \X Passwords)
FreeCommands ==
    {<<"LIST">>, <<"USERS">>, <<"GETPASSWORD">>, <<"CREATE PUBLIC">>}
    \cup ({"CREATE PRIVATE"} \X Passwords)
    \cup ({"JOIN"} \X RoomIds \X (Passwords \cup {NoPassword}))
Commands == InRoomCommands \cup OwnerCommands \cup FreeCommands

ASSUME VocabularyAssumption == Vocabulary \subseteq Commands

Command == Commands \cup {<<"FORCELEAVE">>} \cup ({"SETNAME"} \X Names)

\* The checks the client makes before it sends what was typed.
MayBeSent(c) ==
    /\ c \in InRoomCommands \cup OwnerCommands => client.inRoom
    /\ c \in OwnerCommands => client.isRoomOwner

\* A second LEAVE after the server's warning is a FORCELEAVE.
Insists(c) == c = <<"LEAVE">> /\ client.ownerLeaveWarning
AsSent(c) == IF Insists(c) THEN <<"FORCELEAVE">> ELSE c

(***************************************************************************)
(* What the receiver assigns for a line, in this order.                     *)
(***************************************************************************)
\* Mutant: the wait ends before the name is given up.
NameTakenLate ==
    <<<<"waitingForNameValidation", FALSE>>, <<"username", NoName>>>>

NameTaken == <<<<"username", NoName>>, <<"waitingForNameValidation", FALSE>>>>

\* Mutant: the id of the new room is not kept.
EnteredUnnamed(r, owns) == <<<<"inRoom", TRUE>>, <<"isRoomOwner", owns>>>>

\* Mutant: the id is cut off at the end of the line.
EnteredWithType(r, owns) == <<<<"currentRoomId", <<r, "PUBLIC">>>>>>

Entered(r, owns) ==
    <<<<"currentRoomId", r>>, <<"inRoom", TRUE>>, <<"isRoomOwner", owns>>>>

\* ClientState::resetRoomState
Outside == <<<<"inRoom", FALSE>>, <<"isRoomOwner", FALSE>>,
             <<"ownerLeaveWarning", FALSE>>, <<"currentRoomId", NoRoom>>>>

\* Mutant: a successor is not told by OWNERSHIP_RECEIVED.
Unheard == <<>>
Promoted == <<<<"isRoomOwner", TRUE>>>>

Assignments(line) ==
    CASE line[1] = "NAME_SET" -> <<<<"waitingForNameValidation", FALSE>>>>
      [] line[1] = "NAME_TAKEN" -> NameTaken
      [] line[1] = "ROOM_CREATED" -> Entered(line[2], TRUE)
      [] line[1] = "ROOM_JOINED" -> Entered(line[2], FALSE)
      [] line[1] = "ROOM_NOT_FOUND" -> <<<<"inRoom", FALSE>>>>
      [] line[1] \in {"KICKED_FROM_ROOM", "LEFT_ROOM"} -> Outside
      [] line[1] = "OWNER_LEAVE_WARNING" -> <<<<"ownerLeaveWarning", TRUE>>>>
      [] line[1] = "OWNERSHIP_RECEIVED" -> Promoted
      [] OTHER -> <<>>

(***************************************************************************)
(* The sender thread.                                                       *)
(***************************************************************************)
Set(field, value) == client' = [client EXCEPT ![field] = value]

\* The sender goes from one place to another and touches nothing else.
Step(from, to) ==
    /\ sender = from /\ sender' = to
    /\ UNCHANGED <<receiver, todo, main, channel>>

\* send: into the connection, into nothing when its other end is gone, or failing
\* then, which ends the client.
SendCommand(c, to) ==
    \/ /\ link = "up" /\ Len(up) < MaxUp
       /\ up' = Append(up, c) /\ sender' = to
    \/ link # "up" /\ sender' = to /\ UNCHANGED up
SendFails == link # "up" /\ sender' = "done" /\ UNCHANGED up

AskName ==
    /\ Step("askName", IF client.shouldExit THEN "done" ELSE "naming")
    /\ UNCHANGED client

TypeName(name) ==
    /\ sender = "naming"
    /\ \/ SendCommand(<<"SETNAME", name>>, "named") /\ Set("username", name)
       \/ SendFails /\ client' = [client EXCEPT !.username = name, !.shouldExit = TRUE]
    /\ UNCHANGED <<receiver, todo, main, link, down, serverName>>

\* Only now does the sender begin to wait: the answer may have come already.
StartWaiting == Step("named", "polling") /\ Set("waitingForNameValidation", TRUE)

Poll ==
    /\ Step("polling", IF client.waitingForNameValidation /\ ~client.shouldExit
                       THEN "sleeping" ELSE "checking")
    /\ UNCHANGED client

Wake == Step("sleeping", "polling") /\ UNCHANGED client

\* Mutant: there is no time limit.
WaitForEver == FALSE

\* Five seconds are over.
TimeOut == Step("sleeping", "done") /\ Set("shouldExit", TRUE)

CheckName ==
    \/ /\ ~client.waitingForNameValidation /\ client.username # NoName
       /\ Step("checking", IF client.shouldExit THEN "done" ELSE "prompt")
       /\ UNCHANGED client
    \/ /\ client.waitingForNameValidation \/ client.username = NoName
       /\ Step("checking", "askName")
       /\ Set("username", NoName)

Prompt ==
    /\ Step("prompt", IF client.shouldExit THEN "done" ELSE "typing")
    /\ UNCHANGED client

TypeQuit == Step("typing", "done") /\ Set("shouldExit", TRUE)

\* An empty line, /HELP, or something the client refuses by itself.
TypeInVain == Step("typing", "prompt") /\ UNCHANGED client

TypeCommand(c) ==
    /\ sender = "typing" /\ MayBeSent(c)
    /\ LET warning == client.ownerLeaveWarning /\ ~Insists(c) IN
       \/ /\ SendCommand(AsSent(c), "prompt")
          /\ Set("ownerLeaveWarning", warning)
       \/ /\ SendFails
          /\ client' = [client EXCEPT !.ownerLeaveWarning = warning, !.shouldExit = TRUE]
    /\ UNCHANGED <<receiver, todo, main, link, down, serverName>>

(***************************************************************************)
(* The receiver thread and main.                                            *)
(***************************************************************************)
LookForExit ==
    /\ receiver = "looping"
    /\ receiver' = IF client.shouldExit THEN "done" ELSE "receiving"
    /\ UNCHANGED <<client, sender, todo, main, channel>>

Receive ==
    /\ receiver = "receiving" /\ down # <<>> /\ link # "reset"
    /\ down' = Tail(down)
    /\ todo' = Assignments(Head(down))
    /\ receiver' = "handling"
    /\ UNCHANGED <<client, sender, main, link, up, serverName>>

Assign ==
    /\ receiver = "handling" /\ todo # <<>>
    /\ Set(Head(todo)[1], Head(todo)[2])
    /\ todo' = Tail(todo)
    /\ UNCHANGED <<sender, receiver, main, channel>>

LineDone ==
    /\ receiver = "handling" /\ todo = <<>>
    /\ receiver' = "looping"
    /\ UNCHANGED <<client, sender, todo, main, channel>>

\* Mutant: the end of the connection ends the receiver only.
EndQuietly ==
    /\ receiver = "receiving" /\ down = <<>> /\ link = "closed"
    /\ receiver' = "done"
    /\ UNCHANGED <<client, sender, todo, main, channel>>

\* recv returns 0 once everything is read.
ReceiveEnd ==
    /\ receiver = "receiving" /\ down = <<>> /\ link = "closed"
    /\ Set("shouldExit", TRUE)
    /\ receiver' = "done"
    /\ UNCHANGED <<sender, todo, main, channel>>

\* recv fails: the receiver ends and tells nobody.
ReceiveError ==
    /\ receiver = "receiving" /\ link = "reset"
    /\ receiver' = "done"
    /\ UNCHANGED <<client, sender, todo, main, channel>>

JoinSender ==
    /\ main = "joinSender" /\ sender = "done"
    /\ Set("shouldExit", TRUE)
    /\ main' = "joinReceiver"
    /\ UNCHANGED <<sender, receiver, todo, channel>>

JoinReceiver ==
    /\ main = "joinReceiver" /\ receiver = "done"
    /\ main' = "exited"
    /\ UNCHANGED <<client, sender, receiver, todo, channel>>

(***************************************************************************)
(* The other end, as far as the client can tell.                            *)
(***************************************************************************)
Replies == {"NAME_SET", "NAME_TAKEN"}

\* The other lines the client acts on; those it only prints are left out.
Lines == ({"ROOM_CREATED", "ROOM_JOINED"} \X RoomIds)
         \cup ({"ROOM_NOT_FOUND", "KICKED_FROM_ROOM", "LEFT_ROOM",
                "OWNER_LEAVE_WARNING", "OWNERSHIP_RECEIVED"} \X {NoRoom})

\* The server has read the name and answers.
Answer(reply) ==
    /\ link = "up" /\ up # <<>> /\ Head(up)[1] = "SETNAME"
    /\ up' = Tail(up)
    /\ down' = Append(down, <<reply, NoRoom>>)
    /\ serverName' = IF reply = "NAME_SET" THEN Head(up)[2] ELSE serverName
    /\ UNCHANGED <<threads, link>>

\* One recv takes one command or several that lie together, and answers with at
\* most one line that the client acts on; a line may come unasked, too.
Serve(lines) ==
    /\ link = "up" /\ Len(down) + Len(lines) <= MaxDown
    /\ down' = down \o lines
    /\ \E n \in 0 .. Len(up) :
        /\ \A k \in 1 .. n : up[k][1] # "SETNAME"
        /\ up' = SubSeq(up, n + 1, Len(up))
    /\ UNCHANGED <<threads, link, serverName>>

\* The server closes the connection and forgets the client, or the connection
\* breaks.
Lose ==
    /\ link = "up"
    /\ link' \in {"closed", "reset"}
    /\ serverName' = NoName
    /\ UNCHANGED <<threads, up, down>>

Terminated == main = "exited" /\ UNCHANGED vars

-----------------------------------------------------------------------------
ThreadsInit ==
    /\ client = [username |-> NoName, currentRoomId |-> NoRoom, inRoom |-> FALSE,
                 isRoomOwner |-> FALSE, ownerLeaveWarning |-> FALSE,
                 waitingForNameValidation |-> FALSE, shouldExit |-> FALSE]
    /\ sender = "askName" /\ receiver = "looping" /\ todo = <<>>
    /\ main = "joinSender"

Init ==
    /\ ThreadsInit
    /\ link = "up" /\ up = <<>> /\ down = <<>> /\ serverName = NoName

User == (\E name \in Names : TypeName(name)) \/ TypeQuit \/ TypeInVain
        \/ \E c \in Vocabulary : TypeCommand(c)

Sender == AskName \/ StartWaiting \/ Poll \/ Wake \/ TimeOut \/ CheckName \/ Prompt
Receiver == LookForExit \/ Receive \/ Assign \/ LineDone \/ ReceiveEnd \/ ReceiveError
Main == JoinSender \/ JoinReceiver

\* main, sendMessageToServer and receiveMessages
Threads == User \/ Sender \/ Receiver \/ Main

Server ==
    \/ \E reply \in Replies : Answer(reply)
    \/ Serve(<<>>) \/ \E line \in Lines : Serve(<<line>>)
    \/ Lose

Next == Threads \/ Server \/ Terminated

\* The threads run, the clock goes on, and the user answers the prompts; the
\* server need not do anything.
Fairness ==
    /\ WF_vars(User) /\ WF_vars(Sender) /\ WF_vars(Receiver) /\ WF_vars(Main)
    /\ SF_vars(TimeOut)

Spec == Init /\ [][Next]_vars /\ Fairness

(***************************************************************************)
(* Properties.                                                              *)
(***************************************************************************)
Assignment ==
    ({"username"} \X (Names \cup {NoName}))
    \cup ({"currentRoomId"} \X (RoomIds \cup {NoRoom}))
    \cup ({"inRoom", "isRoomOwner", "ownerLeaveWarning", "waitingForNameValidation"}
            \X BOOLEAN)

TypeOK ==
    /\ client \in ClientState
    /\ sender \in SenderStates
    /\ receiver \in {"looping", "receiving", "handling", "done"}
    /\ todo \in Seq(Assignment)
    /\ main \in {"joinSender", "joinReceiver", "exited"}
    /\ link \in {"up", "closed", "reset"}
    /\ up \in Seq(Command)
    /\ down \in Seq(Lines \cup (Replies \X {NoRoom}))
    /\ serverName \in Names \cup {NoName}

\* Whoever chats does so under the name the server knows: the receiver takes
\* a refused name back before it ends the sender's wait, so that the sender cannot
\* slip into the chat between the two assignments, and an answer that came before
\* the wait began does not count for a later name.
EntersUnderItsName ==
    sender \in {"prompt", "typing"} /\ link = "up" =>
        client.username # NoName /\ client.username = serverName

\* A name that is sent is accepted, refused or given up after five seconds, also
\* when the server is silent or gone, or has answered before the wait began.
NameIsSettled == sender = "named" ~> sender \in {"naming", "typing", "done"}

\* When the server closes the connection the client ends, wherever its threads
\* are: waiting for its name, at a prompt, or in the middle of a line.
CloseEndsClient == link = "closed" ~> main = "exited"

\* "Wait for receiver thread with timeout" (main.cpp:55): once the user has quit,
\* the client ends.
QuitEndsClient == sender = "done" ~> main = "exited"
===============================================================================
