--------------------------- MODULE ChatClientProofs ---------------------------
(***************************************************************************)
(* Proofs about the client program, for any names, rooms, passwords and     *)
(* bounds, and a server that answers whenever it likes: types, and that     *)
(* whoever chats does so under the name the server knows.                   *)
(***************************************************************************)
EXTENDS ChatClient, TLAPS

AnyLine == Lines \cup (Replies \X {NoRoom})

(***************************************************************************)
(* Where the answer to the last name is.  Nothing is known of a client      *)
(* whose sender is done.                                                    *)
(***************************************************************************)
NotAsked == \A k \in 1 .. Len(up) : up[k][1] # "SETNAME"
Unanswered == \A k \in 1 .. Len(down) : down[k][1] \notin Replies
NotTold == \A k \in 1 .. Len(todo) :
    todo[k][1] \notin {"username", "waitingForNameValidation"}

\* The server knows the client by its name, if it has one.
Known == client.username = NoName \/ (link = "up" => client.username = serverName)

\* No name is under way,
Settled == NotAsked /\ Unanswered /\ NotTold /\ Known

\* or it is on its way to the server,
Asking ==
    /\ Unanswered /\ NotTold
    /\ Len(up) = 1 /\ up[1] = <<"SETNAME", client.username>>

\* or its answer is on the way back,
Answered ==
    /\ NotAsked /\ NotTold
    /\ \E i \in 1 .. Len(down) :
        /\ down[i][1] \in Replies
        /\ down[i][1] = "NAME_SET" => Known
        /\ \A k \in 1 .. Len(down) : k # i => down[k][1] \notin Replies

\* or the receiver has it in hand.
Hearing ==
    /\ NotAsked /\ Unanswered
    /\ \/ todo = NameTaken
       \/ todo = <<<<"waitingForNameValidation", FALSE>>>> /\ Known

Naming == sender \in {"askName", "naming", "named", "polling", "sleeping", "checking"}
Chatting == sender \in {"prompt", "typing"}
Waiting == sender \in {"polling", "sleeping", "checking"}

\* Only one name is under way at a time, and the sender does not go on before
\* it is settled, unless the client ends.
NameInv ==
    /\ Naming => \A k \in 1 .. Len(up) : up[k][1] = "SETNAME"
    /\ sender = "askName" => client.shouldExit \/ Settled
    /\ sender = "naming" \/ Chatting => Settled
    /\ sender = "named" \/ Waiting => Settled \/ Asking \/ Answered \/ Hearing
    /\ Waiting /\ ~client.waitingForNameValidation => Settled
    /\ sender = "checking" /\ client.waitingForNameValidation => client.shouldExit
    /\ Chatting => client.username # NoName

\* A line is taken in hand when the one before is done with.
LineInv == receiver # "handling" => todo = <<>>

ClientInv == TypeOK /\ NameInv /\ LineInv

(***************************************************************************)
(* Commands and lines.                                                      *)
(***************************************************************************)
\* No command the user types is a name, and what is sent for it is a command.
LEMMA CommandsAsSent ==
    ASSUME ClientAssumption, NEW c \in Commands
    PROVE  c[1] # "SETNAME" /\ AsSent(c) \in Command /\ AsSent(c)[1] # "SETNAME"
<1>1. c \in InRoomCommands => c[1] # "SETNAME"
  BY DEF InRoomCommands
<1>2. c \in OwnerCommands => c[1] # "SETNAME"
  BY DEF OwnerCommands
<1>3. c \in FreeCommands => c[1] # "SETNAME"
  <2>1. c \in {"JOIN"} \X RoomIds \X (Passwords \cup {NoPassword}) => c[1] # "SETNAME"
    OBVIOUS
  <2>2. c \in {"CREATE PRIVATE"} \X Passwords => c[1] # "SETNAME"
    OBVIOUS
  <2>3. c \in {<<"LIST">>, <<"USERS">>, <<"GETPASSWORD">>, <<"CREATE PUBLIC">>}
            => c[1] # "SETNAME"
    <3>1. <<"LIST">>[1] # "SETNAME" /\ <<"USERS">>[1] # "SETNAME"
      OBVIOUS
    <3>2. <<"GETPASSWORD">>[1] # "SETNAME" /\ <<"CREATE PUBLIC">>[1] # "SETNAME"
      OBVIOUS
    <3> QED  BY <3>1, <3>2, Zenon
  <2> QED  BY <2>1, <2>2, <2>3, Zenon DEF FreeCommands
<1>4. c[1] # "SETNAME"
  BY <1>1, <1>2, <1>3 DEF Commands
<1>5. c \in Command /\ <<"FORCELEAVE">> \in Command
  BY DEF Command
<1> QED
  BY <1>4, <1>5 DEF AsSent

LEMMA NamesAreCommands ==
    ASSUME NEW name \in Names
    PROVE  <<"SETNAME", name>> \in Command
BY DEF Command

LEMMA NameCommands ==
    ASSUME ClientAssumption, NEW c \in Command, c[1] = "SETNAME"
    PROVE  c[2] \in Names
<1>1. <<"FORCELEAVE">>[1] # "SETNAME"
  OBVIOUS
<1>2. c \in {"SETNAME"} \X Names
  BY <1>1, CommandsAsSent, Zenon DEF Command
<1> QED
  BY <1>2

\* What the receiver makes of a line is well typed, and touches the name only
\* when the line is an answer to it.
LEMMA AssignmentsTyped ==
    /\ <<"username", NoName>> \in Assignment
    /\ \A r \in RoomIds \cup {NoRoom} : <<"currentRoomId", r>> \in Assignment
    /\ \A b \in BOOLEAN : /\ <<"inRoom", b>> \in Assignment
                         /\ <<"isRoomOwner", b>> \in Assignment
                         /\ <<"ownerLeaveWarning", b>> \in Assignment
                         /\ <<"waitingForNameValidation", b>> \in Assignment
BY DEF Assignment

LEMMA SequencesTyped ==
    ASSUME NEW a \in Assignment, NEW b \in Assignment,
           NEW c \in Assignment, NEW d \in Assignment
    PROVE  /\ <<a>> \in Seq(Assignment) /\ <<a, b>> \in Seq(Assignment)
           /\ <<a, b, c>> \in Seq(Assignment) /\ <<a, b, c, d>> \in Seq(Assignment)
OBVIOUS

LEMMA LinesAreHandled ==
    ASSUME NEW line \in AnyLine
    PROVE  /\ Assignments(line) \in Seq(Assignment)
           /\ line[1] = "NAME_SET" =>
                Assignments(line) = <<<<"waitingForNameValidation", FALSE>>>>
           /\ line[1] = "NAME_TAKEN" => Assignments(line) = NameTaken
           /\ line[1] \notin Replies =>
                \A k \in 1 .. Len(Assignments(line)) :
                    Assignments(line)[k][1] \notin {"username", "waitingForNameValidation"}
<1>1. line[1] \in {"NAME_SET", "NAME_TAKEN", "ROOM_CREATED", "ROOM_JOINED",
                   "ROOM_NOT_FOUND", "KICKED_FROM_ROOM", "LEFT_ROOM",
                   "OWNER_LEAVE_WARNING", "OWNERSHIP_RECEIVED"}
  BY DEF AnyLine, Lines, Replies
<1>2. CASE line[1] = "NAME_SET"
  <2>1. Assignments(line) = <<<<"waitingForNameValidation", FALSE>>>>
    BY <1>2 DEF Assignments
  <2>2. <<<<"waitingForNameValidation", FALSE>>>> \in Seq(Assignment)
    BY AssignmentsTyped, SequencesTyped, Zenon
  <2> QED  BY <1>2, <2>1, <2>2 DEF Replies
<1>3. CASE line[1] = "NAME_TAKEN"
  <2>1. Assignments(line) = NameTaken
    BY <1>3 DEF Assignments
  <2>2. NameTaken \in Seq(Assignment)
    BY AssignmentsTyped, SequencesTyped, Zenon DEF NameTaken
  <2> QED  BY <1>3, <2>1, <2>2 DEF Replies
<1>4. CASE line[1] \in {"ROOM_CREATED", "ROOM_JOINED"}
  <2>1. line[2] \in RoomIds
    BY <1>4 DEF AnyLine, Lines, Replies
  <2>2. PICK owns \in BOOLEAN : Assignments(line) = Entered(line[2], owns)
    BY <1>4 DEF Assignments
  <2>3. Entered(line[2], owns) \in Seq(Assignment)
    BY <2>1, AssignmentsTyped, SequencesTyped, Zenon DEF Entered
  <2>4. \A k \in 1 .. Len(Entered(line[2], owns)) :
            Entered(line[2], owns)[k][1] \in {"currentRoomId", "inRoom", "isRoomOwner"}
    BY DEF Entered
  <2> QED  BY <1>4, <2>2, <2>3, <2>4
<1>5. CASE line[1] \in {"KICKED_FROM_ROOM", "LEFT_ROOM"}
  <2>1. Assignments(line) = Outside
    BY <1>5 DEF Assignments
  <2>2. Outside \in Seq(Assignment)
    BY AssignmentsTyped, SequencesTyped, Zenon DEF Outside
  <2>3. \A k \in 1 .. Len(Outside) : Outside[k][1] \in
            {"inRoom", "isRoomOwner", "ownerLeaveWarning", "currentRoomId"}
    BY DEF Outside
  <2> QED  BY <1>5, <2>1, <2>2, <2>3
<1>6. CASE line[1] = "ROOM_NOT_FOUND"
  <2>1. Assignments(line) = <<<<"inRoom", FALSE>>>>
    BY <1>6 DEF Assignments
  <2>2. <<<<"inRoom", FALSE>>>> \in Seq(Assignment)
    BY AssignmentsTyped, SequencesTyped, Zenon
  <2>3. \A k \in 1 .. Len(<<<<"inRoom", FALSE>>>>) : <<<<"inRoom", FALSE>>>>[k][1] = "inRoom"
    OBVIOUS
  <2> QED  BY <1>6, <2>1, <2>2, <2>3
<1>7. CASE line[1] = "OWNER_LEAVE_WARNING"
  <2>1. Assignments(line) = <<<<"ownerLeaveWarning", TRUE>>>>
    BY <1>7 DEF Assignments
  <2>2. <<<<"ownerLeaveWarning", TRUE>>>> \in Seq(Assignment)
    BY AssignmentsTyped, SequencesTyped, Zenon
  <2>3. \A k \in 1 .. Len(<<<<"ownerLeaveWarning", TRUE>>>>) : <<<<"ownerLeaveWarning", TRUE>>>>[k][1] = "ownerLeaveWarning"
    OBVIOUS
  <2> QED  BY <1>7, <2>1, <2>2, <2>3
<1>8. CASE line[1] = "OWNERSHIP_RECEIVED"
  <2>1. Assignments(line) = <<<<"isRoomOwner", TRUE>>>>
    BY <1>8 DEF Assignments, Promoted
  <2>2. <<<<"isRoomOwner", TRUE>>>> \in Seq(Assignment)
    BY AssignmentsTyped, SequencesTyped, Zenon
  <2>3. \A k \in 1 .. Len(<<<<"isRoomOwner", TRUE>>>>) : <<<<"isRoomOwner", TRUE>>>>[k][1] = "isRoomOwner"
    OBVIOUS
  <2> QED  BY <1>8, <2>1, <2>2, <2>3
<1> QED
  BY <1>1, <1>2, <1>3, <1>4, <1>5, <1>6, <1>7, <1>8

(***************************************************************************)
(* Types.                                                                   *)
(***************************************************************************)
LEMMA TypeInit == ASSUME ClientAssumption, Init PROVE TypeOK
BY DEF ClientAssumption, Init, ThreadsInit, TypeOK, ClientState, SenderStates

LEMMA SenderTypes ==
    ASSUME ClientAssumption, VocabularyAssumption, TypeOK, User \/ Sender
    PROVE  TypeOK'
<1> USE DEF TypeOK, SenderStates
<1>1. ASSUME NEW name \in Names, TypeName(name) PROVE TypeOK'
  <2>1. client' \in ClientState /\ sender' \in SenderStates
    BY <1>1 DEF TypeName, SendCommand, SendFails, Set, ClientState
  <2>2. \A c \in Command : Append(up, c) \in Seq(Command)
    OBVIOUS
  <2>3. up' \in Seq(Command)
    BY <1>1, <2>2, NamesAreCommands, Zenon DEF TypeName, SendCommand, SendFails
  <2> QED  BY <1>1, <2>1, <2>3 DEF TypeName
<1>2. ASSUME NEW c \in Vocabulary, TypeCommand(c) PROVE TypeOK'
  <2>1. client' \in ClientState /\ sender' \in SenderStates
    BY <1>2 DEF TypeCommand, SendCommand, SendFails, Set, ClientState, Insists
  <2>2. \A x \in Command : Append(up, x) \in Seq(Command)
    OBVIOUS
  <2>3. AsSent(c) \in Command
    BY CommandsAsSent DEF VocabularyAssumption
  <2>4. up' \in Seq(Command)
    BY <1>2, <2>2, <2>3, Zenon DEF TypeCommand, SendCommand, SendFails
  <2> QED  BY <1>2, <2>1, <2>4 DEF TypeCommand
<1>3. CASE TypeQuit \/ TypeInVain \/ AskName \/ StartWaiting \/ Poll \/ Wake \/ TimeOut
           \/ CheckName \/ Prompt
  <2>1. client' \in ClientState /\ sender' \in SenderStates
    BY <1>3 DEF TypeQuit, TypeInVain, AskName, StartWaiting, Poll, Wake, TimeOut, CheckName,
                Prompt, Step, Set, ClientState
  <2>2. UNCHANGED <<receiver, todo, main, channel>>
    BY <1>3 DEF TypeQuit, TypeInVain, AskName, StartWaiting, Poll, Wake, TimeOut, CheckName,
                Prompt, Step
  <2> QED  BY <2>1, <2>2 DEF channel
<1> QED
  BY <1>1, <1>2, <1>3 DEF User, Sender

LEMMA ReceiverTypes ==
    ASSUME ClientAssumption, TypeOK, Receiver \/ Main
    PROVE  TypeOK'
<1> USE DEF TypeOK
<1>1. CASE Receive
  <2>1. Head(down) \in AnyLine /\ Tail(down) \in Seq(AnyLine)
    BY <1>1 DEF Receive, AnyLine
  <2>2. todo' \in Seq(Assignment)
    BY <1>1, <2>1, LinesAreHandled DEF Receive
  <2> QED  BY <1>1, <2>1, <2>2 DEF Receive, AnyLine
<1>2. CASE Assign
  <2>1. Head(todo) \in Assignment /\ todo' \in Seq(Assignment)
    BY <1>2 DEF Assign
  <2>2. client' \in ClientState
    BY <1>2, <2>1 DEF Assign, Set, Assignment, ClientState
  <2> QED  BY <1>2, <2>1, <2>2 DEF Assign, channel
<1>3. CASE LookForExit \/ LineDone \/ ReceiveEnd \/ ReceiveError \/ JoinSender \/ JoinReceiver
  <2>1. client' \in ClientState
    BY <1>3 DEF LookForExit, LineDone, ReceiveEnd, ReceiveError, JoinSender, JoinReceiver, Set,
                ClientState
  <2> QED
    BY <1>3, <2>1 DEF LookForExit, LineDone, ReceiveEnd, ReceiveError, JoinSender, JoinReceiver,
                      channel
<1> QED
  BY <1>1, <1>2, <1>3 DEF Receiver, Main

LEMMA ServerTypes ==
    ASSUME ClientAssumption, TypeOK, Server
    PROVE  TypeOK'
<1> USE DEF TypeOK
<1>1. ASSUME NEW reply \in Replies, Answer(reply) PROVE TypeOK'
  <2>1. <<reply, NoRoom>> \in Lines \cup (Replies \X {NoRoom})
    OBVIOUS
  <2>2. Head(up) \in Command /\ Head(up)[1] = "SETNAME"
    BY <1>1 DEF Answer
  <2>3. Head(up)[2] \in Names
    BY <2>2, NameCommands
  <2> QED  BY <1>1, <2>1, <2>2, <2>3 DEF Answer, threads
<1>2. ASSUME NEW lines \in Seq(Lines), Serve(lines) PROVE TypeOK'
  <2>1. up' \in Seq(Command)
    BY <1>2 DEF Serve
  <2>2. down' \in Seq(Lines \cup (Replies \X {NoRoom}))
    BY <1>2 DEF Serve
  <2> QED  BY <1>2, <2>1, <2>2 DEF Serve, threads
<1>3. CASE Lose
  BY <1>3 DEF Lose, threads
<1>4. <<>> \in Seq(Lines) /\ \A line \in Lines : <<line>> \in Seq(Lines)
  OBVIOUS
<1> QED
  BY <1>1, <1>2, <1>3, <1>4, Zenon DEF Server

LEMMA TypeStep ==
    ASSUME ClientAssumption, VocabularyAssumption, TypeOK, [Next]_vars
    PROVE  TypeOK'
<1>1. CASE Terminated \/ UNCHANGED vars
  BY <1>1 DEF TypeOK, Terminated, vars, threads, channel
<1> QED
  BY <1>1, SenderTypes, ReceiverTypes, ServerTypes DEF Next, Threads

(***************************************************************************)
(* The name under way.                                                      *)
(***************************************************************************)
LEMMA NameInit == ASSUME Init PROVE NameInv /\ LineInv
BY DEF Init, ThreadsInit, NameInv, LineInv, Naming, Chatting, Waiting, Settled, NotAsked,
       Unanswered, NotTold, Known

\* Where the answer is depends on the connection, the line in hand and the name.
LEMMA SameNames ==
    ASSUME UNCHANGED <<todo, channel>>, client'.username = client.username
    PROVE  /\ Settled' <=> Settled
           /\ Asking' <=> Asking
           /\ Answered' <=> Answered
           /\ Hearing' <=> Hearing
           /\ UNCHANGED up
BY DEF channel, Settled, Asking, Answered, Hearing, NotAsked, Unanswered, NotTold, Known, NameTaken

LEMMA SenderKeepsNames ==
    ASSUME ClientAssumption, VocabularyAssumption, ClientInv, User \/ Sender
    PROVE  NameInv' /\ LineInv'
<1> USE DEF NameInv, Naming, Chatting, Waiting
<1>1. LineInv'
  BY DEF ClientInv, LineInv, User, Sender, TypeName, TypeCommand, TypeQuit, TypeInVain, AskName,
         StartWaiting, Poll, Wake, TimeOut, CheckName, Prompt, Step
<1> SUFFICES NameInv'
  BY <1>1
<1>2. ASSUME NEW name \in Names, TypeName(name) PROVE NameInv'
  <2>1. sender = "naming" /\ sender' \in {"named", "done"} /\ Settled /\ Len(up) = 0
    BY <1>2 DEF TypeName, SendCommand, SendFails, ClientInv, TypeOK, Settled, NotAsked
  <2>2. UNCHANGED <<todo, link, down, serverName>>
    BY <1>2 DEF TypeName
  <2>3. client'.username = name
    BY <1>2 DEF TypeName, SendCommand, SendFails, Set, ClientInv, TypeOK, ClientState
  <2>4. CASE link = "up"
    <3>1. up' = Append(up, <<"SETNAME", name>>)
      BY <1>2, <2>4 DEF TypeName, SendCommand, SendFails
    <3>2. Len(up') = 1 /\ up'[1] = <<"SETNAME", name>>
      BY <2>1, <3>1 DEF ClientInv, TypeOK
    <3>3. Asking'
      BY <2>1, <2>2, <2>3, <3>2 DEF Asking, Settled, Unanswered, NotTold
    <3>4. \A k \in 1 .. Len(up') : up'[k][1] = "SETNAME"
      BY <3>2
    <3> QED  BY <2>1, <3>3, <3>4
  <2>5. CASE link # "up"
    <3>1. UNCHANGED up
      BY <1>2, <2>5 DEF TypeName, SendCommand, SendFails
    <3>2. Settled'
      BY <2>1, <2>2, <2>5, <3>1 DEF Settled, NotAsked, Unanswered, NotTold, Known
    <3> QED  BY <2>1, <3>1, <3>2 DEF ClientInv
  <2> QED  BY <2>4, <2>5
<1>3. ASSUME NEW c \in Vocabulary, TypeCommand(c) PROVE NameInv'
  <2>1. sender = "typing" /\ sender' \in {"prompt", "done"} /\ Settled
    BY <1>3 DEF TypeCommand, SendCommand, SendFails, ClientInv
  <2>2. UNCHANGED <<todo, link, down, serverName>>
    BY <1>3 DEF TypeCommand
  <2>3. client'.username = client.username
    BY <1>3 DEF TypeCommand, SendCommand, SendFails, Set, ClientInv, TypeOK, ClientState
  <2>4. up' = up \/ up' = Append(up, AsSent(c))
    BY <1>3 DEF TypeCommand, SendCommand, SendFails
  <2>5. AsSent(c)[1] # "SETNAME"
    BY CommandsAsSent DEF VocabularyAssumption
  <2>6. NotAsked'
    <3>1. \A x \in Command : \A k \in 1 .. Len(Append(up, x)) :
            Append(up, x)[k] = x \/ (k \in 1 .. Len(up) /\ Append(up, x)[k] = up[k])
      BY DEF ClientInv, TypeOK
    <3>2. AsSent(c) \in Command
      BY CommandsAsSent DEF VocabularyAssumption
    <3> QED  BY <2>1, <2>4, <2>5, <3>1, <3>2, Zenon DEF Settled, NotAsked
  <2>7. Settled'
    BY <2>1, <2>2, <2>3, <2>6 DEF Settled, Unanswered, NotTold, Known
  <2> QED  BY <2>1, <2>3, <2>7 DEF ClientInv
<1>4. CASE CheckName
  <2>1. UNCHANGED <<todo, channel>> /\ UNCHANGED up
    BY <1>4 DEF CheckName, Step, channel
  <2>2. CASE ~client.waitingForNameValidation /\ client.username # NoName
    BY <1>4, <2>1, <2>2, SameNames DEF CheckName, Step, ClientInv
  <2>3. CASE client.waitingForNameValidation \/ client.username = NoName
    <3>1. sender = "checking" /\ sender' = "askName" /\ Set("username", NoName)
      BY <1>4, <2>3 DEF CheckName, Step
    <3>2. client'.username = NoName /\ client'.shouldExit = client.shouldExit
      BY <3>1 DEF Set, ClientInv, TypeOK, ClientState
    <3>3. Settled => Settled'
      BY <2>1, <3>2 DEF channel, Settled, NotAsked, Unanswered, NotTold, Known
    <3> QED  BY <2>1, <3>1, <3>2, <3>3 DEF ClientInv
  <2> QED
    BY <2>2, <2>3 DEF ClientInv, TypeOK, ClientState
<1>5. CASE AskName \/ Prompt \/ TypeInVain \/ Wake \/ Poll
  BY <1>5, SameNames DEF AskName, Prompt, TypeInVain, Wake, Poll, Step, ClientInv
<1>6. CASE StartWaiting
  <2>1. client'.username = client.username /\ client'.waitingForNameValidation
    BY <1>6 DEF StartWaiting, Set, ClientInv, TypeOK, ClientState
  <2> QED  BY <1>6, <2>1, SameNames DEF StartWaiting, Step, ClientInv
<1>7. CASE TypeQuit \/ TimeOut
  BY <1>7 DEF TypeQuit, TimeOut, Step
<1> QED
  BY <1>2, <1>3, <1>4, <1>5, <1>6, <1>7 DEF User, Sender

\* A line that is taken in hand brings the answer with it or leaves it where it is.
LEMMA ReceiveKeepsNames ==
    ASSUME ClientAssumption, ClientInv, Receive
    PROVE  NameInv'
<1>1. /\ todo = <<>> /\ down # <<>> /\ down \in Seq(AnyLine)
      /\ down' = Tail(down) /\ todo' = Assignments(Head(down))
      /\ UNCHANGED <<client, sender, link, up, serverName>>
  BY DEF Receive, ClientInv, LineInv, TypeOK, AnyLine
<1>2. /\ Head(down) \in AnyLine /\ Head(down) = down[1] /\ Len(down) \in Nat \ {0}
      /\ Len(down') = Len(down) - 1
      /\ \A k \in 1 .. Len(down') : down'[k] = down[k + 1]
  BY <1>1
<1>3. Known' <=> Known
  BY <1>1 DEF Known
<1>4. ~Hearing
  BY <1>1 DEF Hearing, NameTaken
<1>5. ASSUME Unanswered PROVE Unanswered' /\ NotTold'
  <2>1. Unanswered'
    BY <1>2, <1>5 DEF Unanswered
  <2>2. Head(down)[1] \notin Replies
    BY <1>2, <1>5 DEF Unanswered
  <2>3. NotTold'
    BY <1>1, <1>2, <2>2, LinesAreHandled, Zenon DEF NotTold
  <2> QED  BY <2>1, <2>3
<1>6. Settled => Settled'
  BY <1>1, <1>3, <1>5 DEF Settled, NotAsked
<1>7. Asking => Asking'
  BY <1>1, <1>5 DEF Asking
<1>8. ASSUME Answered PROVE Answered' \/ Hearing'
  <2>1. PICK i \in 1 .. Len(down) :
            /\ down[i][1] \in Replies
            /\ down[i][1] = "NAME_SET" => Known
            /\ \A k \in 1 .. Len(down) : k # i => down[k][1] \notin Replies
    BY <1>8 DEF Answered
  <2>2. NotAsked'
    BY <1>1, <1>8 DEF Answered, NotAsked
  <2>3. CASE i = 1
    <3>1. Unanswered'
      BY <1>2, <2>1, <2>3 DEF Unanswered
    <3>2. \/ todo' = NameTaken
          \/ todo' = <<<<"waitingForNameValidation", FALSE>>>> /\ Known
      BY <1>1, <1>2, <2>1, <2>3, LinesAreHandled DEF Replies
    <3>3. NameTaken' = NameTaken
      BY DEF NameTaken
    <3> QED  BY <1>3, <2>2, <3>1, <3>2, <3>3 DEF Hearing
  <2>4. CASE i # 1
    <3>1. NotTold'
      <4>1. Head(down)[1] \notin Replies
        BY <1>2, <2>1, <2>4
      <4> QED  BY <1>1, <1>2, <4>1, LinesAreHandled, Zenon DEF NotTold
    <3>2. i - 1 \in 1 .. Len(down') /\ down'[i - 1] = down[i]
      BY <1>2, <2>4
    <3>3. \A k \in 1 .. Len(down') : k # i - 1 => down'[k][1] \notin Replies
      BY <1>2, <2>1, <2>4
    <3> QED  BY <1>3, <2>1, <2>2, <3>1, <3>2, <3>3 DEF Answered
  <2> QED  BY <2>3, <2>4
<1> QED
  BY <1>1, <1>4, <1>6, <1>7, <1>8 DEF ClientInv, NameInv, Naming, Chatting, Waiting

\* The name and the wait are assigned for an answer only, the name first.
LEMMA AssignKeepsNames ==
    ASSUME ClientAssumption, ClientInv, Assign
    PROVE  NameInv'
<1>1. /\ todo # <<>> /\ todo \in Seq(Assignment) /\ todo' = Tail(todo)
      /\ client' = [client EXCEPT ![todo[1][1]] = todo[1][2]]
      /\ UNCHANGED <<sender, link, up, down, serverName>>
  <2>1. todo # <<>> /\ todo \in Seq(Assignment)
    BY DEF Assign, ClientInv, TypeOK
  <2>2. Head(todo) = todo[1]
    BY <2>1
  <2> QED  BY <2>1, <2>2, Zenon DEF Assign, Set, channel
<1>2. todo[1] \in Assignment /\ client \in ClientState
  BY <1>1 DEF ClientInv, TypeOK
<1>3. client'.shouldExit = client.shouldExit
  BY <1>1, <1>2 DEF Assignment, ClientState
<1>4. /\ NotAsked' <=> NotAsked
      /\ Unanswered' <=> Unanswered
  BY <1>1 DEF NotAsked, Unanswered
<1>5. ASSUME NotTold
      PROVE  /\ NotTold' /\ client'.username = client.username
             /\ client'.waitingForNameValidation = client.waitingForNameValidation
  <2>1. todo[1][1] \notin {"username", "waitingForNameValidation"}
    BY <1>1, <1>5 DEF NotTold
  <2>2. NotTold'
    BY <1>1, <1>5 DEF NotTold
  <2> QED  BY <1>1, <1>2, <2>1, <2>2 DEF ClientState
<1>6. Settled => Settled'
  BY <1>1, <1>4, <1>5 DEF Settled, Known
<1>7. Asking => Asking'
  BY <1>1, <1>4, <1>5 DEF Asking
<1>8. Answered => Answered'
  BY <1>1, <1>4, <1>5 DEF Answered, Known
<1>9. ASSUME Hearing
      PROVE  \/ Hearing' /\ client'.waitingForNameValidation = client.waitingForNameValidation
             \/ Settled' /\ ~client'.waitingForNameValidation
  <2>1. CASE todo = NameTaken
    <3>1. todo' = <<<<"waitingForNameValidation", FALSE>>>>
      <4>1. \A a, b \in Assignment : Tail(<<a, b>>) = <<b>>
        OBVIOUS
      <4> QED  BY <1>1, <2>1, <4>1, AssignmentsTyped, Zenon DEF NameTaken
    <3>2. todo[1] = <<"username", NoName>>
      BY <2>1 DEF NameTaken
    <3>3. /\ client'.username = NoName
          /\ client'.waitingForNameValidation = client.waitingForNameValidation
      BY <1>1, <1>2, <3>2 DEF ClientState
    <3> QED  BY <1>4, <1>9, <3>1, <3>3 DEF Hearing, Known
  <2>2. CASE todo = <<<<"waitingForNameValidation", FALSE>>>> /\ Known
    <3>1. todo' = <<>>
      BY <1>1, <2>2
    <3>2. todo[1] = <<"waitingForNameValidation", FALSE>>
      BY <2>2
    <3>3. client'.username = client.username /\ ~client'.waitingForNameValidation
      BY <1>1, <1>2, <3>2 DEF ClientState
    <3>4. Known'
      BY <1>1, <2>2, <3>3 DEF Known
    <3> QED  BY <1>4, <1>9, <3>1, <3>3, <3>4 DEF Hearing, Settled, NotTold
  <2> QED  BY <1>9, <2>1, <2>2 DEF Hearing
<1>10. Settled \/ Asking \/ Answered => NotTold
  BY DEF Settled, Asking, Answered
<1>11. ASSUME Hearing PROVE ~NotTold
  <2>1. 1 \in 1 .. Len(todo)
    BY <1>1
  <2>2. todo[1][1] \in {"username", "waitingForNameValidation"}
    <3>1. \A a, b \in Assignment : <<a, b>>[1] = a /\ <<b>>[1] = b
      OBVIOUS
    <3>2. \/ todo[1] = <<"username", NoName>>
          \/ todo[1] = <<"waitingForNameValidation", FALSE>>
      BY <1>11, <3>1, AssignmentsTyped, Zenon DEF Hearing, NameTaken
    <3>3. /\ <<"username", NoName>>[1] = "username"
          /\ <<"waitingForNameValidation", FALSE>>[1] = "waitingForNameValidation"
      OBVIOUS
    <3> QED  BY <3>2, <3>3, Zenon
  <2> QED  BY <2>1, <2>2 DEF NotTold
<1> USE DEF NameInv, Naming, Chatting, Waiting
<1>12. CASE Settled
  BY <1>1, <1>3, <1>5, <1>6, <1>10, <1>11, <1>12 DEF ClientInv
<1>13. CASE ~Settled
  BY <1>1, <1>3, <1>5, <1>7, <1>8, <1>9, <1>10, <1>13 DEF ClientInv
<1> QED  BY <1>12, <1>13

LEMMA ReceiverKeepsNames ==
    ASSUME ClientAssumption, ClientInv, Receiver \/ Main
    PROVE  NameInv' /\ LineInv'
<1>1. LineInv'
  BY DEF ClientInv, LineInv, Receiver, Main, LookForExit, Receive, Assign, LineDone, ReceiveEnd,
         ReceiveError, JoinSender, JoinReceiver
<1>2. CASE LookForExit \/ LineDone \/ ReceiveError \/ JoinReceiver
  <2>1. UNCHANGED <<client, sender, todo, channel>>
    BY <1>2 DEF LookForExit, LineDone, ReceiveError, JoinReceiver
  <2> QED  BY <1>1, <2>1, SameNames DEF ClientInv, NameInv, Naming, Chatting, Waiting
<1>3. CASE ReceiveEnd \/ JoinSender
  <2>1. UNCHANGED <<sender, todo, channel>> /\ Set("shouldExit", TRUE)
    BY <1>3 DEF ReceiveEnd, JoinSender
  <2>2. /\ client'.username = client.username /\ client'.shouldExit
        /\ client'.waitingForNameValidation = client.waitingForNameValidation
    BY <2>1 DEF Set, ClientInv, TypeOK, ClientState
  <2> QED  BY <1>1, <2>1, <2>2, SameNames DEF ClientInv, NameInv, Naming, Chatting, Waiting
<1> QED
  BY <1>1, <1>2, <1>3, ReceiveKeepsNames, AssignKeepsNames DEF Receiver, Main

LEMMA ServerKeepsNames ==
    ASSUME ClientAssumption, ClientInv, Server
    PROVE  NameInv' /\ LineInv'
<1>1. UNCHANGED threads
  BY DEF Server, Answer, Serve, Lose
<1>2. LineInv' /\ UNCHANGED <<client, sender, todo>>
  BY <1>1 DEF threads, ClientInv, LineInv
<1>3. /\ NotTold' <=> NotTold
      /\ NameTaken' = NameTaken
  BY <1>2 DEF NotTold, NameTaken
<1> USE DEF NameInv, Naming, Chatting, Waiting
<1>4. ASSUME NEW reply \in Replies, Answer(reply) PROVE NameInv'
  <2>1. /\ up # <<>> /\ up[1][1] = "SETNAME" /\ up' = Tail(up)
        /\ down' = Append(down, <<reply, NoRoom>>) /\ up \in Seq(Command)
        /\ serverName' = IF reply = "NAME_SET" THEN up[1][2] ELSE serverName
        /\ down \in Seq(AnyLine)
    BY <1>4 DEF Answer, ClientInv, TypeOK, AnyLine
  <2>2. Len(up) \in Nat \ {0}
    BY <2>1
  <2>3. ~NotAsked
    BY <2>1, <2>2 DEF NotAsked
  <2>4. ~Settled /\ ~Answered /\ ~Hearing
    BY <2>3 DEF Settled, Answered, Hearing
  <2>5. ASSUME Asking PROVE Answered'
    <3>1. NotAsked'
      BY <1>4, <2>1, <2>5 DEF Asking, NotAsked
    <3>2. /\ Len(down') = Len(down) + 1 /\ down'[Len(down) + 1] = <<reply, NoRoom>>
          /\ \A k \in 1 .. Len(down) : down'[k] = down[k]
      BY <2>1
    <3>3. Len(down) + 1 \in 1 .. Len(down')
      BY <2>1, <3>2
    <3>4. \A k \in 1 .. Len(down') : k # Len(down) + 1 => down'[k][1] \notin Replies
      BY <2>1, <2>5, <3>2 DEF Asking, Unanswered
    <3>5. reply = "NAME_SET" => Known'
      BY <1>2, <2>1, <2>5 DEF Asking, Known
    <3>6. down'[Len(down) + 1][1] = reply
      BY <3>2
    <3>7. NotTold'
      BY <1>3, <2>5 DEF Asking
    <3>8. /\ down'[Len(down) + 1][1] \in Replies
          /\ down'[Len(down) + 1][1] = "NAME_SET" => Known'
      BY <3>5, <3>6
    <3> QED  BY <3>1, <3>3, <3>4, <3>7, <3>8, Zenon DEF Answered
  <2>6. \A k \in 1 .. Len(up') : up'[k] = up[k + 1] /\ k + 1 \in 1 .. Len(up)
    BY <2>1
  <2> QED  BY <1>2, <2>4, <2>5, <2>6 DEF ClientInv
<1>5. ASSUME NEW lines \in Seq(Lines), Serve(lines) PROVE NameInv'
  <2>1. PICK n \in 0 .. Len(up) :
            /\ \A k \in 1 .. n : up[k][1] # "SETNAME"
            /\ up' = SubSeq(up, n + 1, Len(up))
    BY <1>5 DEF Serve
  <2>2. /\ down' = down \o lines /\ UNCHANGED <<link, serverName>>
        /\ up \in Seq(Command) /\ down \in Seq(AnyLine)
    BY <1>5 DEF Serve, ClientInv, TypeOK, AnyLine
  <2>3. /\ Len(up') = Len(up) - n
        /\ \A k \in 1 .. Len(up') : up'[k] = up[k + n] /\ k + n \in 1 .. Len(up)
    BY <2>1, <2>2
  <2>4. NotAsked => NotAsked'
    BY <2>3 DEF NotAsked
  <2>5. /\ Len(down') = Len(down) + Len(lines)
        /\ \A k \in 1 .. Len(down) : down'[k] = down[k]
        /\ \A k \in 1 .. Len(lines) : down'[Len(down) + k] = lines[k]
    BY <2>2
  <2>6. \A line \in Lines : line[1] \notin Replies
    BY DEF Lines, Replies
  <2>7. \A k \in 1 .. Len(down') : k \notin 1 .. Len(down) => down'[k][1] \notin Replies
    <3> SUFFICES ASSUME NEW k \in 1 .. Len(down'), k \notin 1 .. Len(down)
                 PROVE  down'[k][1] \notin Replies
      OBVIOUS
    <3>1. k - Len(down) \in 1 .. Len(lines) /\ k = Len(down) + (k - Len(down))
      BY <2>2, <2>5
    <3>2. down'[k] = lines[k - Len(down)] /\ lines[k - Len(down)] \in Lines
      BY <2>5, <3>1
    <3> QED  BY <2>6, <3>2
  <2>8. Unanswered => Unanswered'
    BY <2>5, <2>7 DEF Unanswered
  <2>9. Known' <=> Known
    BY <1>2, <2>2 DEF Known
  <2>10. Settled => Settled'
    BY <1>3, <2>4, <2>8, <2>9 DEF Settled
  <2>11. ASSUME Asking PROVE Asking'
    <3>1. n = 0
      BY <2>1, <2>11 DEF Asking
    <3>2. Len(up') = 1 /\ up'[1] = up[1]
      BY <2>3, <2>11, <3>1 DEF Asking
    <3> QED  BY <1>2, <1>3, <2>8, <2>11, <3>2 DEF Asking
  <2>12. ASSUME Answered PROVE Answered'
    <3>1. PICK i \in 1 .. Len(down) :
            /\ down[i][1] \in Replies
            /\ down[i][1] = "NAME_SET" => Known
            /\ \A k \in 1 .. Len(down) : k # i => down[k][1] \notin Replies
      BY <2>12 DEF Answered
    <3>2. i \in 1 .. Len(down') /\ down'[i] = down[i]
      BY <2>2, <2>5
    <3>3. \A k \in 1 .. Len(down') : k # i => down'[k][1] \notin Replies
      BY <2>5, <2>7, <3>1
    <3>4. NotAsked' /\ NotTold'
      BY <1>3, <2>4, <2>12 DEF Answered
    <3> QED  BY <2>9, <3>1, <3>2, <3>3, <3>4 DEF Answered
  <2>13. Hearing => Hearing'
    BY <1>2, <1>3, <2>4, <2>8, <2>9 DEF Hearing
  <2>14. Naming => \A k \in 1 .. Len(up') : up'[k][1] = "SETNAME"
    BY <2>3 DEF ClientInv
  <2> QED  BY <1>2, <2>10, <2>11, <2>12, <2>13, <2>14 DEF ClientInv
<1>6. CASE Lose
  <2>1. UNCHANGED <<up, down>> /\ Known'
    BY <1>6 DEF Lose, Known
  <2>2. /\ NotAsked' <=> NotAsked
        /\ Unanswered' <=> Unanswered
    BY <2>1 DEF NotAsked, Unanswered
  <2>3. /\ Settled => Settled'
        /\ Asking => Asking'
        /\ Hearing => Hearing'
    BY <1>2, <1>3, <2>1, <2>2 DEF Settled, Asking, Hearing
  <2>4. Answered => Answered'
    BY <1>3, <2>1, <2>2 DEF Answered
  <2> QED  BY <1>2, <2>1, <2>3, <2>4 DEF ClientInv
<1>7. <<>> \in Seq(Lines) /\ \A line \in Lines : <<line>> \in Seq(Lines)
  OBVIOUS
<1> QED
  BY <1>2, <1>4, <1>5, <1>6, <1>7, Zenon DEF Server

LEMMA ClientStep ==
    ASSUME ClientAssumption, VocabularyAssumption, ClientInv, [Next]_vars
    PROVE  ClientInv'
<1>1. TypeOK'
  BY TypeStep DEF ClientInv
<1>2. CASE Terminated \/ UNCHANGED vars
  <2>1. UNCHANGED <<threads, channel>> /\ UNCHANGED <<client, sender, receiver, todo>>
    BY <1>2 DEF Terminated, vars, threads
  <2> QED
    BY <1>1, <2>1, SameNames DEF ClientInv, NameInv, LineInv, Naming, Chatting, Waiting
<1> QED
  BY <1>1, <1>2, SenderKeepsNames, ReceiverKeepsNames, ServerKeepsNames
     DEF Next, Threads, ClientInv

THEOREM ClientInvariant == Spec => []ClientInv
<1>1. Init => ClientInv
  BY TypeInit, NameInit, ClientAssumption DEF ClientInv
<1>2. ClientInv /\ [Next]_vars => ClientInv'
  BY ClientStep, ClientAssumption, VocabularyAssumption
<1> QED
  BY <1>1, <1>2, PTL DEF Spec

\* The sender, the receiver and the connection hold what the program may put there,
\* whatever the user types and the server sends.
THEOREM ClientTypeCorrect == Spec => []TypeOK
<1>1. ClientInv => TypeOK
  BY DEF ClientInv
<1> QED
  BY <1>1, ClientInvariant, PTL

\* sendMessageToServer lets nobody into the chat under a name that the server has
\* not accepted, however late, early or unasked its answers come: the refusal takes
\* the name back before it ends the wait (NetworkClient.cpp, NAME_TAKEN).
THEOREM ChatsUnderItsName == Spec => []EntersUnderItsName
<1>1. ClientInv => EntersUnderItsName
  BY DEF ClientInv, NameInv, Settled, Known, Chatting, EntersUnderItsName
<1> QED
  BY <1>1, ClientInvariant, PTL
===============================================================================
