----------------------------- MODULE ServerThreads -----------------------------
(***************************************************************************)
(* The threads of the chat server and its mutexes.  ChatServer runs each    *)
(* handler in one step; here the main thread, the broadcaster and the       *)
(* detached cleanup threads run their critical sections one at a time.      *)
(*                                                                         *)
(* What a thread has left to do is a sequence of instructions, one for each *)
(* point at which it takes or gives up a mutex, changes what other threads  *)
(* read, or blocks.  A handler is the operator that gives its instructions. *)
(* Each client has one name, its own; a room is its set of members.         *)
(***************************************************************************)
EXTENDS Naturals, Sequences, FiniteSets

CONSTANTS
    Clients,           \* handles
    Rooms,             \* room ids
    NoRoom,            \* the empty room id
    Nobody,            \* the holder of a free mutex
    Everyone,          \* the recipient of a message that is not private
    Addressees,        \* the names private messages are sent to; a client's is its handle
    MaxSends,          \* bound: messages typed in a behaviour
    MaxCleanups        \* bound: cleanup threads asleep for one room

ASSUME ThreadsAssumption ==
    /\ NoRoom \notin Rooms /\ Everyone \notin Clients \cup Addressees
    /\ MaxSends \in Nat /\ MaxCleanups \in Nat \ {0}

VARIABLES
    todo,           \* what each thread has left to do
    holder,         \* the thread inside each mutex
    connected,      \* the handles in g_clients
    sockets,        \* the clients' sockets that are open
    roomOf,         \* ClientInfo::m_roomId
    isOwner,        \* ClientInfo::m_isRoomOwner
    live,           \* the ids in g_chatRooms
    members,        \* ChatRoom::m_clients
    sleeping,       \* detached cleanup threads in their sleep_for, by room
    queue,          \* g_messageQueue
    sends,          \* messages typed so far
    round,          \* the handles the poll loop has still to serve
    serving,        \* the main thread is in its poll loop
    shutdown,       \* g_shutdownRequested
    broadcaster,    \* "awake", "asleep" (wait_for), "notified" or "done"
    databaseOpen    \* g_database is set

people == <<connected, sockets, roomOf, isOwner>>
rooms == <<live, members, sleeping>>
messages == <<queue, sends>>
control == <<round, serving, shutdown, broadcaster, databaseOpen>>
vars == <<todo, holder, people, rooms, messages, control>>

\* The cleanup thread that is awake for a room is called by the room's id.
Threads == {"main", "broadcaster"} \cup Rooms
Locks == {"clients", "rooms", "queue"}

ASSUME ThreadNamesAssumption ==
    {"main", "broadcaster"} \cap Rooms = {} /\ Nobody \notin Threads

Message == [to : Addressees \cup {Everyone}, room : Rooms]

Instruction ==
    ({"acquire", "release", "pass"} \X Locks)
    \cup ({"register", "forget", "closesocket"} \X Clients)
    \cup ({"leave", "remove", "open", "join", "sendTo"} \X Clients \X Rooms)
    \cup ({"record"} \X Clients \X (Rooms \cup {NoRoom}) \X BOOLEAN)
    \cup ({"flag"} \X Clients \X BOOLEAN)
    \cup ({"erase"} \X Rooms)
    \cup ({"push", "look", "find"} \X Message)
    \cup ({"take"} \X BOOLEAN)
    \cup {<<op>> : op \in {"notify", "sleep", "joinBroadcaster", "closeSockets",
                           "clearRooms", "clearClients", "closeDatabase"}}

TypeOK ==
    /\ todo \in [Threads -> Seq(Instruction)]
    /\ holder \in [Locks -> Threads \cup {Nobody}]
    /\ {connected, sockets, round} \subseteq SUBSET Clients
    /\ roomOf \in [Clients -> Rooms \cup {NoRoom}]
    /\ isOwner \in [Clients -> BOOLEAN]
    /\ live \subseteq Rooms
    /\ members \in [Rooms -> SUBSET Clients]
    /\ sleeping \in [Rooms -> 0..MaxCleanups]
    /\ queue \in Seq(Message)
    /\ sends \in 0..MaxSends
    /\ {serving, shutdown, databaseOpen} \subseteq BOOLEAN
    /\ broadcaster \in {"awake", "asleep", "notified", "done"}

(***************************************************************************)
(* Handlers of the main thread, as the instructions they run.               *)
(***************************************************************************)
\* The scope of a lock_guard.
Locked(lock, body) == <<<<"acquire", lock>>>> \o body \o <<<<"release", lock>>>>

\* A critical section that only reads what only the main thread writes, or what
\* the model leaves out: it can block, and nothing happens in it.
Reads(lock) == <<<<"pass", lock>>>>
Look == Reads("clients")

Accept(s) == Locked("clients", <<<<"register", s>>>>)

SetName == Look \o Look
List == Reads("rooms")
Password == Look \o Reads("rooms")   \* GETPASSWORD and CHANGEPASSWORD
Users == Look \o Locked("rooms", Look)

Create(s, r) ==
    (IF roomOf[s] = NoRoom THEN Look
     ELSE Locked("clients", Locked("rooms", <<<<"leave", s, roomOf[s]>>>>)))
    \o Locked("rooms", <<<<"open", s, r>>>>)
    \o Locked("clients", <<<<"record", s, r, TRUE>>>>)

\* A mutant: JOIN erases the room it leaves itself, inside the rooms' mutex.
JoinAndClean(s, r) ==
    Locked("clients", Locked("rooms", <<<<"join", s, r>>>>
                                      \o IF roomOf[s] = NoRoom THEN <<>>
                                         ELSE Locked("rooms", <<<<"erase", roomOf[s]>>>>)))

Join(s, r) == Locked("clients", Locked("rooms", <<<<"join", s, r>>>>))
JoinRefused == Locked("clients", Reads("rooms"))

\* Mutants: KICK without the rooms' mutex, and without correcting the record.
KickUnlocked(t) ==
    Look \o Look \o <<<<"remove", t, roomOf[t]>>>>
    \o Locked("clients", <<<<"record", t, NoRoom, FALSE>>>>)
KickKeepingRecord(t) == Look \o Look \o Locked("rooms", <<<<"remove", t, roomOf[t]>>>>)

Kick(t) ==
    Look \o Look \o Locked("rooms", <<<<"remove", t, roomOf[t]>>>>)
    \o Locked("clients", <<<<"record", t, NoRoom, FALSE>>>>)

Ban(t) ==
    Look \o Look
    \o Locked("rooms", <<<<"remove", t, roomOf[t]>>>>
                       \o Locked("clients", <<<<"record", t, NoRoom, FALSE>>>>))

BanAbsent == Look \o Look \o Reads("rooms")

Transfer(s, t) ==
    Look \o Look
    \o Locked("rooms", Locked("clients", <<<<"flag", s, FALSE>>, <<"flag", t, TRUE>>>>))

Leave(s) ==
    Look \o Locked("rooms", <<<<"leave", s, roomOf[s]>>>>)
    \o Locked("clients", <<<<"record", s, NoRoom, FALSE>>>>)

\* To the successor t; ChatServer says which member that is.
ForceLeave(s, t) ==
    Look \o Locked("rooms", Locked("clients", <<<<"flag", t, TRUE>>>>)
                            \o <<<<"leave", s, roomOf[s]>>>>)
    \o Locked("clients", <<<<"record", s, NoRoom, FALSE>>>>)

Say(s, to) ==
    Look \o Locked("queue", <<<<"push", [to |-> to, room |-> roomOf[s]]>>>>)
    \o <<<<"notify">>>>

\* A mutant: the socket is closed before the client leaves its room.
HangUpFirst(s) ==
    <<<<"closesocket", s>>>> \o Look
    \o (IF roomOf[s] = NoRoom THEN <<>>
        ELSE Locked("rooms", <<<<"remove", s, roomOf[s]>>>>)
             \o Locked("clients", <<<<"record", s, NoRoom, FALSE>>>>)
             \o Locked("rooms", <<<<"erase", roomOf[s]>>>>))
    \o Locked("clients", <<<<"forget", s>>>>)

Disconnect(s) ==
    Look
    \o (IF roomOf[s] = NoRoom THEN <<>>
        ELSE Locked("rooms", <<<<"remove", s, roomOf[s]>>>>)
             \o Locked("clients", <<<<"record", s, NoRoom, FALSE>>>>)
             \o Locked("rooms", <<<<"erase", roomOf[s]>>>>))
    \o (Locked("clients", <<<<"forget", s>>>>) \o <<<<"closesocket", s>>>>)

Recipients(s) == {Everyone} \cup (Addressees \ {s})

\* A mutant: a line typed outside of every room is not refused.
SayAnywhere(s) == IF sends < MaxSends THEN {Say(s, Everyone)} ELSE {Look}

\* What the handlers may do with one read from s.
Commands(s) ==
    LET r == roomOf[s]
        others == {t \in connected \ {s} : roomOf[t] = r}
    IN  {Look, SetName, List, JoinRefused, Disconnect(s)}
        \cup {Create(s, q) : q \in Rooms \ live}
        \cup {Join(s, q) : q \in Rooms \ {r}}
        \cup (IF r = NoRoom THEN {} ELSE {Users})
        \cup (IF r = NoRoom \/ sends = MaxSends THEN {} ELSE {Say(s, to) : to \in Recipients(s)})
        \cup (IF r = NoRoom \/ isOwner[s] THEN {} ELSE {Leave(s)})
        \cup (IF r = NoRoom \/ ~isOwner[s] THEN {}
              ELSE {Password, BanAbsent}
                   \cup {Kick(t) : t \in others} \cup {Ban(t) : t \in others}
                   \cup {Transfer(s, t) : t \in others}
                   \cup (IF members[r] = {s} THEN {Leave(s)}
                         ELSE {ForceLeave(s, t) : t \in members[r] \ {s}}))

\* A mutant: the database is closed before the threads that use it are stopped.
CloseFirst ==
    <<<<"notify">>, <<"closeDatabase">>, <<"joinBroadcaster">>, <<"closeSockets">>>>
    \o Locked("rooms", <<<<"clearRooms">>>>) \o Locked("clients", <<<<"clearClients">>>>)

\* main.cpp 141-176, from the end of the poll loop.  The sockets are closed while
\* the rooms still list their members.
Shutdown ==
    <<<<"notify">>, <<"joinBroadcaster">>, <<"closeSockets">>>>
    \o Locked("rooms", <<<<"clearRooms">>>>)
    \o Locked("clients", <<<<"clearClients">>>>)
    \o <<<<"closeDatabase">>>>

(***************************************************************************)
(* Instructions.                                                            *)
(***************************************************************************)
At(th, op) == todo[th] # <<>> /\ Head(todo[th])[1] = op
Argument(th, i) == Head(todo[th])[i + 1]
Continue(th) == todo' = [todo EXCEPT ![th] = Tail(@)]

Acquire(th) ==
    /\ At(th, "acquire") /\ holder[Argument(th, 1)] = Nobody
    /\ holder' = [holder EXCEPT ![Argument(th, 1)] = th]
    /\ Continue(th)
    /\ UNCHANGED <<people, rooms, messages, control>>

Pass ==
    /\ At("main", "pass") /\ holder[Argument("main", 1)] = Nobody
    /\ Continue("main")
    /\ UNCHANGED <<holder, people, rooms, messages, control>>

Release(th) ==
    /\ At(th, "release")
    /\ holder' = [holder EXCEPT ![Argument(th, 1)] = Nobody]
    /\ Continue(th)
    /\ UNCHANGED <<people, rooms, messages, control>>

\* The main thread writes g_clients.
Write(newConnected, newRoomOf, newOwner) ==
    /\ connected' = newConnected /\ roomOf' = newRoomOf /\ isOwner' = newOwner
    /\ Continue("main")
    /\ UNCHANGED <<holder, rooms, messages, control>>

\* The socket was accepted just before; nobody knows of it until it is registered.
Register ==
    /\ At("main", "register")
    /\ sockets' = sockets \cup {Argument("main", 1)}
    /\ Write(connected \cup {Argument("main", 1)},
             [roomOf EXCEPT ![Argument("main", 1)] = NoRoom],
             [isOwner EXCEPT ![Argument("main", 1)] = FALSE])

Forget ==
    /\ At("main", "forget")
    /\ Write(connected \ {Argument("main", 1)}, roomOf, isOwner)
    /\ UNCHANGED sockets

\* The main thread closes a client's socket, or those of all.
Close(closed) ==
    /\ sockets' = sockets \ closed
    /\ Continue("main")
    /\ UNCHANGED <<holder, connected, roomOf, isOwner, rooms, messages, control>>

CloseSocket == At("main", "closesocket") /\ Close({Argument("main", 1)})
CloseSockets == At("main", "closeSockets") /\ Close(Clients)

Record ==
    /\ At("main", "record")
    /\ Write(connected,
             [roomOf EXCEPT ![Argument("main", 1)] = Argument("main", 2)],
             [isOwner EXCEPT ![Argument("main", 1)] = Argument("main", 3)])
    /\ UNCHANGED sockets

Flag ==
    /\ At("main", "flag")
    /\ Write(connected, roomOf, [isOwner EXCEPT ![Argument("main", 1)] = Argument("main", 2)])
    /\ UNCHANGED sockets

ClearClients ==
    /\ At("main", "clearClients")
    /\ Write({}, [s \in Clients |-> NoRoom], [s \in Clients |-> FALSE])
    /\ UNCHANGED sockets

\* The client s goes out of the live room r; a room it leaves empty gets a
\* cleanup thread, where the handler starts one.
Without(s, r) == IF r \in live THEN [members EXCEPT ![r] = @ \ {s}] ELSE members
Empties(s, r) == r \in live /\ members[r] \ {s} = {}
SpawnCleanup(s, r) ==
    sleeping' = IF Empties(s, r) THEN [sleeping EXCEPT ![r] = @ + 1] ELSE sleeping

LeaveRoom ==
    /\ At("main", "leave")
    /\ members' = Without(Argument("main", 1), Argument("main", 2))
    /\ SpawnCleanup(Argument("main", 1), Argument("main", 2))
    /\ Continue("main")
    /\ UNCHANGED <<holder, people, live, messages, control>>

Remove ==
    /\ At("main", "remove")
    /\ members' = Without(Argument("main", 1), Argument("main", 2))
    /\ Continue("main")
    /\ UNCHANGED <<holder, people, live, sleeping, messages, control>>

Open ==
    /\ At("main", "open")
    /\ live' = live \cup {Argument("main", 2)}
    /\ members' = [members EXCEPT ![Argument("main", 2)] = {Argument("main", 1)}]
    /\ Continue("main")
    /\ UNCHANGED <<holder, people, sleeping, messages, control>>

\* A mutant: JOIN does not take the client out of its old room.
StillThere(s) == members

Left(s) == IF roomOf[s] = NoRoom THEN members ELSE Without(s, roomOf[s])

\* Both mutexes are held, so the whole body of the handler is one step.
JoinRoom ==
    /\ At("main", "join")
    /\ LET s == Argument("main", 1)
           r == Argument("main", 2)
       IN  \/ /\ r \in live
              /\ members' = [Left(s) EXCEPT ![r] = @ \cup {s}]
              /\ IF roomOf[s] = NoRoom THEN UNCHANGED sleeping ELSE SpawnCleanup(s, roomOf[s])
              /\ roomOf' = [roomOf EXCEPT ![s] = r]
              /\ isOwner' = [isOwner EXCEPT ![s] = FALSE]
              /\ UNCHANGED <<connected, sockets>>
           \/ r \notin live /\ UNCHANGED <<members, sleeping, people>>
    /\ Continue("main")
    /\ UNCHANGED <<holder, live, messages, control>>

ClearRooms ==
    /\ At("main", "clearRooms")
    /\ live' = {}
    /\ Continue("main")
    /\ UNCHANGED <<holder, people, members, sleeping, messages, control>>

\* A mutant: the room is erased without a second look at its members.
EraseUnasked(th) ==
    /\ At(th, "erase")
    /\ live' = live \ {Argument(th, 1)}
    /\ Continue(th)
    /\ UNCHANGED <<holder, people, members, sleeping, messages, control>>

\* cleanupEmptyRoom, on a cleanup thread or, for a disconnection, on the main one.
Erase(th) ==
    /\ At(th, "erase")
    /\ LET r == Argument(th, 1)
       IN  live' = IF members[r] = {} THEN live \ {r} ELSE live
    /\ Continue(th)
    /\ UNCHANGED <<holder, people, members, sleeping, messages, control>>

Push ==
    /\ At("main", "push")
    /\ queue' = Append(queue, Argument("main", 1))
    /\ sends' = sends + 1
    /\ Continue("main")
    /\ UNCHANGED <<holder, people, rooms, control>>

\* A notification wakes a thread that waits and is lost on one that does not.
Notify ==
    /\ At("main", "notify")
    /\ broadcaster' = IF broadcaster = "asleep" THEN "notified" ELSE broadcaster
    /\ Continue("main")
    /\ UNCHANGED <<holder, people, rooms, messages, round, serving, shutdown, databaseOpen>>

JoinBroadcaster ==
    /\ At("main", "joinBroadcaster")
    /\ broadcaster = "done" /\ todo["broadcaster"] = <<>>
    /\ Continue("main")
    /\ UNCHANGED <<holder, people, rooms, messages, control>>

CloseDatabase ==
    /\ At("main", "closeDatabase")
    /\ databaseOpen' = FALSE
    /\ Continue("main")
    /\ UNCHANGED <<holder, people, rooms, messages, round, serving, shutdown, broadcaster>>

(***************************************************************************)
(* The broadcaster.                                                         *)
(***************************************************************************)
\* One turn of its loop: it sees the shutdown, or locks the queue to wait.
Loop ==
    /\ broadcaster = "awake" /\ todo["broadcaster"] = <<>>
    /\ IF shutdown
       THEN broadcaster' = "done" /\ UNCHANGED todo
       ELSE /\ todo' = [todo EXCEPT !["broadcaster"] = <<<<"acquire", "queue">>, <<"take", FALSE>>>>]
            /\ UNCHANGED broadcaster
    /\ UNCHANGED <<holder, people, rooms, messages, round, serving, shutdown, databaseOpen>>

\* With the queue locked: take(timedOut), where timedOut says that wait_for's
\* 100 ms are over.
TakeMessage ==
    /\ queue # <<>>
    /\ queue' = Tail(queue)
    /\ todo' = [todo EXCEPT !["broadcaster"] =
                    <<<<"release", "queue">>>> \o Locked("rooms", <<<<"look", Head(queue)>>>>)]
    /\ UNCHANGED broadcaster

EndBroadcast ==
    /\ queue = <<>>
    /\ broadcaster' = "done"
    /\ todo' = [todo EXCEPT !["broadcaster"] = <<<<"release", "queue">>>>]
    /\ UNCHANGED queue

Wait(again) ==
    /\ queue = <<>>
    /\ todo' = [todo EXCEPT !["broadcaster"] =
                    IF again THEN <<<<"sleep">>>> ELSE <<<<"release", "queue">>>>]
    /\ UNCHANGED <<queue, broadcaster>>

\* Mutants: the broadcaster ends when the queue is empty, shutdown or not; it
\* waits for a message, whatever the shutdown flag says.
EndOnEmpty == TakeMessage \/ EndBroadcast
WaitForMessage == TakeMessage \/ Wait(TRUE)

AfterWait ==
    \/ TakeMessage
    \/ shutdown /\ EndBroadcast
    \/ ~shutdown /\ Wait(~Argument("broadcaster", 1))

Take ==
    /\ At("broadcaster", "take")
    /\ AfterWait
    /\ UNCHANGED <<holder, people, rooms, sends, round, serving, shutdown, databaseOpen>>

Sleep ==
    /\ At("broadcaster", "sleep")
    /\ holder' = [holder EXCEPT !["queue"] = Nobody]
    /\ broadcaster' = "asleep"
    /\ Continue("broadcaster")
    /\ UNCHANGED <<people, rooms, messages, round, serving, shutdown, databaseOpen>>

\* A notification wakes it, or the timeout does.
WakeUp ==
    /\ broadcaster \in {"notified", "asleep"}
    /\ broadcaster' = "awake"
    /\ todo' = [todo EXCEPT !["broadcaster"] =
                    <<<<"acquire", "queue">>, <<"take", broadcaster = "asleep">>>>]
    /\ UNCHANGED <<holder, people, rooms, messages, round, serving, shutdown, databaseOpen>>

\* With the rooms locked: a public message goes to the members at once, a
\* private one needs the clients, and one for a room that is gone is dropped.
LookUpRoom ==
    /\ At("broadcaster", "look")
    /\ LET m == Argument("broadcaster", 1)
           rest == Tail(todo["broadcaster"])
       IN  todo' = [todo EXCEPT !["broadcaster"] =
                        IF m.room \in live /\ m.to # Everyone
                        THEN Locked("clients", <<<<"find", m>>>>) \o rest ELSE rest]
    /\ UNCHANGED <<holder, people, rooms, messages, control>>

\* findClientByUsername gives the clients' mutex back before the message is sent.
FindRecipient ==
    /\ At("broadcaster", "find")
    /\ LET m == Argument("broadcaster", 1)
           unlock == SubSeq(todo["broadcaster"], 2, 2)
           rest == SubSeq(todo["broadcaster"], 3, Len(todo["broadcaster"]))
       IN  todo' = [todo EXCEPT !["broadcaster"] =
                        IF m.to \in connected /\ roomOf[m.to] = m.room
                        THEN unlock \o <<<<"sendTo", m.to, m.room>>>> \o rest ELSE unlock \o rest]
    /\ UNCHANGED <<holder, people, rooms, messages, control>>

SendPrivate ==
    /\ At("broadcaster", "sendTo")
    /\ Continue("broadcaster")
    /\ UNCHANGED <<holder, people, rooms, messages, control>>

(***************************************************************************)
(* The cleanup threads, the poll loop and the signal.                       *)
(***************************************************************************)
WakeCleanup(r) ==
    /\ sleeping[r] > 0 /\ todo[r] = <<>>
    /\ sleeping' = [sleeping EXCEPT ![r] = @ - 1]
    /\ todo' = [todo EXCEPT ![r] = Locked("rooms", <<<<"erase", r>>>>)]
    /\ UNCHANGED <<holder, people, live, members, messages, control>>

Polling == serving /\ todo["main"] = <<>>

\* WSAPoll finds handles to serve: connected ones, and one to accept.
Poll ==
    /\ Polling /\ round = {} /\ ~shutdown
    /\ \E ready \in SUBSET Clients \ {{}} :
          /\ \A s, t \in ready \ connected : s = t
          /\ round' = ready
    /\ UNCHANGED <<todo, holder, people, rooms, messages, serving, shutdown, broadcaster, databaseOpen>>

\* The listening socket is the first of the poll list.
Serve(s) ==
    /\ Polling /\ s \in round
    /\ s \in connected => round \subseteq connected
    /\ roomOf[s] # NoRoom => sleeping[roomOf[s]] < MaxCleanups
    /\ \E handler \in IF s \in connected THEN Commands(s) ELSE {Accept(s)} :
          todo' = [todo EXCEPT !["main"] = handler]
    /\ round' = round \ {s}
    /\ UNCHANGED <<holder, people, rooms, messages, serving, shutdown, broadcaster, databaseOpen>>

StopServing ==
    /\ Polling /\ round = {}
    /\ serving' = FALSE
    /\ todo' = [todo EXCEPT !["main"] = Shutdown]
    /\ UNCHANGED <<holder, people, rooms, messages, round, shutdown, broadcaster, databaseOpen>>

EndLoop == shutdown /\ StopServing
PollFails == ~shutdown /\ StopServing   \* SOCKET_ERROR from WSAPoll

signalHandler ==
    /\ ~shutdown /\ shutdown' = TRUE
    /\ UNCHANGED <<todo, holder, people, rooms, messages, round, serving, broadcaster, databaseOpen>>

Terminated == ~databaseOpen /\ UNCHANGED vars

-----------------------------------------------------------------------------
Init ==
    /\ todo = [th \in Threads |-> <<>>]
    /\ holder = [m \in Locks |-> Nobody]
    /\ connected = {} /\ sockets = {} /\ round = {} /\ live = {}
    /\ roomOf = [s \in Clients |-> NoRoom]
    /\ isOwner = [s \in Clients |-> FALSE]
    /\ members = [r \in Rooms |-> {}]
    /\ sleeping = [r \in Rooms |-> 0]
    /\ queue = <<>> /\ sends = 0
    /\ serving = TRUE /\ shutdown = FALSE /\ databaseOpen = TRUE
    /\ broadcaster = "awake"

\* What the main thread does by itself, without new input from the sockets.
MainThread ==
    \/ Acquire("main") \/ Pass \/ Release("main") \/ Register \/ Forget \/ Record \/ Flag
    \/ LeaveRoom \/ Remove \/ Open \/ JoinRoom \/ Erase("main") \/ Push \/ Notify
    \/ CloseSocket \/ JoinBroadcaster \/ CloseSockets \/ ClearRooms \/ ClearClients
    \/ CloseDatabase
    \/ (\E s \in Clients : Serve(s)) \/ EndLoop

broadcastMessages ==
    \/ Acquire("broadcaster") \/ Release("broadcaster") \/ Loop \/ Take \/ Sleep \/ WakeUp
    \/ LookUpRoom \/ FindRecipient \/ SendPrivate

cleanupEmptyRoom(r) == WakeCleanup(r) \/ Acquire(r) \/ Erase(r) \/ Release(r)

Next ==
    \/ MainThread \/ Poll \/ PollFails \/ signalHandler
    \/ broadcastMessages
    \/ \E r \in Rooms : cleanupEmptyRoom(r)
    \/ Terminated

Spec ==
    /\ Init /\ [][Next]_vars
    /\ WF_vars(MainThread) /\ WF_vars(broadcastMessages)
    /\ \A r \in Rooms : WF_vars(cleanupEmptyRoom(r))

(***************************************************************************)
(* Properties.                                                              *)
(***************************************************************************)
\* What the next instruction of a thread reads or writes of the shared maps.
Touches(th) ==
    (IF \E op \in {"register", "forget", "record", "flag", "join", "find", "clearClients"} :
            At(th, op) THEN {"clients"} ELSE {})
    \cup (IF \E op \in {"leave", "remove", "open", "join", "erase", "look", "sendTo", "clearRooms"} :
            At(th, op) THEN {"rooms"} ELSE {})
    \cup (IF At(th, "push") \/ At(th, "take") THEN {"queue"} ELSE {})

\* No two threads are about to touch g_clients, g_chatRooms or the queue at
\* the same time: the mutexes leave no data race (README.md:96).
NoDataRace ==
    \A a, b \in Threads : a # b => Touches(a) \cap Touches(b) = {}

WaitsFor(a, b) == (At(a, "acquire") \/ At(a, "pass")) /\ holder[Argument(a, 1)] = b

\* Between two handlers a client is a member of exactly the room its record
\* names and that room is live, whatever cleanup threads run meanwhile.
QuietMembership ==
    Polling => /\ \A s \in Clients : roomOf[s] # NoRoom => s \in connected /\ roomOf[s] \in live
               /\ \A r \in live : members[r] = {s \in Clients : roomOf[s] = r}

\* What the server promises about rooms holds between any two critical sections
\* of any thread, until the poll loop ends: nobody is ever in two rooms or in a
\* room while not connected, and no cleanup thread, however late, takes away a
\* room that somebody has entered since.
Membership == INSTANCE RoomMembership WITH
    online <- IF serving THEN connected ELSE {},
    exists <- IF serving THEN live ELSE {},
    inside <- {p \in Clients \X live : serving /\ p[1] \in members[p[2]]}

ImplementsMembership == Membership!Spec

\* Nobody saves a message or deletes a room once main has closed the database:
\* main joins the broadcaster and clears the rooms before it.
DatabaseOutlivesItsUsers ==
    ~databaseOpen => /\ \A r \in Rooms : ~(At(r, "erase") /\ r \in live /\ members[r] = {})
                     /\ ~At("broadcaster", "look") /\ ~At("broadcaster", "sendTo")

\* After a signal the poll loop ends, the broadcaster is joined and the
\* resources are released (README.md:77), also when the notification comes
\* while the broadcaster does not wait.
ShutdownCompletes == shutdown ~> ~databaseOpen

\* Once the clients are silent the broadcaster empties the queue, unless the
\* server stops first: a notification it missed costs it no message.
QueueDrains == <>[](round = {}) => <>[](queue = <<>> \/ shutdown)

\* When the broadcaster is about to send a public message to a room, under the rooms'
\* mutex, every member's socket is open.  A disconnection takes the client out of its
\* room before it closes the socket; the shutdown closes the sockets while the rooms
\* still list them, and relies on having joined the broadcaster first.
PublicMessagesReachOpenSockets ==
    At("broadcaster", "look") =>
        LET m == Argument("broadcaster", 1)
        IN  m.to = Everyone /\ m.room \in live => members[m.room] \subseteq sockets

\* The broadcaster finds a recipient by its record, which is stale only while
\* main is on the way from the rooms' mutex to the clients' to correct it: in KICK,
\* LEAVE, FORCELEAVE, CREATE or a disconnection.  Then it sends the message to a client
\* that is no longer a member, though README.md:98 says that it does not.
StaleRecordsArePassing ==
    At("broadcaster", "find") =>
        LET m == Argument("broadcaster", 1)
        IN  m.to \in connected /\ roomOf[m.to] = m.room =>
            \/ m.to \in members[m.room]
            \/ \E i \in DOMAIN todo["main"] :
                  todo["main"][i][1] = "record" /\ todo["main"][i][2] = m.to

\* No thread waits for itself, and the only two that ever wait for each other are
\* main in CREATE or JOIN, inside the clients' mutex, and the broadcaster with a
\* private message, inside the rooms'.  Only these two wait with a mutex in hand,
\* so a longer cycle has such a pair.
OnlyPrivateMessagesDeadlock ==
    \A a, b \in Threads :
        WaitsFor(a, b) /\ WaitsFor(b, a) =>
            /\ {a, b} = {"main", "broadcaster"}
            /\ todo["broadcaster"][2][1] = "find"
            /\ Head(todo["main"]) = <<"pass", "rooms">> \/ todo["main"][2][1] \in {"leave", "join"}
===============================================================================
