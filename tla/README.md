# ChatApplicationInTerminal in TLA+

A verification project for the terminal chat of this repository: a C++ server
(`CHAT_Server/CHAT_APPLICATION_SERVER`) with chat rooms, private messages and an
SQLite store, and a two-threaded console client
(`CHAT_APPLICATION_Client/CHAT_APPLICATION_Client`).

The server is modelled twice: with a step per command handler, for what rooms,
records, messages and tables hold (`ChatServer`), and with a step per critical
section, for its threads and mutexes (`ServerThreads`). Both are shown to implement
one abstract specification, `RoomMembership`. The client is modelled with a step per
access to the state its threads share (`ChatClient`), alone against any server and
composed with `ChatServer` over a connection (`ClientServer`). How bytes become
lines is a model of its own (`Framing`), which implements an abstract channel
(`LineChannel`). TLC checks small instances of all of them; TLAPS proves, for every
instance, membership, ownership, cleanup, names, bans, the tables, the lock
discipline and shutdown order of the threads, the client's name handshake, and that
client and server agree about rooms and owners.

Paths below are relative to `src/CHAT_Server/CHAT_APPLICATION_SERVER/` unless
they name another directory; `NetworkClient.cpp` and `ClientState.h` are the client's.

## The system

| Component | Source | State | Operations |
|---|---|---|---|
| Chat room | `ChatRoom.cpp` | members, join times, owner handle, password, bans, last 100 lines | add and remove a client, longest member, ban, owner, password, history, broadcast |
| Client records | `ClientInfo.cpp`, `g_clients` | per handle: username, room id, owner flag | getters and setters |
| Database | `Database.cpp` | tables `rooms`, `bans`, `messages` (and `users`, unused) | save a message, replay a history, create, delete and update a room, ban |
| Command handlers | `Server.cpp` | `g_chatRooms`, `g_clients`, `g_messageQueue` | SETNAME, CREATE, JOIN, LIST, USERS, GETPASSWORD, CHANGEPASSWORD, KICK, BAN, TRANSFER, LEAVE, FORCELEAVE, chat line, `@name` message, disconnect |
| Broadcaster | `broadcastMessages` | the message in hand | takes one queued message, delivers, remembers and saves it |
| Cleanup threads | `cleanupEmptyRoom` | one sleeping thread per emptied room | erase the room if it is still empty |
| Poll loop | `main.cpp` 71-139 | poll list | accept, read, dispatch |
| Start-up, shutdown | `main.cpp`, `Utilities.cpp` | `g_shutdownRequested` | open the database, join the broadcaster, clear, close |
| Client | `NetworkClient.cpp`, `ClientState.h` | name, in-room, owner, waiting and warning flags | a sender and a receiver thread |

How they interact. All handlers run one after another on the main thread. The
broadcaster, the detached cleanup threads and the main thread share `g_clients`
and `g_chatRooms`, each under its own mutex; the main thread and the broadcaster
share `g_messageQueue` with a condition variable. Rooms are known twice (a room
lists its member handles, a member's record names its room), owners are known
three times (handle in the room, flag in the record, name in the database), bans
and histories twice (room object and database). The operating system hands out
a closed handle again.

What is hard: keeping those copies in step over any sequence of commands of
several clients; a message that waits in the queue while its sender, recipient
or room changes; a cleanup thread that wakes late; a restart that keeps the
database and loses memory; a room id drawn twice; the order in which the two
mutexes are taken; shutdown with detached threads; a client that is told things
in an order it does not expect.

What makes each component correct:

- room and records: both sides of membership agree; one owner per room; names unique;
- ownership: only an owner that walks out leaves an occupied room without owner;
- cleanup: an empty room is erased eventually, an occupied one never;
- database: rows mirror the live rooms; the history replayed is what was said;
- bans: hold for as long as the room exists, also when the room object is lost;
- threads: no data race, no deadlock, shutdown ends in the right order, public
  messages meet open sockets, private ones go to members (two of these fail, see below);
- client: nobody chats under a name the server refused; once the lines in flight
  are read, the room it believes to be in is the one the server has, and an owner has
  its flag set; it ends when the server closes (and should end when its user quits,
  see below). The flags do not agree beyond that: ROOM_NOT_FOUND clears `inRoom` of a client the
  server keeps in its room (`NetworkClient.cpp` 367), which then refuses its own
  user's commands, and a TRANSFER leaves `isRoomOwner` set with the old owner;
- connection: lines are parsed whole and in order, wherever `recv` cuts them.

## Modules

| Module | Models |
|---|---|
| `ChatRoom` | the room object as a record and its methods as operators |
| `Database` | the three tables as variables and the store's operations as actions on them |
| `RoomMembership` | abstract: who is in which room, and when rooms come and go |
| `ChatServer` | the server: one action per handler, broadcaster step, cleanup wake-up, accept, disconnect, restart and crash; its properties |
| `ServerThreads` | main thread, broadcaster, cleanup threads, their mutexes, the condition variable, signal and shutdown; its properties |
| `ChatClient` | sender, receiver and main thread of the client over `ClientState`; the server is whatever it may be |
| `ClientServer` | the client at one handle of `ChatServer`, with commands and lines under way |
| `LineChannel` | abstract: messages arrive whole and in order, a torn line joins the next |
| `Framing` | the bytes between `sendToClient` and `receiveMessages` |
| `MCChatServer`, `MCServerThreads`, `MCChatClient`, `MCClientServer`, `MCFraming` | views, symmetry, bounds and sets of inputs of the TLC runs |
| `ChatServerProofs` | types, unique names and bans, proved |
| `ChatServerMembership` | membership and ownership, cleanup, `ChatServer` implements `RoomMembership`, who owns a room next, proved |
| `ChatServerDatabase` | the tables beside the memory, histories, and the lines sent, proved |
| `ServerThreadsProofs` | no data race, deadlock only where it is known, the database closes last, proved |
| `ServerThreadsMembership` | types, `ServerThreads` implements `RoomMembership`, stale records, open sockets, proved |
| `ChatClientProofs` | types of the client, and its name, proved |
| `ClientServerProofs` | client and server agree on room and owner, `ClientServer` implements `ChatClient`, proved |
| `FramingProofs` | which lines of a torn stream are messages, `Framing` implements `LineChannel`, proved |

`ChatServer` extends `Database`, which extends `ChatRoom`. `ClientServer` extends `ChatServer`
and takes an instance of `ChatClient` whose `serverName` is the record of one handle.
`ServerThreads`, `ChatClient` and `Framing` stand alone: each keeps only the data that
tells its properties apart.

### How state and actions correspond to the code

- `connected` and `clients` are `g_clients`: the handles it holds, and the record
  of each. A handle that is not connected keeps the record `NewClient`.
- `live` and `chatRooms` are `g_chatRooms`, in the same way.
- `cleanups[r]` counts the detached threads that sleep before they call
  `cleanupEmptyRoom(r)`. They may wake at any time and in any order: the 100 ms
  of the code are a delay, not a bound.
- `messageQueue` is `g_messageQueue`. A message carries the handle, name and room
  its sender had when it was queued.
- `earlier`, in a room, is the order of the members' `steady_clock` readings. The
  code only compares the readings.
- `out` holds the lines the last step sent, by handle. No guard reads it; the
  runs leave it out of the view, and action properties read `out'`.
- `dbRooms`, `dbBans`, `dbMessages` are the tables. `second` is SQLite's
  `CURRENT_TIMESTAMP`, which has a resolution of one second; `Tick` is the one
  external action.
- A handler is one step, though KICK, LEAVE, FORCELEAVE, CREATE and disconnect change the
  room and the record in two critical sections. A step of the broadcaster between the two
  could as well come before the handler or after it, but for two things: the order of the lines two
  handles are sent, and who is a member at that moment. No property of this
  module is about either; `ServerThreads`, where the sections are apart, speaks of
  who is delivered to.
- Handlers have the source's names. A disjunct per early return answers with
  `Reply`; the disjunct that succeeds makes every change the handler makes, up to
  the thread it starts and the rows it writes. A refused command changes nothing
  in the code and nothing here.
- `NoName` is a legal sender: the server lets a client that has set no name create
  rooms and talk.
- `findClientByUsername` is the set of the clients that match. Named clients are
  unique (`UniqueNames`), so the set has at most one element whenever a name is
  asked for.
- `generateRoomId` draws one of 900000 ids and does not look at the rooms. With
  `FreshIds` the draw never meets a live room; without, it may.
- `Restart` is a new process on the old database file. `CrashInDelete` is the death of the
  process in the middle of a `deleteRoom`, which is three statements that SQLite
  commits one by one: `DeleteRoomPartly` has carried out one or two of them.
- `GetMessageHistory` returns the rows that come first by second, newest first, rows of
  one second in rowid order, and then turns them round. The n-th row is the one that n - 1
  rows come `Before`. SQL leaves that tie open; the index on `room_id` yields rows in rowid
  order and SQLite's sorter is stable, so this is the outcome the build produces.

In `ServerThreads`:

- `todo[th]` is what a thread has still to do, as a sequence of instructions: take
  or give up a mutex, change what other threads read, block. A handler is an
  operator that gives its instructions (`Kick`, `Join`, ...); `Locked` is the scope of
  a `lock_guard`. An instruction is an action, so other threads run between any
  two. What a handler computes from data only the main thread writes is read when
  the handler starts.
- `Look` is a critical section that only reads `g_clients`. It stays in the handlers
  because it can block.
- `Poll` takes a snapshot of the handles that are ready, `Serve` handles one of them,
  and the loop looks at `g_shutdownRequested` only between rounds. The order within a
  round is arbitrary, except that accept comes first.
- The broadcaster's `wait_for` is `Take`, `Sleep` and `WakeUp`: a notification that
  comes before `Sleep` is lost, and the timeout may come at any time.
- A private message is looked up in two steps, `FindRecipient` under both mutexes and
  `SendPrivate` under the rooms' only.
- `sockets` are the clients' sockets that are open. `Disconnect` closes its own last; `Shutdown` closes
  all of them after the join of the broadcaster and before the rooms are cleared
  (`main.cpp` 146-164).
- `databaseOpen` is `g_database`; the end of `main` is `CloseDatabase`. Cleanup threads
  may still wake after it.
- Names are fixed, one for each client; SETNAME only takes its locks. Passwords, bans and
  owners of rooms are left to `ChatServer`.

In `ChatClient`:

- `client` is `ClientState`; `sender` and `receiver` say where `sendMessageToServer` and
  `receiveMessages` are. A thread reads or writes the shared state in one step, and the
  other one may run between any two: the sender looks twice (`Poll`, `CheckName`), and the
  receiver writes one field at a time (`Assign`), in the order of the code.
- A line is its kind and the room id the client keeps; `Assignments` gives what the receiver
  writes for it. Lines that are only printed are left out.
- `StartWaiting` comes after the name was sent, as in `NetworkClient.cpp` 46-51.
- `up` and `down` are the two directions of the connection, FIFO as TCP is. `link` says whether the
  server has closed it (recv returns 0 after what is left) or it was reset (recv fails).
  `Answer`, `Serve` and `Lose` are all a server can do as far as the client can tell.
- `MayBeSent` is what the client checks before it sends; `Insists` is the LEAVE that is sent as
  FORCELEAVE because of the remembered warning.

In `ClientServer`:

- `ReadCommands` is one `recv` of the poll loop. It takes one command, or several that
  lie together: nothing ends a command on the wire, so the server treats them as one
  (`Merged`). A command with text behind it is refused, carried out, or carried out with
  another last word, which depends on the command.
- `Deliver` turns the lines a handler sends (`out`) into lines under way.
- The other clients act at their handles without delay (`OthersAct`).

In `Framing`, a byte is a pair: a line and a position in it; the last position is the newline.
`sendToClient` puts in what fits and looks no further (`Utilities.cpp` 32 asks only for
SOCKET_ERROR); `Recv` returns any number of bytes below `BUFFER_SIZE`; `ParseLine` is one
turn of the loop that looks for newlines.

Abstracted: the text of lines (a line is its kind and the id, password or chat
line it carries), message contents (numbered in the order typed), room lists and
user lists, logging, parsing (an ill-formed command is one of the refusals).

## Runs

| Run | Instance | Shows |
|---|---|---|
| `membership` | 3 handles, 1 name, 2 rooms | membership, ownership, names and cleanup; every step is one of `RoomMembership`; the tables mirror the live rooms and their bans |
| `messages` | 2 handles, 1 name, 1 room, 2 passwords, 2 messages | types, lines included; queued messages while their senders leave or are expelled and while the room is erased and made again: memory and tables agree |
| `history` | 1 handle, 1 name, 3 messages, history of 2, 2 ticks, 1 restart or crash; ids may collide | memory, database and replay agree; no message or ban without its room; bans survive |
| `threads` | 2 clients, 1 room, 1 public message | no data race, public messages reach open sockets, the order of shutdown; shutdown completes, the queue drains |
| `rooms` | 2 clients, 2 rooms, 1 message, private ones too | between any two critical sections rooms keep `RoomMembership`; when the broadcaster may meet a stale record; which two threads can deadlock |
| `client` | 2 names, 1 room, 1 password | the name handshake against a server that answers late, early, never or closes; the client ends when the server closes |
| `client_server` | 2 handles, 1 name, 2 rooms, 1 restart | client and server agree on room and owner; the server is one `ChatClient` allows for |
| `framing` | lines of 2 and 4 bytes, 5 lines | lines are parsed whole, in order and all of them; a torn line spoils one message |
| `successor` | 3 handles | violated, see below |
| `shutdown_deadlock` | 2 clients, 1 room, private messages | violated, see below |
| `quit_hang` | as `client` | violated, see below |
| `stale_warning` | 2 handles, 2 names, 1 room | violated, see below |

### Bounds, and why they are enough to be interesting

In the runs of `ChatServer` handles are the numbers 1, 2, 3, because FORCELEAVE compares
them. Names, ids and passwords are model values, and permuted: no operator orders
or chooses among them. Handles are not permuted. `WithoutOut` leaves the lines of the last
step out of the view, because no guard reads them; action properties that read `out'` are
still evaluated on every step.

Three clients are an owner, a target and a bystander, or an owner and two candidates
for its succession; two rooms are an old and a new one; a name besides the empty one
lets a client be named, and two passwords let one be changed. A history of 2 is
exceeded by 3 messages. One sleeping cleanup thread per room (`MaxCleanups`) is a
bound in the guard of `SpawnCleanup`: a client whose departure would start a second
one waits until the first has woken, so a room that empties twice within 100 ms with
both threads asleep is outside the checked instances. The proofs hold for every value
of it. `MaxSends`, `MaxRestarts` and `MaxSeconds` bound counters and are guards of
`Enqueue`, `Restart` and `Tick`; in `ServerThreads`, `MaxSends` and `MaxCleanups` are
guards of `Commands` and `Serve`.

`threads` and `rooms` share the work on `ServerThreads`. `threads` has rounds of several
handles, the broadcaster's wait and shutdown, with one room and public messages. `rooms`
has two rooms and private messages, with clients and rooms permuted; its constraint
`Running` looks at the server only while it serves, lets a round have one handle and the
broadcaster come only when there is a message. Two clients are needed to expel one and
to write to one; handlers run one at a time, so that at most one is between its critical
sections. One message suffices for a race with one delivery; messages are taken one at
a time.

In `client`, `MaxUp` and `MaxDown` leave room for one command and one line under way,
beside the line the receiver has in hand: the sender waits for the answer to a name
before it sends more, and lines nobody asked for may come before and after that answer. `OneOfEach` has one command of each kind the client
treats differently. The proofs hold for every capacity and every vocabulary.

In `client_server`, the client has handle 1, another client handle 2; `MaxTraffic` allows two
commands or lines under way or in hand, so that commands cross lines and lie together in
one `recv`. `RoomCommands` are CREATE, JOIN and LEAVE; the other handle uses every command but
chat lines and private messages (`MaxSends` is 0), in public rooms. `AboutToLook` and `LookFirst` save interleavings: a
thread about to read `shouldExit`, when only the user could have set it, does so at once. `Relevant`,
the view, leaves out the lines of the last step and table `rooms`, which nothing here
reads; what the client believes and the order of its lines once its user has quit; and
the server once the connection is gone. `stale_warning` adds TRANSFER (`OwnersCommands`).

In `framing`, the socket buffers hold 5 bytes and the client's buffer is 4, of which `recv`
fills 3: the long line never comes in one piece, the short one comes alone, with a part
of the next, or together with the end of the one before. Five lines let a torn line be followed by
whole ones.

Deadlock is checked in every run except `rooms` and `shutdown_deadlock`, where
private messages make the server deadlock for real, and `framing`, which stops when its
lines are sent and parsed.

### Fairness

- `ServerThreads`: weak fairness of the main thread, of the broadcaster and of every
  cleanup thread, which is what an operating system that runs every runnable thread
  gives. The main thread's part leaves out `Poll` (clients need not send anything), the
  signal and the failure of WSAPoll. Nothing is assumed of the mutexes: a thread that
  competes for one may lose for ever. `ShutdownCompletes` holds all the same because
  after a signal the other threads come to an end, and `QueueDrains` is stated for
  clients that fall silent.
- `ChatClient`: weak fairness of sender, receiver and main, and of `User`, who answers a
  prompt with something; strong fairness of `TimeOut`, because the loop that waits for the name
  counts to five seconds however often it sleeps and wakes. Nothing is assumed of the
  server: `CloseEndsClient` and `NameIsSettled` hold although it may stay silent.
- `Framing`: the receiver goes on while there is something to receive or to
  parse. The server need not send.

The other specifications are about safety and have none.

### Refinements

- `ChatServer` and `ServerThreads` implement `RoomMembership` (`membership`, `rooms`; both
  are also proved). The pairs of client and room come from the rooms' member lists; a
  server that has left its poll loop is mapped to one that has stopped.
- `ClientServer` implements `ChatClient` (`client_server`): the server there stays within what `Answer`, `Serve`
  and `Lose` allow, so that what `client` shows and `ChatClientProofs` proves holds of the real one.
  The run has the commands of `RoomCommands`; the proof has all of them.
- `Framing` implements `LineChannel` (`framing`; also proved). The channel's messages are what lies between
  two ends of the outstanding bytes, an end being a newline or the last byte. `LineChannel` is about safety; that every
  message is parsed in the end is a property of `Framing` itself (`EveryMessageIsParsed`).

### What the code does otherwise than its text says

Four are runs TLC must find violated, with the line quoted in `PROJECT.json`.

- `successor`: FORCELEAVE is to hand the room to the longest member (`Server.cpp`
  684). Who leaves is most often the longest member itself, and then the loop at
  697-703 takes the first other handle of a sorted set.
- `shutdown_deadlock`: CREATE and JOIN take `g_clientsMutex`, then `g_chatRoomsMutex`; a private
  message takes them the other way round. When they meet the server hangs and
  Ctrl+C does not end it. `OnlyPrivateMessagesDeadlock` says that no other two threads
  wait for each other, and `threads` that without private messages shutdown completes.
- `quit_hang`: when the user quits, the client's `main` is to wait for the receiver "with timeout"
  (client `main.cpp` 55); it joins it without one, and the receiver stays in `recv`
  until the server sends something. `CloseEndsClient` shows that a server that closes does end the client.
- `stale_warning`: an owner who was warned and then hands the room over sends FORCELEAVE
  for its next LEAVE, which the server refuses.

The others have no run:

- lines of one second are replayed newest first, not in chronological order
  (`Database.cpp` 324); `HistoryInOrderAcrossSeconds` is what is left, of rooms in which no two
  public lines share a second;
- the three statements of `deleteRoom` are committed one by one (`Database.cpp` 418-440). What a crash
  leaves of a room keeps its row (`RowsHaveTheirRoom`), but a room that is opened under
  the same id before it is erased meets the old messages and bans;
- an error of WSAPoll ends the loop without the flag (`main.cpp` 82-85); the broadcaster
  goes on and its join never returns. `README.md` 77 speaks of signals only. The model has
  the step (`PollFails`), and `ShutdownCompletes` is about a signal;
- messages are to be delivered only to members of a private room (`README.md` 98). LEAVE removes the
  client from the room in one critical section (`Server.cpp` 631-647) and corrects its record in
  another (649-652), and so does KICK with the client it expels (436-444, 447-450); in between the
  broadcaster, which looks at the record only, sends it a private message of the room.
  FORCELEAVE, CREATE and a disconnection have the same window. The model has the
  delivery; `StaleRecordsArePassing` says that the record the broadcaster finds is wrong
  only while main is about to correct it. The broadcaster uses the handle after it
  has unlocked `g_clientsMutex`; the `g_chatRoomsMutex` it still holds keeps every member's socket
  open, but not that of a client that has left by then, and no property says that it is open;
- the return values of `send` are not checked for short counts (`Utilities.cpp` 32, against
  `README.md` 97): a full socket tears a line. `Framing` shows what the client then reads;
- FORCELEAVE does not write the new owner to the database, though `SETUP_INSTRUCTIONS.md`
  57 says that transfers are saved;
- a message whose room is erased while it is queued is dropped unsaved (line 55 there says
  every message is saved);
- a room in the database cannot be joined after a restart (`README_DATABASE.md` 73-77
  tells the reader to do so).

In the models the last three are the missing row of `handleForceLeaveCommand`,
`DropMessage` and `Restart`.

## Proofs

| Theorem | Statement | Needs |
|---|---|---|
| `TypeCorrect` | `[]StateTypeOK` | the types alone |
| `TypesAndLines` | `[]TypeOK` of `ChatServer` | the types, `NextSends` |
| `MembersStayInStep` | `[]MembersKnowTheirRoom` | `MembershipInv` |
| `RecordsStayInStep` | `[](FreshIds => RoomsKnowTheirMembers)` | `MembershipInv` |
| `OneOwnerPerRoom` | `[](FreshIds => OwnerRecordsAgree)` | `MembershipInv` |
| `EmptyRoomsAreCleaned` | `[](FreshIds => EmptyRoomsAwaitCleanup)` | `CleanupInv` |
| `NamesAreUnique` | `[]UniqueNames` | the types |
| `BansAreKept` | `BansHold` | the types |
| `ServerImplementsMembership` | `FreshIds => ImplementsMembership` | `MembershipInv` |
| `RoomsKeepAnOwner` | `FreshIds => OnlyOwnersWalkingOutOrphan` | `MembershipInv`, `JoinOrder` |
| `NoRowIsOrphaned` | `[]RowsHaveTheirRoom` | `StoreInv` |
| `DatabaseIsInStep` | `[](FreshIds => DatabaseMirrorsRooms)` | `StoreInv` |
| `HistoryIsTail` | `[]HistoryIsSaved` | `SavedInv` |
| `HistoryIsInOrder` | `[]HistoryInOrderAcrossSeconds` | `OrderInv` |
| `ClientTypeCorrect` | `[]TypeOK` of `ChatClient` | the types |
| `ChatsUnderItsName` | `[]EntersUnderItsName` | `ClientInv` |
| `BothInvariant` | `[]BothInv` of `ClientServer` | `MembershipInv`, `ClientInv` |
| `AgreeingOnRoom` | `[]AgreeOnRoom` | `BothInv` |
| `OwnersKnowIt` | `[]OwnerKnowsIt` | `BothInv` |
| `ServerFitsClient` | `ImplementsClient` | `BothInv` |
| `MutexesLeaveNoRace` | `[]NoDataRace` | `LockInv` |
| `OneWayToDeadlock` | `[]OnlyPrivateMessagesDeadlock` | `LockInv`, `CleanupInv` |
| `DatabaseClosesLast` | `[]DatabaseOutlivesItsUsers` | `LockInv`, `EndInv` |
| `ThreadsTypeOK` | `[]TypeOK` of `ServerThreads` | `ThreadsInv` |
| `MembershipIsQuiet` | `[]QuietMembership` | `ThreadsInv` |
| `OpenSocketsOnly` | `[]PublicMessagesReachOpenSockets` | `ThreadsInv` |
| `StaleRecordsPass` | `[]StaleRecordsArePassing` | `ThreadsInv` |
| `ThreadsImplementMembership` | `ImplementsMembership` of `ServerThreads` | `ThreadsInv` |
| `MessagesAreLines` | `[]WholeLines` | `StreamInv` |
| `MessagesResume` | `[]LinesResume` | `StreamInv` |
| `FramingIsAChannel` | `ImplementsLineChannel` | `DividedInv` |

The server. `StateTypeOK` is `TypeOK` without the type of `out`, which no guard reads;
its proof has one lemma per action. `MembershipInv` joins the types with the three
invariants of membership and ownership. They need each other: `RoomsWithout(s)`
removes `s` only from the room its record names, and that this takes it out of every
room is `MembersKnowTheirRoom`; an erased room is nobody's because the records' rooms
count their clients (`RoomsKnowTheirMembers`); and no third client can keep the flag
when a room is handed over because its owner is one handle (`OwnerRecordsAgree`). The
condition `FreshIds` is needed: a room id drawn twice overwrites a room and strands its
members. The steps fall into groups with a lemma each: `SameMembers` (nothing about
members or owners changes), `Departure` (a client leaves its room, which may be erased
with it), `Handover` (ownership goes to another member), and the entering steps CREATE,
JOIN and accept on their own.

Cleanup: what needs the membership invariant is that KICK and BAN, which start no
cleanup thread, never empty a room: they take out somebody other than the owner, who is
a member. Names and bans: every action but SETNAME and disconnect keeps all names
(`SameNames`), and SETNAME has asked `isUsernameAvailable`; every action but JOIN and
CREATE takes nobody into a room (`StayOut`), JOIN has asked the database, and CREATE
makes its client the owner, whom the property excepts. Refinement: each action is one step
of `RoomMembership` by a lemma for that step (`Stays`, `Exits`, ...), and `MembershipInv` gives the
guards of the abstract step.

Owners. A room loses its owner in a FORCELEAVE only if no successor is found. That one is
needs `JoinOrder`: the members of a room are finitely many and `earlier` orders them
strictly and totally, which each method of the room keeps. In a finite set so ordered every
number up to its size is the rank of some element (`EveryRank`, by counting what comes before each:
the map to ranks is injective, so it is onto). Rank one is the longest member, and, with
the handles in the place of the join times, the smallest other handle. Every other
handler keeps the owners (`OwnersStay`, `OneExpelled`), hands over (`HandsOver`), or is a walk-out.

The tables. `StoreInv` adds to the types that rows have their room and, if ids are
fresh, `MirrorInv`, which is `DatabaseMirrorsRooms` room by room. The first part needs no
`FreshIds` and no membership: every handler that writes a message or a ban finds its room live,
a live room has its row, and the row is what `deleteRoom` deletes last.

The histories. Each step leaves a room's lines as they are, takes them away, begins a room with
none, or says one line, which is remembered and saved in the same step (`HistoryStep`).
`SavedInv` adds to `StoreInv` that the lines remembered are the newest of the public rows: as
many public rows lie behind the row of a line as lines behind it. A row that is appended lies behind
all others, so each count goes up by one, and so does the index of each line, or it is
trimmed. `StoreInv` is needed where a room begins: with fresh ids and no restart it has no row
yet. For the order of the replay `OrderInv` says that rows stand in the order of their
seconds; if the seconds differ, `Before` is the order of the rows, and both sides count the same.

The lines. Every action sends lines of the protocol, a lemma for each group of actions. What
the history replays is typed because every rank has its row (`EveryRank` again).

The threads. What a thread has still to do (`todo`) says which mutexes it holds, if the
programs are well formed: `Closed` and `Disciplined` say that a mutex is in hand where
an instruction needs it, is taken to be given up, is given up once and is never waited
for by the thread that has it. Programs are put together from instructions, scopes of a
`lock_guard` and sequences, and there is a lemma for each of these, so that each handler is
shown to be disciplined along its own definition. `LockInv` says for the main thread and
the cleanup threads that a mutex is theirs exactly if their program is about to give it
up; for the broadcaster, which decides as it goes, it lists the programs it can be left
with and the mutexes it then holds. No two threads then touch the same map, because
each is inside its mutex. For `OneWayToDeadlock`, cleanup threads use the rooms' mutex only
(`CleanupInv`), so a cycle of two needs main and the broadcaster; main waits inside the clients'
mutex only to leave or join a room. `EndInv` follows main through its ten last steps: the
broadcaster is gone after the second, the sockets are closed by the third, the rooms are gone after
the fifth, and the database is closed by the last.

The rooms of the threads. `ThreadsInv` adds to the mutexes what the main thread has still to do to the
maps (`PlanInv`). `Work(p)` is the set of the instructions of its program that change
membership, connections or the queue; `InOrder` says that they stand in the order of their
`Rank`, so that the set tells the sequence. `Plan` lists the sets a handler can be left with, and what is
then true: before the first and after the last every client is `Settled`, its record and the
rooms agreeing about it; in between exactly one client is not, and it is in no room, or in the room it is
about to record. The two-step windows of the code (out of the room, record not yet corrected) are
thus disjuncts of `Plan`. `StaleRecordsPass`, `MembershipIsQuiet` and the refinement follow by cases of the plan.
`OpenSocketsOnly` needs `OpenInv`, a part of `ThreadsInv`: a connected client's socket is open, or the
broadcaster is gone. A member is connected at any point of a handler (`MembersAreConnected`), a client
is forgotten only when it is in no room, and its socket is closed only after that (`GoodBye`,
`ClosePlanned`). When main closes all sockets the rooms may still list their members, but the
broadcaster is gone, and for good (`GoneForGood`).
`Bounds` keeps what `TypeOK` says of sends and sleeping threads. The
broadcaster and the cleanup threads change no membership but by erasing an empty room.

The connection. `StreamInv` is about `outstanding`, the bytes that are parsed no more than in part: the
receiver's buffer followed by the socket's. `Unbroken` says that each byte has the earlier ones of its line
right before it; sending appends a beginning of a line, receiving moves bytes from one
buffer to the other, and parsing takes away all up to a newline, which is the last byte of a
line. So a message ends with a whole line, and what is left begins with the first byte of one
(`LinesResume`). As long as nothing is torn every first byte is followed by its whole line (`Whole`),
so that the message is no more than this line (`WholeLines`).

For the refinement, `DividedInv` adds to the types that the ends of `outstanding` can be put in
order, and each step says how: a send appends the new last byte to them (`SentAsNew`), or, if a torn line was
the last, puts it in that one's place (`SentToOpen`); receiving leaves the bytes as they are; parsing takes the first
end off and moves the others nearer (`TakenFirst`). With the ends in order the end before which
`k - 1` others come is the `k`-th (`Ranked`, by counting), so `Messages`, which is defined by ranks, is the stream
divided at them (`Messaged`), and the three steps are `Send`, a stutter and `Parse` of the channel. A send
that finds no room at all is a stutter too.

The client. `ClientInv` says where the name that was last sent is: on its way (`Asking`),
answered (`Answered`), in the receiver's hand (`Hearing`), or settled, in exactly one way, so that an answer which
came early or late cannot pass for that of another name; and that a sender which has seen
the end of its wait finds a settled name. The last holds because NAME_TAKEN clears the
name first.

The client at the server. What the client believes lags behind the server's record by the lines
under way. `WillBe(field, value)` says that it will have the value once those are read: the last
line under way that assigns the field gives it this value, or none does and it has the value
already. `AgreeInv` says so of the room in the record and, for an owner, of the flag. It is kept
from both sides. On the server's, every handler is brought down to two things, for the client's own
commands and for everyone else's: which line it sends this client (`Hears`; all others are
`Idle`, which the client does not act on), and what it does to this client's record. `Reported`
says that the two fit: a new room comes with ROOM_CREATED or ROOM_JOINED, the loss of it with
LEFT_ROOM or KICKED_FROM_ROOM, new ownership with OWNERSHIP_RECEIVED, and no step sends two such lines. On the
client's, the receiver's assignments, one field at a time, and the move of a line from the
connection into its hand leave `WillBe` true (`Assigned`, `TakenInHand`, `Sent`). `BothInv` joins `AgreeInv`
with the invariants of the two programs, with `ConnectionInv` (only an open connection has a
record), `CommandInv` (a name is under way alone, and other commands only once the
server knows one) and `Named` (the client in a room has a name: its program sends nothing but
names before the server has accepted one). `FreshIds` is not needed. The refinement needs
`CommandInv` because the server may take several commands as one, and the client's module lets a name be
answered only by itself. `Client` and `Program` are two instances of the same module with the same
substitution: the second one brings the lemmas of `ChatClientProofs`.

Assumptions, all named in the modules that declare the constants: handles are numbers and
`INVALID_SOCKET`, `NoName`, `NoPassword`, `NoRoom` and `NoRow` are none of the values they
stand beside; the threads of `ServerThreads` have different names; bounds are naturals; a
room remembers at least one line; the commands a user knows are those of the client. The bounds may have any value. TLC evaluates the assumptions in the passing runs.

`GetMessageHistory`, `Newest`, `Messages` and the theorems about them are stated with ranks, not with
a sorted or filtered sequence: those are recursive in the libraries, and what a recursive
definition computes is beyond the prover.

Only model-checked: all liveness (`ShutdownCompletes`, `QueueDrains`, `CloseEndsClient`, `NameIsSettled`,
`EveryMessageIsParsed`), which needs ENABLED.

## Plan

Done: everything under Modules. Left, in the order of what it would add:

1. `client_server` with messages, and with several commands of an owner at once;
2. commands longer than the 4095 bytes of one `recv` of the server.

## Not modelled

- The vendored SQLite (`sqlite3.c`, `sqlite3.h`, `external/sqlite`) and the vcpkg files, which are
  nearly all lines of this repository; `Database` models the statements by what they do.
- The client's user interface (printing, colours, help), its display-only state
  (`m_pendingRoomJoin`, the flag for lines of a history), lines it only prints, and the letter case of
  commands, which the client is lenient about.
- The `users` table and the store's operations that no code calls (`getPrivateMessages`,
  `roomExists`, `removeBan`, `getBannedUsers`).
- Commands longer than one `recv`; a failing or short `send` in the models that speak of
  lines (`Framing` has the short one); a connection that breaks without either end
  closing it, in `ClientServer` (the client connects to 127.0.0.1; `ChatClient` has it).
- Failures at start-up, Winsock set-up, `pollFdsMutex` (only the main thread takes it), and
  what a detached thread does after the globals are destroyed.

`CHAT_APPLICATION_Client2_FOR_TEST` is a copy of the client whose source files are the same byte for byte: the
models of the client are models of it.
