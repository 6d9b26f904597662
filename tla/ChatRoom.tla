------------------------------- MODULE ChatRoom -------------------------------
(***************************************************************************)
(* The chat room object of CHAT_Server (ChatRoom.cpp, ChatRoom.h) as a      *)
(* record, and its methods as operators on that record.                     *)
(*                                                                         *)
(* The code keeps m_clients (a set of socket handles) and                   *)
(* m_clientJoinTimes (a steady_clock reading per member).  Only the order   *)
(* of the readings is ever used, so the times are the relation `earlier':   *)
(* <<a, b>> \in earlier when a's reading is smaller than b's.               *)
(***************************************************************************)
EXTENDS Naturals, Sequences, FiniteSets

CONSTANTS
    Sockets,              \* socket handles; the operating system reuses them
    INVALID_SOCKET,       \* "no socket" (Common.h, Winsock)
    Names,                \* usernames a client can claim
    NoName,               \* the empty username of a client that has set none
    Passwords,            \* nonempty room passwords
    NoPassword,           \* the empty password of a public room
    MAX_MESSAGE_HISTORY   \* Common.h: messages a room remembers

ASSUME SocketsAssumption == Sockets \subseteq Nat /\ INVALID_SOCKET \notin Sockets
ASSUME NamesAssumption == NoName \notin Names
ASSUME PasswordsAssumption == NoPassword \notin Passwords
ASSUME HistoryAssumption == MAX_MESSAGE_HISTORY \in Nat \ {0}

Usernames == Names \cup {NoName}

\* A formatted chat line "[time] sender: content" as it is kept and replayed.
\* Contents are numbered: the n-th message the clients type has content n.
ChatLines == Usernames \X Nat

Room == [isPrivate : BOOLEAN,
         password  : Passwords \cup {NoPassword},
         owner     : Sockets \cup {INVALID_SOCKET},
         clients   : SUBSET Sockets,
         earlier   : SUBSET (Sockets \X Sockets),
         banned    : SUBSET Names,
         history   : Seq(ChatLines)]

\* ChatRoom::ChatRoom: nobody inside, not even the owner.
NewRoom(isPrivate, password, owner) ==
    [isPrivate |-> isPrivate, password |-> password, owner |-> owner,
     clients |-> {}, earlier |-> {}, banned |-> {}, history |-> <<>>]

\* The value kept for a room id that names no room.
NoRoomObject == NewRoom(FALSE, NoPassword, INVALID_SOCKET)

\* ChatRoom::removeClient
RemoveClient(room, s) ==
    [room EXCEPT !.clients = @ \ {s},
                 !.earlier = {p \in @ : p[1] # s /\ p[2] # s}]

\* ChatRoom::addClient: a member that is added again gets a new join time.
AddClient(room, s) ==
    [room EXCEPT !.clients = @ \cup {s},
                 !.earlier = {p \in @ : p[1] # s /\ p[2] # s}
                                 \cup ((room.clients \ {s}) \X {s})]

\* ChatRoom::getLongestMember, as the set of the member it returns.
LongestMember(room) ==
    {m \in room.clients : \A t \in room.clients : <<t, m>> \notin room.earlier}

\* ChatRoom::banUser, setOwner, setPassword
BanUser(room, name) == [room EXCEPT !.banned = @ \cup {name}]
SetOwner(room, s) == [room EXCEPT !.owner = s]
SetPassword(room, password) == [room EXCEPT !.password = password]

\* Mutant: one line too few is kept.
TrimEarly(room, line) ==
    LET longer == Append(room.history, line) IN
    [room EXCEPT !.history =
        IF Len(longer) >= MAX_MESSAGE_HISTORY THEN Tail(longer) ELSE longer]

\* Mutant: a full history stays as it is.
KeepOldest(room, line) ==
    [room EXCEPT !.history =
        IF Len(@) >= MAX_MESSAGE_HISTORY THEN @ ELSE Append(@, line)]

\* ChatRoom::addMessageToHistory: append, then drop the oldest if too long.
AddMessageToHistory(room, line) ==
    LET longer == Append(room.history, line) IN
    [room EXCEPT !.history =
        IF Len(longer) > MAX_MESSAGE_HISTORY THEN Tail(longer) ELSE longer]
===============================================================================
