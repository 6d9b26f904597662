----------------------------- MODULE RoomMembership -----------------------------
(***************************************************************************)
(* What the server promises about rooms, whatever its maps and threads: a   *)
(* client is in one room at most, rooms are entered while they exist and by *)
(* clients that are connected, a room comes into being with a client in it, *)
(* and goes only when nobody is left.  ChatServer and ServerThreads         *)
(* implement it.                                                            *)
(***************************************************************************)
CONSTANTS Clients, Rooms

VARIABLES
    online,     \* the clients that are connected
    exists,     \* the rooms that exist
    inside      \* <<client, room>>: who is where

vars == <<online, exists, inside>>

Elsewhere(c) == {p \in inside : p[1] # c}
Moved(c, r) == Elsewhere(c) \cup {<<c, r>>}

Init == online = {} /\ exists = {} /\ inside = {}

Connect(c) ==
    /\ c \notin online
    /\ online' = online \cup {c}
    /\ UNCHANGED <<exists, inside>>

\* A client opens a new room and leaves the one it was in.
Open(c, r) ==
    /\ c \in online /\ r \notin exists
    /\ exists' = exists \cup {r}
    /\ inside' = Moved(c, r)
    /\ UNCHANGED online

\* A client goes to a room that exists.
Enter(c, r) ==
    /\ c \in online /\ r \in exists
    /\ inside' = Moved(c, r)
    /\ UNCHANGED <<online, exists>>

Exit(c) ==
    /\ inside' = Elsewhere(c)
    /\ UNCHANGED <<online, exists>>

Close(r) ==
    /\ \A p \in inside : p[2] # r
    /\ exists' = exists \ {r}
    /\ UNCHANGED <<online, inside>>

\* Only with the last client's connection does a room go at once.
Disconnect(c) ==
    /\ online' = online \ {c}
    /\ inside' = Elsewhere(c)
    /\ \/ UNCHANGED exists
       \/ \E r \in Rooms :
            /\ \A p \in Elsewhere(c) : p[2] # r
            /\ exists' = exists \ {r}

\* The server stops serving.
Stop == online' = {} /\ exists' = {} /\ inside' = {}

Next ==
    \/ \E c \in Clients : Connect(c) \/ Exit(c) \/ Disconnect(c)
    \/ \E c \in Clients, r \in Rooms : Open(c, r) \/ Enter(c, r)
    \/ \E r \in Rooms : Close(r)
    \/ Stop

Spec == Init /\ [][Next]_vars
===============================================================================
