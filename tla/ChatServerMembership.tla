------------------------- MODULE ChatServerMembership -------------------------
(***************************************************************************)
(* Membership and ownership, proved for every instance of ChatServer: the   *)
(* two-sided membership and the owner flag are never out of step, no empty  *)
(* room is forgotten, the server implements RoomMembership, and no handler  *)
(* leaves an occupied room without an owner.                                *)
(***************************************************************************)
EXTENDS ChatServerProofs, FiniteSetTheorems, FunctionTheorems

(***************************************************************************)
(* The inductive invariant.  That a member knows its room needs nothing but *)
(* types; the other half needs rooms that are never overwritten, because a  *)
(* room id that is drawn twice strands the members of the first room.       *)
(***************************************************************************)
MembershipInv ==
    /\ StateTypeOK
    /\ MembersKnowTheirRoom
    /\ FreshIds => RoomsKnowTheirMembers /\ OwnerRecordsAgree

(***************************************************************************)
(* What the room's methods do to its members and its owner.                 *)
(***************************************************************************)
LEMMA MethodEffects ==
    ASSUME NEW room \in Room, NEW s \in Sockets
    PROVE  /\ RemoveClient(room, s).clients = room.clients \ {s}
           /\ RemoveClient(room, s).owner = room.owner
           /\ AddClient(room, s).clients = room.clients \cup {s}
           /\ AddClient(room, s).owner = room.owner
           /\ SetOwner(room, s).clients = room.clients
           /\ SetOwner(room, s).owner = s
           /\ \A name : /\ BanUser(room, name).clients = room.clients
                        /\ BanUser(room, name).owner = room.owner
           /\ \A password : /\ SetPassword(room, password).clients = room.clients
                            /\ SetPassword(room, password).owner = room.owner
           /\ \A line : /\ AddMessageToHistory(room, line).clients = room.clients
                        /\ AddMessageToHistory(room, line).owner = room.owner
BY DEF Room, RemoveClient, AddClient, SetOwner, BanUser, SetPassword, AddMessageToHistory

LEMMA NewRoomEffect ==
    ASSUME NEW isPrivate \in BOOLEAN, NEW password \in Passwords \cup {NoPassword},
           NEW s \in Sockets
    PROVE  /\ AddClient(NewRoom(isPrivate, password, s), s).clients = {s}
           /\ AddClient(NewRoom(isPrivate, password, s), s).owner = s
BY DEF NewRoom, AddClient

\* A client is in no room but the one its record names, so that removing it
\* from that one removes it from all.
LEMMA RoomsWithoutEffect ==
    ASSUME StateTypeOK, MembersKnowTheirRoom, NEW s \in Sockets, NEW r \in live
    PROVE  /\ RoomsWithout(s)[r].clients = chatRooms[r].clients \ {s}
           /\ RoomsWithout(s)[r].owner = chatRooms[r].owner
<1>0. r \in RoomIds /\ chatRooms[r] \in Room
  BY DEF StateTypeOK
<1>1. CASE r = clients[s].roomId
  BY <1>0, <1>1, MethodEffects DEF RoomsWithout, StateTypeOK
<1>2. CASE r # clients[s].roomId
  <2>1. s \notin chatRooms[r].clients
    BY <1>2 DEF MembersKnowTheirRoom
  <2>2. RoomsWithout(s)[r] = chatRooms[r]
    BY <1>0, <1>2 DEF RoomsWithout, StateTypeOK
  <2> QED BY <2>1, <2>2
<1> QED BY <1>1, <1>2

(***************************************************************************)
(* Steps that leave members, owners and client records alone.               *)
(***************************************************************************)
LEMMA SameMembers ==
    ASSUME MembershipInv, StateTypeOK',
           UNCHANGED <<connected, live>>,
           \A s \in Sockets : /\ clients'[s].roomId = clients[s].roomId
                              /\ clients'[s].isRoomOwner => clients[s].isRoomOwner,
           \A r \in live : /\ chatRooms'[r].clients = chatRooms[r].clients
                           /\ chatRooms'[r].owner = chatRooms[r].owner
    PROVE  MembershipInv'
<1>1. connected \subseteq Sockets
  BY DEF MembershipInv, StateTypeOK
<1>2. MembersKnowTheirRoom'
  BY <1>1 DEF MembershipInv, MembersKnowTheirRoom
<1>3. RoomsKnowTheirMembers => RoomsKnowTheirMembers'
  BY <1>1 DEF RoomsKnowTheirMembers
<1>4. OwnerRecordsAgree => OwnerRecordsAgree'
  BY <1>1 DEF OwnerRecordsAgree
<1> QED BY <1>2, <1>3, <1>4 DEF MembershipInv

LEMMA AcceptMembership ==
    ASSUME MembershipInv, StateTypeOK', NEW s \in Sockets, Accept(s)
    PROVE  MembershipInv'
BY DEF MembershipInv, StateTypeOK, MembersKnowTheirRoom, RoomsKnowTheirMembers,
       OwnerRecordsAgree, Accept, NewClient

LEMMA CreateRoomMembership ==
    ASSUME MembershipInv, StateTypeOK', NEW s \in connected, NEW isPrivate \in BOOLEAN,
           NEW password \in Passwords \cup {NoPassword}, NEW r \in RoomIds,
           CreateRoom(s, isPrivate, password, r)
    PROVE  MembershipInv'
<1>0. s \in Sockets /\ StateTypeOK /\ MembersKnowTheirRoom
  BY DEF MembershipInv, StateTypeOK
<1>1. chatRooms'[r].clients = {s} /\ chatRooms'[r].owner = s
  BY <1>0, NewRoomEffect, RoomsWithoutType DEF CreateRoom
<1>2. \A q \in live \ {r} : /\ chatRooms'[q].clients = chatRooms[q].clients \ {s}
                            /\ chatRooms'[q].owner = chatRooms[q].owner
  BY <1>0, RoomsWithoutEffect, RoomsWithoutType DEF CreateRoom, StateTypeOK
<1>3. /\ clients'[s].roomId = r /\ clients'[s].isRoomOwner
      /\ \A t \in Sockets \ {s} : clients'[t] = clients[t]
      /\ live' = live \cup {r} /\ connected' = connected
      /\ FreshIds => r \notin live
  <2>1. clients[s] \in ClientInfo
    BY <1>0 DEF StateTypeOK
  <2>2. clients'[s] = [clients[s] EXCEPT !.roomId = r, !.isRoomOwner = TRUE]
    BY <1>0 DEF CreateRoom, StateTypeOK
  <2>3. \A t \in Sockets \ {s} : clients'[t] = clients[t]
    BY <1>0 DEF CreateRoom, StateTypeOK
  <2>4. clients'[s].roomId = r /\ clients'[s].isRoomOwner
    BY <2>1, <2>2 DEF ClientInfo
  <2> QED BY <2>3, <2>4 DEF CreateRoom
<1>4. MembersKnowTheirRoom'
  BY <1>0, <1>1, <1>2, <1>3 DEF MembersKnowTheirRoom, StateTypeOK
<1>5. connected \subseteq Sockets
  BY <1>0 DEF StateTypeOK
<1>6. ASSUME FreshIds PROVE RoomsKnowTheirMembers'
  <2> SUFFICES ASSUME NEW t \in connected, clients'[t].roomId # NoRoom
               PROVE  /\ clients'[t].roomId \in live'
                      /\ t \in chatRooms'[clients'[t].roomId].clients
    BY <1>3 DEF RoomsKnowTheirMembers
  <2>1. CASE t = s
    BY <1>1, <1>3, <2>1
  <2>2. CASE t # s
    BY <1>2, <1>3, <1>5, <1>6, <2>2 DEF MembershipInv, RoomsKnowTheirMembers
  <2> QED BY <2>1, <2>2
<1>7. ASSUME FreshIds PROVE OwnerRecordsAgree'
  <2> SUFFICES ASSUME NEW t \in connected, clients'[t].isRoomOwner
               PROVE  /\ clients'[t].roomId \in live'
                      /\ chatRooms'[clients'[t].roomId].owner = t
    BY <1>3 DEF OwnerRecordsAgree
  <2>1. CASE t = s
    BY <1>1, <1>3, <2>1
  <2>2. CASE t # s
    BY <1>2, <1>3, <1>5, <1>7, <2>2 DEF MembershipInv, OwnerRecordsAgree
  <2> QED BY <2>1, <2>2
<1> QED BY <1>4, <1>6, <1>7 DEF MembershipInv

LEMMA JoinRoomMembership ==
    ASSUME MembershipInv, StateTypeOK', NEW s \in connected, NEW r \in live,
           JoinRoom(s, r)
    PROVE  MembershipInv'
<1>0. s \in Sockets /\ r \in RoomIds /\ StateTypeOK /\ MembersKnowTheirRoom
  BY DEF MembershipInv, StateTypeOK
<1>1. \A q \in live : /\ q = r => chatRooms'[q].clients = chatRooms[q].clients \cup {s}
                      /\ q # r => chatRooms'[q].clients = chatRooms[q].clients \ {s}
                      /\ chatRooms'[q].owner = chatRooms[q].owner
  <2> TAKE q \in live
  <2>1. CASE q = r
    <3>1. RoomsWithout(s)[r] \in Room
      BY <1>0, RoomsWithoutType
    <3>2. chatRooms'[r] = AddClient(RoomsWithout(s)[r], s)
      BY <1>0, RoomsWithoutType DEF JoinRoom
    <3> QED BY <1>0, <2>1, <3>1, <3>2, MethodEffects, RoomsWithoutEffect
  <2>2. CASE q # r
    BY <1>0, <2>2, RoomsWithoutType, RoomsWithoutEffect DEF JoinRoom, StateTypeOK
  <2> QED BY <2>1, <2>2
<1>2. /\ clients'[s].roomId = r /\ ~clients'[s].isRoomOwner
      /\ \A t \in Sockets \ {s} : clients'[t] = clients[t]
      /\ live' = live /\ connected' = connected
  <2>1. clients[s] \in ClientInfo
    BY <1>0 DEF StateTypeOK
  <2>2. clients'[s] = [clients[s] EXCEPT !.roomId = r, !.isRoomOwner = FALSE]
    BY <1>0 DEF JoinRoom, StateTypeOK
  <2>3. \A t \in Sockets \ {s} : clients'[t] = clients[t]
    BY <1>0 DEF JoinRoom, StateTypeOK
  <2>4. clients'[s].roomId = r /\ ~clients'[s].isRoomOwner
    BY <2>1, <2>2 DEF ClientInfo
  <2> QED BY <2>3, <2>4 DEF JoinRoom
<1>3. connected \subseteq Sockets
  BY <1>0 DEF StateTypeOK
<1>4. MembersKnowTheirRoom'
  <2> SUFFICES ASSUME NEW q \in live, NEW t \in chatRooms'[q].clients
               PROVE  t \in connected /\ clients'[t].roomId = q
    BY <1>2 DEF MembersKnowTheirRoom
  <2>1. CASE t = s
    BY <1>1, <1>2, <2>1
  <2>2. CASE t # s
    BY <1>0, <1>1, <1>2, <1>3, <2>2 DEF MembersKnowTheirRoom
  <2> QED BY <2>1, <2>2
<1>5. ASSUME FreshIds PROVE RoomsKnowTheirMembers'
  <2> SUFFICES ASSUME NEW t \in connected, clients'[t].roomId # NoRoom
               PROVE  /\ clients'[t].roomId \in live
                      /\ t \in chatRooms'[clients'[t].roomId].clients
    BY <1>2 DEF RoomsKnowTheirMembers
  <2>1. CASE t = s
    BY <1>1, <1>2, <2>1
  <2>2. CASE t # s
    BY <1>1, <1>2, <1>3, <1>5, <2>2 DEF MembershipInv, RoomsKnowTheirMembers
  <2> QED BY <2>1, <2>2
<1>6. ASSUME FreshIds PROVE OwnerRecordsAgree'
  <2> SUFFICES ASSUME NEW t \in connected, clients'[t].isRoomOwner
               PROVE  /\ clients'[t].roomId \in live
                      /\ chatRooms'[clients'[t].roomId].owner = t
    BY <1>2 DEF OwnerRecordsAgree
  <2>1. t # s /\ clients'[t] = clients[t]
    BY <1>2, <1>3
  <2>2. /\ clients[t].roomId \in live
        /\ chatRooms[clients[t].roomId].owner = t
    BY <1>6, <2>1 DEF MembershipInv, OwnerRecordsAgree
  <2> QED BY <1>1, <2>1, <2>2
<1> QED BY <1>4, <1>5, <1>6 DEF MembershipInv

(***************************************************************************)
(* Steps that take a client out of its room: KICK, BAN, LEAVE, FORCELEAVE   *)
(* and a disconnect, which may also erase the room it leaves empty.         *)
(***************************************************************************)
LEMMA Departure ==
    ASSUME MembershipInv, StateTypeOK', NEW t \in Sockets,
           connected' = connected \/ connected' = connected \ {t},
           live' \subseteq live,
           \A q \in live \ live' : chatRooms[q].clients \subseteq {t},
           clients'[t].roomId = NoRoom, ~clients'[t].isRoomOwner,
           \A u \in Sockets \ {t} : clients'[u] = clients[u],
           \A q \in live' : /\ chatRooms'[q].clients = chatRooms[q].clients \ {t}
                            /\ chatRooms'[q].owner = chatRooms[q].owner
    PROVE  MembershipInv'
<1>1. connected \subseteq Sockets /\ connected' \subseteq connected /\ NoRoom \notin live
  BY RoomIdsAssumption DEF MembershipInv, StateTypeOK
<1>2. MembersKnowTheirRoom'
  <2> SUFFICES ASSUME NEW q \in live', NEW u \in chatRooms'[q].clients
               PROVE  u \in connected' /\ clients'[u].roomId = q
    BY DEF MembersKnowTheirRoom
  <2>1. u \in chatRooms[q].clients /\ u # t
    OBVIOUS
  <2>2. u \in connected /\ clients[u].roomId = q
    BY <2>1 DEF MembershipInv, MembersKnowTheirRoom
  <2> QED BY <1>1, <2>1, <2>2
<1>3. ASSUME FreshIds, NEW u \in connected', clients'[u].roomId # NoRoom
      PROVE  /\ u # t /\ u \in Sockets /\ clients'[u] = clients[u]
             /\ clients[u].roomId \in live'
             /\ u \in chatRooms[clients[u].roomId].clients
  <2>1. u # t /\ u \in Sockets /\ clients'[u] = clients[u] /\ u \in connected
    BY <1>1, <1>3
  <2>2. /\ clients[u].roomId \in live
        /\ u \in chatRooms[clients[u].roomId].clients
    BY <1>3, <2>1 DEF MembershipInv, RoomsKnowTheirMembers
  <2>3. clients[u].roomId \in live'
    BY <2>1, <2>2
  <2> QED BY <2>1, <2>2, <2>3
<1>4. ASSUME FreshIds PROVE RoomsKnowTheirMembers'
  BY <1>3, <1>4 DEF RoomsKnowTheirMembers
<1>5. ASSUME FreshIds PROVE OwnerRecordsAgree'
  <2> SUFFICES ASSUME NEW u \in connected', clients'[u].isRoomOwner
               PROVE  /\ clients'[u].roomId \in live'
                      /\ chatRooms'[clients'[u].roomId].owner = u
    BY DEF OwnerRecordsAgree
  <2>1. u # t /\ u \in connected /\ clients'[u] = clients[u]
    BY <1>1
  <2>2. clients[u].roomId \in live /\ chatRooms[clients[u].roomId].owner = u
    BY <1>5, <2>1 DEF MembershipInv, OwnerRecordsAgree
  <2>3. clients[u].roomId \in live'
    BY <1>1, <1>3, <1>5, <2>1, <2>2
  <2> QED BY <2>1, <2>2, <2>3
<1> QED BY <1>2, <1>4, <1>5 DEF MembershipInv

\* What expelling a client does to its record.
LEMMA LeaveRoomRecordEffect ==
    ASSUME StateTypeOK, NEW t \in Sockets
    PROVE  /\ LeaveRoomRecord(t)[t].roomId = NoRoom
           /\ ~LeaveRoomRecord(t)[t].isRoomOwner
           /\ \A u \in Sockets \ {t} : LeaveRoomRecord(t)[u] = clients[u]
<1>1. clients[t] \in ClientInfo
  BY DEF StateTypeOK
<1>2. LeaveRoomRecord(t)[t] = [clients[t] EXCEPT !.roomId = NoRoom, !.isRoomOwner = FALSE]
  BY DEF LeaveRoomRecord, StateTypeOK
<1>3. LeaveRoomRecord(t)[t].roomId = NoRoom /\ ~LeaveRoomRecord(t)[t].isRoomOwner
  BY <1>1, <1>2 DEF ClientInfo
<1> QED BY <1>3 DEF LeaveRoomRecord, StateTypeOK

LEMMA KickMembership ==
    ASSUME MembershipInv, StateTypeOK', NEW s \in connected, NEW name \in Usernames,
           handleKickCommand(s, name)
    PROVE  MembershipInv'
<1>1. CASE UNCHANGED state
  BY <1>1, SameMembers DEF state, memory
<1>2. ASSUME NEW t \in findClientByUsername(name, clients[s].roomId),
             chatRooms' = RoomsWithout(t), clients' = LeaveRoomRecord(t),
             UNCHANGED <<connected, live>>
      PROVE  MembershipInv'
  <2>1. t \in Sockets /\ StateTypeOK /\ MembersKnowTheirRoom
    BY DEF findClientByUsername, MembershipInv, StateTypeOK
  <2> QED BY <1>2, <2>1, LeaveRoomRecordEffect, RoomsWithoutEffect, Departure
<1> QED BY <1>1, <1>2 DEF handleKickCommand, Reply

LEMMA BanMembership ==
    ASSUME MembershipInv, StateTypeOK', NEW s \in connected, NEW name \in Usernames,
           handleBanCommand(s, name)
    PROVE  MembershipInv'
<1> DEFINE r == clients[s].roomId
<1>0. StateTypeOK /\ MembersKnowTheirRoom
  BY DEF MembershipInv
<1>1. CASE UNCHANGED state
  BY <1>1, SameMembers DEF state, memory
<1>2. ASSUME NEW rooms \in [RoomIds -> Room], r \in live
      PROVE  \A q \in live : /\ Ban(r, rooms, name)[q].clients = rooms[q].clients
                             /\ Ban(r, rooms, name)[q].owner = rooms[q].owner
  BY <1>0, <1>2, MethodEffects DEF Ban, StateTypeOK, BanUser
<1>3. ASSUME r \in live, chatRooms' = Ban(r, chatRooms, name),
             UNCHANGED <<clients, connected, live>>
      PROVE  MembershipInv'
  <2>1. \A q \in live : /\ chatRooms'[q].clients = chatRooms[q].clients
                        /\ chatRooms'[q].owner = chatRooms[q].owner
    BY <1>0, <1>2, <1>3 DEF StateTypeOK
  <2> QED BY <1>3, <2>1, SameMembers
<1>4. ASSUME NEW t \in findClientByUsername(name, r), r \in live,
             chatRooms' = Ban(r, RoomsWithout(t), name), clients' = LeaveRoomRecord(t),
             UNCHANGED <<connected, live>>
      PROVE  MembershipInv'
  <2>1. t \in Sockets
    BY <1>0 DEF findClientByUsername, StateTypeOK
  <2>2. \A q \in live : /\ chatRooms'[q].clients = chatRooms[q].clients \ {t}
                        /\ chatRooms'[q].owner = chatRooms[q].owner
    BY <1>0, <1>2, <1>4, <2>1, RoomsWithoutType, RoomsWithoutEffect
  <2> QED BY <1>0, <1>4, <2>1, <2>2, LeaveRoomRecordEffect, Departure
<1> QED BY <1>1, <1>3, <1>4 DEF handleBanCommand, Reply

LEMMA LeaveMembership ==
    ASSUME MembershipInv, StateTypeOK', NEW s \in connected, handleLeaveCommand(s)
    PROVE  MembershipInv'
<1>0. s \in Sockets /\ StateTypeOK /\ MembersKnowTheirRoom
  BY DEF MembershipInv, StateTypeOK
<1>1. CASE UNCHANGED state
  BY <1>1, SameMembers DEF state, memory
<1>2. CASE /\ ~clients[s].isRoomOwner
           /\ chatRooms' = RoomsWithout(s)
           /\ clients' = [clients EXCEPT ![s] = [@ EXCEPT !.roomId = NoRoom]]
           /\ UNCHANGED <<connected, live>>
  <2>1. clients[s] \in ClientInfo
    BY <1>0 DEF StateTypeOK
  <2>2. clients'[s] = [clients[s] EXCEPT !.roomId = NoRoom]
    BY <1>0, <1>2 DEF StateTypeOK
  <2>3. clients'[s].roomId = NoRoom /\ ~clients'[s].isRoomOwner
    BY <1>2, <2>1, <2>2 DEF ClientInfo
  <2>4. \A u \in Sockets \ {s} : clients'[u] = clients[u]
    BY <1>2 DEF StateTypeOK
  <2> QED BY <1>0, <1>2, <2>3, <2>4, RoomsWithoutEffect, Departure
<1> QED BY <1>1, <1>2 DEF handleLeaveCommand, Reply

(***************************************************************************)
(* Steps that hand a room over: TRANSFER, and FORCELEAVE with a successor.  *)
(***************************************************************************)
\* The old owner s loses its flag, the member t gains it and is recorded as the
\* room's owner.  No third client can have the flag for that room.
LEMMA Handover ==
    ASSUME MembershipInv, StateTypeOK', NEW s \in connected, NEW t \in connected,
           NEW r \in live, s # t, clients[s].roomId = r, clients[s].isRoomOwner,
           clients[t].roomId = r, UNCHANGED <<connected, live>>,
           clients'[s].roomId \in {r, NoRoom}, ~clients'[s].isRoomOwner,
           clients'[t].roomId = r,
           \A u \in Sockets \ {s, t} : clients'[u] = clients[u],
           clients'[s].roomId = r =>
                \A q \in live : chatRooms'[q].clients = chatRooms[q].clients,
           clients'[s].roomId = NoRoom =>
                \A q \in live : chatRooms'[q].clients = chatRooms[q].clients \ {s},
           \A q \in live \ {r} : chatRooms'[q].owner = chatRooms[q].owner,
           chatRooms'[r].owner = t
    PROVE  MembershipInv'
<1>1. connected \subseteq Sockets /\ NoRoom \notin live
  BY RoomIdsAssumption DEF MembershipInv, StateTypeOK
<1>2. \A u \in connected \ {s} : clients'[u].roomId = clients[u].roomId
  BY <1>1
<1>3. \A q \in live : /\ chatRooms'[q].clients \subseteq chatRooms[q].clients
                      /\ chatRooms[q].clients \ {s} \subseteq chatRooms'[q].clients
                      /\ s \in chatRooms'[q].clients => clients'[s].roomId = r
                      /\ clients'[s].roomId = r => chatRooms'[q].clients = chatRooms[q].clients
  BY <1>1
<1>4. MembersKnowTheirRoom'
  <2> SUFFICES ASSUME NEW q \in live, NEW u \in chatRooms'[q].clients
               PROVE  u \in connected /\ clients'[u].roomId = q
    BY DEF MembersKnowTheirRoom
  <2>1. u \in connected /\ clients[u].roomId = q
    BY <1>3 DEF MembershipInv, MembersKnowTheirRoom
  <2>2. CASE u = s
    BY <1>3, <2>1, <2>2
  <2>3. CASE u # s
    BY <1>2, <2>1, <2>3
  <2> QED BY <2>2, <2>3
<1>5. ASSUME FreshIds PROVE RoomsKnowTheirMembers'
  <2> SUFFICES ASSUME NEW u \in connected, clients'[u].roomId # NoRoom
               PROVE  /\ clients'[u].roomId \in live
                      /\ u \in chatRooms'[clients'[u].roomId].clients
    BY DEF RoomsKnowTheirMembers
  <2>0. clients'[u].roomId = clients[u].roomId
    BY <1>2
  <2>1. clients[u].roomId \in live /\ u \in chatRooms[clients[u].roomId].clients
    BY <1>5, <2>0 DEF MembershipInv, RoomsKnowTheirMembers
  <2> QED BY <1>3, <2>0, <2>1
<1>6. ASSUME FreshIds PROVE OwnerRecordsAgree'
  <2> SUFFICES ASSUME NEW u \in connected, clients'[u].isRoomOwner
               PROVE  /\ clients'[u].roomId \in live
                      /\ chatRooms'[clients'[u].roomId].owner = u
    BY DEF OwnerRecordsAgree
  <2>1. chatRooms[r].owner = s
    BY <1>6 DEF MembershipInv, OwnerRecordsAgree
  <2>2. CASE u = t
    BY <2>2
  <2>3. CASE u # t
    <3>1. u # s /\ clients'[u] = clients[u]
      BY <1>1, <2>3
    <3>2. clients[u].roomId \in live /\ chatRooms[clients[u].roomId].owner = u
      BY <1>6, <3>1 DEF MembershipInv, OwnerRecordsAgree
    <3>3. clients[u].roomId # r
      BY <2>1, <3>1, <3>2
    <3> QED BY <3>1, <3>2, <3>3
  <2> QED BY <2>2, <2>3
<1> QED BY <1>4, <1>5, <1>6 DEF MembershipInv

LEMMA TransferMembership ==
    ASSUME MembershipInv, StateTypeOK', NEW s \in connected, NEW name \in Usernames,
           handleTransferCommand(s, name)
    PROVE  MembershipInv'
<1> DEFINE r == clients[s].roomId
<1>0. s \in Sockets /\ StateTypeOK /\ MembersKnowTheirRoom
  BY DEF MembershipInv, StateTypeOK
<1>1. CASE UNCHANGED state
  BY <1>1, SameMembers DEF state, memory
<1>2. ASSUME NEW t \in findClientByUsername(name, r), r \in live,
             clients[s].isRoomOwner, name # clients[s].username,
             chatRooms' = [chatRooms EXCEPT ![r] = SetOwner(@, t)],
             clients' = [clients EXCEPT ![s] = [@ EXCEPT !.isRoomOwner = FALSE],
                                        ![t] = [@ EXCEPT !.isRoomOwner = TRUE]],
             UNCHANGED <<connected, live>>
      PROVE  MembershipInv'
  <2>1. t \in connected /\ t \in Sockets /\ s # t /\ clients[t].roomId = r
    BY <1>0, <1>2 DEF findClientByUsername, StateTypeOK
  <2>2. clients[s] \in ClientInfo /\ clients[t] \in ClientInfo
    BY <1>0, <2>1 DEF StateTypeOK
  <2>3. /\ clients'[s] = [clients[s] EXCEPT !.isRoomOwner = FALSE]
        /\ clients'[t] = [clients[t] EXCEPT !.isRoomOwner = TRUE]
        /\ \A u \in Sockets \ {s, t} : clients'[u] = clients[u]
    BY <1>0, <1>2, <2>1 DEF StateTypeOK
  <2>4. /\ clients'[s].roomId = r /\ ~clients'[s].isRoomOwner
        /\ clients'[t].roomId = r
    BY <2>1, <2>2, <2>3 DEF ClientInfo
  <2>5. \A q \in live : chatRooms'[q].clients = chatRooms[q].clients
    BY <1>0, <1>2, <2>1, MethodEffects DEF StateTypeOK
  <2>6. /\ chatRooms'[r].owner = t
        /\ \A q \in live \ {r} : chatRooms'[q].owner = chatRooms[q].owner
    BY <1>0, <1>2, <2>1, MethodEffects DEF StateTypeOK
  <2>7. r # NoRoom
    BY <1>0, <1>2, RoomIdsAssumption DEF StateTypeOK
  <2>8. /\ clients'[s].roomId \in {r, NoRoom}
        /\ clients'[s].roomId = NoRoom =>
             \A q \in live : chatRooms'[q].clients = chatRooms[q].clients \ {s}
    BY <2>4, <2>7
  <2>9. /\ clients[s].roomId = r /\ clients[s].isRoomOwner
        /\ r \in live /\ UNCHANGED <<connected, live>>
    BY <1>2
  <2>10. \A u \in Sockets \ {s, t} : clients'[u] = clients[u]
    BY <2>3
  <2> HIDE DEF r
  <2> QED BY <2>1, <2>4, <2>5, <2>6, <2>8, <2>9, <2>10, Handover
<1> QED BY <1>1, <1>2 DEF handleTransferCommand, Reply, NotForOwnerToDo, IsOwnerInRoom

\* A successor is another member of the room.
LEMMA SuccessorsAreMembers ==
    ASSUME NEW room, NEW s, NEW t \in Successors(room, s)
    PROVE  t \in room.clients /\ t # s
<1>1. CASE s \notin LongestMember(room)
  BY <1>1 DEF Successors, LongestMember
<1>2. CASE s \in LongestMember(room)
  BY <1>2 DEF Successors
<1> QED BY <1>1, <1>2

LEMMA ForceLeaveMembership ==
    ASSUME MembershipInv, StateTypeOK', NEW s \in connected, handleForceLeaveCommand(s)
    PROVE  MembershipInv'
<1> DEFINE r == clients[s].roomId
<1>0. s \in Sockets /\ StateTypeOK /\ MembersKnowTheirRoom
  BY DEF MembershipInv, StateTypeOK
<1>1. CASE UNCHANGED state
  BY <1>1, SameMembers DEF state, memory
<1>2. CASE /\ chatRooms' = RoomsWithout(s) /\ clients' = LeaveRoomRecord(s)
           /\ UNCHANGED <<connected, live>>
  BY <1>0, <1>2, LeaveRoomRecordEffect, RoomsWithoutEffect, Departure
<1>3. ASSUME r \in live, NEW t \in Successors(chatRooms[r], s) \cap connected,
             clients[s].isRoomOwner,
             chatRooms' = [RoomsWithout(s) EXCEPT ![r] = SetOwner(@, t)],
             clients' = [LeaveRoomRecord(s) EXCEPT ![t] = [@ EXCEPT !.isRoomOwner = TRUE]],
             UNCHANGED <<connected, live>>
      PROVE  MembershipInv'
  <2>1. t \in connected /\ t \in Sockets /\ t # s /\ clients[t].roomId = r
    BY <1>0, <1>3, SuccessorsAreMembers DEF StateTypeOK, MembersKnowTheirRoom
  <2>2. LeaveRoomRecord(s) \in [Sockets -> ClientInfo]
    BY <1>0, LeaveRoomRecordType
  <2>3. /\ clients'[t] = [clients[t] EXCEPT !.isRoomOwner = TRUE]
        /\ \A u \in Sockets \ {t} : clients'[u] = LeaveRoomRecord(s)[u]
    BY <1>0, <1>3, <2>1, <2>2, LeaveRoomRecordEffect
  <2>4. clients[t] \in ClientInfo
    BY <1>0, <2>1 DEF StateTypeOK
  <2>5. clients'[t].roomId = r
    BY <2>1, <2>3, <2>4 DEF ClientInfo
  <2>6. /\ clients'[s].roomId = NoRoom /\ ~clients'[s].isRoomOwner
        /\ \A u \in Sockets \ {s, t} : clients'[u] = clients[u]
    BY <1>0, <2>1, <2>3, LeaveRoomRecordEffect
  <2>7. RoomsWithout(s) \in [RoomIds -> Room] /\ live \subseteq RoomIds
    BY <1>0, RoomsWithoutType DEF StateTypeOK
  <2>8. /\ chatRooms'[r] = SetOwner(RoomsWithout(s)[r], t)
        /\ \A q \in live \ {r} : chatRooms'[q] = RoomsWithout(s)[q]
    BY <1>3, <2>7
  <2>9. /\ \A q \in live : chatRooms'[q].clients = chatRooms[q].clients \ {s}
        /\ \A q \in live \ {r} : chatRooms'[q].owner = chatRooms[q].owner
        /\ chatRooms'[r].owner = t
    BY <1>0, <1>3, <2>1, <2>7, <2>8, RoomsWithoutEffect, MethodEffects
  <2>10. r # NoRoom
    BY <1>0, <1>3, RoomIdsAssumption DEF StateTypeOK
  <2>11. clients[s].roomId = r /\ s \in connected
    OBVIOUS
  <2> QED BY <1>3, <2>1, <2>5, <2>6, <2>9, <2>10, <2>11, Handover
<1> QED BY <1>1, <1>2, <1>3 DEF handleForceLeaveCommand, Reply, IsOwnerInRoom

(***************************************************************************)
(* The remaining steps.                                                     *)
(***************************************************************************)
LEMMA SetNameMembership ==
    ASSUME MembershipInv, StateTypeOK', NEW s \in connected, NEW name \in Usernames,
           handleSetNameCommand(s, name)
    PROVE  MembershipInv'
<1>0. s \in Sockets /\ StateTypeOK
  BY DEF MembershipInv, StateTypeOK
<1>1. CASE UNCHANGED state
  BY <1>1, SameMembers DEF state, memory
<1>2. CASE /\ clients' = [clients EXCEPT ![s] = [@ EXCEPT !.username = name]]
           /\ UNCHANGED <<connected, live, chatRooms>>
  <2>1. clients[s] \in ClientInfo
    BY <1>0 DEF StateTypeOK
  <2>2. clients'[s] = [clients[s] EXCEPT !.username = name]
    BY <1>0, <1>2 DEF StateTypeOK
  <2>3. clients'[s].roomId = clients[s].roomId
    BY <2>1, <2>2 DEF ClientInfo
  <2>4. clients'[s].isRoomOwner = clients[s].isRoomOwner
    BY <2>1, <2>2 DEF ClientInfo
  <2>5. \A u \in Sockets \ {s} : clients'[u] = clients[u]
    BY <1>2 DEF StateTypeOK
  <2> QED BY <1>2, <2>3, <2>4, <2>5, SameMembers
<1> QED BY <1>1, <1>2 DEF handleSetNameCommand, Reply

LEMMA ChangePasswordMembership ==
    ASSUME MembershipInv, StateTypeOK', NEW s \in connected,
           NEW password \in Passwords \cup {NoPassword},
           handleChangePasswordCommand(s, password)
    PROVE  MembershipInv'
<1> DEFINE r == clients[s].roomId
<1>1. CASE UNCHANGED state
  BY <1>1, SameMembers DEF state, memory
<1>2. CASE /\ r \in live
           /\ chatRooms' = [chatRooms EXCEPT ![r] = SetPassword(@, password)]
           /\ UNCHANGED <<connected, clients, live>>
  <2>1. StateTypeOK /\ s \in Sockets
    BY DEF MembershipInv, StateTypeOK
  <2>2. \A q \in live : /\ chatRooms'[q].clients = chatRooms[q].clients
                        /\ chatRooms'[q].owner = chatRooms[q].owner
    BY <1>2, <2>1, MethodEffects DEF StateTypeOK
  <2> QED BY <1>2, <2>2, SameMembers
<1> QED BY <1>1, <1>2 DEF handleChangePasswordCommand, Reply

LEMMA EnqueueMembership ==
    ASSUME MembershipInv, StateTypeOK', NEW s \in connected, NEW private, NEW name,
           Enqueue(s, private, name)
    PROVE  MembershipInv'
BY SameMembers DEF Enqueue

LEMMA BroadcastMembership ==
    ASSUME MembershipInv, StateTypeOK', broadcastMessages
    PROVE  MembershipInv'
<1> DEFINE m == Head(messageQueue)
           line == <<m.senderName, m.content>>
<1>1. UNCHANGED <<connected, clients, live>>
  BY DEF broadcastMessages
<1>2. CASE UNCHANGED chatRooms
  BY <1>1, <1>2, SameMembers
<1>3. CASE /\ m.roomId \in live
           /\ chatRooms' = [chatRooms EXCEPT ![m.roomId] = AddMessageToHistory(@, line)]
  <2>1. StateTypeOK
    BY DEF MembershipInv
  <2>2. \A q \in live : /\ chatRooms'[q].clients = chatRooms[q].clients
                        /\ chatRooms'[q].owner = chatRooms[q].owner
    BY <1>3, <2>1 DEF StateTypeOK, Room, AddMessageToHistory
  <2> QED BY <1>1, <2>2, SameMembers
<1> QED BY <1>2, <1>3
        DEF broadcastMessages, DropMessage, DeliverPrivate, DeliverPublic

LEMMA CleanupMembership ==
    ASSUME MembershipInv, StateTypeOK', NEW r \in RoomIds, cleanupEmptyRoom(r)
    PROVE  MembershipInv'
<1>1. UNCHANGED <<connected, clients>>
  BY DEF cleanupEmptyRoom
<1>2. CASE UNCHANGED <<live, chatRooms>>
  BY <1>1, <1>2, SameMembers
<1>3. CASE /\ r \in live /\ chatRooms[r].clients = {} /\ live' = live \ {r}
           /\ \A q \in live' : chatRooms'[q] = chatRooms[q]
  <2>1. MembersKnowTheirRoom'
    BY <1>1, <1>3 DEF MembershipInv, MembersKnowTheirRoom
  <2>2. FreshIds => RoomsKnowTheirMembers'
    BY <1>1, <1>3 DEF MembershipInv, RoomsKnowTheirMembers
  <2>3. ASSUME FreshIds, NEW s \in connected, clients[s].isRoomOwner
        PROVE  clients[s].roomId \in live'
    <3>1. clients[s].roomId \in live
      BY <2>3 DEF MembershipInv, OwnerRecordsAgree
    <3>2. s \in chatRooms[clients[s].roomId].clients
      BY <2>3, <3>1, RoomIdsAssumption DEF MembershipInv, RoomsKnowTheirMembers, StateTypeOK
    <3> QED BY <1>3, <3>1, <3>2
  <2>4. FreshIds => OwnerRecordsAgree'
    BY <1>1, <1>3, <2>3 DEF MembershipInv, OwnerRecordsAgree
  <2> QED BY <2>1, <2>2, <2>4 DEF MembershipInv
<1>4. CASE r \in live /\ chatRooms[r].clients = {} /\ EraseRoom(r, chatRooms)
  <2>1. \A q \in live' : chatRooms'[q] = chatRooms[q]
    BY <1>4 DEF EraseRoom, MembershipInv, StateTypeOK
  <2> QED BY <1>3, <1>4, <2>1 DEF EraseRoom
<1> QED BY <1>2, <1>4 DEF cleanupEmptyRoom

LEMMA DisconnectMembership ==
    ASSUME MembershipInv, StateTypeOK', NEW s \in connected, handleClientDisconnect(s)
    PROVE  MembershipInv'
<1>0. s \in Sockets /\ StateTypeOK /\ MembersKnowTheirRoom
  BY DEF MembershipInv, StateTypeOK
<1>1. /\ connected' = connected \ {s}
      /\ clients'[s].roomId = NoRoom /\ ~clients'[s].isRoomOwner
      /\ \A u \in Sockets \ {s} : clients'[u] = clients[u]
  BY <1>0 DEF handleClientDisconnect, NewClient, StateTypeOK
<1>2. CASE LeavesRoomEmpty(s)
  <2> DEFINE r == clients[s].roomId
  <2>1. r \in live /\ chatRooms[r].clients \subseteq {s}
    BY <1>2 DEF LeavesRoomEmpty
  <2>2. live' = live \ {r} /\ chatRooms' = [RoomsWithout(s) EXCEPT ![r] = NoRoomObject]
    BY <1>2 DEF handleClientDisconnect, EraseRoom
  <2>3. \A q \in live' : chatRooms'[q] = RoomsWithout(s)[q]
    BY <1>0, <2>2, RoomsWithoutType DEF StateTypeOK
  <2>4. \A q \in live' : /\ chatRooms'[q].clients = chatRooms[q].clients \ {s}
                         /\ chatRooms'[q].owner = chatRooms[q].owner
    BY <1>0, <2>2, <2>3, RoomsWithoutEffect
  <2>5. \A q \in live \ live' : chatRooms[q].clients \subseteq {s}
    BY <2>1, <2>2
  <2>6. live' \subseteq live
    BY <2>2
  <2> QED BY <1>0, <1>1, <2>4, <2>5, <2>6, Departure
<1>3. CASE ~LeavesRoomEmpty(s)
  <2>1. chatRooms' = RoomsWithout(s) /\ live' = live
    BY <1>3 DEF handleClientDisconnect
  <2>2. \A q \in live' : /\ chatRooms'[q].clients = chatRooms[q].clients \ {s}
                         /\ chatRooms'[q].owner = chatRooms[q].owner
    BY <1>0, <2>1, RoomsWithoutEffect
  <2> QED BY <1>0, <1>1, <2>1, <2>2, Departure
<1> QED BY <1>2, <1>3

LEMMA NewProcessMembership ==
    ASSUME StateTypeOK', NewProcess
    PROVE  MembershipInv'
BY DEF MembershipInv, MembersKnowTheirRoom, RoomsKnowTheirMembers, OwnerRecordsAgree, NewProcess

LEMMA InitMembership == Init => MembershipInv
BY InitType DEF Init, MembershipInv, MembersKnowTheirRoom, RoomsKnowTheirMembers,
                OwnerRecordsAgree

\* Every command a client sends keeps the two sides of membership in step.
LEMMA ClientMessageMembership ==
    ASSUME MembershipInv, StateTypeOK', NEW s \in connected, handleClientMessage(s)
    PROVE  MembershipInv'
<1>1. ASSUME UNCHANGED state PROVE MembershipInv'
  BY <1>1, SameMembers DEF state, memory
<1>2. ASSUME NEW name \in Usernames,
             \/ handleSetNameCommand(s, name) \/ handleKickCommand(s, name)
             \/ handleBanCommand(s, name) \/ handleTransferCommand(s, name)
      PROVE  MembershipInv'
  BY <1>2, SetNameMembership, KickMembership, BanMembership, TransferMembership
<1>3. ASSUME NEW name \in Usernames, handlePrivateMessage(s, name) PROVE MembershipInv'
  BY <1>1, <1>3, EnqueueMembership DEF handlePrivateMessage, Reply
<1>4. ASSUME NEW isPrivate \in BOOLEAN, NEW password \in Passwords \cup {NoPassword},
             handleCreateCommand(s, isPrivate, password)
      PROVE  MembershipInv'
  BY <1>1, <1>4, CreateRoomMembership DEF handleCreateCommand, Reply
<1>5. ASSUME NEW password \in Passwords \cup {NoPassword},
             handleChangePasswordCommand(s, password)
      PROVE  MembershipInv'
  BY <1>5, ChangePasswordMembership
<1>6. ASSUME NEW password \in Passwords \cup {NoPassword}, NEW r \in RoomIds,
             handleJoinCommand(s, r, password)
      PROVE  MembershipInv'
  BY <1>1, <1>6, JoinRoomMembership DEF handleJoinCommand, MayJoin, Reply
<1>7. CASE handleLeaveCommand(s) \/ handleForceLeaveCommand(s)
  BY <1>7, LeaveMembership, ForceLeaveMembership
<1>8. CASE handleListCommand(s) \/ handleUsersCommand(s) \/ handleGetPasswordCommand(s)
  BY <1>1, <1>8
     DEF handleListCommand, handleUsersCommand, handleGetPasswordCommand, Reply
<1>9. CASE handleChatMessage(s)
  BY <1>1, <1>9, EnqueueMembership DEF handleChatMessage, Reply
<1> QED BY <1>2, <1>3, <1>4, <1>5, <1>6, <1>7, <1>8, <1>9 DEF handleClientMessage

\* MembershipInv is inductive.
LEMMA NextMembership == MembershipInv /\ [Next]_vars => MembershipInv'
<1> SUFFICES ASSUME MembershipInv, [Next]_vars PROVE MembershipInv'
  OBVIOUS
<1>0. StateTypeOK'
  BY NextType DEF MembershipInv
<1>1. ASSUME NEW s \in Sockets, Accept(s) PROVE MembershipInv'
  BY <1>0, <1>1, AcceptMembership
<1>2. ASSUME NEW s \in connected, handleClientMessage(s) \/ handleClientDisconnect(s)
      PROVE  MembershipInv'
  BY <1>0, <1>2, ClientMessageMembership, DisconnectMembership
<1>3. CASE broadcastMessages
  BY <1>0, <1>3, BroadcastMembership
<1>4. ASSUME NEW r \in RoomIds, cleanupEmptyRoom(r) PROVE MembershipInv'
  BY <1>0, <1>4, CleanupMembership
<1>5. CASE Restart \/ \E r \in RoomIds : CrashInDelete(r)
  BY <1>0, <1>5, NewProcessMembership DEF Restart, CrashInDelete
<1>6. CASE Tick
  BY <1>0, <1>6, SameMembers DEF Tick, memory
<1>7. CASE UNCHANGED vars
  BY <1>0, <1>7, SameMembers DEF vars, state, memory
<1> QED BY <1>1, <1>2, <1>3, <1>4, <1>5, <1>6, <1>7 DEF Next

\* Whoever a room counts as a member is connected and has that room in its own
\* record, in every run of the server, also when room ids collide.
THEOREM MembersStayInStep == Spec => []MembersKnowTheirRoom
<1>1. MembershipInv => MembersKnowTheirRoom
  BY DEF MembershipInv
<1> QED BY <1>1, InitMembership, NextMembership, PTL DEF Spec

\* As long as generateRoomId never returns the id of a live room, the room a
\* client's record names exists and counts it as a member.
THEOREM RecordsStayInStep == Spec => [](FreshIds => RoomsKnowTheirMembers)
<1>1. MembershipInv => (FreshIds => RoomsKnowTheirMembers)
  BY DEF MembershipInv
<1> QED BY <1>1, InitMembership, NextMembership, PTL DEF Spec

\* Under the same condition a client that passes the isRoomOwner check of the
\* owner's commands is the owner its room records: no room has two owners.
THEOREM OneOwnerPerRoom == Spec => [](FreshIds => OwnerRecordsAgree)
<1>1. MembershipInv => (FreshIds => OwnerRecordsAgree)
  BY DEF MembershipInv
<1> QED BY <1>1, InitMembership, NextMembership, PTL DEF Spec

(***************************************************************************)
(* No empty room is forgotten, in an instance in which no id of a live room *)
(* is drawn again.                                                          *)
(***************************************************************************)

\* The inductive invariant.  KICK and BAN start no cleanup thread: that they
\* never empty a room needs the owner among its members (RoomsKnowTheirMembers).
CleanupInv == MembershipInv /\ (FreshIds => EmptyRoomsAwaitCleanup)

(***************************************************************************)
(* Three reasons why a step leaves no empty room behind.                    *)
(***************************************************************************)
\* Nobody leaves a room and no cleanup thread wakes.
LEMMA NobodyLeaves ==
    ASSUME EmptyRoomsAwaitCleanup, live' \subseteq live, UNCHANGED cleanups,
           \A r \in live' : chatRooms[r].clients \subseteq chatRooms'[r].clients
    PROVE  EmptyRoomsAwaitCleanup'
BY DEF EmptyRoomsAwaitCleanup

\* The handler of s looks whether it leaves its room empty.
LEMMA Spawned ==
    ASSUME StateTypeOK, MembersKnowTheirRoom, EmptyRoomsAwaitCleanup,
           NEW s \in Sockets, SpawnCleanup(s), NEW r \in live,
           chatRooms[r].clients \subseteq {s}
    PROVE  cleanups'[r] > 0
<1>0. cleanups[r] \in Nat /\ r \in RoomIds /\ cleanups \in [RoomIds -> Nat]
  BY DEF StateTypeOK
<1>1. CASE r = clients[s].roomId
  <2>1. LeavesRoomEmpty(s)
    BY <1>1 DEF LeavesRoomEmpty
  <2>2. cleanups' = [cleanups EXCEPT ![r] = @ + 1]
    BY <1>1, <2>1 DEF SpawnCleanup
  <2> QED BY <1>0, <2>2
<1>2. CASE r # clients[s].roomId
  <2>1. chatRooms[r].clients = {}
    BY <1>2 DEF MembersKnowTheirRoom
  <2>2. cleanups[r] > 0
    BY <2>1 DEF EmptyRoomsAwaitCleanup
  <2>3. cleanups'[r] = cleanups[r]
    BY <1>0, <1>2 DEF SpawnCleanup
  <2> QED BY <2>2, <2>3
<1> QED BY <1>1, <1>2

\* An owner s expels t from the room of both, and stays.
LEMMA OwnerStays ==
    ASSUME MembersKnowTheirRoom, EmptyRoomsAwaitCleanup, UNCHANGED <<live, cleanups>>,
           NEW s, NEW t, s # t, clients[t].roomId = clients[s].roomId,
           clients[s].roomId \in live => s \in chatRooms[clients[s].roomId].clients,
           \A r \in live : chatRooms'[r].clients = chatRooms[r].clients \ {t}
    PROVE  EmptyRoomsAwaitCleanup'
<1> SUFFICES ASSUME NEW r \in live, chatRooms'[r].clients = {}
             PROVE  cleanups[r] > 0
  BY DEF EmptyRoomsAwaitCleanup
<1>1. CASE r = clients[s].roomId
  <2>1. s \in chatRooms'[r].clients
    BY <1>1
  <2> QED BY <2>1
<1>2. CASE r # clients[s].roomId
  <2>1. t \notin chatRooms[r].clients
    BY <1>2 DEF MembersKnowTheirRoom
  <2> QED BY <2>1 DEF EmptyRoomsAwaitCleanup
<1> QED BY <1>1, <1>2

(***************************************************************************)
(* The handlers that move clients.                                          *)
(***************************************************************************)
LEMMA CreateRoomCleanup ==
    ASSUME StateTypeOK, MembersKnowTheirRoom, EmptyRoomsAwaitCleanup, NEW s \in connected,
           NEW isPrivate \in BOOLEAN, NEW password \in Passwords \cup {NoPassword},
           NEW r \in RoomIds, CreateRoom(s, isPrivate, password, r)
    PROVE  EmptyRoomsAwaitCleanup'
<1>0. s \in Sockets
  BY DEF StateTypeOK
<1>1. chatRooms'[r].clients = {s}
  BY <1>0, NewRoomEffect, RoomsWithoutType DEF CreateRoom
<1>2. \A q \in live \ {r} : chatRooms'[q].clients = chatRooms[q].clients \ {s}
  BY <1>0, RoomsWithoutEffect, RoomsWithoutType DEF CreateRoom, StateTypeOK
<1>3. \A q \in live \ {r} : chatRooms'[q].clients = {} => cleanups'[q] > 0
  BY <1>0, <1>2, Spawned DEF CreateRoom
<1> QED BY <1>1, <1>3 DEF EmptyRoomsAwaitCleanup, CreateRoom

LEMMA JoinRoomCleanup ==
    ASSUME StateTypeOK, MembersKnowTheirRoom, EmptyRoomsAwaitCleanup, NEW s \in connected,
           NEW r \in live, JoinRoom(s, r)
    PROVE  EmptyRoomsAwaitCleanup'
<1>0. s \in Sockets /\ r \in RoomIds
  BY DEF StateTypeOK
<1>1. s \in chatRooms'[r].clients
  <2>1. RoomsWithout(s)[r] \in Room
    BY <1>0, RoomsWithoutType
  <2>2. chatRooms'[r] = AddClient(RoomsWithout(s)[r], s)
    BY <1>0, RoomsWithoutType DEF JoinRoom
  <2> QED BY <1>0, <2>1, <2>2, MethodEffects
<1>2. \A q \in live \ {r} : chatRooms'[q].clients = chatRooms[q].clients \ {s}
  BY <1>0, RoomsWithoutType, RoomsWithoutEffect DEF JoinRoom, StateTypeOK
<1>3. \A q \in live \ {r} : chatRooms'[q].clients = {} => cleanups'[q] > 0
  BY <1>0, <1>2, Spawned DEF JoinRoom
<1> QED BY <1>1, <1>3 DEF EmptyRoomsAwaitCleanup, JoinRoom

\* LEAVE and FORCELEAVE: every room loses s and nobody else.
LEMMA LeavingCleanup ==
    ASSUME StateTypeOK, MembersKnowTheirRoom, EmptyRoomsAwaitCleanup, NEW s \in Sockets,
           UNCHANGED live, SpawnCleanup(s),
           \A r \in live : chatRooms'[r].clients = RoomsWithout(s)[r].clients
    PROVE  EmptyRoomsAwaitCleanup'
<1>1. \A r \in live : chatRooms'[r].clients = chatRooms[r].clients \ {s}
  BY RoomsWithoutEffect
<1>2. \A r \in live : chatRooms'[r].clients = {} => cleanups'[r] > 0
  BY <1>1, Spawned
<1> QED BY <1>2 DEF EmptyRoomsAwaitCleanup

LEMMA ForceLeaveCleanup ==
    ASSUME StateTypeOK, MembersKnowTheirRoom, EmptyRoomsAwaitCleanup, NEW s \in connected,
           handleForceLeaveCommand(s)
    PROVE  EmptyRoomsAwaitCleanup'
<1> DEFINE r == clients[s].roomId
<1>0. s \in Sockets /\ RoomsWithout(s) \in [RoomIds -> Room] /\ live \subseteq RoomIds
  BY RoomsWithoutType DEF StateTypeOK
<1>1. CASE UNCHANGED state
  BY <1>1, NobodyLeaves DEF state, memory
<1>2. CASE chatRooms' = RoomsWithout(s) /\ UNCHANGED live /\ SpawnCleanup(s)
  BY <1>0, <1>2, LeavingCleanup
<1>3. ASSUME NEW t \in connected, chatRooms' = [RoomsWithout(s) EXCEPT ![r] = SetOwner(@, t)],
             UNCHANGED live, SpawnCleanup(s)
      PROVE  EmptyRoomsAwaitCleanup'
  <2>1. t \in Sockets
    BY DEF StateTypeOK
  <2>2. \A q \in live : chatRooms'[q].clients = RoomsWithout(s)[q].clients
    BY <1>0, <1>3, <2>1, MethodEffects
  <2> QED BY <1>0, <1>3, <2>2, LeavingCleanup
<1> QED BY <1>1, <1>2, <1>3 DEF handleForceLeaveCommand, Reply

LEMMA KickCleanup ==
    ASSUME StateTypeOK, MembersKnowTheirRoom, RoomsKnowTheirMembers, EmptyRoomsAwaitCleanup,
           NEW s \in connected, NEW name \in Usernames, handleKickCommand(s, name)
    PROVE  EmptyRoomsAwaitCleanup'
<1>1. CASE UNCHANGED state
  BY <1>1, NobodyLeaves DEF state, memory
<1>2. ASSUME ~NotForOwnerToDo(s, name),
             NEW t \in findClientByUsername(name, clients[s].roomId),
             chatRooms' = RoomsWithout(t), UNCHANGED <<live, cleanups>>
      PROVE  EmptyRoomsAwaitCleanup'
  <2>1. t \in Sockets /\ s # t /\ clients[t].roomId = clients[s].roomId
    BY <1>2 DEF findClientByUsername, NotForOwnerToDo, StateTypeOK
  <2>2. clients[s].roomId \in live => s \in chatRooms[clients[s].roomId].clients
    BY RoomIdsAssumption DEF RoomsKnowTheirMembers, StateTypeOK
  <2>3. \A r \in live : chatRooms'[r].clients = chatRooms[r].clients \ {t}
    BY <1>2, <2>1, RoomsWithoutEffect
  <2> QED BY <1>2, <2>1, <2>2, <2>3, OwnerStays
<1> QED BY <1>1, <1>2 DEF handleKickCommand, Reply

LEMMA BanCleanup ==
    ASSUME StateTypeOK, MembersKnowTheirRoom, RoomsKnowTheirMembers, EmptyRoomsAwaitCleanup,
           NEW s \in connected, NEW name \in Usernames, handleBanCommand(s, name)
    PROVE  EmptyRoomsAwaitCleanup'
<1> DEFINE r == clients[s].roomId
<1>1. CASE UNCHANGED state
  BY <1>1, NobodyLeaves DEF state, memory
<1>2. ASSUME NEW rooms \in [RoomIds -> Room], r \in live
      PROVE  \A q \in live : Ban(r, rooms, name)[q].clients = rooms[q].clients
  BY <1>2 DEF Ban, BanUser, Room, StateTypeOK
<1>3. CASE /\ r \in live /\ chatRooms' = Ban(r, chatRooms, name)
           /\ UNCHANGED <<live, cleanups>>
  <2>1. \A q \in live : chatRooms'[q].clients = chatRooms[q].clients
    BY <1>2, <1>3 DEF StateTypeOK
  <2> QED BY <1>3, <2>1, NobodyLeaves
<1>4. ASSUME ~NotForOwnerToDo(s, name), r \in live, NEW t \in findClientByUsername(name, r),
             chatRooms' = Ban(r, RoomsWithout(t), name), UNCHANGED <<live, cleanups>>
      PROVE  EmptyRoomsAwaitCleanup'
  <2>1. t \in Sockets /\ s # t /\ clients[t].roomId = r
    BY <1>4 DEF findClientByUsername, NotForOwnerToDo, StateTypeOK
  <2>2. s \in chatRooms[r].clients
    BY <1>4, RoomIdsAssumption DEF RoomsKnowTheirMembers, StateTypeOK
  <2>3. \A q \in live : chatRooms'[q].clients = chatRooms[q].clients \ {t}
    BY <1>2, <1>4, <2>1, RoomsWithoutType, RoomsWithoutEffect
  <2> QED BY <1>4, <2>1, <2>2, <2>3, OwnerStays
<1> QED BY <1>1, <1>3, <1>4 DEF handleBanCommand, Reply

(***************************************************************************)
(* The steps that erase rooms.                                              *)
(***************************************************************************)
LEMMA DisconnectCleanup ==
    ASSUME StateTypeOK, MembersKnowTheirRoom, EmptyRoomsAwaitCleanup, NEW s \in connected,
           handleClientDisconnect(s)
    PROVE  EmptyRoomsAwaitCleanup'
<1> DEFINE r == clients[s].roomId
<1>0. s \in Sockets /\ UNCHANGED cleanups
  BY DEF StateTypeOK, handleClientDisconnect
<1> SUFFICES ASSUME NEW q \in live', chatRooms'[q].clients = {}
             PROVE  cleanups[q] > 0
  BY <1>0 DEF EmptyRoomsAwaitCleanup
<1>1. q \in live /\ chatRooms'[q] = RoomsWithout(s)[q] /\ ~(q = r /\ LeavesRoomEmpty(s))
  <2>1. CASE LeavesRoomEmpty(s)
    <3>1. /\ live' = live \ {r}
          /\ chatRooms' = [RoomsWithout(s) EXCEPT ![r] = NoRoomObject]
      BY <2>1 DEF handleClientDisconnect, EraseRoom
    <3>2. q \in live /\ q # r /\ q \in RoomIds
      BY <3>1 DEF StateTypeOK
    <3> QED BY <1>0, <3>1, <3>2, RoomsWithoutType
  <2>2. CASE ~LeavesRoomEmpty(s)
    BY <2>2 DEF handleClientDisconnect
  <2> QED BY <2>1, <2>2
<1>2. chatRooms[q].clients \subseteq {s}
  BY <1>0, <1>1, RoomsWithoutEffect
<1>3. q # r
  BY <1>1, <1>2 DEF LeavesRoomEmpty
<1>4. chatRooms[q].clients = {}
  BY <1>1, <1>2, <1>3 DEF MembersKnowTheirRoom
<1> QED BY <1>1, <1>4 DEF EmptyRoomsAwaitCleanup

\* A cleanup thread that finds its room empty erases it, and one that does not
\* was not needed.
LEMMA WakeCleanup ==
    ASSUME StateTypeOK, EmptyRoomsAwaitCleanup, NEW r \in RoomIds, cleanupEmptyRoom(r)
    PROVE  EmptyRoomsAwaitCleanup'
<1> SUFFICES ASSUME NEW q \in live', chatRooms'[q].clients = {}
             PROVE  cleanups'[q] > 0
  BY DEF EmptyRoomsAwaitCleanup
<1>1. q \in live /\ q \in RoomIds /\ q # r
  BY DEF cleanupEmptyRoom, EraseRoom, StateTypeOK
<1>2. chatRooms'[q] = chatRooms[q]
  BY <1>1 DEF cleanupEmptyRoom, EraseRoom, StateTypeOK
<1>3. cleanups'[q] = cleanups[q]
  BY <1>1 DEF cleanupEmptyRoom, StateTypeOK
<1> QED BY <1>1, <1>2, <1>3 DEF EmptyRoomsAwaitCleanup

(***************************************************************************)
(* All steps.                                                               *)
(***************************************************************************)
\* The room methods that keep the members.
LEMMA SamePeople ==
    ASSUME StateTypeOK, EmptyRoomsAwaitCleanup, UNCHANGED <<live, cleanups>>,
           NEW r, NEW room, chatRooms' = [chatRooms EXCEPT ![r] = room],
           \/ \E t \in Sockets : room = SetOwner(chatRooms[r], t)
           \/ \E password : room = SetPassword(chatRooms[r], password)
           \/ \E line : room = AddMessageToHistory(chatRooms[r], line)
    PROVE  EmptyRoomsAwaitCleanup'
<1>1. \A q \in live : chatRooms'[q].clients = chatRooms[q].clients
  <2> TAKE q \in live
  <2>1. q \in RoomIds /\ chatRooms[q] \in Room
    BY DEF StateTypeOK
  <2>2. CASE q # r
    BY <2>1, <2>2 DEF StateTypeOK
  <2>3. CASE q = r
    <3>1. chatRooms'[q] = room
      BY <2>1, <2>3 DEF StateTypeOK
    <3>2. room.clients = chatRooms[q].clients
      BY <2>1, <2>3, MethodEffects DEF SetPassword, AddMessageToHistory, Room
    <3> QED BY <3>1, <3>2
  <2> QED BY <2>2, <2>3
<1> QED BY <1>1, NobodyLeaves

\* Every command a client sends leaves a cleanup thread to each empty room.
LEMMA ClientMessageCleanup ==
    ASSUME StateTypeOK, MembersKnowTheirRoom, RoomsKnowTheirMembers, EmptyRoomsAwaitCleanup,
           NEW s \in connected, handleClientMessage(s)
    PROVE  EmptyRoomsAwaitCleanup'
<1>0. s \in Sockets
  BY DEF StateTypeOK
<1>1. ASSUME UNCHANGED <<live, chatRooms, cleanups>> PROVE EmptyRoomsAwaitCleanup'
  BY <1>1, NobodyLeaves
<1>2. ASSUME NEW name \in Usernames,
             \/ handleSetNameCommand(s, name) \/ handlePrivateMessage(s, name)
      PROVE  EmptyRoomsAwaitCleanup'
  BY <1>1, <1>2 DEF handleSetNameCommand, handlePrivateMessage, Enqueue, Reply, state, memory
<1>3. ASSUME NEW name \in Usernames, handleKickCommand(s, name) \/ handleBanCommand(s, name)
      PROVE  EmptyRoomsAwaitCleanup'
  BY <1>3, KickCleanup, BanCleanup
<1>4. ASSUME NEW name \in Usernames, handleTransferCommand(s, name)
      PROVE  EmptyRoomsAwaitCleanup'
  <2>1. findClientByUsername(name, clients[s].roomId) \subseteq Sockets
    BY DEF findClientByUsername, StateTypeOK
  <2> QED BY <1>1, <1>4, <2>1, SamePeople DEF handleTransferCommand, Reply, state, memory
<1>5. ASSUME NEW isPrivate \in BOOLEAN, NEW password \in Passwords \cup {NoPassword},
             handleCreateCommand(s, isPrivate, password)
      PROVE  EmptyRoomsAwaitCleanup'
  BY <1>1, <1>5, CreateRoomCleanup DEF handleCreateCommand, Reply, state, memory
<1>6. ASSUME NEW password \in Passwords \cup {NoPassword},
             handleChangePasswordCommand(s, password)
      PROVE  EmptyRoomsAwaitCleanup'
  BY <1>1, <1>6, SamePeople DEF handleChangePasswordCommand, Reply, state, memory
<1>7. ASSUME NEW password \in Passwords \cup {NoPassword}, NEW r \in RoomIds,
             handleJoinCommand(s, r, password)
      PROVE  EmptyRoomsAwaitCleanup'
  BY <1>1, <1>7, JoinRoomCleanup DEF handleJoinCommand, MayJoin, Reply, state, memory
<1>8. CASE handleLeaveCommand(s)
  BY <1>0, <1>1, <1>8, LeavingCleanup DEF handleLeaveCommand, Reply, state, memory
<1>9. CASE handleForceLeaveCommand(s)
  BY <1>9, ForceLeaveCleanup
<1>10. CASE \/ handleListCommand(s) \/ handleUsersCommand(s)
            \/ handleGetPasswordCommand(s) \/ handleChatMessage(s)
  BY <1>1, <1>10 DEF handleListCommand, handleUsersCommand, handleGetPasswordCommand,
                     handleChatMessage, Enqueue, Reply, state, memory
<1> QED BY <1>2, <1>3, <1>4, <1>5, <1>6, <1>7, <1>8, <1>9, <1>10 DEF handleClientMessage

\* CleanupInv is inductive.
LEMMA NextCleanup == CleanupInv /\ [Next]_vars => CleanupInv'
<1> SUFFICES ASSUME CleanupInv, [Next]_vars PROVE CleanupInv'
  OBVIOUS
<1>0. MembershipInv'
  BY NextMembership DEF CleanupInv
<1> SUFFICES ASSUME FreshIds PROVE EmptyRoomsAwaitCleanup'
  BY <1>0 DEF CleanupInv
<1>1. /\ StateTypeOK /\ MembersKnowTheirRoom /\ RoomsKnowTheirMembers
      /\ EmptyRoomsAwaitCleanup
  BY DEF CleanupInv, MembershipInv
<1>2. ASSUME UNCHANGED <<live, chatRooms, cleanups>> PROVE EmptyRoomsAwaitCleanup'
  BY <1>1, <1>2, NobodyLeaves
<1>3. ASSUME NEW s \in connected, handleClientMessage(s) \/ handleClientDisconnect(s)
      PROVE  EmptyRoomsAwaitCleanup'
  BY <1>1, <1>3, ClientMessageCleanup, DisconnectCleanup
<1>4. CASE broadcastMessages
  <2> DEFINE m == Head(messageQueue)
  <2>1. CASE chatRooms' = [chatRooms EXCEPT
                ![m.roomId] = AddMessageToHistory(@, <<m.senderName, m.content>>)]
    BY <1>1, <1>4, <2>1, SamePeople DEF broadcastMessages
  <2> QED BY <1>2, <1>4, <2>1
          DEF broadcastMessages, DropMessage, DeliverPrivate, DeliverPublic
<1>5. ASSUME NEW r \in RoomIds, cleanupEmptyRoom(r) PROVE EmptyRoomsAwaitCleanup'
  BY <1>1, <1>5, WakeCleanup
<1>6. CASE Restart \/ \E r \in RoomIds : CrashInDelete(r)
  BY <1>6 DEF Restart, CrashInDelete, NewProcess, EmptyRoomsAwaitCleanup
<1>7. ASSUME NEW s \in Sockets, Accept(s) PROVE EmptyRoomsAwaitCleanup'
  BY <1>2, <1>7 DEF Accept
<1>8. CASE Tick \/ UNCHANGED vars
  BY <1>2, <1>8 DEF Tick, vars, state, memory
<1> QED BY <1>3, <1>4, <1>5, <1>6, <1>7, <1>8 DEF Next

LEMMA InitCleanup == Init => CleanupInv
BY InitMembership DEF Init, CleanupInv, EmptyRoomsAwaitCleanup

\* As long as generateRoomId never returns the id of a live room, every empty
\* room has a sleeping cleanup thread that will erase it.
THEOREM EmptyRoomsAreCleaned == Spec => [](FreshIds => EmptyRoomsAwaitCleanup)
<1>1. CleanupInv => (FreshIds => EmptyRoomsAwaitCleanup)
  BY DEF CleanupInv
<1> QED BY <1>1, InitCleanup, NextCleanup, PTL DEF Spec

(***************************************************************************)
(* ChatServer implements RoomMembership: each step of the server is one     *)
(* step of the abstract specification, or leaves everybody where he is.     *)
(***************************************************************************)
\* Who is where, as RoomMembership sees it.
Inside == {p \in Sockets \X live : p[1] \in chatRooms[p[2]].clients}

AsPromised == [Membership!Next]_(Membership!vars)

(***************************************************************************)
(* What has to be shown of a step, by the abstract step it is.              *)
(***************************************************************************)
LEMMA Stays ==
    ASSUME UNCHANGED <<connected, live>>,
           \A q \in live : chatRooms'[q].clients = chatRooms[q].clients
    PROVE  AsPromised
<1>1. Inside' = Inside
  BY DEF Inside
<1> QED BY <1>1 DEF AsPromised, Membership!vars, Inside

LEMMA Exits ==
    ASSUME NEW t \in Sockets, UNCHANGED <<connected, live>>,
           \A q \in live : chatRooms'[q].clients = chatRooms[q].clients \ {t}
    PROVE  AsPromised
<1>1. Inside' = {p \in Inside : p[1] # t}
  BY DEF Inside
<1>2. Membership!Exit(t)
  BY <1>1 DEF Membership!Exit, Membership!Elsewhere, Inside
<1> QED BY <1>2 DEF AsPromised, Membership!Next

\* t goes to room r, which existed or is opened by it, and leaves all others.
LEMMA Goes ==
    ASSUME NEW t \in connected, t \in Sockets, NEW r \in RoomIds, StateTypeOK,
           connected' = connected, live' = live \cup {r}, t \in chatRooms'[r].clients,
           \A u \in Sockets \ {t} :
                u \in chatRooms'[r].clients <=> r \in live /\ u \in chatRooms[r].clients,
           \A q \in live \ {r} : chatRooms'[q].clients = chatRooms[q].clients \ {t}
    PROVE  AsPromised
<1>1. Inside' = {p \in Inside : p[1] # t} \cup {<<t, r>>}
  <2>1. ASSUME NEW p \in Inside' PROVE p \in {q \in Inside : q[1] # t} \cup {<<t, r>>}
    <3>1. p \in Sockets \X live' /\ p[1] \in chatRooms'[p[2]].clients
      BY <2>1 DEF Inside
    <3>2. CASE p[1] = t
      BY <3>1, <3>2
    <3>3. CASE p[1] # t /\ p[2] = r
      BY <3>1, <3>3 DEF Inside
    <3>4. CASE p[1] # t /\ p[2] # r
      BY <3>1, <3>4 DEF Inside
    <3> QED BY <3>2, <3>3, <3>4
  <2>2. ASSUME NEW p \in Inside, p[1] # t PROVE p \in Inside'
    BY <2>2 DEF Inside
  <2>3. <<t, r>> \in Inside'
    BY DEF Inside
  <2> QED BY <2>1, <2>2, <2>3
<1>2. CASE r \in live
  <2>1. live' = live
    BY <1>2
  <2>2. Membership!Enter(t, r)
    BY <1>1, <1>2, <2>1 DEF Membership!Enter, Membership!Moved, Membership!Elsewhere, Inside
  <2> QED BY <2>2 DEF AsPromised, Membership!Next
<1>3. CASE r \notin live
  <2>1. Membership!Open(t, r)
    BY <1>1, <1>3 DEF Membership!Open, Membership!Moved, Membership!Elsewhere, Inside
  <2> QED BY <2>1 DEF AsPromised, Membership!Next
<1> QED BY <1>2, <1>3

LEMMA Empties ==
    ASSUME NEW r \in live, StateTypeOK, connected' = connected, live' = live \ {r},
           chatRooms[r].clients = {},
           \A q \in live' : chatRooms'[q].clients = chatRooms[q].clients
    PROVE  AsPromised
<1>1. r \in RoomIds
  BY DEF StateTypeOK
<1>2. Inside' = Inside /\ \A p \in Inside : p[2] # r
  BY DEF Inside
<1>3. Membership!Close(r)
  BY <1>2 DEF Membership!Close, Inside
<1> QED BY <1>1, <1>3 DEF AsPromised, Membership!Next

LEMMA HangsUp ==
    ASSUME NEW t \in Sockets, StateTypeOK, connected' = connected \ {t},
           \/ live' = live
           \/ \E r \in live : live' = live \ {r} /\ chatRooms[r].clients \subseteq {t},
           \A q \in live' : chatRooms'[q].clients = chatRooms[q].clients \ {t}
    PROVE  AsPromised
<1>1. Inside' = {p \in Inside : p[1] # t}
  <2>1. Inside' \subseteq {p \in Inside : p[1] # t}
    BY DEF Inside
  <2>2. ASSUME NEW p \in Inside, p[1] # t PROVE p \in Inside'
    <3>1. p \in Sockets \X live /\ p[1] \in chatRooms[p[2]].clients
      BY DEF Inside
    <3>2. p[2] \in live'
      BY <2>2, <3>1
    <3> QED BY <2>2, <3>1, <3>2 DEF Inside
  <2> QED BY <2>1, <2>2
<1>2. CASE live' = live
  <2>1. Membership!Disconnect(t)
    BY <1>1, <1>2 DEF Membership!Disconnect, Membership!Elsewhere, Inside
  <2> QED BY <2>1 DEF AsPromised, Membership!Next
<1>3. ASSUME NEW r \in live, live' = live \ {r}, chatRooms[r].clients \subseteq {t}
      PROVE  AsPromised
  <2>1. r \in RoomIds /\ \A p \in Inside : p[1] # t => p[2] # r
    BY <1>3 DEF Inside, StateTypeOK
  <2>2. Membership!Disconnect(t)
    BY <1>1, <1>3, <2>1 DEF Membership!Disconnect, Membership!Elsewhere, Inside
  <2> QED BY <2>2 DEF AsPromised, Membership!Next
<1> QED BY <1>2, <1>3

(***************************************************************************)
(* The server's steps.                                                      *)
(***************************************************************************)
LEMMA AcceptAsPromised ==
    ASSUME NEW s \in Sockets, Accept(s)
    PROVE  AsPromised
<1>1. Inside' = Inside
  BY DEF Accept, Inside
<1>2. Membership!Connect(s)
  BY <1>1 DEF Accept, Membership!Connect, Inside
<1> QED BY <1>2 DEF AsPromised, Membership!Next

LEMMA NewProcessAsPromised ==
    ASSUME NewProcess
    PROVE  AsPromised
<1>1. Inside' = {}
  BY DEF NewProcess, Inside
<1>2. Membership!Stop
  BY <1>1 DEF NewProcess, Membership!Stop, Inside
<1> QED BY <1>2 DEF AsPromised, Membership!Next

LEMMA CreateAsPromised ==
    ASSUME FreshIds, MembershipInv, NEW s \in connected, NEW isPrivate \in BOOLEAN,
           NEW password \in Passwords \cup {NoPassword}, NEW r \in RoomIds,
           CreateRoom(s, isPrivate, password, r)
    PROVE  AsPromised
<1>0. s \in Sockets /\ StateTypeOK /\ MembersKnowTheirRoom
  BY DEF MembershipInv, StateTypeOK
<1>1. chatRooms'[r].clients = {s}
  BY <1>0, NewRoomEffect, RoomsWithoutType DEF CreateRoom
<1>2. \A q \in live \ {r} : chatRooms'[q].clients = chatRooms[q].clients \ {s}
  BY <1>0, RoomsWithoutEffect, RoomsWithoutType DEF CreateRoom, StateTypeOK
<1>3. r \notin live /\ connected' = connected /\ live' = live \cup {r}
  BY DEF CreateRoom
<1> QED BY <1>0, <1>1, <1>2, <1>3, Goes

LEMMA JoinAsPromised ==
    ASSUME MembershipInv, NEW s \in connected, NEW r \in live, JoinRoom(s, r)
    PROVE  AsPromised
<1>0. s \in Sockets /\ r \in RoomIds /\ StateTypeOK /\ MembersKnowTheirRoom
  BY DEF MembershipInv, StateTypeOK
<1>1. chatRooms'[r].clients = chatRooms[r].clients \cup {s}
  <2>1. RoomsWithout(s)[r] \in Room
    BY <1>0, RoomsWithoutType
  <2>2. chatRooms'[r] = AddClient(RoomsWithout(s)[r], s)
    BY <1>0, RoomsWithoutType DEF JoinRoom
  <2> QED BY <1>0, <2>1, <2>2, MethodEffects, RoomsWithoutEffect
<1>2. \A q \in live \ {r} : chatRooms'[q].clients = chatRooms[q].clients \ {s}
  BY <1>0, RoomsWithoutType, RoomsWithoutEffect DEF JoinRoom, StateTypeOK
<1>3. connected' = connected /\ live' = live \cup {r}
  BY DEF JoinRoom
<1> QED BY <1>0, <1>1, <1>2, <1>3, Goes

\* A kick, a leave, and a ban of somebody inside.
LEMMA DepartureAsPromised ==
    ASSUME MembershipInv, NEW t \in Sockets, chatRooms' = RoomsWithout(t),
           UNCHANGED <<connected, live>>
    PROVE  AsPromised
BY RoomsWithoutEffect, Exits DEF MembershipInv

LEMMA BanAsPromised ==
    ASSUME MembershipInv, NEW s \in connected, NEW name \in Usernames,
           handleBanCommand(s, name)
    PROVE  AsPromised
<1> DEFINE r == clients[s].roomId
<1>0. StateTypeOK /\ MembersKnowTheirRoom
  BY DEF MembershipInv
<1>1. CASE UNCHANGED state
  BY <1>1, Stays DEF state, memory
<1>2. ASSUME NEW rooms \in [RoomIds -> Room], r \in live
      PROVE  \A q \in live : Ban(r, rooms, name)[q].clients = rooms[q].clients
  BY <1>0, <1>2, MethodEffects DEF Ban, StateTypeOK, BanUser
<1>3. ASSUME r \in live, chatRooms' = Ban(r, chatRooms, name),
             UNCHANGED <<connected, live>>
      PROVE  AsPromised
  <2>1. \A q \in live : chatRooms'[q].clients = chatRooms[q].clients
    BY <1>0, <1>2, <1>3 DEF StateTypeOK
  <2> QED BY <1>3, <2>1, Stays
<1>4. ASSUME NEW t \in findClientByUsername(name, r), r \in live,
             chatRooms' = Ban(r, RoomsWithout(t), name), UNCHANGED <<connected, live>>
      PROVE  AsPromised
  <2>1. t \in Sockets
    BY <1>0 DEF findClientByUsername, StateTypeOK
  <2>2. \A q \in live : chatRooms'[q].clients = chatRooms[q].clients \ {t}
    BY <1>0, <1>2, <1>4, <2>1, RoomsWithoutType, RoomsWithoutEffect
  <2> QED BY <1>4, <2>1, <2>2, Exits
<1> QED BY <1>1, <1>3, <1>4 DEF handleBanCommand, Reply

LEMMA TransferAsPromised ==
    ASSUME MembershipInv, NEW s \in connected, NEW name \in Usernames,
           handleTransferCommand(s, name)
    PROVE  AsPromised
<1> DEFINE r == clients[s].roomId
<1>0. StateTypeOK
  BY DEF MembershipInv
<1>1. CASE UNCHANGED state
  BY <1>1, Stays DEF state, memory
<1>2. ASSUME NEW t \in findClientByUsername(name, r), r \in live,
             chatRooms' = [chatRooms EXCEPT ![r] = SetOwner(@, t)],
             UNCHANGED <<connected, live>>
      PROVE  AsPromised
  <2>1. t \in Sockets
    BY <1>0 DEF findClientByUsername, StateTypeOK
  <2>2. \A q \in live : chatRooms'[q].clients = chatRooms[q].clients
    BY <1>0, <1>2, <2>1, MethodEffects DEF StateTypeOK
  <2> QED BY <1>2, <2>2, Stays
<1> QED BY <1>1, <1>2 DEF handleTransferCommand, Reply

LEMMA ForceLeaveAsPromised ==
    ASSUME MembershipInv, NEW s \in connected, handleForceLeaveCommand(s)
    PROVE  AsPromised
<1> DEFINE r == clients[s].roomId
<1>0. s \in Sockets /\ StateTypeOK /\ MembersKnowTheirRoom
  BY DEF MembershipInv, StateTypeOK
<1>1. CASE UNCHANGED state
  BY <1>1, Stays DEF state, memory
<1>2. CASE chatRooms' = RoomsWithout(s) /\ UNCHANGED <<connected, live>>
  BY <1>0, <1>2, DepartureAsPromised
<1>3. ASSUME r \in live, NEW t \in Successors(chatRooms[r], s) \cap connected,
             chatRooms' = [RoomsWithout(s) EXCEPT ![r] = SetOwner(@, t)],
             UNCHANGED <<connected, live>>
      PROVE  AsPromised
  <2>1. t \in Sockets
    BY <1>0, <1>3 DEF StateTypeOK
  <2>2. RoomsWithout(s) \in [RoomIds -> Room] /\ live \subseteq RoomIds
    BY <1>0, RoomsWithoutType DEF StateTypeOK
  <2>3. /\ chatRooms'[r] = SetOwner(RoomsWithout(s)[r], t)
        /\ \A q \in live \ {r} : chatRooms'[q] = RoomsWithout(s)[q]
    BY <1>3, <2>2
  <2>4. \A q \in live : chatRooms'[q].clients = chatRooms[q].clients \ {s}
    BY <1>0, <1>3, <2>1, <2>2, <2>3, RoomsWithoutEffect, MethodEffects
  <2> QED BY <1>0, <1>3, <2>4, Exits
<1> QED BY <1>1, <1>2, <1>3 DEF handleForceLeaveCommand, Reply

LEMMA KickAsPromised ==
    ASSUME MembershipInv, NEW s \in connected, NEW name \in Usernames,
           handleKickCommand(s, name)
    PROVE  AsPromised
<1>1. CASE UNCHANGED state
  BY <1>1, Stays DEF state, memory
<1>2. ASSUME NEW t \in findClientByUsername(name, clients[s].roomId),
             chatRooms' = RoomsWithout(t), UNCHANGED <<connected, live>>
      PROVE  AsPromised
  <2>1. t \in Sockets
    BY DEF findClientByUsername, MembershipInv, StateTypeOK
  <2> QED BY <1>2, <2>1, DepartureAsPromised
<1> QED BY <1>1, <1>2 DEF handleKickCommand, Reply

LEMMA ChangePasswordAsPromised ==
    ASSUME MembershipInv, NEW s \in connected,
           NEW password \in Passwords \cup {NoPassword},
           handleChangePasswordCommand(s, password)
    PROVE  AsPromised
<1> DEFINE r == clients[s].roomId
<1>1. CASE UNCHANGED state
  BY <1>1, Stays DEF state, memory
<1>2. CASE /\ r \in live
           /\ chatRooms' = [chatRooms EXCEPT ![r] = SetPassword(@, password)]
           /\ UNCHANGED <<connected, live>>
  <2>1. StateTypeOK /\ s \in Sockets
    BY DEF MembershipInv, StateTypeOK
  <2>2. \A q \in live : chatRooms'[q].clients = chatRooms[q].clients
    BY <1>2, <2>1, MethodEffects DEF StateTypeOK
  <2> QED BY <1>2, <2>2, Stays
<1> QED BY <1>1, <1>2 DEF handleChangePasswordCommand, Reply

LEMMA BroadcastAsPromised ==
    ASSUME MembershipInv, broadcastMessages
    PROVE  AsPromised
<1> DEFINE m == Head(messageQueue)
           line == <<m.senderName, m.content>>
<1>1. UNCHANGED <<connected, live>>
  BY DEF broadcastMessages
<1>2. CASE UNCHANGED chatRooms
  BY <1>1, <1>2, Stays
<1>3. CASE /\ m.roomId \in live
           /\ chatRooms' = [chatRooms EXCEPT ![m.roomId] = AddMessageToHistory(@, line)]
  <2>1. StateTypeOK
    BY DEF MembershipInv
  <2>2. \A q \in live : chatRooms'[q].clients = chatRooms[q].clients
    BY <1>3, <2>1 DEF StateTypeOK, Room, AddMessageToHistory
  <2> QED BY <1>1, <2>2, Stays
<1> QED BY <1>2, <1>3
        DEF broadcastMessages, DropMessage, DeliverPrivate, DeliverPublic

LEMMA CleanupAsPromised ==
    ASSUME MembershipInv, NEW r \in RoomIds, cleanupEmptyRoom(r)
    PROVE  AsPromised
<1>1. connected' = connected
  BY DEF cleanupEmptyRoom
<1>2. CASE UNCHANGED <<live, chatRooms>>
  BY <1>1, <1>2, Stays
<1>3. CASE r \in live /\ chatRooms[r].clients = {} /\ EraseRoom(r, chatRooms)
  <2>1. live' = live \ {r}
    BY <1>3 DEF EraseRoom
  <2>2. \A q \in live' : chatRooms'[q].clients = chatRooms[q].clients
    BY <1>3 DEF EraseRoom, MembershipInv, StateTypeOK
  <2> QED BY <1>1, <1>3, <2>1, <2>2, Empties DEF MembershipInv
<1> QED BY <1>2, <1>3 DEF cleanupEmptyRoom

LEMMA DisconnectAsPromised ==
    ASSUME MembershipInv, NEW s \in connected, handleClientDisconnect(s)
    PROVE  AsPromised
<1>0. s \in Sockets /\ StateTypeOK /\ MembersKnowTheirRoom
  BY DEF MembershipInv, StateTypeOK
<1>1. connected' = connected \ {s}
  BY DEF handleClientDisconnect
<1>2. CASE LeavesRoomEmpty(s)
  <2> DEFINE r == clients[s].roomId
  <2>1. r \in live /\ chatRooms[r].clients \subseteq {s}
    BY <1>2 DEF LeavesRoomEmpty
  <2>2. live' = live \ {r} /\ chatRooms' = [RoomsWithout(s) EXCEPT ![r] = NoRoomObject]
    BY <1>2 DEF handleClientDisconnect, EraseRoom
  <2>3. \A q \in live' : chatRooms'[q] = RoomsWithout(s)[q]
    BY <1>0, <2>2, RoomsWithoutType DEF StateTypeOK
  <2>4. \A q \in live' : chatRooms'[q].clients = chatRooms[q].clients \ {s}
    BY <1>0, <2>2, <2>3, RoomsWithoutEffect
  <2> QED BY <1>0, <1>1, <2>1, <2>2, <2>4, HangsUp
<1>3. CASE ~LeavesRoomEmpty(s)
  <2>1. chatRooms' = RoomsWithout(s) /\ live' = live
    BY <1>3 DEF handleClientDisconnect
  <2>2. \A q \in live' : chatRooms'[q].clients = chatRooms[q].clients \ {s}
    BY <1>0, <2>1, RoomsWithoutEffect
  <2> QED BY <1>0, <1>1, <2>1, <2>2, HangsUp
<1> QED BY <1>2, <1>3

LEMMA ClientMessageAsPromised ==
    ASSUME FreshIds, MembershipInv, NEW s \in connected, handleClientMessage(s)
    PROVE  AsPromised
<1>0. s \in Sockets /\ StateTypeOK
  BY DEF MembershipInv, StateTypeOK
<1>1. ASSUME UNCHANGED <<connected, live, chatRooms>> PROVE AsPromised
  BY <1>1, Stays
<1>2. ASSUME NEW name \in Usernames,
             handleSetNameCommand(s, name) \/ handlePrivateMessage(s, name)
      PROVE  AsPromised
  BY <1>1, <1>2 DEF handleSetNameCommand, handlePrivateMessage, Enqueue, Reply, state, memory
<1>3. ASSUME NEW name \in Usernames,
             \/ handleKickCommand(s, name) \/ handleBanCommand(s, name)
             \/ handleTransferCommand(s, name)
      PROVE  AsPromised
  BY <1>3, KickAsPromised, BanAsPromised, TransferAsPromised
<1>4. ASSUME NEW isPrivate \in BOOLEAN, NEW password \in Passwords \cup {NoPassword},
             handleCreateCommand(s, isPrivate, password)
      PROVE  AsPromised
  BY <1>1, <1>4, CreateAsPromised DEF handleCreateCommand, Reply, state, memory
<1>5. ASSUME NEW password \in Passwords \cup {NoPassword},
             handleChangePasswordCommand(s, password)
      PROVE  AsPromised
  BY <1>5, ChangePasswordAsPromised
<1>6. ASSUME NEW password \in Passwords \cup {NoPassword}, NEW r \in RoomIds,
             handleJoinCommand(s, r, password)
      PROVE  AsPromised
  BY <1>1, <1>6, JoinAsPromised DEF handleJoinCommand, MayJoin, Reply, state, memory
<1>7. CASE handleLeaveCommand(s)
  BY <1>0, <1>1, <1>7, DepartureAsPromised DEF handleLeaveCommand, Reply, state, memory
<1>8. CASE handleForceLeaveCommand(s)
  BY <1>8, ForceLeaveAsPromised
<1>9. CASE handleListCommand(s) \/ handleUsersCommand(s) \/ handleGetPasswordCommand(s)
  BY <1>1, <1>9
     DEF handleListCommand, handleUsersCommand, handleGetPasswordCommand, Reply, state, memory
<1>10. CASE handleChatMessage(s)
  BY <1>1, <1>10 DEF handleChatMessage, Enqueue, Reply, state, memory
<1> QED BY <1>2, <1>3, <1>4, <1>5, <1>6, <1>7, <1>8, <1>9, <1>10 DEF handleClientMessage

LEMMA NextAsPromised == FreshIds /\ MembershipInv /\ [Next]_vars => AsPromised
<1> SUFFICES ASSUME FreshIds, MembershipInv, [Next]_vars PROVE AsPromised
  OBVIOUS
<1>1. ASSUME NEW s \in Sockets, Accept(s) PROVE AsPromised
  BY <1>1, AcceptAsPromised
<1>2. ASSUME NEW s \in connected, handleClientMessage(s) \/ handleClientDisconnect(s)
      PROVE  AsPromised
  BY <1>2, ClientMessageAsPromised, DisconnectAsPromised
<1>3. CASE broadcastMessages
  BY <1>3, BroadcastAsPromised
<1>4. ASSUME NEW r \in RoomIds, cleanupEmptyRoom(r) PROVE AsPromised
  BY <1>4, CleanupAsPromised
<1>5. CASE Restart \/ \E r \in RoomIds : CrashInDelete(r)
  BY <1>5, NewProcessAsPromised DEF Restart, CrashInDelete
<1>6. CASE Tick \/ UNCHANGED vars
  BY <1>6, Stays DEF Tick, vars, state, memory
<1> QED BY <1>1, <1>2, <1>3, <1>4, <1>5, <1>6 DEF Next

LEMMA InitAsPromised == Init => Membership!Init
BY DEF Init, Membership!Init

\* Drawn room ids being fresh, the server does what RoomMembership promises: a client
\* is in one room at most, enters rooms that exist while it is connected, and a room
\* goes only when nobody is left in it.
THEOREM ServerImplementsMembership == FreshIds => (Spec => ImplementsMembership)
<1>1. SUFFICES ASSUME FreshIds PROVE Spec => ImplementsMembership
  OBVIOUS
<1>2. MembershipInv /\ [Next]_vars => [Membership!Next]_(Membership!vars)
  BY <1>1, NextAsPromised DEF AsPromised
<1> QED BY <1>2, InitAsPromised, InitMembership, NextMembership, PTL
        DEF Spec, ImplementsMembership, Membership!Spec

(***************************************************************************)
(* Ranks, for whom FORCELEAVE finds and for the lines a history returns.    *)
(***************************************************************************)
\* Where of two elements one always comes before the other, every number up to the
\* size of the set counts what comes before some element.
LEMMA EveryRank ==
    ASSUME NEW S, IsFiniteSet(S), NEW B \in [S -> SUBSET S],
           \A i \in S : i \notin B[i],
           \A i, j \in S : i # j => \/ i \in B[j] /\ B[i] \subseteq B[j]
                                    \/ j \in B[i] /\ B[j] \subseteq B[i],
           NEW n \in 1 .. Cardinality(S)
    PROVE  \E i \in S : Cardinality(B[i]) = n - 1
<1> DEFINE T == 1 .. Cardinality(S)
           rank == [i \in S |-> Cardinality(B[i]) + 1]
<1>1. Cardinality(S) \in Nat /\ IsFiniteSet(T) /\ Cardinality(T) = Cardinality(S)
  BY FS_CardinalityType, FS_Interval
<1>2. ASSUME NEW i \in S
      PROVE  /\ IsFiniteSet(B[i]) /\ Cardinality(B[i]) \in Nat
             /\ Cardinality(B[i]) < Cardinality(S)
  <2>1. B[i] \in SUBSET S /\ B[i] # S
    OBVIOUS
  <2>2. /\ IsFiniteSet(B[i]) /\ Cardinality(B[i]) <= Cardinality(S)
        /\ Cardinality(B[i]) # Cardinality(S)
    BY <2>1, FS_Subset
  <2>3. Cardinality(B[i]) \in Nat
    BY <2>2, FS_CardinalityType
  <2> QED BY <1>1, <2>2, <2>3
<1>3. rank \in [S -> T]
  BY <1>1, <1>2
<1>4. ASSUME NEW i \in S, NEW j \in S, i # j, i \in B[j], B[i] \subseteq B[j]
      PROVE  rank[i] # rank[j]
  <2>1. B[i] # B[j]
    BY <1>4
  <2>2. Cardinality(B[i]) # Cardinality(B[j])
    BY <1>2, <1>4, <2>1, FS_Subset
  <2> QED BY <1>2, <2>2
<1>5. rank \in Injection(S, T)
  <2>1. \A i, j \in S : i # j => rank[i] # rank[j]
    BY <1>4
  <2> HIDE DEF rank
  <2> QED BY <1>3, <2>1 DEF Injection, IsInjective
<1>6. rank \in Surjection(S, T)
  <2> HIDE DEF rank, T
  <2> QED BY <1>1, <1>5, FS_Injection
<1>7. PICK i \in S : rank[i] = n
  <2> HIDE DEF rank
  <2> QED BY <1>6 DEF Surjection
<1> QED BY <1>2, <1>7

(***************************************************************************)
(* The order in which the members joined: what FORCELEAVE needs to find     *)
(* somebody to hand the room to.                                            *)
(***************************************************************************)
\* The members are finitely many, and earlier orders them strictly and totally.
Orderly(room) ==
    /\ IsFiniteSet(room.clients)
    /\ \A s \in room.clients : <<s, s>> \notin room.earlier
    /\ \A s, t \in room.clients :
          s # t => <<s, t>> \in room.earlier \/ <<t, s>> \in room.earlier
    /\ \A s, t, u \in room.clients :
          <<s, t>> \in room.earlier /\ <<t, u>> \in room.earlier => <<s, u>> \in room.earlier

AllOrderly(rooms) == \A r \in RoomIds : Orderly(rooms[r])
JoinOrder == AllOrderly(chatRooms)

LEMMA NewRoomIsOrderly ==
    ASSUME NEW isPrivate, NEW password, NEW owner
    PROVE  Orderly(NewRoom(isPrivate, password, owner))
BY FS_EmptySet DEF Orderly, NewRoom

LEMMA AddIsOrderly ==
    ASSUME NEW room \in Room, NEW s \in Sockets, Orderly(room)
    PROVE  Orderly(AddClient(room, s))
<1> DEFINE after == AddClient(room, s)
           E == {p \in room.earlier : p[1] # s /\ p[2] # s}
                    \cup ((room.clients \ {s}) \X {s})
<1>1. after.clients = room.clients \cup {s} /\ after.earlier = E
  BY DEF AddClient, Room
<1>2. \A u, v : <<u, v>> \in E <=> \/ <<u, v>> \in room.earlier /\ u # s /\ v # s
                                   \/ u \in room.clients \ {s} /\ v = s
  OBVIOUS
<1> HIDE DEF after, E
<1>3. IsFiniteSet(room.clients)
  BY DEF Orderly
<1>4. IsFiniteSet(room.clients \cup {s})
  BY <1>3, FS_AddElement
<1> QED BY <1>1, <1>2, <1>4 DEF Orderly, after

LEMMA RemoveIsOrderly ==
    ASSUME NEW room \in Room, NEW s \in Sockets, Orderly(room)
    PROVE  Orderly(RemoveClient(room, s))
<1> DEFINE after == RemoveClient(room, s)
<1>1. /\ after.clients = room.clients \ {s}
      /\ after.earlier = {p \in room.earlier : p[1] # s /\ p[2] # s}
  BY DEF RemoveClient, Room
<1>2. IsFiniteSet(room.clients)
  BY DEF Orderly
<1>3. IsFiniteSet(room.clients \ {s})
  BY <1>2, FS_RemoveElement
<1> HIDE DEF after
<1> QED BY <1>1, <1>3 DEF Orderly, after

\* The methods that keep the members and their order.
LEMMA OthersAreOrderly ==
    ASSUME NEW room \in Room, Orderly(room), NEW any
    PROVE  /\ Orderly(SetOwner(room, any))
           /\ Orderly(BanUser(room, any))
           /\ Orderly(SetPassword(room, any))
           /\ Orderly(AddMessageToHistory(room, any))
<1>1. ASSUME NEW after, after.clients = room.clients, after.earlier = room.earlier
      PROVE  Orderly(after)
  BY <1>1 DEF Orderly
<1>2. \A after \in {SetOwner(room, any), BanUser(room, any), SetPassword(room, any),
                    AddMessageToHistory(room, any)} :
          after.clients = room.clients /\ after.earlier = room.earlier
  BY DEF Room, SetOwner, BanUser, SetPassword, AddMessageToHistory
<1> QED BY <1>1, <1>2

LEMMA OneRoomChanges ==
    ASSUME NEW rooms \in [RoomIds -> Room], AllOrderly(rooms), NEW r, NEW room, Orderly(room)
    PROVE  AllOrderly([rooms EXCEPT ![r] = room])
BY DEF AllOrderly

LEMMA WithoutIsOrderly ==
    ASSUME StateTypeOK, JoinOrder, NEW s \in Sockets
    PROVE  AllOrderly(RoomsWithout(s))
<1> DEFINE r == clients[s].roomId
<1>1. chatRooms \in [RoomIds -> Room] /\ live \subseteq RoomIds /\ AllOrderly(chatRooms)
  BY DEF StateTypeOK, JoinOrder
<1>2. ASSUME r \in live PROVE Orderly(RemoveClient(chatRooms[r], s))
  BY <1>1, <1>2, RemoveIsOrderly DEF AllOrderly
<1> QED BY <1>1, <1>2, OneRoomChanges DEF RoomsWithout

LEMMA NoRoomsAreOrderly == AllOrderly(NoRooms)
BY NewRoomIsOrderly DEF AllOrderly, NoRooms, NoRoomObject

\* The steps that change the rooms, by how they do.
LEMMA RoomsStayOrderly ==
    ASSUME StateTypeOK, JoinOrder, NEW rooms \in [RoomIds -> Room], AllOrderly(rooms),
           NEW r,
           \/ chatRooms' = rooms
           \/ \E t \in Sockets : \/ chatRooms' = [rooms EXCEPT ![r] = AddClient(@, t)]
                                 \/ chatRooms' = [rooms EXCEPT ![r] = SetOwner(@, t)]
           \/ \E name : chatRooms' = [rooms EXCEPT ![r] = BanUser(@, name)]
           \/ \E password : chatRooms' = [rooms EXCEPT ![r] = SetPassword(@, password)]
           \/ \E line : chatRooms' = [rooms EXCEPT ![r] = AddMessageToHistory(@, line)]
           \/ chatRooms' = [rooms EXCEPT ![r] = NoRoomObject]
           \/ \E isPrivate, password : \E t \in Sockets :
                chatRooms' = [rooms EXCEPT
                                ![r] = AddClient(NewRoom(isPrivate, password, t), t)]
                /\ NewRoom(isPrivate, password, t) \in Room
    PROVE  JoinOrder'
<1>1. CASE r \notin RoomIds
  <2>1. chatRooms' = rooms
    BY <1>1
  <2> QED BY <2>1 DEF JoinOrder, AllOrderly
<1>2. CASE r \in RoomIds
  <2>1. rooms[r] \in Room /\ Orderly(rooms[r])
    BY <1>2 DEF AllOrderly
  <2>2. ASSUME NEW room, Orderly(room), chatRooms' = [rooms EXCEPT ![r] = room]
        PROVE  JoinOrder'
    BY <2>2, OneRoomChanges DEF JoinOrder, AllOrderly
  <2>3. CASE chatRooms' = rooms
    BY <2>3 DEF JoinOrder, AllOrderly
  <2>4. ASSUME NEW t \in Sockets, \/ chatRooms' = [rooms EXCEPT ![r] = AddClient(@, t)]
                                  \/ chatRooms' = [rooms EXCEPT ![r] = SetOwner(@, t)]
        PROVE  JoinOrder'
    BY <2>1, <2>2, <2>4, AddIsOrderly, OthersAreOrderly
  <2>5. ASSUME NEW any, \/ chatRooms' = [rooms EXCEPT ![r] = BanUser(@, any)]
                        \/ chatRooms' = [rooms EXCEPT ![r] = SetPassword(@, any)]
                        \/ chatRooms' = [rooms EXCEPT ![r] = AddMessageToHistory(@, any)]
        PROVE  JoinOrder'
    BY <2>1, <2>2, <2>5, OthersAreOrderly
  <2>6. CASE chatRooms' = [rooms EXCEPT ![r] = NoRoomObject]
    BY <2>2, <2>6, NewRoomIsOrderly DEF NoRoomObject
  <2>7. ASSUME NEW isPrivate, NEW password, NEW t \in Sockets,
               NewRoom(isPrivate, password, t) \in Room,
               chatRooms' = [rooms EXCEPT
                                ![r] = AddClient(NewRoom(isPrivate, password, t), t)]
        PROVE  JoinOrder'
    BY <2>2, <2>7, NewRoomIsOrderly, AddIsOrderly
  <2> QED BY <2>3, <2>4, <2>5, <2>6, <2>7
<1> QED BY <1>1, <1>2

(***************************************************************************)
(* Every step keeps the members in order.                                   *)
(***************************************************************************)
LEMMA ClientMessageOrder ==
    ASSUME StateTypeOK, JoinOrder, NEW s \in connected, handleClientMessage(s)
    PROVE  JoinOrder'
<1> DEFINE r == clients[s].roomId
<1>0. /\ s \in Sockets /\ connected \subseteq Sockets
      /\ chatRooms \in [RoomIds -> Room] /\ AllOrderly(chatRooms)
  BY DEF StateTypeOK, JoinOrder
<1>1. ASSUME NEW t \in connected
      PROVE  RoomsWithout(t) \in [RoomIds -> Room] /\ AllOrderly(RoomsWithout(t))
  BY <1>0, RoomsWithoutType, WithoutIsOrderly
<1>2. ASSUME UNCHANGED chatRooms PROVE JoinOrder'
  BY <1>2 DEF JoinOrder, AllOrderly
<1>3. ASSUME NEW t \in connected, chatRooms' = RoomsWithout(t) PROVE JoinOrder'
  BY <1>1, <1>3 DEF JoinOrder, AllOrderly
<1>4. ASSUME NEW name, \/ handleSetNameCommand(s, name) \/ handlePrivateMessage(s, name)
      PROVE  JoinOrder'
  BY <1>2, <1>4 DEF handleSetNameCommand, handlePrivateMessage, Enqueue, Reply, state, memory
<1>5. ASSUME NEW name, handleKickCommand(s, name) PROVE JoinOrder'
  <2>1. findClientByUsername(name, r) \subseteq connected
    BY DEF findClientByUsername
  <2> QED BY <1>2, <1>3, <1>5, <2>1 DEF handleKickCommand, Reply, state, memory
<1>6. ASSUME NEW name, handleBanCommand(s, name) PROVE JoinOrder'
  <2>1. findClientByUsername(name, r) \subseteq connected
    BY DEF findClientByUsername
  <2>2. ASSUME NEW rooms \in [RoomIds -> Room], AllOrderly(rooms),
               chatRooms' = Ban(r, rooms, name)
        PROVE  JoinOrder'
    BY <2>2, RoomsStayOrderly DEF Ban
  <2> QED BY <1>0, <1>1, <1>2, <1>6, <2>1, <2>2 DEF handleBanCommand, Reply, state, memory
<1>7. ASSUME NEW name, handleTransferCommand(s, name) PROVE JoinOrder'
  <2>1. findClientByUsername(name, r) \subseteq Sockets
    BY <1>0 DEF findClientByUsername
  <2>2. CASE UNCHANGED chatRooms
    BY <1>2, <2>2
  <2>3. ASSUME NEW t \in Sockets, r \in live, chatRooms' = [chatRooms EXCEPT ![r] = SetOwner(@, t)]
        PROVE  JoinOrder'
    BY <1>0, <1>2, <2>3, RoomsStayOrderly
  <2> QED BY <1>7, <2>1, <2>2, <2>3 DEF handleTransferCommand, Reply, state, memory
<1>8. ASSUME NEW isPrivate \in BOOLEAN, NEW password \in Passwords \cup {NoPassword},
             handleCreateCommand(s, isPrivate, password)
      PROVE  JoinOrder'
  <2>1. NewRoom(isPrivate, password, s) \in Room
    BY <1>0, NewRoomType
  <2>2. ASSUME NEW q \in RoomIds, CreateRoom(s, isPrivate, password, q) PROVE JoinOrder'
    BY <1>0, <1>1, <2>1, <2>2, RoomsStayOrderly DEF CreateRoom
  <2> QED BY <1>2, <1>8, <2>2 DEF handleCreateCommand, Reply, state, memory
<1>9. ASSUME NEW password, handleChangePasswordCommand(s, password) PROVE JoinOrder'
  BY <1>0, <1>2, <1>9, RoomsStayOrderly DEF handleChangePasswordCommand, Reply, state, memory
<1>10. ASSUME NEW password, NEW q \in RoomIds, handleJoinCommand(s, q, password)
       PROVE  JoinOrder'
  <2>1. ASSUME JoinRoom(s, q) PROVE JoinOrder'
    BY <1>0, <1>1, <2>1, RoomsStayOrderly DEF JoinRoom
  <2> QED BY <1>2, <1>10, <2>1 DEF handleJoinCommand, Reply, state, memory
<1>11. CASE handleLeaveCommand(s)
  BY <1>2, <1>3, <1>11 DEF handleLeaveCommand, Reply, state, memory
<1>12. CASE handleForceLeaveCommand(s)
  <2>1. ASSUME NEW t \in connected,
               chatRooms' = [RoomsWithout(s) EXCEPT ![r] = SetOwner(@, t)]
        PROVE  JoinOrder'
    BY <1>0, <1>1, <2>1, RoomsStayOrderly
  <2> QED BY <1>2, <1>3, <1>12, <2>1 DEF handleForceLeaveCommand, Reply, state, memory
<1>13. CASE \/ handleListCommand(s) \/ handleUsersCommand(s)
            \/ handleGetPasswordCommand(s) \/ handleChatMessage(s)
  BY <1>2, <1>13 DEF handleListCommand, handleUsersCommand, handleGetPasswordCommand,
                     handleChatMessage, Enqueue, Reply, state, memory
<1> QED BY <1>4, <1>5, <1>6, <1>7, <1>8, <1>9, <1>10, <1>11, <1>12, <1>13
        DEF handleClientMessage

LEMMA NextOrder == ASSUME StateTypeOK, JoinOrder, [Next]_vars PROVE JoinOrder'
<1>0. chatRooms \in [RoomIds -> Room] /\ AllOrderly(chatRooms) /\ connected \subseteq Sockets
  BY DEF StateTypeOK, JoinOrder
<1>1. ASSUME UNCHANGED chatRooms PROVE JoinOrder'
  BY <1>1 DEF JoinOrder, AllOrderly
<1>2. ASSUME NEW s \in connected, handleClientMessage(s) PROVE JoinOrder'
  BY <1>2, ClientMessageOrder
<1>3. ASSUME NEW s \in connected, handleClientDisconnect(s) PROVE JoinOrder'
  <2>1. RoomsWithout(s) \in [RoomIds -> Room] /\ AllOrderly(RoomsWithout(s))
    BY <1>0, RoomsWithoutType, WithoutIsOrderly
  <2> QED BY <1>3, <2>1, RoomsStayOrderly DEF handleClientDisconnect, EraseRoom
<1>4. CASE broadcastMessages
  <2> DEFINE m == Head(messageQueue)
  <2>1. CASE DeliverPublic(m)
    BY <1>0, <2>1, RoomsStayOrderly DEF DeliverPublic
  <2> QED BY <1>1, <1>4, <2>1 DEF broadcastMessages, DropMessage, DeliverPrivate
<1>5. ASSUME NEW r \in RoomIds, cleanupEmptyRoom(r) PROVE JoinOrder'
  BY <1>0, <1>1, <1>5, RoomsStayOrderly DEF cleanupEmptyRoom, EraseRoom
<1>6. CASE NewProcess
  BY <1>6, NoRoomsAreOrderly DEF NewProcess, JoinOrder, AllOrderly
<1>7. ASSUME NEW s \in Sockets, Accept(s) PROVE JoinOrder'
  BY <1>1, <1>7 DEF Accept
<1>8. CASE Tick \/ UNCHANGED vars
  BY <1>1, <1>8 DEF Tick, vars, state, memory
<1> QED BY <1>2, <1>3, <1>4, <1>5, <1>6, <1>7, <1>8 DEF Next, Restart, CrashInDelete

LEMMA InitOrder == Init => JoinOrder
BY NoRoomsAreOrderly DEF Init, JoinOrder

(***************************************************************************)
(* FORCELEAVE finds a successor whenever somebody else is in the room.      *)
(***************************************************************************)
LEMMA SomeMinimum ==
    ASSUME NEW S, IsFiniteSet(S), S # {}, NEW B \in [S -> SUBSET S],
           \A i \in S : i \notin B[i],
           \A i, j \in S : i # j => \/ i \in B[j] /\ B[i] \subseteq B[j]
                                    \/ j \in B[i] /\ B[j] \subseteq B[i]
    PROVE  \E i \in S : B[i] = {}
<1>1. Cardinality(S) \in Nat /\ Cardinality(S) # 0
  BY FS_CardinalityType, FS_EmptySet
<1>2. 1 \in 1 .. Cardinality(S)
  BY <1>1
<1>3. PICK i \in S : Cardinality(B[i]) = 1 - 1
  BY <1>2, EveryRank
<1>4. IsFiniteSet(B[i])
  BY FS_Subset
<1> QED BY <1>3, <1>4, FS_EmptySet

LEMMA SomeSuccessor ==
    ASSUME NEW room \in Room, Orderly(room), NEW s \in room.clients,
           room.clients \ {s} # {}
    PROVE  Successors(room, s) # {}
<1> DEFINE S == room.clients
           others == S \ {s}
<1>0. IsFiniteSet(S) /\ S \subseteq Sockets /\ S # {}
  BY DEF Orderly, Room
<1>1. ~(Cardinality(S) <= 1)
  <2>1. Cardinality(S) \in Nat
    BY <1>0, FS_CardinalityType
  <2>2. Cardinality(S) # 0
    BY <1>0, FS_EmptySet
  <2>3. Cardinality(S) # 1
    BY <1>0, FS_Singleton
  <2> QED BY <2>1, <2>2, <2>3
<1>2. LongestMember(room) # {}
  <2> DEFINE B == [i \in S |-> {t \in S : <<t, i>> \in room.earlier}]
  <2>1. B \in [S -> SUBSET S] /\ \A i \in S : i \notin B[i]
    BY DEF Orderly
  <2>2. \A i, j \in S : i # j => \/ i \in B[j] /\ B[i] \subseteq B[j]
                                 \/ j \in B[i] /\ B[j] \subseteq B[i]
    <3> SUFFICES ASSUME NEW i \in S, NEW j \in S, i # j
                 PROVE  \/ i \in B[j] /\ B[i] \subseteq B[j]
                        \/ j \in B[i] /\ B[j] \subseteq B[i]
      OBVIOUS
    <3>1. <<i, j>> \in room.earlier \/ <<j, i>> \in room.earlier
      BY DEF Orderly
    <3>2. \A t, u, v \in S : <<t, u>> \in room.earlier /\ <<u, v>> \in room.earlier
                                => <<t, v>> \in room.earlier
      BY DEF Orderly
    <3>3. \A t, u \in S : t \in B[u] <=> <<t, u>> \in room.earlier
      OBVIOUS
    <3>4. B[i] \subseteq S /\ B[j] \subseteq S
      OBVIOUS
    <3> HIDE DEF B, S
    <3> QED BY <3>1, <3>2, <3>3, <3>4
  <2>3. \E i \in S : B[i] = {}
    <3> HIDE DEF B, S
    <3> QED BY <1>0, <2>1, <2>2, SomeMinimum
  <2> QED BY <2>3 DEF LongestMember
<1>3. \E m \in others : \A t \in others : m <= t
  <2> DEFINE B == [i \in others |-> {t \in others : t < i}]
  <2>0. others \subseteq Nat
    BY <1>0, SocketsAssumption
  <2>1. B \in [others -> SUBSET others] /\ \A i \in others : i \notin B[i]
    BY <2>0
  <2>2. \A i, j \in others : i # j => \/ i \in B[j] /\ B[i] \subseteq B[j]
                                      \/ j \in B[i] /\ B[j] \subseteq B[i]
    BY <2>0
  <2>3. IsFiniteSet(others)
    BY <1>0, FS_RemoveElement
  <2>4. others # {}
    OBVIOUS
  <2>5. PICK i \in others : B[i] = {}
    <3> HIDE DEF B, others
    <3> QED BY <2>1, <2>2, <2>3, <2>4, SomeMinimum
  <2>6. \A t \in others : ~(t < i)
    BY <2>5
  <2> QED BY <2>0, <2>6
<1> QED BY <1>1, <1>2, <1>3 DEF Successors

(***************************************************************************)
(* OnlyOwnersWalkingOutOrphan, one lemma per way in which a step moves the  *)
(* owners.                                                                  *)
(***************************************************************************)
WalkOut(r, s) ==
    /\ clients[s].roomId = r /\ clients[s].isRoomOwner
    /\ s \notin connected' \/ clients'[s].roomId \notin {r, NoRoom}

\* What the property says of a step and a room.
NoOrphan(r) ==
    HasOwner(r) /\ ~HasOwner(r)' /\ chatRooms'[r].clients # {}
        => \E s \in connected : WalkOut(r, s)

NoOrphans == \A r \in live \cap live' : NoOrphan(r)

\* Every owner keeps its room and its flag.
LEMMA OwnersStay ==
    ASSUME \A u \in connected : clients[u].isRoomOwner =>
                /\ u \in connected' /\ clients'[u].isRoomOwner
                /\ clients'[u].roomId = clients[u].roomId
    PROVE  NoOrphans
BY DEF NoOrphans, NoOrphan, HasOwner

\* One client leaves its room for good, without a word to the others.
LEMMA OneWalks ==
    ASSUME NEW s \in connected,
           \A u \in connected \ {s} : u \in connected' /\ clients'[u] = clients[u],
           \/ ~clients[s].isRoomOwner
           \/ s \notin connected'
           \/ clients'[s].roomId \notin {clients[s].roomId, NoRoom}
    PROVE  NoOrphans
<1> SUFFICES ASSUME NEW r \in live \cap live', HasOwner(r), ~HasOwner(r)'
             PROVE  \E o \in connected : WalkOut(r, o)
  BY DEF NoOrphans, NoOrphan
<1>1. PICK o \in connected : clients[o].roomId = r /\ clients[o].isRoomOwner
  BY DEF HasOwner
<1>2. o = s
  BY <1>1 DEF HasOwner
<1> QED BY <1>1, <1>2 DEF WalkOut

\* An owner s hands its room over to t, and stays or goes.
LEMMA HandsOver ==
    ASSUME NEW s \in connected, NEW t \in connected, s # t, UNCHANGED connected,
           clients[t].roomId = clients[s].roomId,
           clients'[t].roomId = clients[s].roomId, clients'[t].isRoomOwner,
           \A u \in connected \ {s, t} : clients'[u] = clients[u]
    PROVE  NoOrphans
<1> SUFFICES ASSUME NEW r \in live \cap live', HasOwner(r) PROVE HasOwner(r)'
  BY DEF NoOrphans, NoOrphan
<1>1. PICK o \in connected : clients[o].roomId = r /\ clients[o].isRoomOwner
  BY DEF HasOwner
<1>2. CASE r = clients[s].roomId
  BY <1>2 DEF HasOwner
<1>3. CASE r # clients[s].roomId
  <2>1. clients'[o] = clients[o]
    BY <1>1, <1>3
  <2> QED BY <1>1, <2>1 DEF HasOwner
<1> QED BY <1>2, <1>3

\* An owner s expels a client t of its room, which is not the owner.
LEMMA OneExpelled ==
    ASSUME OwnerRecordsAgree, NEW s \in connected, NEW t \in connected, s # t,
           clients[s].isRoomOwner, clients[t].roomId = clients[s].roomId,
           UNCHANGED connected, \A u \in connected \ {t} : clients'[u] = clients[u]
    PROVE  NoOrphans
<1>1. ~clients[t].isRoomOwner
  BY DEF OwnerRecordsAgree
<1> QED BY <1>1, OwnersStay

\* The last one leaves.
LEMMA EmptyAfter ==
    ASSUME NEW s \in connected, UNCHANGED connected,
           \A u \in connected \ {s} : clients'[u] = clients[u],
           chatRooms'[clients[s].roomId].clients = {}
    PROVE  NoOrphans
<1> SUFFICES ASSUME NEW r \in live \cap live', HasOwner(r), chatRooms'[r].clients # {}
             PROVE  HasOwner(r)'
  BY DEF NoOrphans, NoOrphan
<1>1. PICK o \in connected : clients[o].roomId = r /\ clients[o].isRoomOwner
  BY DEF HasOwner
<1>2. o # s
  BY <1>1
<1> QED BY <1>1, <1>2 DEF HasOwner

OwnerInv == MembershipInv /\ JoinOrder

LEMMA KickOwners ==
    ASSUME StateTypeOK, OwnerRecordsAgree, NEW s \in connected, NEW name,
           handleKickCommand(s, name) \/ handleBanCommand(s, name)
    PROVE  NoOrphans
<1>1. CASE UNCHANGED <<connected, clients>>
  BY <1>1, OwnersStay
<1>2. ASSUME ~NotForOwnerToDo(s, name), UNCHANGED connected,
             NEW t \in findClientByUsername(name, clients[s].roomId),
             clients' = LeaveRoomRecord(t)
      PROVE  NoOrphans
  <2>1. /\ t \in connected /\ t \in Sockets /\ connected \subseteq Sockets
        /\ s # t /\ clients[t].roomId = clients[s].roomId /\ clients[s].isRoomOwner
    BY <1>2 DEF findClientByUsername, NotForOwnerToDo, IsOwnerInRoom, StateTypeOK
  <2>2. \A u \in connected \ {t} : clients'[u] = clients[u]
    BY <1>2, <2>1, LeaveRoomRecordEffect
  <2> QED BY <1>2, <2>1, <2>2, OneExpelled
<1> QED BY <1>1, <1>2 DEF handleKickCommand, handleBanCommand, Reply, state, memory

LEMMA TransferOwners ==
    ASSUME StateTypeOK, NEW s \in connected, NEW name, handleTransferCommand(s, name)
    PROVE  NoOrphans
<1>1. CASE UNCHANGED <<connected, clients>>
  BY <1>1, OwnersStay
<1>2. ASSUME ~NotForOwnerToDo(s, name), UNCHANGED connected,
             NEW t \in findClientByUsername(name, clients[s].roomId),
             clients' = [clients EXCEPT ![s] = [@ EXCEPT !.isRoomOwner = FALSE],
                                        ![t] = [@ EXCEPT !.isRoomOwner = TRUE]]
      PROVE  NoOrphans
  <2>1. /\ t \in connected /\ t \in Sockets /\ connected \subseteq Sockets
        /\ s # t /\ clients[t].roomId = clients[s].roomId
    BY <1>2 DEF findClientByUsername, NotForOwnerToDo, StateTypeOK
  <2>2. /\ clients[t] \in ClientInfo
        /\ clients'[t] = [clients[t] EXCEPT !.isRoomOwner = TRUE]
        /\ \A u \in connected \ {s, t} : clients'[u] = clients[u]
    BY <1>2, <2>1 DEF StateTypeOK
  <2>3. clients'[t].roomId = clients[s].roomId /\ clients'[t].isRoomOwner
    BY <2>1, <2>2 DEF ClientInfo
  <2> QED BY <1>2, <2>1, <2>2, <2>3, HandsOver
<1> QED BY <1>1, <1>2 DEF handleTransferCommand, Reply, state, memory

LEMMA ForceLeaveOwners ==
    ASSUME StateTypeOK, MembersKnowTheirRoom, RoomsKnowTheirMembers, JoinOrder,
           NEW s \in connected, handleForceLeaveCommand(s)
    PROVE  NoOrphans
<1> DEFINE r == clients[s].roomId
           successors == IF r \in live THEN Successors(chatRooms[r], s) \cap connected
                                       ELSE {}
<1>0. s \in Sockets /\ connected \subseteq Sockets /\ live \subseteq RoomIds
  BY DEF StateTypeOK
<1>1. CASE UNCHANGED <<connected, clients>>
  BY <1>1, OwnersStay
<1>2. ASSUME IsOwnerInRoom(s), successors = {}, UNCHANGED connected,
             chatRooms' = RoomsWithout(s), clients' = LeaveRoomRecord(s)
      PROVE  NoOrphans
  <2>1. r \in live /\ s \in chatRooms[r].clients
    BY <1>2 DEF RoomsKnowTheirMembers, IsOwnerInRoom
  <2>2. chatRooms[r] \in Room /\ Orderly(chatRooms[r])
    BY <1>0, <2>1 DEF StateTypeOK, JoinOrder, AllOrderly
  <2>3. Successors(chatRooms[r], s) \subseteq connected
    BY <2>1, SuccessorsAreMembers DEF MembersKnowTheirRoom
  <2>4. chatRooms[r].clients \ {s} = {}
    BY <1>2, <2>1, <2>2, <2>3, SomeSuccessor
  <2>5. chatRooms'[r].clients = {}
    BY <1>0, <1>2, <2>1, <2>4, RoomsWithoutEffect
  <2>6. \A u \in connected \ {s} : clients'[u] = clients[u]
    BY <1>0, <1>2, LeaveRoomRecordEffect
  <2> QED BY <1>2, <2>5, <2>6, EmptyAfter
<1>3. ASSUME NEW t \in successors, UNCHANGED connected,
             clients' = [LeaveRoomRecord(s) EXCEPT ![t] = [@ EXCEPT !.isRoomOwner = TRUE]]
      PROVE  NoOrphans
  <2>1. r \in live /\ t \in connected /\ t \in Sockets /\ t # s /\ clients[t].roomId = r
    BY <1>0, SuccessorsAreMembers DEF MembersKnowTheirRoom
  <2>2. /\ LeaveRoomRecord(s) \in [Sockets -> ClientInfo]
        /\ LeaveRoomRecord(s)[t] = clients[t] /\ clients[t] \in ClientInfo
    BY <1>0, <2>1, LeaveRoomRecordType, LeaveRoomRecordEffect DEF StateTypeOK
  <2>3. clients'[t] = [clients[t] EXCEPT !.isRoomOwner = TRUE]
    BY <1>3, <2>1, <2>2
  <2>4. clients'[t].roomId = r /\ clients'[t].isRoomOwner
    BY <2>1, <2>2, <2>3 DEF ClientInfo
  <2>5. \A u \in connected \ {s, t} : clients'[u] = clients[u]
    BY <1>0, <1>3, <2>2, LeaveRoomRecordEffect
  <2> QED BY <1>3, <2>1, <2>4, <2>5, HandsOver
<1> QED BY <1>1, <1>2, <1>3 DEF handleForceLeaveCommand, Reply, state, memory

\* JOIN goes to another room, and CREATE to one that did not exist.
LEMMA WalkersOwners ==
    ASSUME StateTypeOK, OwnerRecordsAgree, FreshIds, NEW s \in connected, NEW r \in RoomIds,
           \/ r # clients[s].roomId /\ JoinRoom(s, r)
           \/ \E isPrivate, password : CreateRoom(s, isPrivate, password, r)
    PROVE  NoOrphans
<1>1. /\ s \in Sockets /\ connected \subseteq Sockets /\ UNCHANGED connected
      /\ clients[s] \in ClientInfo /\ r # NoRoom
  BY RoomIdsAssumption DEF StateTypeOK, JoinRoom, CreateRoom
<1>2. PICK flag \in BOOLEAN :
        clients' = [clients EXCEPT ![s] = [@ EXCEPT !.roomId = r, !.isRoomOwner = flag]]
  BY DEF JoinRoom, CreateRoom
<1>3. \A u \in connected \ {s} : clients'[u] = clients[u]
  BY <1>1, <1>2 DEF StateTypeOK
<1>4. clients'[s].roomId = r
  <2>1. clients'[s] = [clients[s] EXCEPT !.roomId = r, !.isRoomOwner = flag]
    BY <1>1, <1>2 DEF StateTypeOK
  <2> QED BY <1>1, <2>1 DEF ClientInfo
<1>5. clients[s].isRoomOwner => r # clients[s].roomId
  BY DEF OwnerRecordsAgree, CreateRoom
<1> QED BY <1>1, <1>3, <1>4, <1>5, OneWalks

LEMMA LeaveOwners ==
    ASSUME StateTypeOK, NEW s \in connected, handleLeaveCommand(s)
    PROVE  NoOrphans
<1>1. CASE UNCHANGED <<connected, clients>>
  BY <1>1, OwnersStay
<1>2. CASE /\ UNCHANGED connected /\ ~clients[s].isRoomOwner
           /\ clients' = [clients EXCEPT ![s] = [@ EXCEPT !.roomId = NoRoom]]
  <2>1. \A u \in connected \ {s} : clients'[u] = clients[u]
    BY <1>2 DEF StateTypeOK
  <2> QED BY <1>2, <2>1, OneWalks
<1> QED BY <1>1, <1>2 DEF handleLeaveCommand, Reply, state, memory

LEMMA SetNameOwners ==
    ASSUME StateTypeOK, NEW s \in connected, NEW name, handleSetNameCommand(s, name)
    PROVE  NoOrphans
<1>1. CASE UNCHANGED <<connected, clients>>
  BY <1>1, OwnersStay
<1>2. CASE /\ UNCHANGED connected
           /\ clients' = [clients EXCEPT ![s] = [@ EXCEPT !.username = name]]
  <2>1. s \in Sockets /\ connected \subseteq Sockets
    BY DEF StateTypeOK
  <2>2. \A u \in connected : /\ clients'[u].isRoomOwner = clients[u].isRoomOwner
                             /\ clients'[u].roomId = clients[u].roomId
    BY <1>2, <2>1 DEF StateTypeOK, ClientInfo
  <2> QED BY <1>2, <2>2, OwnersStay
<1> QED BY <1>1, <1>2 DEF handleSetNameCommand, Reply, state, memory

LEMMA ClientMessageOwners ==
    ASSUME FreshIds, StateTypeOK, MembersKnowTheirRoom, RoomsKnowTheirMembers,
           OwnerRecordsAgree, JoinOrder, NEW s \in connected, handleClientMessage(s)
    PROVE  NoOrphans
<1>1. ASSUME UNCHANGED <<connected, clients>> PROVE NoOrphans
  BY <1>1, OwnersStay
<1>2. ASSUME NEW name, \/ handleSetNameCommand(s, name) \/ handleKickCommand(s, name)
                       \/ handleBanCommand(s, name) \/ handleTransferCommand(s, name)
      PROVE  NoOrphans
  BY <1>2, SetNameOwners, KickOwners, TransferOwners
<1>3. ASSUME NEW name, handlePrivateMessage(s, name) PROVE NoOrphans
  BY <1>1, <1>3 DEF handlePrivateMessage, Enqueue, Reply, state, memory
<1>4. ASSUME NEW isPrivate, NEW password, handleCreateCommand(s, isPrivate, password)
      PROVE  NoOrphans
  BY <1>1, <1>4, WalkersOwners DEF handleCreateCommand, Reply, state, memory
<1>5. ASSUME NEW password, NEW r \in RoomIds, handleJoinCommand(s, r, password)
      PROVE  NoOrphans
  BY <1>1, <1>5, WalkersOwners DEF handleJoinCommand, MayJoin, Reply, state, memory
<1>6. CASE handleLeaveCommand(s) \/ handleForceLeaveCommand(s)
  BY <1>6, LeaveOwners, ForceLeaveOwners
<1>7. ASSUME \/ \E password : handleChangePasswordCommand(s, password)
             \/ handleListCommand(s) \/ handleUsersCommand(s)
             \/ handleGetPasswordCommand(s) \/ handleChatMessage(s)
      PROVE  NoOrphans
  BY <1>1, <1>7 DEF handleChangePasswordCommand, handleListCommand, handleUsersCommand,
                    handleGetPasswordCommand, handleChatMessage, Enqueue, Reply, state, memory
<1> QED BY <1>2, <1>3, <1>4, <1>5, <1>6, <1>7 DEF handleClientMessage

LEMMA NextOwners ==
    ASSUME FreshIds, OwnerInv, [Next]_vars
    PROVE  NoOrphans
<1>0. /\ StateTypeOK /\ MembersKnowTheirRoom /\ RoomsKnowTheirMembers
      /\ OwnerRecordsAgree /\ JoinOrder
  BY DEF OwnerInv, MembershipInv
<1>1. ASSUME UNCHANGED <<connected, clients>> PROVE NoOrphans
  BY <1>1, OwnersStay
<1>2. ASSUME NEW s \in connected, handleClientMessage(s) PROVE NoOrphans
  BY <1>0, <1>2, ClientMessageOwners
<1>3. ASSUME NEW s \in connected, handleClientDisconnect(s) PROVE NoOrphans
  <2>1. /\ s \notin connected' /\ connected' = connected \ {s}
        /\ \A u \in connected \ {s} : clients'[u] = clients[u]
    BY <1>0, <1>3 DEF handleClientDisconnect, StateTypeOK
  <2> QED BY <2>1, OneWalks
<1>4. ASSUME NEW s \in Sockets, Accept(s) PROVE NoOrphans
  BY <1>0, <1>4, OwnersStay DEF Accept, StateTypeOK
<1>5. CASE broadcastMessages \/ \E r \in RoomIds : cleanupEmptyRoom(r)
  BY <1>1, <1>5 DEF broadcastMessages, cleanupEmptyRoom
<1>6. CASE NewProcess
  BY <1>6 DEF NewProcess, NoOrphans
<1>7. CASE Tick \/ UNCHANGED vars
  BY <1>1, <1>7 DEF Tick, vars, state, memory
<1> QED BY <1>2, <1>3, <1>4, <1>5, <1>6, <1>7 DEF Next, Restart, CrashInDelete

LEMMA InitOwners == Init => OwnerInv
BY InitMembership, InitOrder DEF OwnerInv

LEMMA OwnersInvariant == OwnerInv /\ [Next]_vars => OwnerInv'
BY NextMembership, NextOrder DEF OwnerInv, MembershipInv

\* Drawn room ids being fresh, a room that stays occupied loses its owner only when
\* that owner disconnects or goes to another room: whoever is in a room with its
\* owner, FORCELEAVE finds one of them to hand it to.
THEOREM RoomsKeepAnOwner == FreshIds => (Spec => OnlyOwnersWalkingOutOrphan)
<1> SUFFICES ASSUME FreshIds PROVE Spec => OnlyOwnersWalkingOutOrphan
  OBVIOUS
<1>1. OwnerInv /\ [Next]_vars =>
        \A r \in live \cap live' :
            HasOwner(r) /\ ~HasOwner(r)' /\ chatRooms'[r].clients # {} =>
                \E s \in connected :
                    /\ clients[s].roomId = r /\ clients[s].isRoomOwner
                    /\ s \notin connected' \/ clients'[s].roomId \notin {r, NoRoom}
  BY NextOwners DEF NoOrphans, NoOrphan, WalkOut
<1> QED BY <1>1, InitOwners, OwnersInvariant, PTL DEF Spec, OnlyOwnersWalkingOutOrphan
===============================================================================
