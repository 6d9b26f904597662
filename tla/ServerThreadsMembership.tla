------------------------ MODULE ServerThreadsMembership ------------------------
(***************************************************************************)
(* Membership between critical sections, proved for any number of clients,  *)
(* rooms and messages: whatever the threads do meanwhile, the main thread's *)
(* remaining program says which client is on its way and how far it is, and *)
(* every other client is where its record says.                             *)
(***************************************************************************)
EXTENDS ServerThreadsProofs

\* The instructions that change who is connected, whose socket is open, who is where or
\* how much has been typed, by their place in a handler; 0 for the others.
Rank(op) ==
    IF op \in {"register", "push", "join", "leave", "remove"} THEN 1
    ELSE IF op = "open" THEN 2
    ELSE IF op = "record" THEN 3
    ELSE IF op = "erase" THEN 4
    ELSE IF op = "forget" THEN 5
    ELSE IF op = "closesocket" THEN 6
    ELSE IF op = "closeSockets" THEN 7
    ELSE IF op = "clearRooms" THEN 8
    ELSE IF op = "clearClients" THEN 9
    ELSE 0

Matters(i) == Rank(i[1]) > 0

\* What a program will do to the maps, and that it does so in the order of the ranks.
Work(p) == {p[k] : k \in {j \in 1 .. Len(p) : Matters(p[j])}}

InOrder(p) ==
    \A j, k \in 1 .. Len(p) :
        j < k /\ Matters(p[j]) /\ Matters(p[k]) => Rank(p[j][1]) < Rank(p[k][1])

Before(v, w) == \A i \in v, j \in w : Rank(i[1]) < Rank(j[1])

Does(p, w) == p \in Programs /\ InOrder(p) /\ Work(p) = w

(***************************************************************************)
(* The work of programs.                                                    *)
(***************************************************************************)
LEMMA RankType == \A op : Rank(op) \in 0 .. 9
BY DEF Rank

LEMMA WorkIs ==
    \A p, i : i \in Work(p) <=> \E k \in 1 .. Len(p) : i = p[k] /\ Matters(p[k])
BY DEF Work

LEMMA SequelDoes ==
    ASSUME NEW p, NEW q, NEW v, NEW w, Does(p, v), Does(q, w), Before(v, w)
    PROVE  Does(p \o q, v \cup w)
<1>1. /\ p \in Programs /\ q \in Programs /\ p \o q \in Programs
      /\ Len(p) \in Nat /\ Len(q) \in Nat /\ Len(p \o q) = Len(p) + Len(q)
      /\ \A j \in 1 .. Len(p) : (p \o q)[j] = p[j]
      /\ \A j \in 1 .. Len(q) : (p \o q)[Len(p) + j] = q[j]
  BY DEF Does, Programs
<1>2. Work(p \o q) = v \cup w
  <2>1. ASSUME NEW i \in Work(p \o q) PROVE i \in v \cup w
    <3>1. PICK k \in 1 .. Len(p \o q) : i = (p \o q)[k] /\ Matters((p \o q)[k])
      BY WorkIs, <2>1
    <3>2. \/ k \in 1 .. Len(p) /\ (p \o q)[k] = p[k]
          \/ \E j \in 1 .. Len(q) : (p \o q)[k] = q[j]
      BY <1>1, SequelParts
    <3> QED BY <3>1, <3>2, WorkIs DEF Does
  <2>2. ASSUME NEW i \in v \cup w PROVE i \in Work(p \o q)
    <3>1. CASE i \in v
      <4>1. PICK k \in 1 .. Len(p) : i = p[k] /\ Matters(p[k])
        BY <3>1, WorkIs DEF Does
      <4>2. k \in 1 .. Len(p \o q) /\ (p \o q)[k] = p[k]
        BY <1>1
      <4> QED BY <4>1, <4>2, WorkIs
    <3>2. CASE i \in w
      <4>1. PICK k \in 1 .. Len(q) : i = q[k] /\ Matters(q[k])
        BY <3>2, WorkIs DEF Does
      <4>2. Len(p) + k \in 1 .. Len(p \o q) /\ (p \o q)[Len(p) + k] = q[k]
        BY <1>1
      <4> QED BY <4>1, <4>2, WorkIs
    <3> QED BY <2>2, <3>1, <3>2
  <2> QED BY <2>1, <2>2
<1>3. ASSUME NEW j \in 1 .. Len(p \o q), NEW k \in 1 .. Len(p \o q), j < k,
             Matters((p \o q)[j]), Matters((p \o q)[k])
      PROVE  Rank((p \o q)[j][1]) < Rank((p \o q)[k][1])
  <2>1. CASE k \in 1 .. Len(p)
    <3>1. j \in 1 .. Len(p)
      BY <1>1, <1>3, <2>1
    <3> QED BY <1>1, <1>3, <2>1, <3>1 DEF Does, InOrder
  <2>2. CASE j \notin 1 .. Len(p)
    <3>1. /\ j - Len(p) \in 1 .. Len(q) /\ j = Len(p) + (j - Len(p))
          /\ k - Len(p) \in 1 .. Len(q) /\ k = Len(p) + (k - Len(p))
          /\ j - Len(p) < k - Len(p)
      BY <1>1, <1>3, <2>2
    <3> QED BY <1>1, <1>3, <3>1 DEF Does, InOrder
  <2>3. CASE j \in 1 .. Len(p) /\ k \notin 1 .. Len(p)
    <3>1. k - Len(p) \in 1 .. Len(q) /\ k = Len(p) + (k - Len(p))
      BY <1>1, <1>3, <2>3
    <3>2. (p \o q)[j] = p[j] /\ (p \o q)[k] = q[k - Len(p)]
      BY <1>1, <2>3, <3>1
    <3>3. p[j] \in v /\ q[k - Len(p)] \in w
      BY <1>3, <2>3, <3>1, <3>2, WorkIs DEF Does
    <3> QED BY <3>2, <3>3 DEF Before
  <2> QED BY <2>1, <2>2, <2>3
<1> QED BY <1>1, <1>2, <1>3 DEF Does, InOrder

LEMMA Associative == \A p, q, u \in Programs : (p \o q) \o u = p \o (q \o u)
BY DEF Programs

LEMMA SingleDoes ==
    ASSUME NEW i \in Instruction
    PROVE  /\ Matters(i) => Does(<<i>>, {i})
           /\ ~Matters(i) => Does(<<i>>, {})
<1>1. <<i>> \in Programs /\ Len(<<i>>) = 1 /\ <<i>>[1] = i
  BY DEF Programs
<1>2. InOrder(<<i>>)
  BY <1>1 DEF InOrder
<1>3. \A j : j \in Work(<<i>>) <=> j = i /\ Matters(i)
  BY <1>1, WorkIs
<1> QED BY <1>1, <1>2, <1>3 DEF Does

LEMMA NothingDoes == Does(<<>>, {})
BY DEF Does, Programs, InOrder, Work

\* What does nothing can go anywhere.
LEMMA Ordered ==
    /\ \A w : Before({}, w) /\ Before(w, {})
    /\ \A p, q, w : Does(p, w) /\ Does(q, {}) => Does(p \o q, w) /\ Does(q \o p, w)
<1>1. \A w : Before({}, w) /\ Before(w, {})
  BY DEF Before
<1>2. \A w : w \cup {} = w /\ {} \cup w = w
  OBVIOUS
<1> QED BY <1>1, <1>2, SequelDoes

LEMMA LockedDoes ==
    ASSUME NEW p, NEW w, Does(p, w), NEW lock \in Locks PROVE Does(Locked(lock, p), w)
<1> DEFINE a == <<"acquire", lock>>
           b == <<"release", lock>>
<1>1. a \in Instruction /\ b \in Instruction /\ a[1] = "acquire" /\ b[1] = "release"
  BY DEF Instruction
<1> HIDE DEF a, b
<1>2. Does(<<a>>, {}) /\ Does(<<b>>, {})
  <2>1. ~Matters(a) /\ ~Matters(b)
    BY <1>1 DEF Matters, Rank
  <2> QED BY <1>1, <2>1, SingleDoes
<1>3. Does(<<a>> \o p \o <<b>>, w)
  BY <1>2, Ordered
<1> QED BY <1>3 DEF Locked, a, b

\* The first of what is to be done, by its rank.
LEMMA FirstFirst ==
    ASSUME NEW p \in Programs, p # <<>>, InOrder(p), Matters(p[1]),
           NEW a, NEW w, Work(p) = {a} \cup w, Before({a}, w)
    PROVE  p[1] = a /\ Does(Tail(p), w)
<1>1. /\ Len(p) \in Nat \ {0} /\ Tail(p) \in Programs /\ Len(Tail(p)) = Len(p) - 1
      /\ \A k \in 1 .. Len(p) - 1 : Tail(p)[k] = p[k + 1]
  BY TailOf
<1>2. ASSUME NEW i \in Work(p), i # p[1] PROVE Rank(p[1][1]) < Rank(i[1])
  <2>1. PICK k \in 1 .. Len(p) : i = p[k] /\ Matters(p[k])
    BY WorkIs
  <2>2. k \in 1 .. Len(p) /\ 1 \in 1 .. Len(p) /\ 1 < k
    BY <1>1, <1>2, <2>1
  <2> QED BY <2>1, <2>2 DEF InOrder
<1>3. p[1] \in Work(p)
  BY <1>1, WorkIs
<1>4. p[1] = a
  BY <1>2, <1>3, RankType DEF Before
<1>5. \A i \in w : i # a
  BY RankType DEF Before
<1>6. \A k \in 1 .. Len(Tail(p)) : k + 1 \in 1 .. Len(p) /\ 1 < k + 1 /\ 1 \in 1 .. Len(p)
                                  /\ Tail(p)[k] = p[k + 1]
  BY <1>1
<1>7. Work(Tail(p)) = w
  <2>1. ASSUME NEW i \in Work(Tail(p)) PROVE i \in w
    <3>1. PICK k \in 1 .. Len(Tail(p)) : i = Tail(p)[k] /\ Matters(Tail(p)[k])
      BY <2>1, WorkIs, Zenon
    <3>2. i \in Work(p) /\ Rank(a[1]) < Rank(i[1])
      BY <1>4, <1>6, <3>1, WorkIs DEF InOrder
    <3> QED BY <3>2, RankType
  <2>2. ASSUME NEW i \in w PROVE i \in Work(Tail(p))
    <3>1. PICK k \in 1 .. Len(p) : i = p[k] /\ Matters(p[k])
      BY WorkIs
    <3>2. k # 1
      BY <1>4, <1>5, <3>1
    <3>3. k - 1 \in 1 .. Len(Tail(p)) /\ Tail(p)[k - 1] = p[k]
      BY <1>1, <3>1, <3>2
    <3> QED BY <3>1, <3>3, WorkIs
  <2> QED BY <2>1, <2>2
<1>8. InOrder(Tail(p))
  <2>1. \A j, k \in 1 .. Len(Tail(p)) : j < k => j + 1 < k + 1
    BY <1>1
  <2> QED BY <1>6, <2>1 DEF InOrder
<1> QED BY <1>1, <1>4, <1>7, <1>8 DEF Does

LEMMA SkipFirst ==
    ASSUME NEW p \in Programs, p # <<>>, InOrder(p), ~Matters(p[1])
    PROVE  Does(Tail(p), Work(p))
<1>1. /\ Len(p) \in Nat \ {0} /\ Tail(p) \in Programs /\ Len(Tail(p)) = Len(p) - 1
      /\ \A k \in 1 .. Len(p) - 1 : Tail(p)[k] = p[k + 1]
  BY TailOf
<1>2. \A k \in 1 .. Len(Tail(p)) : k + 1 \in 1 .. Len(p) /\ Tail(p)[k] = p[k + 1]
  BY <1>1
<1>3. \A k \in 1 .. Len(p) : Matters(p[k]) =>
        k - 1 \in 1 .. Len(Tail(p)) /\ Tail(p)[k - 1] = p[k]
  BY <1>1
<1>4. Work(Tail(p)) = Work(p)
  <2>1. ASSUME NEW i \in Work(Tail(p)) PROVE i \in Work(p)
    <3>1. PICK k \in 1 .. Len(Tail(p)) : i = Tail(p)[k] /\ Matters(Tail(p)[k])
      BY <2>1, WorkIs, Zenon
    <3> QED BY <1>2, <3>1, WorkIs
  <2>2. ASSUME NEW i \in Work(p) PROVE i \in Work(Tail(p))
    <3>1. PICK k \in 1 .. Len(p) : i = p[k] /\ Matters(p[k])
      BY WorkIs
    <3>2. k - 1 \in 1 .. Len(Tail(p)) /\ Tail(p)[k - 1] = i /\ Matters(Tail(p)[k - 1])
      BY <1>3, <3>1
    <3> QED BY <3>2, WorkIs
  <2> QED BY <2>1, <2>2
<1>5. InOrder(Tail(p))
  <2>1. \A j, k \in 1 .. Len(Tail(p)) : j < k => j + 1 < k + 1
    BY <1>1
  <2> QED BY <1>2, <2>1 DEF InOrder
<1> QED BY <1>1, <1>4, <1>5 DEF Does

(***************************************************************************)
(* The invariant.                                                           *)
(***************************************************************************)
\* The client's record and the live rooms agree about it.
Settled(s) ==
    /\ roomOf[s] # NoRoom => s \in connected /\ roomOf[s] \in live /\ s \in members[roomOf[s]]
    /\ \A r \in live : s \in members[r] => roomOf[s] = r

AllSettled == \A s \in Clients : Settled(s)

\* The client s is on its way: it is in no room, whatever its record says, and
\* everybody else is settled.
OthersSettled(s) == \A t \in Clients \ {s} : Settled(t)
Outside(s) == OthersSettled(s) /\ \A r \in live : s \notin members[r]

\* A cleanup thread may be started for its room.
Space(s) == roomOf[s] # NoRoom => sleeping[roomOf[s]] < MaxCleanups

Opening(s, r) == {<<"open", s, r>>, <<"record", s, r, TRUE>>}

\* After it has left its room: nothing more, or the end of its connection.
GoodBye(s) == {<<"forget", s>>, <<"closesocket", s>>}
HangingUp(s, r) == {<<"erase", r>>} \cup GoodBye(s)
Farewells(s) == {{}} \cup {HangingUp(s, r) : r \in Rooms}
Leaving(s, rest) == {<<"record", s, NoRoom, FALSE>>} \cup rest

\* What a client that has left its room is on its way to.
Onward(s) ==
    {Opening(s, r) : r \in Rooms \ live} \cup {Leaving(s, rest) : rest \in Farewells(s)}

\* What main may have to do while it serves, and what is then true of the maps.
Plan(w) ==
    \/ w = {} /\ AllSettled
    \/ AllSettled /\ sends < MaxSends /\ \E m \in Message : w = {<<"push", m>>}
    \/ AllSettled /\ \E s \in Clients \ connected : w = {<<"register", s>>}
    \/ AllSettled /\ \E s \in connected, r \in Rooms : Space(s) /\ w = {<<"join", s, r>>}
    \/ \E s \in connected, op \in {"leave", "remove"} :
          /\ AllSettled /\ roomOf[s] # NoRoom /\ (op = "leave" => Space(s))
          /\ \E v \in Onward(s) : w = {<<op, s, roomOf[s]>>} \cup v
    \/ \E s \in connected : Outside(s) /\ w \in Onward(s)
    \/ \E s \in connected, r \in live :
          /\ OthersSettled(s) /\ \A q \in live : s \in members[q] <=> q = r
          /\ members[r] = {s}
          /\ w = {<<"record", s, r, TRUE>>}
    \/ \E s \in Clients, r \in Rooms :
          AllSettled /\ roomOf[s] = NoRoom /\ w = HangingUp(s, r)
    \/ \E s \in Clients : AllSettled /\ roomOf[s] = NoRoom /\ w = GoodBye(s)
    \/ AllSettled /\ \E s \in Clients \ connected : w = {<<"closesocket", s>>}

\* After it has stopped serving.
Clearing == {<<"clearRooms">>} \cup {<<"clearClients">>}
EndPlan(w) ==
    \/ AllSettled /\ w \in {Clearing, {<<"closeSockets">>} \cup Clearing}
    \/ live = {} /\ w \subseteq {<<"clearClients">>}

PlanInv ==
    LET p == todo["main"]
    IN  InOrder(p) /\ IF serving THEN Plan(Work(p)) ELSE EndPlan(Work(p))

(***************************************************************************)
(* The handlers.                                                            *)
(***************************************************************************)
LEMMA WorkTypes ==
    ASSUME NEW s \in Clients, NEW r \in Rooms
    PROVE  /\ \A op \in {"leave", "remove", "open", "join"} : <<op, s, r>> \in Instruction
           /\ \A q \in Rooms \cup {NoRoom}, b \in BOOLEAN :
                <<"record", s, q, b>> \in Instruction
           /\ \A b \in BOOLEAN : <<"flag", s, b>> \in Instruction
           /\ <<"erase", r>> \in Instruction /\ <<"forget", s>> \in Instruction
           /\ <<"register", s>> \in Instruction
           /\ \A m \in Message : <<"push", m>> \in Instruction
           /\ <<"notify">> \in Instruction
BY DEF Instruction

LEMMA WorkOf ==
    ASSUME NEW s \in Clients, NEW r \in Rooms
    PROVE  /\ \A op \in {"leave", "remove", "open", "join"} :
                Does(<<<<op, s, r>>>>, {<<op, s, r>>})
           /\ \A q \in Rooms \cup {NoRoom}, b \in BOOLEAN :
                Does(<<<<"record", s, q, b>>>>, {<<"record", s, q, b>>})
           /\ \A b \in BOOLEAN : Does(<<<<"flag", s, b>>>>, {})
           /\ Does(<<<<"erase", r>>>>, {<<"erase", r>>})
           /\ \A m \in Message : Does(<<<<"push", m>>>>, {<<"push", m>>})
<1>1. ASSUME NEW op \in {"leave", "remove", "open", "join"}
      PROVE  Does(<<<<op, s, r>>>>, {<<op, s, r>>})
  <2>1. <<op, s, r>>[1] = op /\ Matters(<<op, s, r>>)
    BY DEF Matters, Rank
  <2> QED BY <2>1, WorkTypes, SingleDoes
<1>2. ASSUME NEW q \in Rooms \cup {NoRoom}, NEW b \in BOOLEAN
      PROVE  Does(<<<<"record", s, q, b>>>>, {<<"record", s, q, b>>})
  <2>1. Matters(<<"record", s, q, b>>)
    BY DEF Matters, Rank
  <2> QED BY <2>1, WorkTypes, SingleDoes
<1>3. ASSUME NEW b \in BOOLEAN PROVE Does(<<<<"flag", s, b>>>>, {})
  <2>1. ~Matters(<<"flag", s, b>>)
    BY DEF Matters, Rank
  <2> QED BY <2>1, WorkTypes, SingleDoes
<1>4. Does(<<<<"erase", r>>>>, {<<"erase", r>>})
  <2>1. Matters(<<"erase", r>>)
    BY DEF Matters, Rank
  <2> QED BY <2>1, WorkTypes, SingleDoes
<1>5. ASSUME NEW m \in Message PROVE Does(<<<<"push", m>>>>, {<<"push", m>>})
  <2>1. Matters(<<"push", m>>)
    BY DEF Matters, Rank
  <2> QED BY <2>1, WorkTypes, SingleDoes
<1> QED BY <1>1, <1>2, <1>3, <1>4, <1>5

LEMMA ComesAndGoes ==
    ASSUME NEW s \in Clients
    PROVE  /\ Does(<<<<"register", s>>>>, {<<"register", s>>})
           /\ Does(<<<<"forget", s>>>>, {<<"forget", s>>})
           /\ Does(<<<<"closesocket", s>>>>, {<<"closesocket", s>>})
<1>1. ASSUME NEW op \in {"register", "forget", "closesocket"}
      PROVE  Does(<<<<op, s>>>>, {<<op, s>>})
  <2>1. <<op, s>> \in Instruction
    BY DEF Instruction
  <2>2. Matters(<<op, s>>)
    BY DEF Matters, Rank
  <2> QED BY <2>1, <2>2, SingleDoes
<1> QED BY <1>1

LEMMA Looks ==
    /\ \A lock \in Locks : Does(Reads(lock), {})
    /\ Does(Look, {}) /\ Does(Look \o Look, {})
<1>1. ASSUME NEW lock \in Locks PROVE Does(Reads(lock), {})
  <2>1. <<"pass", lock>> \in Instruction
    BY DEF Instruction
  <2>2. ~Matters(<<"pass", lock>>)
    BY DEF Matters, Rank
  <2> QED BY <2>1, <2>2, SingleDoes DEF Reads
<1> QED BY <1>1, Ordered, LockNames DEF Look

LEMMA AskDoes ==
    /\ Does(SetName, {}) /\ Does(List, {}) /\ Does(Password, {}) /\ Does(Users, {})
    /\ Does(JoinRefused, {}) /\ Does(BanAbsent, {})
<1>1. Does(Locked("rooms", Look), {}) /\ Does(Locked("clients", Reads("rooms")), {})
  BY Looks, LockedDoes, LockNames
<1> QED BY <1>1, Looks, Ordered, LockNames
        DEF SetName, List, Password, Users, JoinRefused, BanAbsent

\* The order of what the handlers do.
LEMMA Sequences ==
    ASSUME NEW s, NEW r, NEW q, NEW b
    PROVE  /\ \A op \in {"leave", "remove"} :
                /\ Before({<<op, s, q>>}, Opening(s, r))
                /\ Before({<<op, s, q>>}, {<<"record", s, r, b>>})
                /\ \A rest \in Farewells(s) : Before({<<op, s, q>>}, Leaving(s, rest))
           /\ Before({<<"open", s, r>>}, {<<"record", s, r, b>>})
           /\ \A rest \in Farewells(s) : Before({<<"record", s, r, b>>}, rest)
           /\ Before({<<"erase", r>>}, GoodBye(s))
           /\ Before({<<"forget", s>>}, {<<"closesocket", s>>})
           /\ Before({<<"record", s, r, b>>}, HangingUp(s, q))
           /\ Before({<<"closeSockets">>}, Clearing)
           /\ Before({<<"clearRooms">>}, {<<"clearClients">>})
<1>1. /\ Rank("leave") = 1 /\ Rank("remove") = 1 /\ Rank("open") = 2 /\ Rank("record") = 3
      /\ Rank("erase") = 4 /\ Rank("forget") = 5 /\ Rank("closesocket") = 6
      /\ Rank("closeSockets") = 7 /\ Rank("clearRooms") = 8 /\ Rank("clearClients") = 9
  BY DEF Rank
<1>2. /\ \A op \in {"leave", "remove"} : Rank(<<op, s, q>>[1]) = 1
      /\ Rank(<<"record", s, r, b>>[1]) = 3 /\ Rank(<<"record", s, NoRoom, FALSE>>[1]) = 3
      /\ Rank(<<"record", s, r, TRUE>>[1]) = 3
      /\ Rank(<<"open", s, r>>[1]) = 2
      /\ \A p : Rank(<<"erase", p>>[1]) = 4
      /\ Rank(<<"forget", s>>[1]) = 5 /\ Rank(<<"closesocket", s>>[1]) = 6
      /\ Rank(<<"closeSockets">>[1]) = 7
      /\ Rank(<<"clearRooms">>[1]) = 8 /\ Rank(<<"clearClients">>[1]) = 9
  BY <1>1
<1>3. \A i \in Opening(s, r) : Rank(i[1]) \in {2, 3}
  BY <1>2 DEF Opening
<1>4. \A p : \A i \in HangingUp(s, p) : Rank(i[1]) \in {4, 5, 6}
  BY <1>2 DEF HangingUp, GoodBye
<1>5. \A rest \in Farewells(s) : \A i \in rest : Rank(i[1]) \in {4, 5, 6}
  BY <1>4 DEF Farewells
<1>6. \A rest \in Farewells(s) : \A i \in Leaving(s, rest) : Rank(i[1]) \in {3, 4, 5, 6}
  BY <1>2, <1>5 DEF Leaving
<1>7. /\ \A i \in GoodBye(s) : Rank(i[1]) \in {5, 6}
      /\ \A i \in Clearing : Rank(i[1]) \in {8, 9}
  BY <1>2 DEF GoodBye, Clearing
<1> QED BY <1>2, <1>3, <1>4, <1>5, <1>6, <1>7 DEF Before

LEMMA CreateDoes ==
    ASSUME NEW s \in Clients, NEW r \in Rooms, roomOf[s] \in Rooms \cup {NoRoom}
    PROVE  \/ roomOf[s] = NoRoom /\ Does(Create(s, r), Opening(s, r))
           \/ roomOf[s] # NoRoom
              /\ Does(Create(s, r), {<<"leave", s, roomOf[s]>>} \cup Opening(s, r))
<1> DEFINE o == Locked("rooms", <<<<"open", s, r>>>>)
           c == Locked("clients", <<<<"record", s, r, TRUE>>>>)
           l == Locked("clients", Locked("rooms", <<<<"leave", s, roomOf[s]>>>>))
<1>1. Does(o, {<<"open", s, r>>}) /\ Does(c, {<<"record", s, r, TRUE>>})
  BY WorkOf, LockedDoes, LockNames
<1> HIDE DEF o, c, l
<1>2. Does(o \o c, Opening(s, r))
  <2>1. Before({<<"open", s, r>>}, {<<"record", s, r, TRUE>>})
    BY Sequences
  <2>2. {<<"open", s, r>>} \cup {<<"record", s, r, TRUE>>} = Opening(s, r)
    BY DEF Opening
  <2>3. Does(o \o c, {<<"open", s, r>>} \cup {<<"record", s, r, TRUE>>})
    BY <1>1, <2>1, SequelDoes, Zenon
  <2> QED BY <2>2, <2>3, Zenon
<1>3. o \in Programs /\ c \in Programs
  BY <1>1 DEF Does
<1>4. CASE roomOf[s] = NoRoom
  <2>1. Does(Look \o (o \o c), Opening(s, r))
    BY <1>2, Looks, Ordered
  <2>2. Create(s, r) = Look \o o \o c
    BY <1>4 DEF Create, o, c
  <2>3. (Look \o o) \o c = Look \o (o \o c)
    BY <1>3, Looks, Associative DEF Does
  <2> QED BY <1>4, <2>1, <2>2, <2>3
<1>5. CASE roomOf[s] # NoRoom
  <2>1. Does(l, {<<"leave", s, roomOf[s]>>})
    BY <1>5, WorkOf, LockedDoes, LockNames DEF l
  <2>2. Before({<<"leave", s, roomOf[s]>>}, Opening(s, r))
    BY Sequences
  <2>3. Does(l \o (o \o c), {<<"leave", s, roomOf[s]>>} \cup Opening(s, r))
    BY <1>2, <2>1, <2>2, SequelDoes
  <2>4. Create(s, r) = l \o o \o c
    BY <1>5 DEF Create, l, o, c
  <2>5. (l \o o) \o c = l \o (o \o c)
    BY <1>3, <2>1, Associative DEF Does
  <2> QED BY <1>5, <2>3, <2>4, <2>5
<1> QED BY <1>4, <1>5

LEMMA JoinDoes == \A s \in Clients, r \in Rooms : Does(Join(s, r), {<<"join", s, r>>})
BY WorkOf, LockedDoes, LockNames DEF Join

\* LEAVE, FORCELEAVE, KICK and BAN, and the part of a disconnection that is like KICK.
LEMMA LeaveDoes ==
    ASSUME NEW s \in Clients, roomOf[s] \in Rooms, NEW t \in Clients
    PROVE  /\ \A op \in {"leave", "remove"} :
                Does(Locked("rooms", <<<<op, s, roomOf[s]>>>>)
                     \o Locked("clients", <<<<"record", s, NoRoom, FALSE>>>>),
                     {<<op, s, roomOf[s]>>} \cup Leaving(s, {}))
           /\ Does(Leave(s), {<<"leave", s, roomOf[s]>>} \cup Leaving(s, {}))
           /\ Does(ForceLeave(s, t), {<<"leave", s, roomOf[s]>>} \cup Leaving(s, {}))
           /\ Does(Kick(s), {<<"remove", s, roomOf[s]>>} \cup Leaving(s, {}))
           /\ Does(Ban(s), {<<"remove", s, roomOf[s]>>} \cup Leaving(s, {}))
<1> DEFINE Go(op) == Locked("rooms", <<<<op, s, roomOf[s]>>>>)
           c == Locked("clients", <<<<"record", s, NoRoom, FALSE>>>>)
           f == Locked("clients", <<<<"flag", t, TRUE>>>>)
<1>1. /\ \A op \in {"leave", "remove"} : Does(<<<<op, s, roomOf[s]>>>>, {<<op, s, roomOf[s]>>})
      /\ Does(c, {<<"record", s, NoRoom, FALSE>>}) /\ Does(f, {})
  BY WorkOf, LockedDoes, LockNames
<1>2. {<<"record", s, NoRoom, FALSE>>} = Leaving(s, {})
  BY DEF Leaving
<1>3. Does(c, Leaving(s, {}))
  BY <1>1, <1>2
<1>4. \A op \in {"leave", "remove"} : Before({<<op, s, roomOf[s]>>}, Leaving(s, {}))
  <2>1. {} \in Farewells(s)
    BY DEF Farewells
  <2> QED BY <2>1, Sequences
<1>5. \A op \in {"leave", "remove"} : Does(Go(op), {<<op, s, roomOf[s]>>})
  BY <1>1, LockedDoes, LockNames
<1> HIDE DEF c, f
<1>6. ASSUME NEW op \in {"leave", "remove"}
      PROVE  Does(Go(op) \o c, {<<op, s, roomOf[s]>>} \cup Leaving(s, {}))
  <2> HIDE DEF Go
  <2> QED BY <1>3, <1>4, <1>5, SequelDoes
<1>7. Does(Leave(s), {<<"leave", s, roomOf[s]>>} \cup Leaving(s, {}))
  <2> DEFINE g == Go("leave")
  <2>1. Does(g, {<<"leave", s, roomOf[s]>>}) /\ Does(g \o c, {<<"leave", s, roomOf[s]>>} \cup Leaving(s, {}))
    BY <1>5, <1>6
  <2>2. Leave(s) = Look \o g \o c
    BY DEF Leave, c
  <2> HIDE DEF g
  <2>3. (Look \o g) \o c = Look \o (g \o c)
    <3>1. Look \in Programs /\ g \in Programs /\ c \in Programs
      BY <1>1, <2>1, Looks DEF Does
    <3> QED BY <3>1, Associative
  <2>4. Does(Look \o (g \o c), {<<"leave", s, roomOf[s]>>} \cup Leaving(s, {}))
    BY <2>1, Looks, Ordered
  <2> QED BY <2>2, <2>3, <2>4
<1>8. Does(ForceLeave(s, t), {<<"leave", s, roomOf[s]>>} \cup Leaving(s, {}))
  <2> DEFINE l == <<<<"leave", s, roomOf[s]>>>>
             g == Locked("rooms", f \o l)
  <2>1. Does(l, {<<"leave", s, roomOf[s]>>})
    BY <1>1
  <2>2. ForceLeave(s, t) = Look \o g \o c
    BY DEF ForceLeave, c, f
  <2> HIDE DEF l
  <2>3. Does(f \o l, {<<"leave", s, roomOf[s]>>})
    BY <1>1, <2>1, Ordered
  <2>4. Does(g, {<<"leave", s, roomOf[s]>>})
    BY <2>3, LockedDoes, LockNames
  <2> HIDE DEF g
  <2>5. Does(Look \o g, {<<"leave", s, roomOf[s]>>})
    BY <2>4, Looks, Ordered
  <2> QED BY <1>3, <1>4, <2>2, <2>5, SequelDoes
<1>9. Does(Kick(s), {<<"remove", s, roomOf[s]>>} \cup Leaving(s, {}))
  <2> DEFINE g == Go("remove")
  <2>1. Does(g, {<<"remove", s, roomOf[s]>>})
    BY <1>5
  <2>2. Kick(s) = (Look \o Look) \o g \o c
    BY DEF Kick, c
  <2> HIDE DEF g
  <2>3. Does((Look \o Look) \o g, {<<"remove", s, roomOf[s]>>})
    BY <2>1, Looks, Ordered
  <2> QED BY <1>3, <1>4, <2>2, <2>3, SequelDoes
<1>10. Does(Ban(s), {<<"remove", s, roomOf[s]>>} \cup Leaving(s, {}))
  <2> DEFINE l == <<<<"remove", s, roomOf[s]>>>>
             g == Locked("rooms", l \o c)
  <2>1. Does(l, {<<"remove", s, roomOf[s]>>})
    BY <1>1
  <2>2. Ban(s) = (Look \o Look) \o g
    BY DEF Ban, c
  <2> HIDE DEF l
  <2>3. Does(l \o c, {<<"remove", s, roomOf[s]>>} \cup Leaving(s, {}))
    BY <1>3, <1>4, <2>1, SequelDoes
  <2>4. Does(g, {<<"remove", s, roomOf[s]>>} \cup Leaving(s, {}))
    BY <2>3, LockedDoes, LockNames
  <2> HIDE DEF g
  <2> QED BY <2>2, <2>4, Looks, Ordered
<1>11. \A op \in {"leave", "remove"} :
          Does(Locked("rooms", <<<<op, s, roomOf[s]>>>>)
               \o Locked("clients", <<<<"record", s, NoRoom, FALSE>>>>),
               {<<op, s, roomOf[s]>>} \cup Leaving(s, {}))
  BY <1>6 DEF c
<1> QED BY <1>7, <1>8, <1>9, <1>10, <1>11

LEMMA DisconnectDoes ==
    ASSUME NEW s \in Clients, roomOf[s] \in Rooms \cup {NoRoom}
    PROVE  \/ roomOf[s] = NoRoom /\ Does(Disconnect(s), GoodBye(s))
           \/ /\ roomOf[s] # NoRoom
              /\ Does(Disconnect(s), {<<"remove", s, roomOf[s]>>}
                                     \cup Leaving(s, HangingUp(s, roomOf[s])))
<1> DEFINE r == roomOf[s]
           f == Locked("clients", <<<<"forget", s>>>>) \o <<<<"closesocket", s>>>>
           e == Locked("rooms", <<<<"erase", r>>>>)
           g == Locked("rooms", <<<<"remove", s, r>>>>)
           c == Locked("clients", <<<<"record", s, NoRoom, FALSE>>>>)
<1>1. Does(f, GoodBye(s))
  <2>1. Does(Locked("clients", <<<<"forget", s>>>>), {<<"forget", s>>})
    BY ComesAndGoes, LockedDoes, LockNames
  <2>2. Does(<<<<"closesocket", s>>>>, {<<"closesocket", s>>})
    BY ComesAndGoes
  <2>3. Before({<<"forget", s>>}, {<<"closesocket", s>>})
    BY Sequences
  <2>4. Does(f, {<<"forget", s>>} \cup {<<"closesocket", s>>})
    BY <2>1, <2>2, <2>3, SequelDoes, Zenon
  <2>5. {<<"forget", s>>} \cup {<<"closesocket", s>>} = GoodBye(s)
    BY DEF GoodBye
  <2> QED BY <2>4, <2>5, Zenon
<1> HIDE DEF f, e, g, c
<1>2. CASE r = NoRoom
  <2>1. Does(Look \o <<>>, {})
    BY Looks, NothingDoes, Ordered
  <2>2. Does((Look \o <<>>) \o f, GoodBye(s))
    BY <1>1, <2>1, Ordered
  <2>3. Disconnect(s) = (Look \o <<>>) \o f
    BY <1>2 DEF Disconnect, f
  <2> QED BY <1>2, <2>2, <2>3
<1>3. CASE r # NoRoom
  <2>1. r \in Rooms
    BY <1>3
  <2>2. Does(g \o c, {<<"remove", s, r>>} \cup Leaving(s, {}))
    BY <2>1, LeaveDoes DEF g, c
  <2>3. Does(e, {<<"erase", r>>})
    BY <2>1, WorkOf, LockedDoes, LockNames DEF e
  <2>4. Does(Look \o (g \o c), {<<"remove", s, r>>} \cup Leaving(s, {}))
    BY <2>2, Looks, Ordered
  <2>5. Does(e \o f, HangingUp(s, r))
    <3>1. {<<"erase", r>>} \cup GoodBye(s) = HangingUp(s, r)
      BY DEF HangingUp
    <3>2. Before({<<"erase", r>>}, GoodBye(s))
      BY Sequences
    <3>3. Does(e \o f, {<<"erase", r>>} \cup GoodBye(s))
      BY <1>1, <2>3, <3>2, SequelDoes, Zenon
    <3> QED BY <3>1, <3>3, Zenon
  <2>6. Before({<<"remove", s, r>>} \cup Leaving(s, {}), HangingUp(s, r))
    <3>1. /\ Before({<<"remove", s, r>>}, Leaving(s, HangingUp(s, r)))
          /\ HangingUp(s, r) \subseteq Leaving(s, HangingUp(s, r))
      <4>1. HangingUp(s, r) \in Farewells(s)
        BY <2>1 DEF Farewells
      <4>2. HangingUp(s, r) \subseteq Leaving(s, HangingUp(s, r))
        BY DEF Leaving
      <4> QED BY <4>1, <4>2, Sequences
    <3>2. Before({<<"record", s, NoRoom, FALSE>>}, HangingUp(s, r))
      BY Sequences
    <3> QED BY <3>1, <3>2 DEF Before, Leaving
  <2>7. Does((Look \o (g \o c)) \o (e \o f), {<<"remove", s, r>>} \cup Leaving(s, HangingUp(s, r)))
    <3>1. ({<<"remove", s, r>>} \cup Leaving(s, {})) \cup HangingUp(s, r)
            = {<<"remove", s, r>>} \cup Leaving(s, HangingUp(s, r))
      BY DEF Leaving
    <3>2. Does((Look \o (g \o c)) \o (e \o f),
               ({<<"remove", s, r>>} \cup Leaving(s, {})) \cup HangingUp(s, r))
      BY <2>4, <2>5, <2>6, SequelDoes, Zenon
    <3> QED BY <3>1, <3>2, Zenon
  <2>8. Disconnect(s) = (Look \o (g \o c \o e)) \o f
    BY <1>3 DEF Disconnect, f, e, g, c
  <2>9. (Look \o (g \o c \o e)) \o f = (Look \o (g \o c)) \o (e \o f)
    <3>1. Look \in Programs /\ g \o c \in Programs /\ e \in Programs /\ f \in Programs
      BY <1>1, <2>2, <2>3, Looks DEF Does
    <3>2. Look \o (g \o c) \in Programs
      BY <2>4 DEF Does
    <3>3. Look \o ((g \o c) \o e) = (Look \o (g \o c)) \o e
      BY <3>1, Associative
    <3>4. ((Look \o (g \o c)) \o e) \o f = (Look \o (g \o c)) \o (e \o f)
      BY <3>1, <3>2, Associative
    <3> QED BY <3>3, <3>4
  <2> QED BY <1>3, <2>7, <2>8, <2>9
<1> QED BY <1>2, <1>3

LEMMA SayDoes ==
    ASSUME NEW s \in Clients, roomOf[s] \in Rooms, NEW to \in Addressees \cup {Everyone}
    PROVE  \E m \in Message : Does(Say(s, to), {<<"push", m>>})
<1> DEFINE m == [to |-> to, room |-> roomOf[s]]
           p == Locked("queue", <<<<"push", m>>>>)
<1>1. m \in Message
  BY DEF Message
<1> HIDE DEF m
<1>2. Does(<<<<"push", m>>>>, {<<"push", m>>})
  BY <1>1, WorkOf
<1>3. Does(p, {<<"push", m>>})
  BY <1>2, LockedDoes, LockNames
<1>4. Does(<<<<"notify">>>>, {})
  <2>1. <<"notify">> \in Instruction
    BY DEF Instruction
  <2>2. ~Matters(<<"notify">>)
    BY DEF Matters, Rank
  <2> QED BY <2>1, <2>2, SingleDoes
<1>5. Say(s, to) = Look \o p \o <<<<"notify">>>>
  BY DEF Say, m
<1> HIDE DEF p
<1>6. Does(Look \o p, {<<"push", m>>})
  BY <1>3, Looks, Ordered
<1>7. Does((Look \o p) \o <<<<"notify">>>>, {<<"push", m>>})
  BY <1>4, <1>6, Ordered
<1> QED BY <1>1, <1>5, <1>7

LEMMA TransferDoes == \A s \in Clients, t \in Clients : Does(Transfer(s, t), {})
<1> SUFFICES ASSUME NEW s \in Clients, NEW t \in Clients PROVE Does(Transfer(s, t), {})
  OBVIOUS
<1> DEFINE a == <<"flag", s, FALSE>>
           b == <<"flag", t, TRUE>>
<1>1. a \in Instruction /\ b \in Instruction
  BY DEF Instruction
<1>2. ~Matters(a) /\ ~Matters(b)
  BY DEF Matters, Rank
<1>3. Transfer(s, t) = (Look \o Look) \o Locked("rooms", Locked("clients", <<a, b>>))
  BY DEF Transfer
<1> HIDE DEF a, b
<1>4. Does(<<a>>, {}) /\ Does(<<b>>, {})
  BY <1>1, <1>2, SingleDoes
<1>5. Does(<<a>> \o <<b>>, {}) /\ <<a, b>> = <<a>> \o <<b>>
  BY <1>1, <1>4, Ordered, PairIsSequel
<1>6. Does(Locked("rooms", Locked("clients", <<a, b>>)), {})
  BY <1>5, LockedDoes, LockNames
<1> QED BY <1>3, <1>6, Looks, Ordered

\* A handler is chosen when everybody is settled, and what it will do is planned.
LEMMA CommandsPlanned ==
    ASSUME TypeOK, AllSettled, NEW s \in connected, Space(s), NEW handler \in Commands(s)
    PROVE  \E w : Does(handler, w) /\ Plan(w)
<1> DEFINE r == roomOf[s]
           others == {t \in connected \ {s} : roomOf[t] = r}
<1>1. /\ s \in Clients /\ r \in Rooms \cup {NoRoom}
      /\ r # NoRoom => r \in Rooms /\ members[r] \subseteq Clients
      /\ \A t \in others : t \in Clients /\ t \in connected /\ roomOf[t] = r
      /\ live \subseteq Rooms
  BY DEF TypeOK
<1>2. Does(handler, {}) => \E w : Does(handler, w) /\ Plan(w)
  BY DEF Plan
<1>3. CASE handler \in {Look, SetName, List, JoinRefused}
  BY <1>2, <1>3, Looks, AskDoes
<1>4. CASE handler = Disconnect(s)
  <2>1. CASE roomOf[s] = NoRoom
    <3>1. Does(handler, GoodBye(s))
      BY <1>1, <1>4, <2>1, DisconnectDoes
    <3> QED BY <1>1, <2>1, <3>1 DEF Plan
  <2>2. CASE roomOf[s] # NoRoom
    <3> DEFINE rest == HangingUp(s, r)
    <3>1. Does(handler, {<<"remove", s, roomOf[s]>>} \cup Leaving(s, rest))
      BY <1>1, <1>4, <2>2, DisconnectDoes
    <3>2. rest \in Farewells(s)
      BY <1>1, <2>2 DEF Farewells
    <3> HIDE DEF rest
    <3>3. Leaving(s, rest) \in Onward(s)
      BY <3>2 DEF Onward
    <3>4. Plan({<<"remove", s, roomOf[s]>>} \cup Leaving(s, rest))
      BY <2>2, <3>3 DEF Plan
    <3> QED BY <3>1, <3>4
  <2> QED BY <2>1, <2>2
<1>5. ASSUME NEW q \in Rooms \ live, handler = Create(s, q)
      PROVE  \E w : Does(handler, w) /\ Plan(w)
  <2>0. Opening(s, q) \in Onward(s)
    BY DEF Onward
  <2>1. CASE roomOf[s] = NoRoom
    <3>1. Does(handler, Opening(s, q))
      BY <1>1, <1>5, <2>1, CreateDoes
    <3>2. Outside(s)
      <4>1. \A p \in live : p \in Rooms /\ s \notin members[p]
        BY <1>1, <2>1, ThreadsAssumption DEF AllSettled, Settled
      <4> QED BY <4>1 DEF AllSettled, Outside, OthersSettled
    <3>3. Plan(Opening(s, q))
      BY <2>0, <3>2 DEF Plan
    <3> QED BY <3>1, <3>3
  <2>2. CASE roomOf[s] # NoRoom
    <3>1. Does(handler, {<<"leave", s, roomOf[s]>>} \cup Opening(s, q))
      BY <1>1, <1>5, <2>2, CreateDoes
    <3>2. Plan({<<"leave", s, roomOf[s]>>} \cup Opening(s, q))
      BY <2>0, <2>2 DEF Plan
    <3> QED BY <3>1, <3>2
  <2> QED BY <2>1, <2>2
<1>6. ASSUME NEW q \in Rooms, handler = Join(s, q)
      PROVE  \E w : Does(handler, w) /\ Plan(w)
  <2>1. Does(handler, {<<"join", s, q>>})
    BY <1>1, <1>6, JoinDoes
  <2> QED BY <2>1 DEF Plan
<1>7. CASE handler \in {Users, Password, BanAbsent}
  BY <1>2, <1>7, AskDoes
<1>8. ASSUME r # NoRoom, sends # MaxSends, NEW to \in Recipients(s), handler = Say(s, to)
      PROVE  \E w : Does(handler, w) /\ Plan(w)
  <2>1. PICK m \in Message : Does(handler, {<<"push", m>>})
    BY <1>1, <1>8, SayDoes DEF Recipients
  <2>2. sends < MaxSends
    BY <1>8, ThreadsAssumption DEF TypeOK
  <2> QED BY <2>1, <2>2 DEF Plan
<1>9. \A t : Leaving(t, {}) \in Onward(t)
  BY DEF Farewells, Onward
<1>10. ASSUME r # NoRoom, NEW t \in Clients, handler = Leave(s) \/ handler = ForceLeave(s, t)
       PROVE  \E w : Does(handler, w) /\ Plan(w)
  <2>1. Does(handler, {<<"leave", s, roomOf[s]>>} \cup Leaving(s, {}))
    BY <1>1, <1>10, LeaveDoes
  <2>2. Plan({<<"leave", s, roomOf[s]>>} \cup Leaving(s, {}))
    BY <1>9, <1>10 DEF Plan
  <2> QED BY <2>1, <2>2
<1>11. ASSUME r # NoRoom, NEW t \in others, handler = Kick(t) \/ handler = Ban(t)
       PROVE  \E w : Does(handler, w) /\ Plan(w)
  <2>1. Does(handler, {<<"remove", t, roomOf[t]>>} \cup Leaving(t, {}))
    BY <1>1, <1>11, LeaveDoes
  <2>2. Plan({<<"remove", t, roomOf[t]>>} \cup Leaving(t, {}))
    BY <1>1, <1>9, <1>11 DEF Plan
  <2> QED BY <2>1, <2>2
<1>12. ASSUME NEW t \in others, handler = Transfer(s, t)
       PROVE  \E w : Does(handler, w) /\ Plan(w)
  BY <1>1, <1>2, <1>12, TransferDoes
<1>13. ASSUME r # NoRoom PROVE \A t \in members[r] : t \in Clients
  BY <1>1, <1>13
<1> QED
  <2>1. \/ handler \in {Look, SetName, List, JoinRefused}
        \/ handler = Disconnect(s)
        \/ \E q \in Rooms \ live : handler = Create(s, q)
        \/ \E q \in Rooms : handler = Join(s, q)
        \/ handler \in {Users, Password, BanAbsent}
        \/ r # NoRoom /\ sends # MaxSends /\ \E to \in Recipients(s) : handler = Say(s, to)
        \/ r # NoRoom /\ handler = Leave(s)
        \/ r # NoRoom /\ \E t \in members[r] : handler = ForceLeave(s, t)
        \/ r # NoRoom /\ \E t \in others : handler = Kick(t) \/ handler = Ban(t)
        \/ \E t \in others : handler = Transfer(s, t)
    BY DEF Commands
  <2> HIDE DEF r, others
  <2> QED BY <1>1, <1>3, <1>4, <1>5, <1>6, <1>7, <1>8, <1>10, <1>11, <1>12, <1>13, <2>1

(***************************************************************************)
(* What main does next.                                                     *)
(***************************************************************************)
\* The first instruction that matters, what is true of the maps when main comes to
\* it, and what is left to be done.
Upcoming(i, rest) ==
    \/ i[1] = "push" /\ AllSettled /\ sends < MaxSends /\ rest = {}
    \/ i[1] = "register" /\ AllSettled /\ i[2] \in Clients \ connected /\ rest = {}
    \/ i[1] = "join" /\ AllSettled /\ i[2] \in connected /\ i[3] \in Rooms /\ Space(i[2])
       /\ rest = {}
    \/ /\ i[1] \in {"leave", "remove"} /\ AllSettled /\ i[2] \in connected
       /\ i[3] = roomOf[i[2]] /\ i[3] # NoRoom
       /\ i[1] = "leave" => Space(i[2])
       /\ rest \in Onward(i[2])
    \/ i[1] = "open" /\ Outside(i[2]) /\ i[2] \in connected /\ i[3] \in Rooms \ live
       /\ rest = {<<"record", i[2], i[3], TRUE>>}
    \/ i[1] = "record" /\ Outside(i[2]) /\ i[2] \in connected /\ i[3] = NoRoom /\ i[4] = FALSE
       /\ rest \in Farewells(i[2])
    \/ /\ i[1] = "record" /\ OthersSettled(i[2]) /\ i[2] \in connected /\ i[3] \in live
       /\ i[4] = TRUE
       /\ \A q \in live : i[2] \in members[q] <=> q = i[3]
       /\ members[i[3]] = {i[2]}
       /\ rest = {}
    \/ i[1] = "erase" /\ AllSettled /\ i[2] \in Rooms
       /\ \E s \in Clients : roomOf[s] = NoRoom /\ rest = GoodBye(s)
    \/ i[1] = "forget" /\ AllSettled /\ i[2] \in Clients /\ roomOf[i[2]] = NoRoom
       /\ rest = {<<"closesocket", i[2]>>}
    \/ i[1] = "closesocket" /\ AllSettled /\ i[2] \in Clients \ connected /\ rest = {}

LEMMA PlannedFirst ==
    ASSUME NEW p \in Programs, p # <<>>, InOrder(p), Matters(p[1]), Plan(Work(p))
    PROVE  \E rest : Upcoming(p[1], rest) /\ Does(Tail(p), rest)
<1>1. \A a, w : Work(p) = {a} \cup w /\ Before({a}, w) => p[1] = a /\ Does(Tail(p), w)
  BY FirstFirst
<1>2. \A a : Work(p) = {a} => p[1] = a /\ Does(Tail(p), {})
  <2>1. \A a : {a} \cup {} = {a}
    OBVIOUS
  <2> QED BY <1>1, <2>1, Ordered
<1>3. Work(p) # {}
  <2>1. 1 \in 1 .. Len(p)
    BY TailOf
  <2> QED BY <2>1, WorkIs
<1>4. CASE AllSettled /\ sends < MaxSends /\ \E m \in Message : Work(p) = {<<"push", m>>}
  <2>1. PICK m \in Message : Work(p) = {<<"push", m>>}
    BY <1>4
  <2>2. p[1] = <<"push", m>> /\ Does(Tail(p), {})
    BY <1>2, <2>1
  <2> QED BY <1>4, <2>2 DEF Upcoming
<1>5. CASE AllSettled /\ \E s \in Clients \ connected : Work(p) = {<<"register", s>>}
  <2>1. PICK s \in Clients \ connected : Work(p) = {<<"register", s>>}
    BY <1>5
  <2>2. p[1] = <<"register", s>> /\ Does(Tail(p), {})
    BY <1>2, <2>1
  <2> QED BY <1>5, <2>2 DEF Upcoming
<1>6. CASE AllSettled /\ \E s \in connected, r \in Rooms : Space(s) /\ Work(p) = {<<"join", s, r>>}
  <2>1. PICK s \in connected, r \in Rooms : Space(s) /\ Work(p) = {<<"join", s, r>>}
    BY <1>6
  <2>2. p[1] = <<"join", s, r>> /\ Does(Tail(p), {})
    BY <1>2, <2>1
  <2> QED BY <1>6, <2>1, <2>2 DEF Upcoming
<1>7. ASSUME NEW s \in connected, NEW op \in {"leave", "remove"}, NEW v \in Onward(s),
             AllSettled, roomOf[s] # NoRoom, op = "leave" => Space(s),
             Work(p) = {<<op, s, roomOf[s]>>} \cup v
      PROVE  Upcoming(p[1], v) /\ Does(Tail(p), v)
  <2>1. Before({<<op, s, roomOf[s]>>}, v)
    <3>1. \/ \E r : v = Opening(s, r)
          \/ \E rest \in Farewells(s) : v = Leaving(s, rest)
      BY Zenon DEF Onward
    <3>2. \A r : Before({<<op, s, roomOf[s]>>}, Opening(s, r))
      BY Sequences
    <3>3. \A rest \in Farewells(s) : Before({<<op, s, roomOf[s]>>}, Leaving(s, rest))
      BY Sequences
    <3> QED BY <3>1, <3>2, <3>3, Zenon
  <2>2. p[1] = <<op, s, roomOf[s]>> /\ Does(Tail(p), v)
    BY <1>1, <1>7, <2>1
  <2>3. p[1][1] = op /\ p[1][2] = s /\ p[1][3] = roomOf[s]
    BY <2>2
  <2>4. op = "leave" => Space(s)
    BY <1>7
  <2> QED BY <1>7, <2>2, <2>3, <2>4 DEF Upcoming
<1>8. ASSUME NEW s \in connected, Outside(s), NEW r \in Rooms \ live, Work(p) = Opening(s, r)
      PROVE  Upcoming(p[1], {<<"record", s, r, TRUE>>}) /\ Does(Tail(p), {<<"record", s, r, TRUE>>})
  <2>1. Before({<<"open", s, r>>}, {<<"record", s, r, TRUE>>})
    BY Sequences
  <2>2. Work(p) = {<<"open", s, r>>} \cup {<<"record", s, r, TRUE>>}
    BY <1>8 DEF Opening
  <2>3. p[1] = <<"open", s, r>> /\ Does(Tail(p), {<<"record", s, r, TRUE>>})
    BY <1>1, <2>1, <2>2, Zenon
  <2> QED BY <1>8, <2>3 DEF Upcoming
<1>9. ASSUME NEW s \in connected, Outside(s), NEW rest \in Farewells(s),
             Work(p) = Leaving(s, rest)
      PROVE  Upcoming(p[1], rest) /\ Does(Tail(p), rest)
  <2>1. Before({<<"record", s, NoRoom, FALSE>>}, rest)
    BY Sequences
  <2>2. p[1] = <<"record", s, NoRoom, FALSE>> /\ Does(Tail(p), rest)
    BY <1>1, <1>9, <2>1 DEF Leaving
  <2> QED BY <1>9, <2>2 DEF Upcoming
<1>10. ASSUME NEW s \in connected, NEW r \in live,
              OthersSettled(s), \A q \in live : s \in members[q] <=> q = r, members[r] = {s},
              Work(p) = {<<"record", s, r, TRUE>>}
       PROVE  Upcoming(p[1], {}) /\ Does(Tail(p), {})
  <2>1. p[1] = <<"record", s, r, TRUE>> /\ Does(Tail(p), {})
    BY <1>2, <1>10
  <2> QED BY <1>10, <2>1 DEF Upcoming
<1>11. ASSUME NEW s \in Clients, NEW r \in Rooms, AllSettled, roomOf[s] = NoRoom,
              Work(p) = HangingUp(s, r)
       PROVE  Upcoming(p[1], GoodBye(s)) /\ Does(Tail(p), GoodBye(s))
  <2>1. Before({<<"erase", r>>}, GoodBye(s))
    BY Sequences
  <2>2. Work(p) = {<<"erase", r>>} \cup GoodBye(s)
    BY <1>11 DEF HangingUp
  <2>3. p[1] = <<"erase", r>> /\ Does(Tail(p), GoodBye(s))
    BY <1>1, <2>1, <2>2, Zenon
  <2> QED BY <1>11, <2>3 DEF Upcoming
<1>12. ASSUME NEW s \in Clients, AllSettled, roomOf[s] = NoRoom, Work(p) = GoodBye(s)
       PROVE  Upcoming(p[1], {<<"closesocket", s>>}) /\ Does(Tail(p), {<<"closesocket", s>>})
  <2>1. Before({<<"forget", s>>}, {<<"closesocket", s>>})
    BY Sequences
  <2>2. Work(p) = {<<"forget", s>>} \cup {<<"closesocket", s>>}
    BY <1>12 DEF GoodBye
  <2>3. p[1] = <<"forget", s>> /\ Does(Tail(p), {<<"closesocket", s>>})
    BY <1>1, <2>1, <2>2, Zenon
  <2> QED BY <1>12, <2>3 DEF Upcoming
<1>13. CASE AllSettled /\ \E s \in Clients \ connected : Work(p) = {<<"closesocket", s>>}
  <2>1. PICK s \in Clients \ connected : Work(p) = {<<"closesocket", s>>}
    BY <1>13
  <2>2. p[1] = <<"closesocket", s>> /\ Does(Tail(p), {})
    BY <1>2, <2>1
  <2> QED BY <1>13, <2>2 DEF Upcoming
<1> QED BY <1>3, <1>4, <1>5, <1>6, <1>7, <1>8, <1>9, <1>10, <1>11, <1>12, <1>13, Zenon
        DEF Plan, Onward

\* The instruction main is at, and the program behind it.
LEMMA MainRuns ==
    ASSUME LockInv, PlanInv, NEW op, At("main", op), Continue("main")
    PROVE  LET i == Head(todo["main"])
           IN  /\ i \in Instruction /\ i[1] = op
               /\ \A k \in {1, 2, 3} : Argument("main", k) = i[k + 1]
               /\ Rank(op) = 0 => Does(todo'["main"], Work(todo["main"]))
               /\ Rank(op) > 0 /\ serving =>
                    \E rest : Upcoming(i, rest) /\ Does(todo'["main"], rest)
               /\ Rank(op) > 0 /\ ~serving =>
                    \/ op = "closeSockets" /\ AllSettled /\ Does(todo'["main"], Clearing)
                    \/ op = "clearRooms" /\ Does(todo'["main"], {<<"clearClients">>})
                    \/ op = "clearClients" /\ live = {} /\ Does(todo'["main"], {})
<1> DEFINE p == todo["main"]
<1>1. p \in Programs /\ p # <<>> /\ todo'["main"] = Tail(p) /\ Head(p)[1] = op
  BY ThreadNames DEF LockInv, Typed, At, Continue
<1>2. Head(p) = p[1] /\ p[1] \in Instruction
  BY <1>1, FirstOfTail, LockNames
<1>3. \A k \in {1, 2, 3} : Argument("main", k) = Head(p)[k + 1]
  BY DEF Argument
<1>4. InOrder(p) /\ (serving => Plan(Work(p)))
  BY DEF PlanInv
<1> HIDE DEF p
<1>5. ASSUME Rank(op) = 0 PROVE Does(Tail(p), Work(p))
  <2>1. ~Matters(p[1])
    BY <1>1, <1>2, <1>5 DEF Matters
  <2> QED BY <1>1, <1>4, <2>1, SkipFirst
<1>6. ASSUME Rank(op) > 0, serving
      PROVE  \E rest : Upcoming(Head(p), rest) /\ Does(Tail(p), rest)
  <2>1. Matters(p[1])
    BY <1>1, <1>2, <1>6 DEF Matters
  <2> QED BY <1>1, <1>2, <1>4, <1>6, <2>1, PlannedFirst
<1>7. ASSUME Rank(op) > 0, ~serving
      PROVE  \/ op = "closeSockets" /\ AllSettled /\ Does(Tail(p), Clearing)
             \/ op = "clearRooms" /\ Does(Tail(p), {<<"clearClients">>})
             \/ op = "clearClients" /\ live = {} /\ Does(Tail(p), {})
  <2>1. Matters(p[1]) /\ p[1][1] = op
    BY <1>1, <1>2, <1>7 DEF Matters
  <2>2. EndPlan(Work(p))
    BY <1>7 DEF PlanInv, p
  <2>3. CASE Work(p) = Clearing
    <3>1. Work(p) = {<<"clearRooms">>} \cup {<<"clearClients">>}
      BY <2>3 DEF Clearing
    <3>2. Before({<<"clearRooms">>}, {<<"clearClients">>})
      BY Sequences
    <3>3. p[1] = <<"clearRooms">> /\ Does(Tail(p), {<<"clearClients">>})
      BY <1>1, <1>4, <2>1, <3>1, <3>2, FirstFirst, Zenon
    <3> QED BY <2>1, <3>3
  <2>4. CASE live = {} /\ Work(p) \subseteq {<<"clearClients">>}
    <3>1. p[1] \in Work(p)
      <4>1. 1 \in 1 .. Len(p)
        BY <1>1, TailOf
      <4> QED BY <2>1, <4>1, WorkIs
    <3>2. Work(p) = {<<"clearClients">>} \cup {}
      BY <2>4, <3>1
    <3>3. p[1] = <<"clearClients">> /\ Does(Tail(p), {})
      BY <1>1, <1>4, <2>1, <3>2, FirstFirst, Ordered
    <3> QED BY <2>1, <2>4, <3>3
  <2>5. CASE AllSettled /\ Work(p) = {<<"closeSockets">>} \cup Clearing
    <3>1. Before({<<"closeSockets">>}, Clearing)
      BY Sequences
    <3>2. p[1] = <<"closeSockets">> /\ Does(Tail(p), Clearing)
      BY <1>1, <1>4, <2>1, <2>5, <3>1, FirstFirst, Zenon
    <3> QED BY <2>1, <2>5, <3>2
  <2> QED BY <2>2, <2>3, <2>4, <2>5 DEF EndPlan
<1> QED BY <1>1, <1>2, <1>3, <1>5, <1>6, <1>7 DEF p

LEMMA PlanNext ==
    /\ \A w : serving' /\ Does(todo'["main"], w) /\ Plan(w)' => PlanInv'
    /\ \A w : ~serving' /\ Does(todo'["main"], w) /\ EndPlan(w)' => PlanInv'
<1>1. ASSUME NEW w, serving', Does(todo'["main"], w), Plan(w)' PROVE PlanInv'
  BY <1>1, Zenon DEF Does, PlanInv, Plan
<1>2. ASSUME NEW w, ~serving', Does(todo'["main"], w), EndPlan(w)' PROVE PlanInv'
  BY <1>2, Zenon DEF Does, PlanInv, EndPlan
<1> QED BY <1>1, <1>2

\* The plan stands when rooms go in which there is nobody, and cleanup threads wake.
LEMMA PlanStands ==
    ASSUME TypeOK, UNCHANGED <<connected, roomOf, members, sends>>,
           live' \subseteq live, \A r \in live \ live' : members[r] = {},
           \A r \in Rooms : sleeping'[r] <= sleeping[r] /\ sleeping'[r] \in Nat
    PROVE  \A w : (Plan(w) => Plan(w)') /\ (EndPlan(w) => EndPlan(w)')
<1>1. ASSUME NEW s \in Clients, Settled(s) PROVE Settled(s)'
  BY <1>1 DEF Settled
<1>2. AllSettled => AllSettled'
  BY <1>1 DEF AllSettled
<1>3. \A s : OthersSettled(s) => OthersSettled(s)'
  BY <1>1 DEF OthersSettled
<1>4. \A s : Outside(s) => Outside(s)'
  BY <1>3 DEF Outside
<1>5. ASSUME NEW s \in connected, Space(s) PROVE Space(s)'
  <2>1. CASE roomOf[s] = NoRoom
    BY <2>1 DEF Space
  <2>2. CASE roomOf[s] # NoRoom
    <3>1. roomOf[s] \in Rooms
      BY <2>2 DEF TypeOK
    <3>2. sleeping[roomOf[s]] \in Nat /\ sleeping[roomOf[s]] < MaxCleanups
      BY <1>5, <2>2, <3>1, ThreadsAssumption DEF Space, TypeOK
    <3>3. sleeping'[roomOf[s]] < MaxCleanups
      BY <3>1, <3>2, ThreadsAssumption
    <3> QED BY <3>3 DEF Space
  <2> QED BY <2>1, <2>2
<1>6. \A s : Onward(s) \subseteq Onward(s)' /\ Farewells(s) = Farewells(s)'
  BY DEF Onward, Farewells
<1>7. \A s \in connected, r \in live : members[r] = {s} => r \in live'
  OBVIOUS
<1>8. \A r \in Rooms \ live : r \in Rooms \ live'
  OBVIOUS
<1>9. ASSUME NEW w, Plan(w) PROVE Plan(w)'
  <2>1. CASE w = {} /\ AllSettled
    BY <1>2, <2>1 DEF Plan
  <2>2. CASE AllSettled /\ sends < MaxSends /\ \E m \in Message : w = {<<"push", m>>}
    BY <1>2, <2>2 DEF Plan
  <2>3. CASE AllSettled /\ \E s \in Clients \ connected : w = {<<"register", s>>}
    BY <1>2, <2>3 DEF Plan
  <2>4. CASE AllSettled /\ \E s \in connected, r \in Rooms : Space(s) /\ w = {<<"join", s, r>>}
    BY <1>2, <1>5, <2>4 DEF Plan
  <2>5. ASSUME NEW s \in connected, NEW op \in {"leave", "remove"}, NEW v \in Onward(s),
               AllSettled, roomOf[s] # NoRoom, op = "leave" => Space(s),
               w = {<<op, s, roomOf[s]>>} \cup v
        PROVE  Plan(w)'
    <3>1. (op = "leave" => Space(s)') /\ AllSettled' /\ v \in Onward(s)'
      BY <1>2, <1>5, <1>6, <2>5
    <3>2. s \in connected' /\ roomOf'[s] # NoRoom /\ w = {<<op, s, roomOf'[s]>>} \cup v
      BY <2>5
    <3> QED BY <3>1, <3>2, Zenon DEF Plan
  <2>6. ASSUME NEW s \in connected, Outside(s), w \in Onward(s) PROVE Plan(w)'
    <3>1. s \in connected' /\ Outside(s)' /\ w \in Onward(s)'
      BY <1>4, <1>6, <2>6
    <3> QED BY <3>1, Zenon DEF Plan
  <2>7. ASSUME NEW s \in connected, NEW r \in live,
               OthersSettled(s), \A q \in live : s \in members[q] <=> q = r, members[r] = {s},
               w = {<<"record", s, r, TRUE>>}
        PROVE  Plan(w)'
    <3>1. /\ s \in connected' /\ OthersSettled(s)' /\ r \in live'
          /\ \A q \in live' : s \in members'[q] <=> q = r
          /\ members'[r] = {s}
      BY <1>3, <1>7, <2>7
    <3> QED BY <2>7, <3>1, Zenon DEF Plan
  <2>8. ASSUME NEW s \in Clients, AllSettled, roomOf[s] = NoRoom,
               (\E r \in Rooms : w = HangingUp(s, r)) \/ w = GoodBye(s)
        PROVE  Plan(w)'
    <3>1. AllSettled' /\ roomOf'[s] = NoRoom
      BY <1>2, <2>8
    <3> QED BY <2>8, <3>1, Zenon DEF Plan
  <2>9. CASE AllSettled /\ \E s \in Clients \ connected : w = {<<"closesocket", s>>}
    BY <1>2, <2>9 DEF Plan
  <2> QED BY <1>9, <2>1, <2>2, <2>3, <2>4, <2>5, <2>6, <2>7, <2>8, <2>9, Zenon DEF Plan
<1>10. \A w : EndPlan(w) => EndPlan(w)'
  BY <1>2 DEF EndPlan
<1> QED BY <1>9, <1>10

(***************************************************************************)
(* The steps.                                                               *)
(***************************************************************************)
\* What the type invariant adds to the one of the locks.
Bounds ==
    /\ live \subseteq Rooms /\ round \subseteq Clients
    /\ isOwner \in [Clients -> BOOLEAN]
    /\ sleeping \in [Rooms -> 0 .. MaxCleanups]
    /\ sends \in 0 .. MaxSends
    /\ serving \in BOOLEAN /\ shutdown \in BOOLEAN /\ databaseOpen \in BOOLEAN
    /\ broadcaster \in {"awake", "asleep", "notified", "done"}

\* Until the broadcaster is gone the sockets of the connected clients are open.
BroadcasterGone == broadcaster = "done" /\ todo["broadcaster"] = <<>>
OpenInv == sockets \subseteq Clients /\ (BroadcasterGone \/ connected \subseteq sockets)

LEMMA TypeParts == Typed /\ Bounds /\ OpenInv => TypeOK
BY DEF TypeOK, Typed, Bounds, OpenInv, Programs

ThreadsInv == LockInv /\ EndInv /\ Bounds /\ PlanInv /\ OpenInv

LEMMA InvTypes == ThreadsInv => TypeOK
BY TypeParts DEF ThreadsInv, LockInv

\* Nothing that main does while it serves but what is planned.
LEMMA Serves ==
    ASSUME ThreadsInv, NEW op, At("main", op), Continue("main"), Rank(op) \in 1 .. 6
    PROVE  /\ serving
           /\ \E rest : Upcoming(Head(todo["main"]), rest) /\ Does(todo'["main"], rest)
           /\ Head(todo["main"])[1] = op
           /\ \A k \in {1, 2, 3} : Argument("main", k) = Head(todo["main"])[k + 1]
<1>1. Rank(op) > 0 /\ op # "closeSockets" /\ op # "clearRooms" /\ op # "clearClients"
  BY DEF Rank
<1>2. serving \/ ~serving
  OBVIOUS
<1> QED BY <1>1, <1>2, MainRuns DEF ThreadsInv

\* Only the end of the program closes all sockets.
LEMMA EndsSockets ==
    ASSUME ThreadsInv, At("main", "closeSockets"), Continue("main")
    PROVE  ~serving /\ AllSettled /\ Does(todo'["main"], Clearing)
<1>1. Rank("closeSockets") > 0
  BY DEF Rank
<1>2. ~serving
  <2>1. ASSUME serving PROVE FALSE
    <3>1. PICK rest : Upcoming(Head(todo["main"]), rest) /\ Head(todo["main"])[1] = "closeSockets"
      BY <1>1, <2>1, MainRuns DEF ThreadsInv
    <3> QED BY <3>1 DEF Upcoming
  <2> QED BY <2>1
<1> QED BY <1>1, <1>2, MainRuns DEF ThreadsInv

LEMMA RegisterPlanned == ASSUME ThreadsInv, Register PROVE PlanInv' /\ Bounds'
<1> DEFINE i == Head(todo["main"])
<1>0. PICK s : s = Argument("main", 1)
  OBVIOUS
<1>1. /\ At("main", "register") /\ Continue("main")
      /\ connected' = connected \cup {s} /\ roomOf' = [roomOf EXCEPT ![s] = NoRoom]
      /\ isOwner' = [isOwner EXCEPT ![s] = FALSE]
      /\ UNCHANGED <<live, members, sleeping, sends, round, serving, shutdown, broadcaster,
                     databaseOpen>>
  BY <1>0 DEF Register, Write, rooms, messages, control
<1>2. PICK rest : Upcoming(i, rest) /\ Does(todo'["main"], rest) /\ serving /\ s = i[2]
                  /\ i[1] = "register"
  <2>1. Rank("register") \in 1 .. 6
    BY DEF Rank
  <2> QED BY <1>0, <1>1, <2>1, Serves
<1>3. AllSettled /\ s \in Clients /\ s \notin connected /\ rest = {}
  BY <1>2 DEF Upcoming
<1> HIDE DEF i
<1>4. TypeOK
  BY InvTypes
<1>5. ASSUME NEW t \in Clients PROVE Settled(t)'
  <2>1. Settled(t)
    BY <1>3 DEF AllSettled
  <2>2. CASE t = s
    <3>1. roomOf'[s] = NoRoom /\ \A r \in live : s \in members[r] => r = NoRoom
      BY <1>1, <1>3, <1>4, <2>1, <2>2 DEF Settled, TypeOK
    <3> QED BY <1>1, <2>2, <3>1 DEF Settled
  <2>3. CASE t # s
    <3>1. roomOf'[t] = roomOf[t]
      BY <1>1, <2>3, <1>4 DEF TypeOK
    <3> QED BY <1>1, <2>1, <3>1 DEF Settled
  <2> QED BY <2>2, <2>3
<1>6. Plan(rest)'
  BY <1>3, <1>5 DEF Plan, AllSettled
<1>7. Bounds'
  BY <1>1, <1>3 DEF ThreadsInv, Bounds
<1> QED BY <1>1, <1>2, <1>6, <1>7, PlanNext

LEMMA ForgetPlanned == ASSUME ThreadsInv, Forget PROVE PlanInv' /\ Bounds'
<1> DEFINE i == Head(todo["main"])
<1>0. PICK s : s = Argument("main", 1)
  OBVIOUS
<1>1. /\ At("main", "forget") /\ Continue("main")
      /\ connected' = connected \ {s}
      /\ UNCHANGED <<roomOf, isOwner, live, members, sleeping, sends, round, serving, shutdown,
                     broadcaster, databaseOpen>>
  BY <1>0 DEF Forget, Write, rooms, messages, control
<1>2. PICK rest : Upcoming(i, rest) /\ Does(todo'["main"], rest) /\ serving /\ s = i[2]
                  /\ i[1] = "forget"
  <2>1. Rank("forget") \in 1 .. 6
    BY DEF Rank
  <2> QED BY <1>0, <1>1, <2>1, Serves
<1>3. AllSettled /\ s \in Clients /\ roomOf[s] = NoRoom /\ rest = {<<"closesocket", s>>}
  BY <1>2 DEF Upcoming
<1> HIDE DEF i
<1>4. ASSUME NEW t \in Clients PROVE Settled(t)'
  BY <1>1, <1>3 DEF AllSettled, Settled
<1>5. Plan(rest)'
  <2>1. AllSettled' /\ s \in Clients \ connected'
    BY <1>1, <1>3, <1>4 DEF AllSettled
  <2> QED BY <1>3, <2>1, Zenon DEF Plan
<1>6. Bounds'
  BY <1>1 DEF ThreadsInv, Bounds
<1> QED BY <1>1, <1>2, <1>5, <1>6, PlanNext

LEMMA RecordPlanned == ASSUME ThreadsInv, Record PROVE PlanInv' /\ Bounds'
<1> DEFINE i == Head(todo["main"])
<1>0. PICK s : s = Argument("main", 1)
  OBVIOUS
<1>1. /\ At("main", "record") /\ Continue("main")
      /\ connected' = connected /\ roomOf' = [roomOf EXCEPT ![s] = Argument("main", 2)]
      /\ isOwner' = [isOwner EXCEPT ![s] = Argument("main", 3)]
      /\ UNCHANGED <<live, members, sleeping, sends, round, serving, shutdown, broadcaster,
                     databaseOpen>>
  BY <1>0 DEF Record, Write, rooms, messages, control
<1>2. PICK rest : Upcoming(i, rest) /\ Does(todo'["main"], rest) /\ serving /\ s = i[2]
                  /\ i[1] = "record" /\ Argument("main", 2) = i[3] /\ Argument("main", 3) = i[4]
  <2>1. Rank("record") \in 1 .. 6
    BY DEF Rank
  <2> QED BY <1>0, <1>1, <2>1, Serves
<1> HIDE DEF i
<1>3. OthersSettled(s) /\ s \in connected /\ i[4] \in BOOLEAN
  BY <1>2 DEF Upcoming, Outside
<1>4. TypeOK
  BY InvTypes
<1>5. s \in Clients
  BY <1>3, <1>4 DEF TypeOK
<1>6. ASSUME NEW t \in Clients \ {s} PROVE Settled(t)'
  <2>1. Settled(t) /\ roomOf'[t] = roomOf[t]
    BY <1>1, <1>3, <1>4 DEF OthersSettled, TypeOK
  <2> QED BY <1>1, <2>1 DEF Settled
<1>7. roomOf'[s] = i[3]
  BY <1>1, <1>2, <1>4, <1>5 DEF TypeOK
<1>8. Bounds'
  BY <1>1, <1>2, <1>3 DEF ThreadsInv, Bounds
<1>9. CASE Outside(s) /\ i[3] = NoRoom /\ rest \in Farewells(s)
  <2>1. Settled(s)' /\ roomOf'[s] = NoRoom
    BY <1>1, <1>7, <1>9 DEF Settled, Outside
  <2>2. AllSettled'
    BY <1>6, <2>1 DEF AllSettled
  <2>3. rest = {} \/ \E r \in Rooms : rest = HangingUp(s, r)
    BY <1>9 DEF Farewells
  <2>4. Plan(rest)'
    BY <1>5, <2>1, <2>2, <2>3, Zenon DEF Plan
  <2> QED BY <1>1, <1>2, <1>8, <2>4, PlanNext
<1>10. CASE /\ i[3] \in live /\ rest = {}
            /\ \A q \in live : s \in members[q] <=> q = i[3]
  <2>1. Settled(s)'
    BY <1>1, <1>3, <1>7, <1>10 DEF Settled
  <2>2. AllSettled'
    BY <1>6, <2>1 DEF AllSettled
  <2>3. Plan(rest)'
    BY <1>10, <2>2 DEF Plan
  <2> QED BY <1>1, <1>2, <1>8, <2>3, PlanNext
<1>11. \/ Outside(s) /\ i[3] = NoRoom /\ rest \in Farewells(s)
       \/ i[3] \in live /\ rest = {} /\ \A q \in live : s \in members[q] <=> q = i[3]
  BY <1>2 DEF Upcoming
<1> QED BY <1>9, <1>10, <1>11

LEMMA PushPlanned == ASSUME ThreadsInv, Push PROVE PlanInv' /\ Bounds'
<1>1. /\ At("main", "push") /\ Continue("main") /\ sends' = sends + 1
      /\ UNCHANGED <<connected, roomOf, isOwner, live, members, sleeping, round, serving, shutdown,
                     broadcaster, databaseOpen>>
  BY DEF Push, people, rooms, control
<1>2. PICK rest : Upcoming(Head(todo["main"]), rest) /\ Does(todo'["main"], rest) /\ serving
                  /\ Head(todo["main"])[1] = "push"
  <2>1. Rank("push") \in 1 .. 6
    BY DEF Rank
  <2> QED BY <1>1, <2>1, Serves
<1>3. AllSettled /\ sends < MaxSends /\ rest = {}
  BY <1>2 DEF Upcoming
<1>4. AllSettled'
  BY <1>1, <1>3 DEF AllSettled, Settled
<1>5. Plan(rest)'
  BY <1>3, <1>4 DEF Plan
<1>6. Bounds'
  BY <1>1, <1>3, ThreadsAssumption DEF ThreadsInv, Bounds
<1> QED BY <1>1, <1>2, <1>5, <1>6, PlanNext

\* A client that goes out of its room.
LEMMA WithoutIs ==
    ASSUME TypeOK, AllSettled, NEW s \in connected, roomOf[s] # NoRoom
    PROVE  /\ roomOf[s] \in live /\ roomOf[s] \in Rooms
           /\ Without(s, roomOf[s]) \in [Rooms -> SUBSET Clients]
           /\ \A q \in live : Without(s, roomOf[s])[q] = members[q] \ {s}
<1>1. s \in Clients /\ roomOf[s] \in live /\ live \subseteq Rooms
  BY DEF TypeOK, AllSettled, Settled
<1>2. Without(s, roomOf[s]) = [members EXCEPT ![roomOf[s]] = @ \ {s}]
  BY <1>1 DEF Without
<1>3. \A q \in live : q # roomOf[s] => s \notin members[q]
  BY <1>1 DEF AllSettled, Settled
<1> QED BY <1>1, <1>2, <1>3 DEF TypeOK

LEMMA GoneOutside ==
    ASSUME TypeOK, AllSettled, NEW s \in connected, roomOf[s] # NoRoom,
           members' = Without(s, roomOf[s]), UNCHANGED <<connected, roomOf, live>>
    PROVE  Outside(s)'
<1>1. \A q \in live : members'[q] = members[q] \ {s}
  BY WithoutIs
<1>2. ASSUME NEW t \in Clients \ {s} PROVE Settled(t)'
  <2>1. Settled(t)
    BY DEF AllSettled
  <2> QED BY <1>1, <2>1 DEF Settled
<1> QED BY <1>1, <1>2 DEF Outside, OthersSettled

LEMMA OutPlanned == ASSUME ThreadsInv, LeaveRoom \/ Remove PROVE PlanInv' /\ Bounds'
<1> DEFINE i == Head(todo["main"])
<1>0. PICK s : s = Argument("main", 1)
  OBVIOUS
<1>1. PICK op \in {"leave", "remove"} :
          /\ At("main", op) /\ Continue("main")
          /\ members' = Without(s, Argument("main", 2))
          /\ IF op = "leave" THEN SpawnCleanup(s, Argument("main", 2)) ELSE sleeping' = sleeping
          /\ UNCHANGED <<connected, roomOf, isOwner, live, sends, round, serving, shutdown,
                         broadcaster, databaseOpen>>
  BY <1>0, Zenon DEF LeaveRoom, Remove, people, messages, control
<1>2. PICK rest : Upcoming(i, rest) /\ Does(todo'["main"], rest) /\ serving /\ s = i[2]
                  /\ i[1] = op /\ Argument("main", 2) = i[3]
  <2>1. Rank(op) \in 1 .. 6
    BY DEF Rank
  <2> QED BY <1>0, <1>1, <2>1, Serves
<1>3. /\ AllSettled /\ s \in connected /\ i[3] = roomOf[s] /\ roomOf[s] # NoRoom
      /\ op = "leave" => Space(s)
      /\ rest \in Onward(s)
  BY <1>2 DEF Upcoming
<1> HIDE DEF i
<1>4. TypeOK
  BY InvTypes
<1>5. Outside(s)'
  BY <1>1, <1>2, <1>3, <1>4, GoneOutside
<1>6. rest \in Onward(s)' /\ s \in connected'
  BY <1>1, <1>3 DEF Onward, Farewells
<1>7. Plan(rest)'
  BY <1>5, <1>6, Zenon DEF Plan
<1>8. sleeping' \in [Rooms -> 0 .. MaxCleanups]
  <2>1. CASE op = "remove"
    BY <1>1, <1>4, <2>1 DEF TypeOK
  <2>2. CASE op = "leave"
    <3>1. roomOf[s] \in Rooms
      BY <1>3, <1>4, WithoutIs
    <3>2. sleeping[roomOf[s]] \in 0 .. MaxCleanups /\ sleeping[roomOf[s]] < MaxCleanups
      BY <1>3, <1>4, <2>2, <3>1 DEF Space, TypeOK
    <3>3. sleeping[roomOf[s]] + 1 \in 0 .. MaxCleanups
      BY <3>2, ThreadsAssumption
    <3>4. sleeping' = [sleeping EXCEPT ![roomOf[s]] = @ + 1] \/ sleeping' = sleeping
      BY <1>1, <1>2, <1>3, <2>2 DEF SpawnCleanup
    <3> QED BY <1>4, <3>1, <3>3, <3>4 DEF TypeOK
  <2> QED BY <2>1, <2>2
<1>9. Bounds'
  BY <1>1, <1>8 DEF ThreadsInv, Bounds
<1> QED BY <1>1, <1>2, <1>7, <1>9, PlanNext

LEMMA OpenPlanned == ASSUME ThreadsInv, Open PROVE PlanInv' /\ Bounds'
<1> DEFINE i == Head(todo["main"])
<1>0. PICK s, r : s = Argument("main", 1) /\ r = Argument("main", 2)
  OBVIOUS
<1>1. /\ At("main", "open") /\ Continue("main")
      /\ live' = live \cup {r} /\ members' = [members EXCEPT ![r] = {s}]
      /\ UNCHANGED <<connected, roomOf, isOwner, sleeping, sends, round, serving, shutdown,
                     broadcaster, databaseOpen>>
  BY <1>0 DEF Open, people, messages, control
<1>2. PICK rest : Upcoming(i, rest) /\ Does(todo'["main"], rest) /\ serving /\ s = i[2]
                  /\ i[1] = "open" /\ r = i[3]
  <2>1. Rank("open") \in 1 .. 6
    BY DEF Rank
  <2> QED BY <1>0, <1>1, <2>1, Serves
<1>3. /\ Outside(s) /\ s \in connected /\ r \in Rooms /\ r \notin live
      /\ rest = {<<"record", s, r, TRUE>>}
  BY <1>2 DEF Upcoming
<1> HIDE DEF i
<1>4. TypeOK
  BY InvTypes
<1>5. members'[r] = {s} /\ \A q \in live : members'[q] = members[q]
  BY <1>1, <1>3, <1>4 DEF TypeOK
<1>6. ASSUME NEW t \in Clients \ {s} PROVE Settled(t)'
  <2>1. Settled(t)
    BY <1>3 DEF Outside, OthersSettled
  <2>2. roomOf[t] # NoRoom => t \in members'[roomOf[t]]
    BY <1>5, <2>1 DEF Settled
  <2>3. \A q \in live' : t \in members'[q] => roomOf[t] = q
    BY <1>1, <1>5, <2>1 DEF Settled
  <2> QED BY <1>1, <2>1, <2>2, <2>3 DEF Settled
<1>7. \A q \in live' : s \in members'[q] <=> q = r
  BY <1>1, <1>3, <1>5 DEF Outside
<1>8. r \in live' /\ s \in connected' /\ OthersSettled(s)'
  BY <1>1, <1>3, <1>6 DEF OthersSettled
<1>9. Plan(rest)'
  BY <1>3, <1>5, <1>7, <1>8, Zenon DEF Plan
<1>10. Bounds'
  BY <1>1, <1>3 DEF ThreadsInv, Bounds
<1> QED BY <1>1, <1>2, <1>9, <1>10, PlanNext

\* JOIN takes the client out of its room and into the other in one step.
LEMMA LeftIs ==
    ASSUME TypeOK, AllSettled, NEW s \in connected
    PROVE  /\ Left(s) \in [Rooms -> SUBSET Clients]
           /\ \A q \in live : Left(s)[q] = members[q] \ {s}
<1>1. CASE roomOf[s] # NoRoom
  BY <1>1, WithoutIs DEF Left
<1>2. CASE roomOf[s] = NoRoom
  <2>1. \A q \in live : s \notin members[q]
    <3>1. s \in Clients /\ live \subseteq Rooms
      BY DEF TypeOK
    <3> QED BY <1>2, <3>1, ThreadsAssumption DEF AllSettled, Settled
  <2> QED BY <1>2, <2>1 DEF Left, TypeOK
<1> QED BY <1>1, <1>2

LEMMA JoinTakes ==
    ASSUME TypeOK, AllSettled, NEW s \in connected, NEW r \in live,
           members' = [Left(s) EXCEPT ![r] = @ \cup {s}]
    PROVE  \A q \in live, t \in Clients :
               t \in members'[q] <=> IF t = s THEN q = r ELSE t \in members[q]
<1>1. r \in Rooms /\ live \subseteq Rooms /\ s \in Clients
  BY DEF TypeOK
<1> QED BY <1>1, LeftIs

LEMMA JoinMoves ==
    ASSUME TypeOK, AllSettled, NEW s \in connected, NEW r \in live,
           members' = [Left(s) EXCEPT ![r] = @ \cup {s}],
           roomOf' = [roomOf EXCEPT ![s] = r], UNCHANGED <<connected, live>>
    PROVE  AllSettled'
<1>1. r \in Rooms /\ live \subseteq Rooms /\ s \in Clients
  BY DEF TypeOK
<1>2. \A q \in live, t \in Clients :
        t \in members'[q] <=> IF t = s THEN q = r ELSE t \in members[q]
  BY JoinTakes
<1>3. \A t \in Clients : roomOf'[t] = IF t = s THEN r ELSE roomOf[t]
  BY DEF TypeOK
<1>4. ASSUME NEW t \in Clients PROVE Settled(t)'
  <2>1. Settled(t)
    BY DEF AllSettled
  <2>2. CASE t = s
    <3>1. roomOf'[t] = r /\ t \in connected' /\ r \in live'
      BY <1>3, <2>2
    <3>2. \A q \in live : t \in members'[q] <=> q = r
      BY <1>2, <2>2
    <3>3. live' = live
      OBVIOUS
    <3> QED BY <3>1, <3>2, <3>3 DEF Settled
  <2>3. CASE t # s
    <3>1. roomOf'[t] = roomOf[t]
      BY <1>3, <2>3
    <3>2. ASSUME NEW q \in live PROVE t \in members'[q] <=> t \in members[q]
      BY <1>2, <2>3
    <3> QED BY <2>1, <3>1, <3>2 DEF Settled
  <2> QED BY <2>2, <2>3
<1> QED BY <1>4 DEF AllSettled

LEMMA JoinPlanned == ASSUME ThreadsInv, JoinRoom PROVE PlanInv' /\ Bounds'
<1> DEFINE i == Head(todo["main"])
<1>0. PICK s, r : s = Argument("main", 1) /\ r = Argument("main", 2)
  OBVIOUS
<1>1. /\ At("main", "join") /\ Continue("main")
      /\ \/ /\ r \in live
            /\ members' = [Left(s) EXCEPT ![r] = @ \cup {s}]
            /\ IF roomOf[s] = NoRoom THEN sleeping' = sleeping ELSE SpawnCleanup(s, roomOf[s])
            /\ roomOf' = [roomOf EXCEPT ![s] = r]
            /\ isOwner' = [isOwner EXCEPT ![s] = FALSE]
            /\ connected' = connected
         \/ UNCHANGED <<members, sleeping, connected, roomOf, isOwner>>
      /\ UNCHANGED <<live, sends, round, serving, shutdown, broadcaster, databaseOpen>>
  BY <1>0 DEF JoinRoom, people, messages, control
<1>2. PICK rest : Upcoming(i, rest) /\ Does(todo'["main"], rest) /\ serving /\ s = i[2]
                  /\ i[1] = "join" /\ r = i[3]
  <2>1. Rank("join") \in 1 .. 6
    BY DEF Rank
  <2> QED BY <1>0, <1>1, <2>1, Serves
<1>3. AllSettled /\ s \in connected /\ Space(s) /\ rest = {}
  BY <1>2 DEF Upcoming
<1> HIDE DEF i
<1>4. TypeOK
  BY InvTypes
<1>5. CASE /\ r \in live
           /\ members' = [Left(s) EXCEPT ![r] = @ \cup {s}]
           /\ IF roomOf[s] = NoRoom THEN sleeping' = sleeping ELSE SpawnCleanup(s, roomOf[s])
           /\ roomOf' = [roomOf EXCEPT ![s] = r]
           /\ isOwner' = [isOwner EXCEPT ![s] = FALSE]
           /\ connected' = connected
  <2>1. AllSettled'
    BY <1>1, <1>3, <1>4, <1>5, JoinMoves
  <2>2. sleeping' \in [Rooms -> 0 .. MaxCleanups]
    <3>1. CASE roomOf[s] = NoRoom
      BY <1>4, <1>5, <3>1 DEF TypeOK
    <3>2. CASE roomOf[s] # NoRoom
      <4>1. roomOf[s] \in Rooms
        BY <1>3, <1>4, <3>2, WithoutIs
      <4>2. sleeping[roomOf[s]] \in 0 .. MaxCleanups /\ sleeping[roomOf[s]] < MaxCleanups
        BY <1>3, <1>4, <3>2, <4>1 DEF Space, TypeOK
      <4>3. sleeping[roomOf[s]] + 1 \in 0 .. MaxCleanups
        BY <4>2, ThreadsAssumption
      <4>4. sleeping' = [sleeping EXCEPT ![roomOf[s]] = @ + 1] \/ sleeping' = sleeping
        BY <1>5, <3>2 DEF SpawnCleanup
      <4> QED BY <1>4, <4>1, <4>3, <4>4 DEF TypeOK
    <3> QED BY <3>1, <3>2
  <2>3. Plan(rest)'
    BY <1>3, <2>1 DEF Plan
  <2>4. Bounds'
    BY <1>1, <1>5, <2>2 DEF ThreadsInv, Bounds
  <2> QED BY <1>1, <1>2, <2>3, <2>4, PlanNext
<1>6. CASE UNCHANGED <<members, sleeping, connected, roomOf, isOwner>>
  <2>1. AllSettled'
    BY <1>1, <1>3, <1>6 DEF AllSettled, Settled
  <2>2. Plan(rest)'
    BY <1>3, <2>1 DEF Plan
  <2>3. Bounds'
    BY <1>1, <1>6 DEF ThreadsInv, Bounds
  <2> QED BY <1>1, <1>2, <2>2, <2>3, PlanNext
<1> QED BY <1>1, <1>5, <1>6

\* A step that leaves the plan alone, or takes main past an instruction that does not
\* matter to it.
LEMMA Unplanned ==
    ASSUME ThreadsInv, UNCHANGED <<connected, roomOf, members, sends, serving>>,
           live' \subseteq live, \A r \in live \ live' : members[r] = {},
           \A r \in Rooms : sleeping'[r] <= sleeping[r] /\ sleeping'[r] \in Nat,
           \/ todo'["main"] = todo["main"]
           \/ \E op : At("main", op) /\ Continue("main") /\ Rank(op) = 0
    PROVE  PlanInv'
<1>1. Does(todo'["main"], Work(todo["main"]))
  <2>1. CASE todo'["main"] = todo["main"]
    BY <2>1, ThreadNames DEF Does, ThreadsInv, PlanInv, LockInv, Typed
  <2>2. ASSUME NEW op, At("main", op), Continue("main"), Rank(op) = 0
        PROVE  Does(todo'["main"], Work(todo["main"]))
    BY <2>2, MainRuns DEF ThreadsInv
  <2> QED BY <2>1, <2>2
<1>2. PICK w : w = Work(todo["main"])
  OBVIOUS
<1>3. (serving => Plan(w)) /\ (~serving => EndPlan(w))
  BY <1>2 DEF ThreadsInv, PlanInv
<1>4. (serving => Plan(w)') /\ (~serving => EndPlan(w)')
  BY <1>3, InvTypes, PlanStands
<1> QED BY <1>1, <1>2, <1>4, PlanNext

\* A room is erased, by main or by a cleanup thread.
LEMMA ErasePlanned == ASSUME ThreadsInv, NEW th \in Workers, Erase(th) PROVE PlanInv' /\ Bounds'
<1>0. PICK r : r = Argument(th, 1)
  OBVIOUS
<1>1. /\ At(th, "erase") /\ Continue(th)
      /\ live' = IF members[r] = {} THEN live \ {r} ELSE live
      /\ UNCHANGED <<connected, roomOf, isOwner, members, sleeping, sends, round, serving,
                     shutdown, broadcaster, databaseOpen>>
  BY <1>0 DEF Erase, people, messages, control
<1>2. live' \subseteq live /\ \A q \in live \ live' : members[q] = {}
  BY <1>1
<1>3. TypeOK /\ \A q \in Rooms : sleeping'[q] <= sleeping[q] /\ sleeping'[q] \in Nat
  <2>1. TypeOK
    BY InvTypes
  <2>2. \A q \in Rooms : sleeping[q] \in 0 .. MaxCleanups
    BY <2>1 DEF TypeOK
  <2> QED BY <1>1, <2>1, <2>2, ThreadsAssumption
<1>4. Bounds'
  BY <1>1, <1>2 DEF ThreadsInv, Bounds
<1>5. CASE th = "main"
  <2>1. PICK rest : Upcoming(Head(todo["main"]), rest) /\ Does(todo'["main"], rest) /\ serving
                    /\ Head(todo["main"])[1] = "erase"
    <3>1. Rank("erase") \in 1 .. 6
      BY DEF Rank
    <3> QED BY <1>1, <1>5, <3>1, Serves
  <2>2. AllSettled /\ \E s \in Clients : roomOf[s] = NoRoom /\ rest = GoodBye(s)
    BY <2>1 DEF Upcoming
  <2>3. Plan(rest)
    BY <2>2 DEF Plan
  <2>4. Plan(rest)'
    BY <1>1, <1>2, <1>3, <2>3, PlanStands
  <2> QED BY <1>1, <1>4, <2>1, <2>4, PlanNext
<1>6. CASE th # "main"
  <2>1. todo'["main"] = todo["main"]
    BY <1>1, <1>6, ThreadNames DEF Continue, ThreadsInv, LockInv, Typed
  <2> QED BY <1>1, <1>2, <1>3, <1>4, <2>1, Unplanned
<1> QED BY <1>5, <1>6

LEMMA ClearPlanned == ASSUME ThreadsInv, ClearRooms \/ ClearClients PROVE PlanInv' /\ Bounds'
<1>1. PICK op \in {"clearRooms", "clearClients"} :
          /\ At("main", op) /\ Continue("main") /\ Rank(op) > 0
          /\ op = "clearRooms" => live' = {} /\ UNCHANGED isOwner
          /\ op = "clearClients" => live' = live /\ isOwner' = [s \in Clients |-> FALSE]
          /\ UNCHANGED <<sleeping, sends, round, serving, shutdown, broadcaster, databaseOpen>>
  BY DEF ClearRooms, ClearClients, Write, Rank, people, rooms, messages, control
<1>2. ~serving
  <2>1. ASSUME serving PROVE FALSE
    <3>1. PICK rest : Upcoming(Head(todo["main"]), rest) /\ Head(todo["main"])[1] = op
      BY <1>1, <2>1, MainRuns DEF ThreadsInv
    <3> QED BY <3>1 DEF Upcoming
  <2> QED BY <2>1
<1>3. PICK w : Does(todo'["main"], w) /\ w \subseteq {<<"clearClients">>} /\ live' = {}
  <2>1. \/ op = "clearRooms" /\ Does(todo'["main"], {<<"clearClients">>})
        \/ op = "clearClients" /\ live = {} /\ Does(todo'["main"], {})
    BY <1>1, <1>2, MainRuns DEF ThreadsInv
  <2> QED BY <1>1, <2>1
<1>4. EndPlan(w)'
  BY <1>3 DEF EndPlan
<1>5. Bounds'
  BY <1>1, <1>3 DEF ThreadsInv, Bounds
<1> QED BY <1>1, <1>2, <1>3, <1>4, <1>5, PlanNext

\* The sockets are closed: one client's behind its disconnection, all at the end.
LEMMA ClosePlanned == ASSUME ThreadsInv, CloseSocket \/ CloseSockets PROVE PlanInv' /\ Bounds'
<1>1. /\ Continue("main") /\ UNCHANGED <<connected, roomOf, isOwner, rooms, messages, control>>
      /\ At("main", "closesocket") \/ At("main", "closeSockets")
  BY DEF CloseSocket, CloseSockets, Close
<1>2. TypeOK
  BY InvTypes
<1>3. Bounds'
  BY <1>1 DEF ThreadsInv, Bounds, rooms, messages, control
<1>4. AllSettled => AllSettled'
  BY <1>1 DEF AllSettled, Settled, rooms
<1>5. CASE At("main", "closesocket")
  <2>1. PICK rest : Upcoming(Head(todo["main"]), rest) /\ Does(todo'["main"], rest) /\ serving
                    /\ Head(todo["main"])[1] = "closesocket"
    <3>1. Rank("closesocket") \in 1 .. 6
      BY DEF Rank
    <3> QED BY <1>1, <1>5, <3>1, Serves
  <2>2. AllSettled' /\ rest = {}
    BY <1>4, <2>1 DEF Upcoming
  <2>3. Plan(rest)'
    BY <2>2 DEF Plan
  <2> QED BY <1>1, <1>3, <2>1, <2>3, PlanNext DEF control
<1>6. CASE At("main", "closeSockets")
  <2>1. ~serving /\ AllSettled /\ Does(todo'["main"], Clearing)
    BY <1>1, <1>6, EndsSockets
  <2>2. EndPlan(Clearing)'
    BY <1>4, <2>1 DEF EndPlan, Clearing
  <2> QED BY <1>1, <1>3, <2>1, <2>2, PlanNext DEF control
<1> QED BY <1>1, <1>5, <1>6

\* main starts a handler, or the end of the program.
LEMMA ServePlanned ==
    ASSUME ThreadsInv, NEW s \in Clients, Serve(s) PROVE PlanInv' /\ Bounds'
<1>1. /\ serving /\ todo["main"] = <<>>
      /\ s \in connected => round \subseteq connected
      /\ Space(s)
      /\ UNCHANGED <<connected, roomOf, isOwner, live, members, sleeping, sends, serving,
                     shutdown, broadcaster, databaseOpen>>
      /\ round' = round \ {s}
  BY DEF Serve, Polling, Space, people, rooms, messages
<1>2. PICK handler \in IF s \in connected THEN Commands(s) ELSE {Accept(s)} :
          todo'["main"] = handler
  <2>1. PICK handler \in IF s \in connected THEN Commands(s) ELSE {Accept(s)} :
            todo' = [todo EXCEPT !["main"] = handler]
    BY DEF Serve
  <2> QED BY <2>1, ThreadNames DEF ThreadsInv, LockInv, Typed
<1>3. TypeOK
  BY InvTypes
<1>4. AllSettled
  <2>1. Work(<<>>) = {}
    BY NothingDoes DEF Does
  <2>2. Plan({})
    BY <1>1, <2>1 DEF ThreadsInv, PlanInv
  <2> QED BY <2>2 DEF Plan, Onward, Opening, Leaving, HangingUp, GoodBye
<1>5. PICK w : Does(handler, w) /\ Plan(w)
  <2>1. CASE s \in connected
    BY <1>1, <1>2, <1>3, <1>4, <2>1, CommandsPlanned
  <2>2. CASE s \notin connected
    <3>1. handler = Locked("clients", <<<<"register", s>>>>)
      BY <1>2, <2>2 DEF Accept
    <3>2. Does(handler, {<<"register", s>>})
      BY <3>1, ComesAndGoes, LockedDoes, LockNames
    <3> QED BY <1>4, <2>2, <3>2 DEF Plan
  <2> QED BY <2>1, <2>2
<1>6. Plan(w)'
  <2>1. \A r \in Rooms : sleeping'[r] <= sleeping[r] /\ sleeping'[r] \in Nat
    BY <1>1, <1>3, ThreadsAssumption DEF TypeOK
  <2> QED BY <1>1, <1>3, <1>5, <2>1, PlanStands
<1>7. Bounds'
  BY <1>1 DEF ThreadsInv, Bounds
<1> QED BY <1>1, <1>2, <1>5, <1>6, <1>7, PlanNext

LEMMA ShutdownDoes == Does(Shutdown, {<<"closeSockets">>} \cup Clearing)
<1> DEFINE a == <<"notify">>
           b == <<"joinBroadcaster">>
           k == <<"closeSockets">>
           c == <<"clearRooms">>
           d == <<"clearClients">>
           e == <<"closeDatabase">>
<1>1. /\ a \in Instruction /\ b \in Instruction /\ k \in Instruction
      /\ c \in Instruction /\ d \in Instruction /\ e \in Instruction
  BY DEF Instruction
<1>2. ~Matters(a) /\ ~Matters(b) /\ Matters(k) /\ Matters(c) /\ Matters(d) /\ ~Matters(e)
  BY DEF Matters, Rank
<1>3. Before({c}, {d}) /\ Before({k}, Clearing)
  BY Sequences
<1>4. Shutdown = <<a, b, k>> \o Locked("rooms", <<c>>) \o Locked("clients", <<d>>) \o <<e>>
  BY DEF Shutdown
<1>5. Clearing = {c} \cup {d}
  BY DEF Clearing
<1> HIDE DEF a, b, k, c, d, e
<1>6. /\ Does(<<a>>, {}) /\ Does(<<b>>, {}) /\ Does(<<k>>, {k})
      /\ Does(<<c>>, {c}) /\ Does(<<d>>, {d}) /\ Does(<<e>>, {})
  BY <1>1, <1>2, SingleDoes
<1>7. Does(<<a, b, k>>, {k})
  <2>1. Does(<<a>> \o <<b>>, {}) /\ <<a, b>> = <<a>> \o <<b>>
    BY <1>1, <1>6, Ordered, PairIsSequel
  <2>2. Does(<<a, b>>, {})
    BY <2>1
  <2>3. Does(<<a, b>> \o <<k>>, {} \cup {k})
    BY <1>6, <2>2, Ordered
  <2>4. <<a, b, k>> = <<a, b>> \o <<k>> /\ {} \cup {k} = {k}
    BY <1>1, TripleIsSequel
  <2> QED BY <2>3, <2>4
<1> DEFINE f == Locked("rooms", <<c>>)
           g == Locked("clients", <<d>>)
<1>8. Does(f, {c}) /\ Does(g, {d})
  BY <1>6, LockedDoes, LockNames
<1> HIDE DEF f, g
<1>9. Before({k}, {c}) /\ Before({k} \cup {c}, {d})
  BY <1>3, <1>5 DEF Before
<1>10. Does(<<a, b, k>> \o f, {k} \cup {c})
  BY <1>7, <1>8, <1>9, SequelDoes, Zenon
<1>11. Does((<<a, b, k>> \o f) \o g, ({k} \cup {c}) \cup {d})
  BY <1>8, <1>9, <1>10, SequelDoes, Zenon
<1>12. Does(((<<a, b, k>> \o f) \o g) \o <<e>>, ({k} \cup {c}) \cup {d})
  BY <1>6, <1>11, Ordered, Zenon
<1>13. ({k} \cup {c}) \cup {d} = {k} \cup Clearing
  BY <1>5
<1> QED BY <1>4, <1>12, <1>13 DEF f, g, k

LEMMA StopPlanned == ASSUME ThreadsInv, StopServing PROVE PlanInv' /\ Bounds'
<1>1. /\ serving /\ todo["main"] = <<>> /\ serving' = FALSE
      /\ UNCHANGED <<connected, roomOf, isOwner, live, members, sleeping, sends, round,
                     shutdown, broadcaster, databaseOpen>>
      /\ todo' = [todo EXCEPT !["main"] = Shutdown]
  BY DEF StopServing, Polling, people, rooms, messages
<1>2. todo'["main"] = Shutdown
  BY <1>1, ThreadNames DEF ThreadsInv, LockInv, Typed
<1>3. AllSettled
  <2>1. Work(<<>>) = {}
    BY NothingDoes DEF Does
  <2>2. Plan({})
    BY <1>1, <2>1 DEF ThreadsInv, PlanInv
  <2> QED BY <2>2 DEF Plan, Onward, Opening, Leaving, HangingUp, GoodBye
<1>4. AllSettled'
  BY <1>1, <1>3 DEF AllSettled, Settled
<1> DEFINE w == {<<"closeSockets">>} \cup Clearing
<1>5. EndPlan(w)'
  BY <1>4 DEF EndPlan, Clearing
<1>6. Does(todo'["main"], w)
  BY <1>2, ShutdownDoes
<1>7. Bounds'
  BY <1>1 DEF ThreadsInv, Bounds
<1> HIDE DEF w
<1> QED BY <1>1, <1>5, <1>6, <1>7, PlanNext

\* The steps that the plan does not speak of.
LEMMA QuietPlanned ==
    ASSUME ThreadsInv, UNCHANGED <<connected, roomOf, live, members, sends, serving>>,
           isOwner' \in [Clients -> BOOLEAN], round' \subseteq Clients,
           sleeping' \in [Rooms -> 0 .. MaxCleanups], \A r \in Rooms : sleeping'[r] <= sleeping[r],
           shutdown' \in BOOLEAN /\ databaseOpen' \in BOOLEAN,
           broadcaster' \in {"awake", "asleep", "notified", "done"},
           \/ todo'["main"] = todo["main"]
           \/ \E op : At("main", op) /\ Continue("main") /\ Rank(op) = 0
    PROVE  PlanInv' /\ Bounds'
<1>1. Bounds'
  BY DEF ThreadsInv, Bounds
<1>2. \A r \in Rooms : sleeping'[r] <= sleeping[r] /\ sleeping'[r] \in Nat
  BY ThreadsAssumption
<1>3. live' \subseteq live /\ \A r \in live \ live' : members[r] = {}
  OBVIOUS
<1>4. PlanInv'
  BY <1>2, <1>3, Unplanned
<1> QED BY <1>1, <1>4

LEMMA SleepersStay ==
    ThreadsInv => /\ sleeping \in [Rooms -> 0 .. MaxCleanups]
                  /\ \A r \in Rooms : sleeping[r] <= sleeping[r]
                  /\ isOwner \in [Clients -> BOOLEAN] /\ round \subseteq Clients
                  /\ shutdown \in BOOLEAN /\ databaseOpen \in BOOLEAN
                  /\ broadcaster \in {"awake", "asleep", "notified", "done"}
BY ThreadsAssumption DEF ThreadsInv, Bounds

LEMMA MainPlanned == ASSUME ThreadsInv, MainThread PROVE PlanInv' /\ Bounds'
<1>1. ASSUME NEW op, At("main", op), Continue("main"), Rank(op) = 0,
             UNCHANGED <<connected, roomOf, rooms, messages>>, serving' = serving,
             shutdown' = shutdown, round' = round, isOwner' \in [Clients -> BOOLEAN],
             databaseOpen' \in BOOLEAN,
             broadcaster' \in {"awake", "asleep", "notified", "done"}
      PROVE  PlanInv' /\ Bounds'
  BY <1>1, SleepersStay, QuietPlanned DEF rooms, messages
<1>2. \A op \in {"acquire", "pass", "release", "flag", "notify", "joinBroadcaster", "closeDatabase"} :
        Rank(op) = 0
  BY DEF Rank
<1>3. CASE Acquire("main")
  BY <1>1, <1>2, <1>3, SleepersStay DEF Acquire, people, control
<1>4. CASE Pass
  BY <1>1, <1>2, <1>4, SleepersStay DEF Pass, people, control
<1>5. CASE Release("main")
  BY <1>1, <1>2, <1>5, SleepersStay DEF Release, people, control
<1>6. CASE Flag
  <2>1. At("main", "flag") /\ Argument("main", 1) \in Clients /\ Argument("main", 2) \in BOOLEAN
    BY <1>6, AtArguments, ThreadNames DEF Flag, ThreadsInv
  <2>2. isOwner' \in [Clients -> BOOLEAN]
    BY <1>6, <2>1, SleepersStay DEF Flag, Write
  <2> QED BY <1>1, <1>2, <1>6, <2>1, <2>2, SleepersStay DEF Flag, Write, control
<1>7. CASE Notify
  BY <1>1, <1>2, <1>7, SleepersStay DEF Notify, people
<1>8. CASE JoinBroadcaster
  BY <1>1, <1>2, <1>8, SleepersStay DEF JoinBroadcaster, people, control
<1>9. CASE CloseDatabase
  BY <1>1, <1>2, <1>9, SleepersStay DEF CloseDatabase, people
<1>10. CASE Register \/ Forget \/ Record \/ Push \/ LeaveRoom \/ Remove \/ Open \/ JoinRoom
  BY <1>10, RegisterPlanned, ForgetPlanned, RecordPlanned, PushPlanned, OutPlanned, OpenPlanned,
     JoinPlanned
<1>11. CASE Erase("main") \/ ClearRooms \/ ClearClients
  BY <1>11, ErasePlanned, ClearPlanned, ThreadNames
<1>12. CASE CloseSocket \/ CloseSockets
  BY <1>12, ClosePlanned
<1>13. CASE (\E s \in Clients : Serve(s)) \/ EndLoop
  BY <1>13, ServePlanned, StopPlanned DEF EndLoop
<1> QED BY <1>3, <1>4, <1>5, <1>6, <1>7, <1>8, <1>9, <1>10, <1>11, <1>12, <1>13 DEF MainThread

LEMMA BroadcasterPlanned == ASSUME ThreadsInv, broadcastMessages PROVE PlanInv' /\ Bounds'
<1>1. /\ UNCHANGED <<people, rooms, sends, round, serving, shutdown, databaseOpen>>
      /\ todo'["main"] = todo["main"]
  BY ThreadNames
     DEF broadcastMessages, Acquire, Release, Loop, Take, AfterWait, TakeMessage, EndBroadcast,
         Wait, Sleep, WakeUp, LookUpRoom, FindRecipient, SendPrivate, Continue, control, messages,
         ThreadsInv, LockInv, Typed
<1>2. broadcaster' = broadcaster \/ broadcaster' \in {"awake", "asleep", "done"}
  BY DEF broadcastMessages, Acquire, Release, Loop, Take, AfterWait, TakeMessage, EndBroadcast,
         Wait, Sleep, WakeUp, LookUpRoom, FindRecipient, SendPrivate, control
<1>3. broadcaster' \in {"awake", "asleep", "notified", "done"}
  BY <1>2, SleepersStay
<1> QED BY <1>1, <1>3, SleepersStay, QuietPlanned DEF people, rooms

LEMMA CleanupPlanned ==
    ASSUME ThreadsInv, NEW r \in Rooms, cleanupEmptyRoom(r) PROVE PlanInv' /\ Bounds'
<1>1. "main" # r /\ r \in Threads
  BY ThreadNamesAssumption, ThreadNames
<1>2. CASE Acquire(r) \/ Release(r)
  <2>1. todo'["main"] = todo["main"] /\ UNCHANGED <<people, rooms, messages, control>>
    BY <1>1, <1>2, ThreadNames DEF Acquire, Release, Continue, ThreadsInv, LockInv, Typed
  <2> QED BY <2>1, SleepersStay, QuietPlanned DEF people, rooms, messages, control
<1>3. CASE Erase(r)
  BY <1>3, ErasePlanned, ThreadNames
<1>4. CASE WakeCleanup(r)
  <2>1. /\ todo'["main"] = todo["main"] /\ UNCHANGED <<people, live, members, messages, control>>
        /\ sleeping[r] > 0 /\ sleeping' = [sleeping EXCEPT ![r] = @ - 1]
    BY <1>1, <1>4, ThreadNames DEF WakeCleanup, ThreadsInv, LockInv, Typed
  <2>2. sleeping \in [Rooms -> 0 .. MaxCleanups] /\ MaxCleanups \in Nat
    BY SleepersStay, ThreadsAssumption
  <2>3. sleeping[r] \in 0 .. MaxCleanups /\ sleeping[r] - 1 \in 0 .. MaxCleanups
    BY <2>1, <2>2
  <2>4. \A q \in Rooms : sleeping'[q] = IF q = r THEN sleeping[q] - 1 ELSE sleeping[q]
    BY <2>1, <2>2
  <2>5. /\ sleeping' \in [Rooms -> 0 .. MaxCleanups]
        /\ \A q \in Rooms : sleeping'[q] <= sleeping[q]
    BY <2>1, <2>2, <2>3, <2>4
  <2> QED BY <2>1, <2>5, SleepersStay, QuietPlanned DEF people, messages, control
<1> QED BY <1>2, <1>3, <1>4 DEF cleanupEmptyRoom

LEMMA GoneForGood == ASSUME LockInv, BroadcasterGone, [Next]_vars PROVE BroadcasterGone'
<1>1. ~broadcastMessages
  BY DEF broadcastMessages, Acquire, Release, Loop, Take, Sleep, WakeUp, LookUpRoom,
         FindRecipient, SendPrivate, At, BroadcasterGone
<1>2. CASE MainThread \/ PollFails
  <2>1. todo'["broadcaster"] = todo["broadcaster"]
    BY <1>2, ThreadNames
       DEF MainThread, Acquire, Pass, Release, Register, Forget, Record, Flag, ClearClients, Write,
           LeaveRoom, Remove, Open, JoinRoom, Erase, ClearRooms, Push, Notify, JoinBroadcaster,
           CloseSocket, CloseSockets, Close, CloseDatabase, Serve, EndLoop, PollFails, StopServing,
           Continue, LockInv, Typed
  <2>2. broadcaster' = broadcaster
    BY <1>2
       DEF MainThread, Acquire, Pass, Release, Register, Forget, Record, Flag, ClearClients, Write,
           LeaveRoom, Remove, Open, JoinRoom, Erase, ClearRooms, Push, Notify, JoinBroadcaster,
           CloseSocket, CloseSockets, Close, CloseDatabase, Serve, EndLoop, PollFails, StopServing,
           control, BroadcasterGone
  <2> QED BY <2>1, <2>2 DEF BroadcasterGone
<1>3. ASSUME NEW r \in Rooms, cleanupEmptyRoom(r) PROVE BroadcasterGone'
  <2>1. "broadcaster" # r
    BY ThreadNamesAssumption
  <2>2. todo'["broadcaster"] = todo["broadcaster"] /\ broadcaster' = broadcaster
    BY <1>3, <2>1, ThreadNames
       DEF cleanupEmptyRoom, WakeCleanup, Acquire, Erase, Release, Continue, control, LockInv, Typed
  <2> QED BY <2>2 DEF BroadcasterGone
<1>4. CASE Poll \/ signalHandler \/ UNCHANGED vars
  BY <1>4 DEF Poll, signalHandler, vars, control, BroadcasterGone
<1> QED BY <1>1, <1>2, <1>3, <1>4 DEF Next, Terminated

\* While it serves, main closes a socket only behind the erasure of its record.
LEMMA NextOpen == ASSUME ThreadsInv, [Next]_vars PROVE OpenInv'
<1>1. sockets \subseteq Clients /\ (BroadcasterGone' \/ connected \subseteq sockets)
  BY GoneForGood DEF ThreadsInv, OpenInv
<1>2. CASE UNCHANGED <<connected, sockets>>
  BY <1>1, <1>2 DEF OpenInv
<1>3. CASE Register
  <2>1. Argument("main", 1) \in Clients
    BY <1>3, AtArguments, ThreadNames DEF Register, ThreadsInv
  <2>2. /\ sockets' = sockets \cup {Argument("main", 1)}
        /\ connected' = connected \cup {Argument("main", 1)}
    BY <1>3 DEF Register, Write
  <2>3. sockets' \subseteq Clients /\ (connected \subseteq sockets => connected' \subseteq sockets')
    BY <1>1, <2>1, <2>2
  <2> QED BY <1>1, <2>3 DEF OpenInv
<1>4. CASE Forget \/ ClearClients
  <2>1. sockets' = sockets /\ connected' \subseteq connected
    BY <1>4 DEF Forget, ClearClients, Write
  <2> QED BY <1>1, <2>1 DEF OpenInv
<1>5. CASE CloseSocket
  <2>1. PICK s : s = Argument("main", 1)
    OBVIOUS
  <2>2. /\ At("main", "closesocket") /\ Continue("main")
        /\ sockets' = sockets \ {s} /\ connected' = connected
    BY <1>5, <2>1 DEF CloseSocket, Close
  <2>3. s \notin connected
    <3>1. Rank("closesocket") \in 1 .. 6
      BY DEF Rank
    <3>2. PICK i, rest : Upcoming(i, rest) /\ i[1] = "closesocket" /\ s = i[2]
      BY <2>1, <2>2, <3>1, Serves
    <3> QED BY <3>2 DEF Upcoming
  <2>4. sockets' \subseteq Clients /\ (connected \subseteq sockets => connected' \subseteq sockets')
    BY <1>1, <2>2, <2>3
  <2> QED BY <1>1, <2>4 DEF OpenInv
<1>6. CASE CloseSockets
  <2>1. At("main", "closeSockets") /\ Continue("main") /\ sockets' \subseteq sockets
    BY <1>6 DEF CloseSockets, Close
  <2>2. ~serving
    BY <2>1, EndsSockets
  <2>3. PICK n \in 1 .. 10 : n = Len(todo["main"]) /\ Ends10[11 - n] = "closeSockets"
    BY <2>1, <2>2, Ending DEF ThreadsInv
  <2>4. n <= 8
    <3>1. Ends10[11 - n] = "closeSockets" <=> n = 8
      BY Ends10Is
    <3>2. n = 8
      BY <2>3, <3>1, Zenon
    <3> QED BY <3>2
  <2>5. BroadcasterGone
    BY <2>2, <2>3, <2>4, Zenon DEF ThreadsInv, EndInv, BroadcasterGone
  <2>6. BroadcasterGone'
    BY <2>5, GoneForGood DEF ThreadsInv
  <2> QED BY <1>1, <2>1, <2>6 DEF OpenInv
<1>7. ASSUME MainThread
      PROVE  \/ UNCHANGED <<connected, sockets>> \/ Register \/ Forget \/ ClearClients
             \/ CloseSocket \/ CloseSockets
  BY <1>7
     DEF MainThread, Acquire, Pass, Release, Record, Flag, Write, LeaveRoom, Remove, Open,
         JoinRoom, Erase, ClearRooms, Push, Notify, JoinBroadcaster, CloseDatabase, Serve,
         EndLoop, StopServing, people
<1>8. ASSUME broadcastMessages PROVE UNCHANGED <<connected, sockets>>
  BY <1>8
     DEF broadcastMessages, Acquire, Release, Loop, Take, Sleep, WakeUp, LookUpRoom,
         FindRecipient, SendPrivate, people
<1>9. ASSUME NEW r \in Rooms, cleanupEmptyRoom(r) PROVE UNCHANGED <<connected, sockets>>
  BY <1>9 DEF cleanupEmptyRoom, WakeCleanup, Acquire, Erase, Release, people
<1>10. ASSUME Poll \/ PollFails \/ signalHandler \/ UNCHANGED vars
       PROVE  UNCHANGED <<connected, sockets>>
  BY <1>10 DEF Poll, PollFails, StopServing, signalHandler, vars, people
<1> QED BY <1>2, <1>3, <1>4, <1>5, <1>6, <1>7, <1>8, <1>9, <1>10 DEF Next, Terminated

LEMMA NextPlanned == ASSUME ThreadsInv, [Next]_vars PROVE ThreadsInv'
<1>1. LockInv' /\ EndInv' /\ OpenInv'
  BY NextLocks, NextEnd, NextOpen DEF ThreadsInv
<1>2. CASE Poll
  <2>1. round' \subseteq Clients
    BY <1>2 DEF Poll
  <2> QED BY <1>1, <1>2, <2>1, SleepersStay, QuietPlanned
          DEF Poll, people, rooms, messages, ThreadsInv
<1>3. CASE PollFails
  BY <1>1, <1>3, StopPlanned DEF PollFails, ThreadsInv
<1>4. CASE signalHandler
  BY <1>1, <1>4, SleepersStay, QuietPlanned DEF signalHandler, people, rooms, messages, ThreadsInv
<1>5. CASE UNCHANGED vars
  BY <1>1, <1>5, SleepersStay, QuietPlanned
     DEF vars, people, rooms, messages, control, ThreadsInv
<1>6. CASE MainThread \/ broadcastMessages \/ \E r \in Rooms : cleanupEmptyRoom(r)
  BY <1>1, <1>6, MainPlanned, BroadcasterPlanned, CleanupPlanned DEF ThreadsInv
<1> QED BY <1>2, <1>3, <1>4, <1>5, <1>6 DEF Next, Terminated

LEMMA InitPlanned == ASSUME Init PROVE ThreadsInv
<1>1. LockInv /\ EndInv
  BY InitLocks, InitEnd
<1>2. todo["main"] = <<>> /\ serving
  BY ThreadNames DEF Init
<1>3. InOrder(<<>>) /\ Work(<<>>) = {}
  BY NothingDoes DEF Does
<1>4. AllSettled
  BY DEF Init, AllSettled, Settled
<1>5. PlanInv
  BY <1>2, <1>3, <1>4 DEF PlanInv, Plan
<1>6. Bounds
  <2>1. 0 \in 0 .. MaxSends /\ 0 \in 0 .. MaxCleanups
    BY ThreadsAssumption
  <2>2. sends \in 0 .. MaxSends /\ sleeping \in [Rooms -> 0 .. MaxCleanups]
    BY <2>1 DEF Init
  <2> QED BY <2>2 DEF Init, Bounds
<1>7. OpenInv
  BY DEF Init, OpenInv
<1> QED BY <1>1, <1>5, <1>6, <1>7 DEF ThreadsInv

LEMMA ThreadsInvariant == Spec => []ThreadsInv
<1>1. Init => ThreadsInv
  BY InitPlanned
<1>2. ThreadsInv /\ [Next]_vars => ThreadsInv'
  BY NextPlanned
<1> QED BY <1>1, <1>2, PTL DEF Spec

(***************************************************************************)
(* What follows.                                                            *)
(***************************************************************************)
\* Only a connected client whose record main is about to write may be unsettled.
LEMMA SettledOrRecorded ==
    ASSUME ThreadsInv, serving, NEW s \in Clients
    PROVE  \/ Settled(s)
           \/ s \in connected /\ \E q, b : <<"record", s, q, b>> \in Work(todo["main"])
<1> DEFINE w == Work(todo["main"])
<1>1. Plan(w)
  BY DEF ThreadsInv, PlanInv
<1> HIDE DEF w
<1>2. AllSettled => Settled(s)
  BY DEF AllSettled
<1>3. ASSUME NEW t \in connected, OthersSettled(t), \E q, b : <<"record", t, q, b>> \in w
      PROVE  Settled(s) \/ (s \in connected /\ \E q, b : <<"record", s, q, b>> \in w)
  <2>1. s = t \/ Settled(s)
    BY <1>3 DEF OthersSettled
  <2> QED BY <1>3, <2>1
<1>4. ASSUME NEW t \in connected, w \in Onward(t) PROVE \E q, b : <<"record", t, q, b>> \in w
  BY <1>4 DEF Onward, Opening, Leaving
<1>5. \/ AllSettled
      \/ \E t \in connected : Outside(t) /\ w \in Onward(t)
      \/ \E t \in connected, r \in live : OthersSettled(t) /\ w = {<<"record", t, r, TRUE>>}
  BY <1>1, Zenon DEF Plan
<1>6. CASE \E t \in connected : Outside(t) /\ w \in Onward(t)
  BY <1>3, <1>4, <1>6 DEF Outside, w
<1>7. CASE \E t \in connected, r \in live : OthersSettled(t) /\ w = {<<"record", t, r, TRUE>>}
  <2>1. PICK t \in connected, r \in live : OthersSettled(t) /\ w = {<<"record", t, r, TRUE>>}
    BY <1>7
  <2>2. \E q, b : <<"record", t, q, b>> \in w
    BY <2>1
  <2> QED BY <1>3, <2>1, <2>2 DEF w
<1> QED BY <1>2, <1>5, <1>6, <1>7 DEF w

\* Once the poll loop has ended everybody is settled until the rooms are cleared.
LEMMA SettledToTheEnd == ThreadsInv /\ ~serving => AllSettled \/ live = {}
BY DEF ThreadsInv, PlanInv, EndPlan

LEMMA PollingIsSettled == ASSUME ThreadsInv, Polling PROVE AllSettled
<1>1. Work(<<>>) = {}
  BY NothingDoes DEF Does
<1>2. Plan({})
  BY <1>1 DEF ThreadsInv, PlanInv, Polling
<1> QED BY <1>2 DEF Plan, Onward, Opening, Leaving, HangingUp, GoodBye

\* Every variable of the threads keeps its type; a cleanup thread is asleep for a
\* room MaxCleanups times at most and MaxSends messages are typed, because the plan
\* tells when a handler may still start one or send one.
THEOREM ThreadsTypeOK == Spec => []TypeOK
<1>1. ThreadsInv => TypeOK
  BY InvTypes
<1> QED BY <1>1, ThreadsInvariant, PTL

\* Between two handlers the clients' records and the rooms agree, for every number
\* of threads and whatever they do.
THEOREM MembershipIsQuiet == Spec => []QuietMembership
<1>1. ASSUME ThreadsInv PROVE QuietMembership
  <2>1. SUFFICES ASSUME Polling
                 PROVE  /\ \A s \in Clients :
                            roomOf[s] # NoRoom => s \in connected /\ roomOf[s] \in live
                        /\ \A r \in live : members[r] = {s \in Clients : roomOf[s] = r}
    BY DEF QuietMembership
  <2>2. AllSettled /\ TypeOK
    BY <1>1, <2>1, PollingIsSettled, InvTypes
  <2>3. \A r \in live : r # NoRoom /\ members[r] \subseteq Clients
    BY <2>2, ThreadsAssumption DEF TypeOK
  <2>4. ASSUME NEW r \in live PROVE members[r] = {s \in Clients : roomOf[s] = r}
    BY <2>2, <2>3 DEF AllSettled, Settled
  <2>5. \A s \in Clients : roomOf[s] # NoRoom => s \in connected /\ roomOf[s] \in live
    BY <2>2 DEF AllSettled, Settled
  <2> QED BY <2>4, <2>5
<1> QED BY <1>1, ThreadsInvariant, PTL

\* Nobody is in a live room without being connected, at any point of a handler.
LEMMA MembersAreConnected ==
    ASSUME ThreadsInv, NEW r \in live, NEW s \in members[r] PROVE s \in connected
<1>1. r \in Rooms /\ r # NoRoom /\ s \in Clients
  BY InvTypes, ThreadsAssumption DEF TypeOK
<1>2. Settled(s) => s \in connected
  BY <1>1 DEF Settled
<1>3. serving => s \in connected
  BY <1>1, <1>2, SettledOrRecorded
<1>4. ~serving => Settled(s)
  BY <1>1, SettledToTheEnd DEF AllSettled
<1> QED BY <1>2, <1>3, <1>4

\* A public message is sent to open sockets only.  A client whose socket is closed has
\* left its room before; at the end, when main closes the sockets of clients that are
\* still in their rooms, the broadcaster has been joined and sends no more.
THEOREM OpenSocketsOnly == Spec => []PublicMessagesReachOpenSockets
<1>1. ASSUME ThreadsInv PROVE PublicMessagesReachOpenSockets
  <2>1. SUFFICES ASSUME At("broadcaster", "look"), NEW r \in live, NEW s \in members[r]
                 PROVE  s \in sockets
    BY DEF PublicMessagesReachOpenSockets
  <2>2. s \in connected
    BY <1>1, MembersAreConnected
  <2>3. ~BroadcasterGone
    BY <2>1 DEF At, BroadcasterGone
  <2> QED BY <1>1, <2>2, <2>3 DEF ThreadsInv, OpenInv
<1> QED BY <1>1, ThreadsInvariant, PTL

\* Once the rooms are cleared the broadcaster has no program left.
LEMMA NobodyLooks ==
    ASSUME ThreadsInv, ~serving, todo["broadcaster"] # <<>> PROVE AllSettled
<1> DEFINE p == todo["main"]
<1>1. SUFFICES ASSUME Work(p) \subseteq {<<"clearClients">>} PROVE FALSE
  BY DEF ThreadsInv, PlanInv, EndPlan
<1>2. /\ Len(p) \in 0 .. 10 /\ ~(Len(p) <= 8)
      /\ \A k \in 1 .. Len(p) : p[k][1] = Ends10[k + (10 - Len(p))]
  BY DEF ThreadsInv, EndInv
<1>3. Len(p) - 5 \in 1 .. Len(p) /\ (Len(p) - 5) + (10 - Len(p)) = 11 - 6
  BY <1>2
<1>4. p[Len(p) - 5][1] = "clearRooms"
  <2>1. Ends10[11 - 6] = "clearRooms"
    BY Ends10Is
  <2> QED BY <1>2, <1>3, <2>1
<1>5. Matters(p[Len(p) - 5])
  BY <1>4 DEF Matters, Rank
<1>6. p[Len(p) - 5] \in Work(p)
  BY <1>3, <1>5, WorkIs
<1> QED BY <1>1, <1>4, <1>6

\* The broadcaster can be wrong about a recipient's room only while main has yet to
\* correct the recipient's record.
THEOREM StaleRecordsPass == Spec => []StaleRecordsArePassing
<1>1. ASSUME ThreadsInv PROVE StaleRecordsArePassing
  <2> DEFINE m == Argument("broadcaster", 1)
             pending == \E i \in DOMAIN todo["main"] :
                            todo["main"][i][1] = "record" /\ todo["main"][i][2] = m.to
  <2>1. SUFFICES ASSUME At("broadcaster", "find"), m.to \in connected, roomOf[m.to] = m.room
                 PROVE  m.to \in members[m.room] \/ pending
    BY DEF StaleRecordsArePassing
  <2>2. m \in Message
    BY <1>1, <2>1, AtArguments, ThreadNames DEF ThreadsInv
  <2>3. m.room \in Rooms /\ m.room # NoRoom /\ m.to \in Clients
    BY <1>1, <2>1, <2>2, InvTypes, ThreadsAssumption DEF Message, TypeOK
  <2>4. Settled(m.to) => m.to \in members[m.room]
    BY <2>1, <2>3 DEF Settled
  <2>5. CASE serving
    <3>1. ASSUME NEW q, NEW b, <<"record", m.to, q, b>> \in Work(todo["main"]) PROVE pending
      <4>1. PICK k \in 1 .. Len(todo["main"]) : <<"record", m.to, q, b>> = todo["main"][k]
        BY <3>1, WorkIs
      <4>2. DOMAIN todo["main"] = 1 .. Len(todo["main"])
        BY <1>1, ThreadNames DEF ThreadsInv, LockInv, Typed, Programs
      <4>3. todo["main"][k][1] = "record" /\ todo["main"][k][2] = m.to
        BY <4>1
      <4> QED BY <4>2, <4>3
    <3>2. Settled(m.to) \/ \E q, b : <<"record", m.to, q, b>> \in Work(todo["main"])
      BY <1>1, <2>3, <2>5, SettledOrRecorded
    <3> QED BY <2>4, <3>1, <3>2
  <2>6. CASE ~serving
    <3>1. todo["broadcaster"] # <<>>
      BY <2>1 DEF At
    <3>2. AllSettled
      BY <1>1, <2>6, <3>1, NobodyLooks
    <3> QED BY <2>3, <2>4, <3>2 DEF AllSettled
  <2> QED BY <2>5, <2>6
<1> QED BY <1>1, ThreadsInvariant, PTL

(***************************************************************************)
(* The threads implement RoomMembership: an instruction of main is one step *)
(* of it or none, and what the other threads do is none but a Close.        *)
(***************************************************************************)
\* Who is where, as RoomMembership sees it.
Inside == {p \in Clients \X live : serving /\ p[1] \in members[p[2]]}

AsPromised == [Membership!Next]_(Membership!vars)

LEMMA Stays ==
    ASSUME UNCHANGED <<connected, live, serving>>, \A q \in live : members'[q] = members[q]
    PROVE  AsPromised
<1>1. Inside' = Inside
  BY DEF Inside
<1> QED BY <1>1 DEF AsPromised, Membership!vars, Inside

\* When the server does not serve, nobody is anywhere.
LEMMA StaysEnded == ~serving /\ ~serving' => AsPromised
<1> SUFFICES ASSUME ~serving, ~serving' PROVE AsPromised
  OBVIOUS
<1>1. Inside' = {} /\ Inside = {}
  BY DEF Inside
<1> QED BY <1>1 DEF AsPromised, Membership!vars, Inside

LEMMA Exits ==
    ASSUME serving, serving', NEW s \in Clients, UNCHANGED <<connected, live>>,
           \A q \in live : members'[q] = members[q] \ {s}
    PROVE  AsPromised
<1>1. Inside' = {p \in Inside : p[1] # s}
  BY DEF Inside
<1>2. Membership!Exit(s)
  BY <1>1 DEF Membership!Exit, Membership!Elsewhere, Inside
<1> QED BY <1>2 DEF AsPromised, Membership!Next

\* The client s goes to the room r and out of all others.
LEMMA Goes ==
    ASSUME serving, serving', NEW s \in Clients, s \in connected, NEW r \in Rooms,
           connected' = connected, live' = live \cup {r},
           \A q \in live', t \in Clients :
               t \in members'[q] <=> IF t = s THEN q = r ELSE q \in live /\ t \in members[q]
    PROVE  AsPromised
<1>1. Inside' = {p \in Inside : p[1] # s} \cup {<<s, r>>}
  <2>1. ASSUME NEW p \in Inside' PROVE p \in {o \in Inside : o[1] # s} \cup {<<s, r>>}
    <3>1. p \in Clients \X live' /\ p[1] \in members'[p[2]]
      BY <2>1 DEF Inside
    <3>2. CASE p[1] = s
      BY <3>1, <3>2
    <3>3. CASE p[1] # s
      BY <3>1, <3>3 DEF Inside
    <3> QED BY <3>2, <3>3
  <2>2. ASSUME NEW p \in Inside, p[1] # s PROVE p \in Inside'
    BY <2>2 DEF Inside
  <2>3. <<s, r>> \in Inside'
    BY DEF Inside
  <2> QED BY <2>1, <2>2, <2>3
<1>2. CASE r \in live
  <2>1. live' = live
    BY <1>2
  <2>2. Membership!Enter(s, r)
    BY <1>1, <1>2, <2>1 DEF Membership!Enter, Membership!Moved, Membership!Elsewhere, Inside
  <2> QED BY <2>2 DEF AsPromised, Membership!Next
<1>3. CASE r \notin live
  <2>1. Membership!Open(s, r)
    BY <1>1, <1>3 DEF Membership!Open, Membership!Moved, Membership!Elsewhere, Inside
  <2> QED BY <2>1 DEF AsPromised, Membership!Next
<1> QED BY <1>2, <1>3

LEMMA Closes ==
    ASSUME serving, serving', TypeOK, NEW r \in Rooms, members[r] = {},
           UNCHANGED <<connected, members>>, live' = live \ {r}
    PROVE  AsPromised
<1>1. Inside' = Inside /\ \A p \in Inside : p[2] # r
  BY DEF Inside
<1>2. Membership!Close(r)
  BY <1>1 DEF Membership!Close, Inside
<1> QED BY <1>2 DEF AsPromised, Membership!Next

LEMMA RegisterAsPromised == ASSUME ThreadsInv, Register PROVE AsPromised
<1>0. PICK s : s = Argument("main", 1)
  OBVIOUS
<1>1. /\ At("main", "register") /\ Continue("main") /\ connected' = connected \cup {s}
      /\ UNCHANGED <<live, members, serving>>
  BY <1>0 DEF Register, Write, rooms, messages, control
<1>2. serving /\ s \in Clients /\ s \notin connected
  <2>1. Rank("register") \in 1 .. 6
    BY DEF Rank
  <2>2. PICK i, rest : serving /\ Upcoming(i, rest) /\ i[1] = "register" /\ s = i[2]
    BY <1>0, <1>1, <2>1, Serves
  <2> QED BY <2>2 DEF Upcoming
<1>3. Inside' = Inside
  BY <1>1 DEF Inside
<1>4. Membership!Connect(s)
  BY <1>1, <1>2, <1>3 DEF Membership!Connect, Inside
<1> QED BY <1>2, <1>4 DEF AsPromised, Membership!Next

LEMMA ForgetAsPromised == ASSUME ThreadsInv, Forget PROVE AsPromised
<1>0. PICK s : s = Argument("main", 1)
  OBVIOUS
<1>1. /\ At("main", "forget") /\ Continue("main") /\ connected' = connected \ {s}
      /\ UNCHANGED <<live, members, serving>>
  BY <1>0 DEF Forget, Write, rooms, messages, control
<1>2. serving /\ s \in Clients /\ AllSettled /\ roomOf[s] = NoRoom
  <2>1. Rank("forget") \in 1 .. 6
    BY DEF Rank
  <2>2. PICK i, rest : serving /\ Upcoming(i, rest) /\ i[1] = "forget" /\ s = i[2]
    BY <1>0, <1>1, <2>1, Serves
  <2> QED BY <2>2 DEF Upcoming
<1>3. Inside' = Inside /\ \A p \in Inside : p[1] # s
  <2>1. \A r \in live : r # NoRoom
    BY InvTypes, ThreadsAssumption DEF TypeOK
  <2>2. \A r \in live : s \notin members[r]
    BY <1>2, <2>1 DEF AllSettled, Settled
  <2> QED BY <1>1, <2>2 DEF Inside
<1>4. Membership!Disconnect(s)
  <2>1. Inside' = {p \in Inside : p[1] # s}
    BY <1>3
  <2> QED BY <1>1, <1>2, <2>1 DEF Membership!Disconnect, Membership!Elsewhere, Inside
<1> QED BY <1>2, <1>4 DEF AsPromised, Membership!Next

LEMMA OutAsPromised == ASSUME ThreadsInv, LeaveRoom \/ Remove PROVE AsPromised
<1>0. PICK s : s = Argument("main", 1)
  OBVIOUS
<1>1. PICK op \in {"leave", "remove"} :
          /\ At("main", op) /\ Continue("main")
          /\ members' = Without(s, Argument("main", 2))
          /\ UNCHANGED <<connected, live, serving>>
  BY <1>0, Zenon DEF LeaveRoom, Remove, people, messages, control
<1>2. /\ serving /\ AllSettled /\ s \in connected /\ roomOf[s] # NoRoom
      /\ Argument("main", 2) = roomOf[s]
  <2>1. Rank(op) \in 1 .. 6
    BY DEF Rank
  <2>2. PICK i, rest : serving /\ Upcoming(i, rest) /\ i[1] = op /\ s = i[2] /\ Argument("main", 2) = i[3]
    BY <1>0, <1>1, <2>1, Serves
  <2> QED BY <2>2 DEF Upcoming
<1>3. TypeOK /\ s \in Clients
  BY <1>2, InvTypes DEF TypeOK
<1>4. \A q \in live : members'[q] = members[q] \ {s}
  BY <1>1, <1>2, <1>3, WithoutIs
<1> QED BY <1>1, <1>2, <1>3, <1>4, Exits

LEMMA OpenAsPromised == ASSUME ThreadsInv, Open PROVE AsPromised
<1>0. PICK s, r : s = Argument("main", 1) /\ r = Argument("main", 2)
  OBVIOUS
<1>1. /\ At("main", "open") /\ Continue("main")
      /\ live' = live \cup {r} /\ members' = [members EXCEPT ![r] = {s}]
      /\ UNCHANGED <<connected, serving>>
  BY <1>0 DEF Open, people, messages, control
<1>2. serving /\ Outside(s) /\ s \in connected /\ r \in Rooms \ live
  <2>1. Rank("open") \in 1 .. 6
    BY DEF Rank
  <2>2. PICK i, rest : serving /\ Upcoming(i, rest) /\ i[1] = "open" /\ s = i[2] /\ r = i[3]
    BY <1>0, <1>1, <2>1, Serves
  <2> QED BY <2>2 DEF Upcoming
<1>3. TypeOK /\ s \in Clients
  BY <1>2, InvTypes DEF TypeOK
<1>4. members'[r] = {s} /\ \A q \in live : members'[q] = members[q]
  BY <1>1, <1>2, <1>3 DEF TypeOK
<1>5. \A q \in live', t \in Clients :
          t \in members'[q] <=> IF t = s THEN q = r ELSE q \in live /\ t \in members[q]
  BY <1>1, <1>2, <1>4 DEF Outside
<1> QED BY <1>1, <1>2, <1>3, <1>5, Goes

LEMMA JoinAsPromised == ASSUME ThreadsInv, JoinRoom PROVE AsPromised
<1>0. PICK s, r : s = Argument("main", 1) /\ r = Argument("main", 2)
  OBVIOUS
<1>1. /\ At("main", "join") /\ Continue("main")
      /\ \/ r \in live /\ members' = [Left(s) EXCEPT ![r] = @ \cup {s}] /\ connected' = connected
         \/ UNCHANGED <<members, connected>>
      /\ UNCHANGED <<live, serving>>
  BY <1>0 DEF JoinRoom, people, messages, control
<1>2. serving /\ AllSettled /\ s \in connected
  <2>1. Rank("join") \in 1 .. 6
    BY DEF Rank
  <2>2. PICK i, rest : serving /\ Upcoming(i, rest) /\ i[1] = "join" /\ s = i[2]
    BY <1>0, <1>1, <2>1, Serves
  <2> QED BY <2>2 DEF Upcoming
<1>3. TypeOK /\ s \in Clients /\ live \subseteq Rooms
  BY <1>2, InvTypes DEF TypeOK
<1>4. CASE r \in live /\ members' = [Left(s) EXCEPT ![r] = @ \cup {s}] /\ connected' = connected
  <2>1. \A q \in live, t \in Clients :
            t \in members'[q] <=> IF t = s THEN q = r ELSE t \in members[q]
    BY <1>2, <1>3, <1>4, JoinTakes
  <2>2. \A q \in live', t \in Clients :
            t \in members'[q] <=> IF t = s THEN q = r ELSE q \in live /\ t \in members[q]
    BY <1>1, <2>1
  <2>3. r \in Rooms /\ live' = live \cup {r}
    BY <1>1, <1>3, <1>4
  <2> QED BY <1>1, <1>2, <1>3, <1>4, <2>2, <2>3, Goes
<1>5. CASE UNCHANGED <<members, connected>>
  BY <1>1, <1>5, Stays
<1> QED BY <1>1, <1>4, <1>5

LEMMA EraseAsPromised == ASSUME ThreadsInv, NEW th \in Workers, Erase(th) PROVE AsPromised
<1>0. PICK r : r = Argument(th, 1)
  OBVIOUS
<1>1. /\ At(th, "erase") /\ live' = IF members[r] = {} THEN live \ {r} ELSE live
      /\ UNCHANGED <<connected, members, serving>>
  BY <1>0 DEF Erase, people, messages, control
<1>2. r \in Rooms /\ TypeOK
  BY <1>0, <1>1, AtArguments, ThreadNames, InvTypes DEF ThreadsInv
<1>3. CASE serving /\ members[r] = {}
  BY <1>1, <1>2, <1>3, Closes
<1>4. CASE ~serving
  BY <1>1, <1>4, StaysEnded
<1>5. CASE members[r] # {}
  BY <1>1, <1>5, Stays
<1> QED BY <1>3, <1>4, <1>5

LEMMA StopAsPromised == ASSUME StopServing PROVE AsPromised
<1>1. Inside' = {} /\ ~serving'
  BY DEF StopServing, Inside
<1>2. Membership!Stop
  BY <1>1 DEF Membership!Stop, Inside
<1> QED BY <1>2 DEF AsPromised, Membership!Next

LEMMA ClearAsPromised == ASSUME ThreadsInv, ClearRooms \/ ClearClients PROVE AsPromised
<1>1. PICK op \in {"clearRooms", "clearClients"} :
          At("main", op) /\ Continue("main") /\ Rank(op) > 0 /\ serving' = serving
  BY DEF ClearRooms, ClearClients, Write, Rank, control
<1>2. ~serving
  <2>1. ASSUME serving PROVE FALSE
    <3>1. PICK rest : Upcoming(Head(todo["main"]), rest) /\ Head(todo["main"])[1] = op
      BY <1>1, <2>1, MainRuns DEF ThreadsInv
    <3> QED BY <3>1 DEF Upcoming
  <2> QED BY <2>1
<1> QED BY <1>1, <1>2, StaysEnded

LEMMA ThreadsAsPromised == ASSUME ThreadsInv, [Next]_vars PROVE AsPromised
<1>1. CASE UNCHANGED <<connected, live, members, serving>>
  BY <1>1, Stays
<1>2. CASE Register \/ Forget \/ LeaveRoom \/ Remove \/ Open \/ JoinRoom
  BY <1>2, RegisterAsPromised, ForgetAsPromised, OutAsPromised, OpenAsPromised, JoinAsPromised
<1>3. CASE ClearRooms \/ ClearClients \/ \E th \in Workers : Erase(th)
  BY <1>3, ClearAsPromised, EraseAsPromised
<1>4. CASE EndLoop \/ PollFails
  BY <1>4, StopAsPromised DEF EndLoop, PollFails
<1>5. ASSUME MainThread
      PROVE  \/ UNCHANGED <<connected, live, members, serving>>
             \/ Register \/ Forget \/ LeaveRoom \/ Remove \/ Open \/ JoinRoom
             \/ ClearRooms \/ ClearClients \/ Erase("main") \/ EndLoop
  BY <1>5
     DEF MainThread, Acquire, Pass, Release, Record, Flag, Write, Push, Notify, JoinBroadcaster,
         CloseSocket, CloseSockets, Close, CloseDatabase, Serve, people, rooms, control
<1>6. ASSUME broadcastMessages PROVE UNCHANGED <<connected, live, members, serving>>
  BY <1>6
     DEF broadcastMessages, Acquire, Release, Loop, Take, Sleep, WakeUp, LookUpRoom,
         FindRecipient, SendPrivate, people, rooms, control
<1>7. ASSUME NEW r \in Rooms, cleanupEmptyRoom(r)
      PROVE  Erase(r) \/ UNCHANGED <<connected, live, members, serving>>
  BY <1>7 DEF cleanupEmptyRoom, WakeCleanup, Acquire, Release, people, rooms, control
<1>8. ASSUME Poll \/ signalHandler \/ UNCHANGED vars
      PROVE  UNCHANGED <<connected, live, members, serving>>
  BY <1>8 DEF Poll, signalHandler, vars, people, rooms, control
<1> QED BY <1>1, <1>2, <1>3, <1>4, <1>5, <1>6, <1>7, <1>8, ThreadNames DEF Next, Terminated

LEMMA ThreadsStartAsPromised == Init => Membership!Init
BY DEF Init, Membership!Init

\* Cut into critical sections and with every interleaving of the threads, the server
\* still does what RoomMembership promises.
THEOREM ThreadsImplementMembership == Spec => ImplementsMembership
<1>1. ThreadsInv /\ [Next]_vars => [Membership!Next]_(Membership!vars)
  BY ThreadsAsPromised DEF AsPromised
<1> QED BY <1>1, ThreadsStartAsPromised, InitPlanned, NextPlanned, PTL
        DEF Spec, ImplementsMembership, Membership!Spec
===============================================================================
