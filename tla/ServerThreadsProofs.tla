------------------------- MODULE ServerThreadsProofs -------------------------
(***************************************************************************)
(* The lock discipline of the server's threads, proved for any number of    *)
(* clients, rooms and messages: what a thread has left to do says which     *)
(* mutexes it holds, and it touches a shared map only inside its mutex.     *)
(***************************************************************************)
EXTENDS ServerThreads, TLAPS

Programs == Seq(Instruction)

\* What the threads run while the server serves.
Routines == {p \in Programs : \A k \in 1 .. Len(p) : p[k][1] # "closeDatabase"}

Begins(i, lock) == i[1] = "acquire" /\ i[2] = lock
Ends(i, lock) == i[1] = "release" /\ i[2] = lock
Passes(i, lock) == i[1] = "pass" /\ i[2] = lock

\* The mutexes an instruction must run in.
Needs(i) ==
    (IF i[1] \in {"register", "forget", "record", "flag", "join", "find", "clearClients"}
     THEN {"clients"} ELSE {})
    \cup (IF i[1] \in {"leave", "remove", "open", "join", "erase", "look", "sendTo", "clearRooms"}
          THEN {"rooms"} ELSE {})
    \cup (IF i[1] \in {"push", "take"} THEN {"queue"} ELSE {})

\* From the k-th instruction on, the next thing that happens to a mutex is that
\* it is given up.
GivesUp(p, k, lock) ==
    \E m \in k .. Len(p) : Ends(p[m], lock) /\ \A j \in k .. m - 1 : ~Begins(p[j], lock)

\* CREATE and JOIN change the rooms inside the clients' mutex.
Changes(p, k) == k + 1 \in 1 .. Len(p) /\ p[k + 1][1] \in {"leave", "join"}

\* A mutex is in hand where it is needed, taken to be given up, and given up once;
\* nobody waits for a mutex in hand, or for the rooms with the clients in hand
\* unless it is to change them.
Disciplined(p) ==
    /\ \A k \in 1 .. Len(p) : \A lock \in Needs(p[k]) : GivesUp(p, k, lock)
    /\ \A k \in 1 .. Len(p), lock \in Locks : Begins(p[k], lock) => GivesUp(p, k + 1, lock)
    /\ \A k \in 1 .. Len(p), lock \in Locks : Ends(p[k], lock) => ~GivesUp(p, k + 1, lock)
    /\ \A k \in 1 .. Len(p), lock \in Locks : Passes(p[k], lock) => ~GivesUp(p, k, lock)
    /\ \A k \in 1 .. Len(p) :
          Begins(p[k], "rooms") /\ GivesUp(p, k, "clients") => Changes(p, k)

\* A stretch of a program that runs inside some mutexes, leaves them alone, and has
\* no other in hand at its beginning and at its end.
Closed(p, inside) ==
    /\ \A k \in 1 .. Len(p) : \A lock \in Needs(p[k]) : lock \in inside \/ GivesUp(p, k, lock)
    /\ \A k \in 1 .. Len(p), lock \in Locks :
          Begins(p[k], lock) => lock \notin inside /\ GivesUp(p, k + 1, lock)
    /\ \A k \in 1 .. Len(p), lock \in Locks :
          Ends(p[k], lock) => lock \notin inside /\ ~GivesUp(p, k + 1, lock)
    /\ \A k \in 1 .. Len(p), lock \in Locks :
          Passes(p[k], lock) => lock \notin inside /\ ~GivesUp(p, k, lock)
    /\ \A k \in 1 .. Len(p) :
          Begins(p[k], "rooms") /\ ("clients" \in inside \/ GivesUp(p, k, "clients")) =>
              Changes(p, k)
    /\ \A lock \in Locks : ~GivesUp(p, 1, lock)

(***************************************************************************)
(* Programs put together.                                                   *)
(***************************************************************************)
LEMMA NeedsLocks == \A i : Needs(i) \subseteq Locks
BY DEF Needs, Locks

LEMMA LockNames == "clients" \in Locks /\ "rooms" \in Locks /\ "queue" \in Locks
BY DEF Locks

LEMMA ClosedIsDisciplined ==
    ASSUME NEW p, Closed(p, {})
    PROVE  Disciplined(p) /\ \A lock \in Locks : ~GivesUp(p, 1, lock)
BY DEF Closed, Disciplined

LEMMA EmptyIsClosed == ASSUME NEW inside PROVE Closed(<<>>, inside)
BY DEF Closed, GivesUp

LEMMA TailGivesUp ==
    ASSUME NEW p \in Programs, p # <<>>, NEW lock, NEW k \in 1 .. Len(p)
    PROVE  GivesUp(Tail(p), k, lock) <=> GivesUp(p, k + 1, lock)
<1>1. /\ Len(p) \in Nat \ {0} /\ Len(Tail(p)) = Len(p) - 1
      /\ \A j \in 1 .. Len(p) - 1 : Tail(p)[j] = p[j + 1]
  BY DEF Programs
<1>2. ASSUME GivesUp(Tail(p), k, lock) PROVE GivesUp(p, k + 1, lock)
  <2>1. PICK m \in k .. Len(p) - 1 :
            Ends(p[m + 1], lock) /\ \A j \in k .. m - 1 : ~Begins(p[j + 1], lock)
    BY <1>1, <1>2 DEF GivesUp
  <2>2. \A j \in k + 1 .. (m + 1) - 1 : j - 1 \in k .. m - 1 /\ (j - 1) + 1 = j
    BY <2>1
  <2>3. \A j \in k + 1 .. (m + 1) - 1 : ~Begins(p[j], lock)
    BY <2>1, <2>2
  <2>4. m + 1 \in k + 1 .. Len(p)
    BY <1>1, <2>1
  <2> QED BY <2>1, <2>3, <2>4 DEF GivesUp
<1>3. ASSUME GivesUp(p, k + 1, lock) PROVE GivesUp(Tail(p), k, lock)
  <2>1. PICK m \in k + 1 .. Len(p) :
            Ends(p[m], lock) /\ \A j \in k + 1 .. m - 1 : ~Begins(p[j], lock)
    BY <1>3 DEF GivesUp
  <2>2. m - 1 \in k .. Len(Tail(p)) /\ Tail(p)[m - 1] = p[m]
    BY <1>1, <2>1
  <2>3. \A j \in k .. (m - 1) - 1 : j + 1 \in k + 1 .. m - 1 /\ Tail(p)[j] = p[j + 1]
    BY <1>1, <2>1
  <2> QED BY <2>1, <2>2, <2>3 DEF GivesUp
<1> QED BY <1>2, <1>3

LEMMA TailIsDisciplined ==
    ASSUME NEW p \in Programs, p # <<>>, Disciplined(p)
    PROVE  Disciplined(Tail(p))
<1>1. /\ Len(p) \in Nat \ {0} /\ Len(Tail(p)) = Len(p) - 1
      /\ \A j \in 1 .. Len(p) - 1 : Tail(p)[j] = p[j + 1]
  BY DEF Programs
<1>2. ASSUME NEW k \in 1 .. Len(p) - 1, NEW lock \in Locks
      PROVE  /\ GivesUp(Tail(p), k, lock) <=> GivesUp(p, k + 1, lock)
             /\ GivesUp(Tail(p), k + 1, lock) <=> GivesUp(p, (k + 1) + 1, lock)
             /\ k + 1 \in 1 .. Len(p) /\ Tail(p)[k] = p[k + 1]
  <2>1. k \in 1 .. Len(p) /\ k + 1 \in 1 .. Len(p)
    BY <1>1
  <2> QED BY <1>1, <2>1, TailGivesUp
<1>3. ASSUME NEW k \in 1 .. Len(p) - 1, Changes(p, k + 1) PROVE Changes(Tail(p), k)
  <2>1. k + 1 \in 1 .. Len(p) - 1 /\ Tail(p)[k + 1] = p[(k + 1) + 1]
    BY <1>1, <1>3 DEF Changes
  <2> QED BY <1>1, <1>3, <2>1 DEF Changes
<1> QED BY <1>1, <1>2, <1>3, NeedsLocks, LockNames DEF Disciplined

\* One after the other.
LEMMA SequelGivesUp ==
    ASSUME NEW p \in Programs, NEW q \in Programs, NEW lock \in Locks,
           ~GivesUp(q, 1, lock)
    PROVE  /\ \A k \in 1 .. Len(p) + 1 : GivesUp(p \o q, k, lock) <=> GivesUp(p, k, lock)
           /\ \A k \in 1 .. Len(q) + 1 :
                GivesUp(p \o q, Len(p) + k, lock) <=> GivesUp(q, k, lock)
<1>1. /\ Len(p) \in Nat /\ Len(q) \in Nat /\ Len(p \o q) = Len(p) + Len(q)
      /\ \A j \in 1 .. Len(p) : (p \o q)[j] = p[j]
      /\ \A j \in 1 .. Len(q) : (p \o q)[Len(p) + j] = q[j]
  BY DEF Programs
<1>2. ASSUME NEW k \in 1 .. Len(p) + 1, GivesUp(p, k, lock) PROVE GivesUp(p \o q, k, lock)
  <2>1. PICK m \in k .. Len(p) : Ends(p[m], lock) /\ \A j \in k .. m - 1 : ~Begins(p[j], lock)
    BY <1>2 DEF GivesUp
  <2>2. m \in k .. Len(p \o q) /\ m \in 1 .. Len(p) /\ \A j \in k .. m - 1 : j \in 1 .. Len(p)
    BY <1>1, <2>1
  <2> QED BY <1>1, <2>1, <2>2 DEF GivesUp
<1>3. ASSUME NEW k \in 1 .. Len(p) + 1, GivesUp(p \o q, k, lock) PROVE GivesUp(p, k, lock)
  <2>1. PICK m \in k .. Len(p \o q) :
            Ends((p \o q)[m], lock) /\ \A j \in k .. m - 1 : ~Begins((p \o q)[j], lock)
    BY <1>3 DEF GivesUp
  <2>2. CASE m <= Len(p)
    <3>1. m \in k .. Len(p) /\ m \in 1 .. Len(p) /\ \A j \in k .. m - 1 : j \in 1 .. Len(p)
      BY <1>1, <2>1, <2>2
    <3> QED BY <1>1, <2>1, <3>1 DEF GivesUp
  <2>3. CASE m > Len(p)
    <3>1. m - Len(p) \in 1 .. Len(q) /\ Len(p) + (m - Len(p)) = m
      BY <1>1, <2>1, <2>3
    <3>2. \A j \in 1 .. (m - Len(p)) - 1 : Len(p) + j \in k .. m - 1 /\ j \in 1 .. Len(q)
      BY <1>1, <2>1, <2>3
    <3>3. GivesUp(q, 1, lock)
      BY <1>1, <2>1, <3>1, <3>2 DEF GivesUp
    <3> QED BY <3>3
  <2> QED BY <1>1, <2>1, <2>2, <2>3
<1>4. ASSUME NEW k \in 1 .. Len(q) + 1, GivesUp(q, k, lock)
      PROVE  GivesUp(p \o q, Len(p) + k, lock)
  <2>1. PICK m \in k .. Len(q) : Ends(q[m], lock) /\ \A j \in k .. m - 1 : ~Begins(q[j], lock)
    BY <1>4 DEF GivesUp
  <2>2. /\ Len(p) + m \in Len(p) + k .. Len(p \o q) /\ m \in 1 .. Len(q)
        /\ \A j \in Len(p) + k .. (Len(p) + m) - 1 :
              /\ j - Len(p) \in k .. m - 1 /\ j - Len(p) \in 1 .. Len(q)
              /\ Len(p) + (j - Len(p)) = j
    BY <1>1, <2>1
  <2>3. \A j \in Len(p) + k .. (Len(p) + m) - 1 : ~Begins((p \o q)[j], lock)
    BY <1>1, <2>1, <2>2
  <2>4. Ends((p \o q)[Len(p) + m], lock)
    BY <1>1, <2>1, <2>2
  <2> QED BY <2>2, <2>3, <2>4 DEF GivesUp
<1>5. ASSUME NEW k \in 1 .. Len(q) + 1, GivesUp(p \o q, Len(p) + k, lock)
      PROVE  GivesUp(q, k, lock)
  <2>1. PICK m \in Len(p) + k .. Len(p \o q) :
            /\ Ends((p \o q)[m], lock)
            /\ \A j \in Len(p) + k .. m - 1 : ~Begins((p \o q)[j], lock)
    BY <1>5 DEF GivesUp
  <2>2. /\ m - Len(p) \in k .. Len(q) /\ m - Len(p) \in 1 .. Len(q)
        /\ Len(p) + (m - Len(p)) = m
        /\ \A j \in k .. (m - Len(p)) - 1 :
              Len(p) + j \in Len(p) + k .. m - 1 /\ j \in 1 .. Len(q)
    BY <1>1, <2>1
  <2> QED BY <1>1, <2>1, <2>2 DEF GivesUp
<1> QED BY <1>2, <1>3, <1>4, <1>5

LEMMA SequelIsClosed ==
    ASSUME NEW p \in Programs, NEW q \in Programs, NEW inside,
           Closed(p, inside), Closed(q, inside)
    PROVE  p \o q \in Programs /\ Closed(p \o q, inside)
<1>1. /\ p \o q \in Programs
      /\ Len(p) \in Nat /\ Len(q) \in Nat /\ Len(p \o q) = Len(p) + Len(q)
      /\ \A j \in 1 .. Len(p) : (p \o q)[j] = p[j]
      /\ \A j \in 1 .. Len(q) : (p \o q)[Len(p) + j] = q[j]
  BY DEF Programs
<1>2. ASSUME NEW lock \in Locks
      PROVE  /\ \A k \in 1 .. Len(p) + 1 : GivesUp(p \o q, k, lock) <=> GivesUp(p, k, lock)
             /\ \A k \in 1 .. Len(q) + 1 :
                  GivesUp(p \o q, Len(p) + k, lock) <=> GivesUp(q, k, lock)
  <2>1. ~GivesUp(q, 1, lock)
    BY DEF Closed
  <2> QED BY <2>1, SequelGivesUp
<1>3. ASSUME NEW k \in 1 .. Len(p), NEW lock \in Locks
      PROVE  /\ GivesUp(p \o q, k, lock) <=> GivesUp(p, k, lock)
             /\ GivesUp(p \o q, k + 1, lock) <=> GivesUp(p, k + 1, lock)
             /\ (p \o q)[k] = p[k]
  <2>1. k \in 1 .. Len(p) + 1 /\ k + 1 \in 1 .. Len(p) + 1
    BY <1>1
  <2> QED BY <1>1, <1>2, <2>1
<1>4. ASSUME NEW k \in 1 .. Len(q), NEW lock \in Locks
      PROVE  /\ GivesUp(p \o q, Len(p) + k, lock) <=> GivesUp(q, k, lock)
             /\ GivesUp(p \o q, (Len(p) + k) + 1, lock) <=> GivesUp(q, k + 1, lock)
             /\ (p \o q)[Len(p) + k] = q[k]
  <2>1. k \in 1 .. Len(q) + 1 /\ k + 1 \in 1 .. Len(q) + 1 /\ (Len(p) + k) + 1 = Len(p) + (k + 1)
    BY <1>1
  <2> QED BY <1>1, <1>2, <2>1
<1>5. \A k \in 1 .. Len(p \o q) :
        k \in 1 .. Len(p) \/ \E j \in 1 .. Len(q) : k = Len(p) + j
  <2>1. \A k \in 1 .. Len(p \o q) : ~(k \in 1 .. Len(p)) =>
            k - Len(p) \in 1 .. Len(q) /\ k = Len(p) + (k - Len(p))
    BY <1>1
  <2> QED BY <2>1
<1>6. \A lock \in Locks : ~GivesUp(p \o q, 1, lock)
  <2>1. 1 \in 1 .. Len(p) + 1
    BY <1>1
  <2> QED BY <1>2, <2>1 DEF Closed
<1>7. ASSUME NEW k \in 1 .. Len(p \o q), NEW lock \in Locks
      PROVE  /\ lock \in Needs((p \o q)[k]) => lock \in inside \/ GivesUp(p \o q, k, lock)
             /\ Begins((p \o q)[k], lock) =>
                    lock \notin inside /\ GivesUp(p \o q, k + 1, lock)
             /\ Ends((p \o q)[k], lock) =>
                    lock \notin inside /\ ~GivesUp(p \o q, k + 1, lock)
             /\ Passes((p \o q)[k], lock) => lock \notin inside /\ ~GivesUp(p \o q, k, lock)
  <2>1. CASE k \in 1 .. Len(p)
    BY <1>3, <2>1 DEF Closed
  <2>2. ASSUME NEW j \in 1 .. Len(q), k = Len(p) + j
        PROVE  /\ lock \in Needs(q[j]) => lock \in inside \/ GivesUp(q, j, lock)
               /\ Begins(q[j], lock) => lock \notin inside /\ GivesUp(q, j + 1, lock)
               /\ Ends(q[j], lock) => lock \notin inside /\ ~GivesUp(q, j + 1, lock)
               /\ Passes(q[j], lock) => lock \notin inside /\ ~GivesUp(q, j, lock)
    BY DEF Closed
  <2> QED BY <1>4, <1>5, <2>1, <2>2
<1>8. ASSUME NEW k \in 1 .. Len(p \o q), Begins((p \o q)[k], "rooms"),
             "clients" \in inside \/ GivesUp(p \o q, k, "clients")
      PROVE  Changes(p \o q, k)
  <2>1. CASE k \in 1 .. Len(p)
    <3>1. Changes(p, k)
      BY <1>3, <1>8, <2>1, LockNames DEF Closed
    <3>2. k + 1 \in 1 .. Len(p)
      BY <3>1 DEF Changes
    <3> QED BY <1>1, <3>1, <3>2 DEF Changes
  <2>2. ASSUME NEW j \in 1 .. Len(q), k = Len(p) + j PROVE Changes(p \o q, k)
    <3>1. Changes(q, j)
      BY <1>4, <1>8, <2>2, LockNames DEF Closed
    <3>2. j + 1 \in 1 .. Len(q) /\ k + 1 = Len(p) + (j + 1)
      BY <1>1, <2>2, <3>1 DEF Changes
    <3>3. k + 1 \in 1 .. Len(p \o q) /\ (p \o q)[k + 1] = q[j + 1]
      BY <1>1, <3>2
    <3> QED BY <3>1, <3>3 DEF Changes
  <2> QED BY <1>5, <2>1, <2>2
<1> QED BY <1>1, <1>6, <1>7, <1>8, NeedsLocks DEF Closed

\* One instruction that leaves the mutexes alone.
LEMMA SingleIsClosed ==
    ASSUME NEW i \in Instruction, NEW inside,
           i[1] \notin {"acquire", "release"}, Needs(i) \subseteq inside,
           i[1] = "pass" => i[2] \notin inside
    PROVE  <<i>> \in Programs /\ Closed(<<i>>, inside)
<1>1. <<i>> \in Programs /\ Len(<<i>>) = 1 /\ <<i>>[1] = i
  BY DEF Programs
<1>2. \A k \in 1 .. Len(<<i>>) : <<i>>[k] = i
  BY <1>1
<1>3. \A lock \in Locks, k \in Nat \ {0} : ~GivesUp(<<i>>, k, lock)
  BY <1>1 DEF GivesUp, Ends
<1>4. /\ \A lock \in Locks : ~Begins(i, lock) /\ ~Ends(i, lock)
      /\ \A lock \in Locks : Passes(i, lock) => lock \notin inside
  BY DEF Begins, Ends, Passes
<1> QED BY <1>1, <1>2, <1>3, <1>4, LockNames DEF Closed

\* A scope around a stretch that knows of its mutex.
LEMMA ScopeIsClosed ==
    ASSUME NEW body \in Programs, NEW inside, NEW lock \in Locks, lock \notin inside,
           Closed(body, inside \cup {lock}),
           lock = "rooms" /\ "clients" \in inside =>
               1 \in 1 .. Len(body) /\ body[1][1] \in {"leave", "join"},
           NEW begin \in Instruction, begin[1] = "acquire", begin[2] = lock,
           NEW end \in Instruction, end[1] = "release", end[2] = lock
    PROVE  /\ <<begin>> \o body \o <<end>> \in Programs
           /\ Closed(<<begin>> \o body \o <<end>>, inside)
<1> DEFINE P == <<begin>> \o body \o <<end>>
           n == Len(body)
<1>1. /\ P \in Programs
      /\ n \in Nat /\ Len(P) = n + 2
      /\ P[1] = begin /\ P[n + 2] = end
      /\ \A j \in 1 .. n : P[j + 1] = body[j]
  BY DEF Programs
<1> HIDE DEF P
<1>2. /\ \A l : Begins(begin, l) <=> l = lock
      /\ \A l : ~Ends(begin, l)
      /\ \A l : Ends(end, l) <=> l = lock
      /\ \A l : ~Begins(end, l)
      /\ Needs(begin) = {} /\ Needs(end) = {}
      /\ \A l : ~Passes(begin, l) /\ ~Passes(end, l)
  BY DEF Begins, Ends, Needs, Passes
<1>3. \A j \in 1 .. n : ~Begins(body[j], lock) /\ ~Ends(body[j], lock)
  BY DEF Closed
<1>4. ASSUME NEW k \in 2 .. n + 2 PROVE GivesUp(P, k, lock)
  <2>1. n + 2 \in k .. Len(P) /\ Ends(P[n + 2], lock)
    BY <1>1, <1>2
  <2>2. \A j \in k .. (n + 2) - 1 : j - 1 \in 1 .. n /\ P[j] = body[j - 1]
    <3>1. \A j \in k .. (n + 2) - 1 : j - 1 \in 1 .. n /\ (j - 1) + 1 = j
      BY <1>1
    <3> QED BY <1>1, <3>1
  <2>3. \A j \in k .. (n + 2) - 1 : ~Begins(P[j], lock)
    BY <1>3, <2>2
  <2> QED BY <2>1, <2>3 DEF GivesUp
<1>5. \A l \in Locks : ~GivesUp(P, n + 3, l)
  BY <1>1 DEF GivesUp
<1>6. ~GivesUp(P, 1, lock)
  <2>1. \A m \in 1 .. Len(P) : Ends(P[m], lock) => 1 \in 1 .. m - 1
    <3>1. \A m \in 1 .. Len(P) : m # 1 => 1 \in 1 .. m - 1
      BY <1>1
    <3> QED BY <1>1, <1>2, <3>1
  <2> QED BY <1>1, <1>2, <2>1 DEF GivesUp
<1>7. ASSUME NEW l \in Locks, l # lock, NEW j \in 1 .. n + 1
      PROVE  GivesUp(P, j + 1, l) <=> GivesUp(body, j, l)
  <2>1. ASSUME GivesUp(body, j, l) PROVE GivesUp(P, j + 1, l)
    <3>1. PICK m \in j .. n : Ends(body[m], l) /\ \A i \in j .. m - 1 : ~Begins(body[i], l)
      BY <2>1 DEF GivesUp
    <3>2. m + 1 \in j + 1 .. Len(P) /\ m \in 1 .. n
      BY <1>1, <3>1
    <3>3. \A i \in j + 1 .. (m + 1) - 1 : i - 1 \in j .. m - 1 /\ i - 1 \in 1 .. n /\ (i - 1) + 1 = i
      BY <1>1, <3>1
    <3>4. \A i \in j + 1 .. (m + 1) - 1 : ~Begins(P[i], l)
      BY <1>1, <3>1, <3>3
    <3> QED BY <1>1, <3>1, <3>2, <3>4 DEF GivesUp
  <2>2. ASSUME GivesUp(P, j + 1, l) PROVE GivesUp(body, j, l)
    <3>1. PICK m \in j + 1 .. Len(P) : Ends(P[m], l) /\ \A i \in j + 1 .. m - 1 : ~Begins(P[i], l)
      BY <2>2 DEF GivesUp
    <3>2. m # n + 2
      BY <1>1, <1>2, <1>7, <3>1
    <3>3. m - 1 \in j .. n /\ m - 1 \in 1 .. n /\ (m - 1) + 1 = m
      BY <1>1, <3>1, <3>2
    <3>4. Ends(body[m - 1], l)
      BY <1>1, <3>1, <3>3
    <3>5. \A i \in j .. (m - 1) - 1 : i + 1 \in j + 1 .. m - 1 /\ i \in 1 .. n
      BY <1>1, <3>1, <3>3
    <3>6. \A i \in j .. (m - 1) - 1 : ~Begins(body[i], l)
      BY <1>1, <3>1, <3>5
    <3> QED BY <3>3, <3>4, <3>6 DEF GivesUp
  <2> QED BY <2>1, <2>2
<1>8. \A l \in Locks : l # lock => ~GivesUp(P, 1, l)
  <2> SUFFICES ASSUME NEW l \in Locks, l # lock, GivesUp(P, 1, l) PROVE FALSE
    OBVIOUS
  <2>1. PICK m \in 1 .. Len(P) : Ends(P[m], l) /\ \A i \in 1 .. m - 1 : ~Begins(P[i], l)
    BY DEF GivesUp
  <2>2. m # 1
    BY <1>1, <1>2, <2>1
  <2>3. m \in 1 + 1 .. Len(P) /\ \A i \in 1 + 1 .. m - 1 : i \in 1 .. m - 1
    BY <1>1, <2>1, <2>2
  <2>4. GivesUp(P, 1 + 1, l)
    BY <2>1, <2>3 DEF GivesUp
  <2>5. 1 \in 1 .. n + 1 /\ ~GivesUp(body, 1, l)
    BY <1>1 DEF Closed
  <2> QED BY <1>7, <2>4, <2>5
<1>9. ASSUME NEW k \in 1 .. Len(P), NEW l \in Locks
      PROVE  /\ l \in Needs(P[k]) => l \in inside \/ GivesUp(P, k, l)
             /\ Begins(P[k], l) => l \notin inside /\ GivesUp(P, k + 1, l)
             /\ Ends(P[k], l) => l \notin inside /\ ~GivesUp(P, k + 1, l)
             /\ Passes(P[k], l) => l \notin inside /\ ~GivesUp(P, k, l)
  <2>1. CASE k = 1
    <3>1. 2 \in 2 .. n + 2 /\ k + 1 = 2
      BY <1>1, <2>1
    <3> QED BY <1>1, <1>2, <1>4, <2>1, <3>1
  <2>2. CASE k = n + 2
    <3>1. k + 1 = n + 3
      BY <1>1, <2>2
    <3> QED BY <1>1, <1>2, <1>5, <2>2, <3>1
  <2>3. CASE k # 1 /\ k # n + 2
    <3>1. PICK j \in 1 .. n : k = j + 1
      <4>1. k - 1 \in 1 .. n /\ k = (k - 1) + 1
        BY <1>1, <2>3
      <4> QED BY <4>1
    <3>2. /\ k \in 2 .. n + 2 /\ j \in 1 .. n + 1 /\ j + 1 \in 1 .. n + 1
          /\ k + 1 = (j + 1) + 1 /\ P[k] = body[j]
      BY <1>1, <3>1
    <3>3. /\ l \in Needs(body[j]) => l \in inside \cup {lock} \/ GivesUp(body, j, l)
          /\ Begins(body[j], l) => l \notin inside \cup {lock} /\ GivesUp(body, j + 1, l)
          /\ Ends(body[j], l) => l \notin inside \cup {lock} /\ ~GivesUp(body, j + 1, l)
          /\ Passes(body[j], l) => l \notin inside \cup {lock} /\ ~GivesUp(body, j, l)
      BY DEF Closed
    <3>4. CASE l = lock
      BY <1>4, <3>2, <3>3, <3>4
    <3>5. CASE l # lock
      <4>1. /\ GivesUp(P, k, l) <=> GivesUp(body, j, l)
            /\ GivesUp(P, k + 1, l) <=> GivesUp(body, j + 1, l)
        BY <1>7, <3>1, <3>2, <3>5
      <4> QED BY <3>2, <3>3, <3>5, <4>1
    <3> QED BY <3>4, <3>5
  <2> QED BY <2>1, <2>2, <2>3
<1>10. ASSUME NEW k \in 1 .. Len(P), Begins(P[k], "rooms"),
              "clients" \in inside \/ GivesUp(P, k, "clients")
       PROVE  Changes(P, k)
  <2>1. CASE k = 1
    <3>1. lock = "rooms" /\ "clients" \in inside
      BY <1>1, <1>2, <1>6, <1>8, <1>10, <2>1, LockNames
    <3>2. 1 \in 1 .. n /\ body[1][1] \in {"leave", "join"}
      BY <3>1
    <3>3. P[1 + 1] = body[1] /\ k + 1 = 1 + 1 /\ k + 1 \in 1 .. Len(P)
      BY <1>1, <2>1, <3>2
    <3> QED BY <3>2, <3>3 DEF Changes
  <2>2. CASE k # 1
    <3>1. k # n + 2
      BY <1>1, <1>2, <1>10
    <3>2. PICK j \in 1 .. n : k = j + 1
      <4>1. k - 1 \in 1 .. n /\ k = (k - 1) + 1
        BY <1>1, <2>2, <3>1
      <4> QED BY <4>1
    <3>3. P[k] = body[j] /\ j \in 1 .. n + 1 /\ j + 1 \in 1 .. n + 1
      BY <1>1, <3>2
    <3>4. "clients" \in inside \cup {lock} \/ GivesUp(body, j, "clients")
      BY <1>7, <1>10, <3>2, <3>3, LockNames
    <3>5. Changes(body, j)
      BY <1>10, <3>3, <3>4 DEF Closed
    <3>6. j + 1 \in 1 .. n /\ P[(j + 1) + 1] = body[j + 1] /\ k + 1 = (j + 1) + 1
          /\ k + 1 \in 1 .. Len(P)
      BY <1>1, <3>2, <3>5 DEF Changes
    <3> QED BY <3>5, <3>6 DEF Changes
  <2> QED BY <2>1, <2>2
<1>11. Closed(P, inside)
  BY <1>6, <1>8, <1>9, <1>10, NeedsLocks DEF Closed
<1> QED BY <1>1, <1>11 DEF P

\* A stretch that runs inside some mutexes.
Within(p, inside) == p \in Routines /\ Closed(p, inside)

\* What a worker starts with: no mutex in hand.
Whole(p) == p \in Programs /\ Closed(p, {})

\* An instruction of a sequel is one of its parts'.
LEMMA SequelParts ==
    ASSUME NEW p \in Programs, NEW q \in Programs, NEW k \in 1 .. Len(p \o q)
    PROVE  \/ k \in 1 .. Len(p) /\ (p \o q)[k] = p[k]
           \/ \E j \in 1 .. Len(q) : (p \o q)[k] = q[j]
<1>1. /\ Len(p) \in Nat /\ Len(q) \in Nat /\ Len(p \o q) = Len(p) + Len(q)
      /\ \A j \in 1 .. Len(p) : (p \o q)[j] = p[j]
      /\ \A j \in 1 .. Len(q) : (p \o q)[Len(p) + j] = q[j]
  BY DEF Programs
<1>2. CASE k \in 1 .. Len(p)
  BY <1>1, <1>2
<1>3. CASE k \notin 1 .. Len(p)
  <2>1. k - Len(p) \in 1 .. Len(q) /\ Len(p) + (k - Len(p)) = k
    BY <1>1, <1>3
  <2> QED BY <1>1, <2>1
<1> QED BY <1>2, <1>3

LEMMA Sequel ==
    ASSUME NEW p, NEW q, NEW inside, Within(p, inside), Within(q, inside)
    PROVE  Within(p \o q, inside)
<1>1. /\ p \in Programs /\ q \in Programs
      /\ \A k \in 1 .. Len(p) : p[k][1] # "closeDatabase"
      /\ \A k \in 1 .. Len(q) : q[k][1] # "closeDatabase"
  BY DEF Within, Routines
<1>2. p \o q \in Programs /\ Closed(p \o q, inside)
  BY <1>1, SequelIsClosed DEF Within
<1>3. \A k \in 1 .. Len(p \o q) : (p \o q)[k][1] # "closeDatabase"
  BY <1>1, SequelParts
<1> QED BY <1>2, <1>3 DEF Within, Routines

LEMMA Scope ==
    ASSUME NEW body, NEW inside, NEW lock \in Locks, lock \notin inside,
           Within(body, inside \cup {lock}),
           lock = "rooms" /\ "clients" \in inside =>
               1 \in 1 .. Len(body) /\ body[1][1] \in {"leave", "join"}
    PROVE  Within(Locked(lock, body), inside)
<1> DEFINE begin == <<"acquire", lock>>
           end == <<"release", lock>>
<1>1. begin \in Instruction /\ end \in Instruction
  BY DEF Instruction
<1>2. begin[1] = "acquire" /\ begin[2] = lock /\ end[1] = "release" /\ end[2] = lock
  OBVIOUS
<1> HIDE DEF begin, end
<1>3. /\ <<begin>> \o body \o <<end>> \in Programs
      /\ Closed(<<begin>> \o body \o <<end>>, inside)
  BY <1>1, <1>2, ScopeIsClosed DEF Within, Routines
<1>4. \A k \in 1 .. Len(<<begin>> \o body \o <<end>>) :
        (<<begin>> \o body \o <<end>>)[k][1] # "closeDatabase"
  <2> DEFINE p == <<begin>> \o body
  <2>1. /\ <<begin>> \in Programs /\ <<end>> \in Programs /\ body \in Programs
        /\ Len(<<begin>>) = 1 /\ <<begin>>[1] = begin /\ Len(<<end>>) = 1 /\ <<end>>[1] = end
        /\ \A k \in 1 .. Len(body) : body[k][1] # "closeDatabase"
    BY <1>1 DEF Programs, Within, Routines
  <2>2. p \in Programs
    BY <2>1 DEF Programs
  <2>3. \A k \in 1 .. Len(p) : p[k][1] # "closeDatabase"
    <3>1. \A k \in 1 .. Len(p) :
            \/ k \in 1 .. 1 /\ p[k] = <<begin>>[k]
            \/ \E j \in 1 .. Len(body) : p[k] = body[j]
      BY <2>1, SequelParts
    <3> HIDE DEF p
    <3> QED BY <1>2, <2>1, <3>1
  <2> HIDE DEF p
  <2>4. \A k \in 1 .. Len(p \o <<end>>) :
            \/ k \in 1 .. Len(p) /\ (p \o <<end>>)[k] = p[k]
            \/ \E j \in 1 .. 1 : (p \o <<end>>)[k] = <<end>>[j]
    BY <2>1, <2>2, SequelParts
  <2>5. \A k \in 1 .. Len(p \o <<end>>) : (p \o <<end>>)[k][1] # "closeDatabase"
    BY <1>2, <2>1, <2>3, <2>4
  <2> QED BY <2>5 DEF p
<1> QED BY <1>3, <1>4 DEF Within, Routines, Locked, begin, end

LEMMA Single ==
    ASSUME NEW i \in Instruction, NEW inside,
           i[1] \notin {"acquire", "release", "closeDatabase"}, Needs(i) \subseteq inside,
           i[1] = "pass" => i[2] \notin inside
    PROVE  Within(<<i>>, inside)
<1>1. <<i>> \in Programs /\ Closed(<<i>>, inside)
  BY SingleIsClosed
<1>2. \A k \in 1 .. Len(<<i>>) : <<i>>[k] = i
  OBVIOUS
<1> QED BY <1>1, <1>2 DEF Within, Routines

LEMMA WholeWithin == \A p : Within(p, {}) => Whole(p)
BY DEF Within, Whole, Routines

LEMMA Nothing == \A inside : Within(<<>>, inside)
BY EmptyIsClosed DEF Within, Routines, Programs

\* The instructions of the handlers, each inside the mutexes it needs.
LEMMA Steps ==
    ASSUME NEW inside
    PROVE  /\ \A lock \in Locks \ inside : Within(Reads(lock), inside)
           /\ Within(<<<<"notify">>>>, inside) /\ Within(<<<<"joinBroadcaster">>>>, inside)
           /\ Within(<<<<"closeSockets">>>>, inside)
           /\ \A s \in Clients : Within(<<<<"closesocket", s>>>>, inside)
           /\ "clients" \in inside =>
                /\ Within(<<<<"clearClients">>>>, inside)
                /\ \A s \in Clients :
                     /\ Within(<<<<"register", s>>>>, inside)
                     /\ Within(<<<<"forget", s>>>>, inside)
                     /\ \A r \in Rooms \cup {NoRoom}, b \in BOOLEAN :
                          Within(<<<<"record", s, r, b>>>>, inside)
                     /\ \A b \in BOOLEAN : Within(<<<<"flag", s, b>>>>, inside)
           /\ "rooms" \in inside =>
                /\ Within(<<<<"clearRooms">>>>, inside)
                /\ \A r \in Rooms :
                     /\ Within(<<<<"erase", r>>>>, inside)
                     /\ \A s \in Clients, op \in {"leave", "remove", "open"} :
                          Within(<<<<op, s, r>>>>, inside)
                     /\ \A s \in Clients :
                          "clients" \in inside => Within(<<<<"join", s, r>>>>, inside)
           /\ "queue" \in inside => \A m \in Message : Within(<<<<"push", m>>>>, inside)
<1>1. ASSUME NEW lock \in Locks \ inside PROVE Within(Reads(lock), inside)
  <2>1. <<"pass", lock>> \in Instruction
    BY DEF Instruction
  <2>2. Needs(<<"pass", lock>>) = {} /\ <<"pass", lock>>[1] \notin {"acquire", "release", "closeDatabase"}
        /\ <<"pass", lock>>[2] \notin inside
    BY DEF Needs
  <2> QED BY <2>1, <2>2, Single DEF Reads
<1>2. ASSUME NEW op \in {"notify", "joinBroadcaster", "closeSockets"}
      PROVE  Within(<<<<op>>>>, inside)
  <2>1. <<op>> \in Instruction
    BY DEF Instruction
  <2>2. Needs(<<op>>) = {} /\ <<op>>[1] \notin {"acquire", "release", "pass", "closeDatabase"}
    BY DEF Needs
  <2> QED BY <2>1, <2>2, Single
<1>3. ASSUME "clients" \in inside PROVE Within(<<<<"clearClients">>>>, inside)
  <2>1. <<"clearClients">> \in Instruction
    BY DEF Instruction
  <2>2. /\ Needs(<<"clearClients">>) \subseteq inside
        /\ <<"clearClients">>[1] \notin {"acquire", "release", "pass", "closeDatabase"}
    BY <1>3 DEF Needs
  <2> QED BY <2>1, <2>2, Single
<1>4. ASSUME "clients" \in inside, NEW s \in Clients, NEW op \in {"register", "forget"}
      PROVE  Within(<<<<op, s>>>>, inside)
  <2>1. <<op, s>> \in Instruction
    BY DEF Instruction
  <2>2. Needs(<<op, s>>) \subseteq inside /\ <<op, s>>[1] \notin {"acquire", "release", "pass", "closeDatabase"}
    BY <1>4 DEF Needs
  <2> QED BY <2>1, <2>2, Single
<1>5. ASSUME "clients" \in inside, NEW s \in Clients, NEW r \in Rooms \cup {NoRoom},
             NEW b \in BOOLEAN
      PROVE  Within(<<<<"record", s, r, b>>>>, inside)
  <2>1. <<"record", s, r, b>> \in Instruction
    BY DEF Instruction
  <2>2. /\ Needs(<<"record", s, r, b>>) \subseteq inside
        /\ <<"record", s, r, b>>[1] \notin {"acquire", "release", "pass", "closeDatabase"}
    BY <1>5 DEF Needs
  <2> QED BY <2>1, <2>2, Single
<1>6. ASSUME "clients" \in inside, NEW s \in Clients, NEW b \in BOOLEAN
      PROVE  Within(<<<<"flag", s, b>>>>, inside)
  <2>1. <<"flag", s, b>> \in Instruction
    BY DEF Instruction
  <2>2. /\ Needs(<<"flag", s, b>>) \subseteq inside
        /\ <<"flag", s, b>>[1] \notin {"acquire", "release", "pass", "closeDatabase"}
    BY <1>6 DEF Needs
  <2> QED BY <2>1, <2>2, Single
<1>7. ASSUME "rooms" \in inside PROVE Within(<<<<"clearRooms">>>>, inside)
  <2>1. <<"clearRooms">> \in Instruction
    BY DEF Instruction
  <2>2. /\ Needs(<<"clearRooms">>) \subseteq inside
        /\ <<"clearRooms">>[1] \notin {"acquire", "release", "pass", "closeDatabase"}
    BY <1>7 DEF Needs
  <2> QED BY <2>1, <2>2, Single
<1>8. ASSUME "rooms" \in inside, NEW r \in Rooms PROVE Within(<<<<"erase", r>>>>, inside)
  <2>1. <<"erase", r>> \in Instruction
    BY DEF Instruction
  <2>2. Needs(<<"erase", r>>) \subseteq inside /\ <<"erase", r>>[1] \notin {"acquire", "release", "pass", "closeDatabase"}
    BY <1>8 DEF Needs
  <2> QED BY <2>1, <2>2, Single
<1>9. ASSUME "rooms" \in inside, NEW s \in Clients, NEW r \in Rooms,
             NEW op \in {"leave", "remove", "open"}
      PROVE  Within(<<<<op, s, r>>>>, inside)
  <2>1. <<op, s, r>> \in Instruction
    BY DEF Instruction
  <2>2. Needs(<<op, s, r>>) \subseteq inside /\ <<op, s, r>>[1] \notin {"acquire", "release", "pass", "closeDatabase"}
    BY <1>9 DEF Needs
  <2> QED BY <2>1, <2>2, Single
<1>10. ASSUME "rooms" \in inside, "clients" \in inside, NEW s \in Clients, NEW r \in Rooms
       PROVE  Within(<<<<"join", s, r>>>>, inside)
  <2>1. <<"join", s, r>> \in Instruction
    BY DEF Instruction
  <2>2. /\ Needs(<<"join", s, r>>) \subseteq inside
        /\ <<"join", s, r>>[1] \notin {"acquire", "release", "pass", "closeDatabase"}
    BY <1>10 DEF Needs
  <2> QED BY <2>1, <2>2, Single
<1>11. ASSUME "queue" \in inside, NEW m \in Message PROVE Within(<<<<"push", m>>>>, inside)
  <2>1. <<"push", m>> \in Instruction
    BY DEF Instruction
  <2>2. Needs(<<"push", m>>) \subseteq inside /\ <<"push", m>>[1] \notin {"acquire", "release", "pass", "closeDatabase"}
    BY <1>11 DEF Needs
  <2> QED BY <2>1, <2>2, Single
<1>12. ASSUME NEW s \in Clients PROVE Within(<<<<"closesocket", s>>>>, inside)
  <2>1. <<"closesocket", s>> \in Instruction
    BY DEF Instruction
  <2>2. /\ Needs(<<"closesocket", s>>) = {}
        /\ <<"closesocket", s>>[1] \notin {"acquire", "release", "pass", "closeDatabase"}
    BY DEF Needs
  <2> QED BY <2>1, <2>2, Single
<1> QED BY <1>1, <1>2, <1>3, <1>4, <1>5, <1>6, <1>7, <1>8, <1>9, <1>10, <1>11, <1>12

LEMMA Scopes ==
    /\ \A p : \A lock \in Locks : Within(p, {lock}) => Within(Locked(lock, p), {})
    /\ \A p : Within(p, {"clients", "rooms"}) => Within(Locked("clients", p), {"rooms"})
    /\ \A p : Within(p, {"clients", "rooms"}) =>
          (1 \in 1 .. Len(p) /\ p[1][1] \in {"leave", "join"} => Within(Locked("rooms", p), {"clients"}))
    /\ \A p, q, inside : Within(p, inside) /\ Within(q, inside) => Within(p \o q, inside)
<1>1. ASSUME NEW p, NEW lock \in Locks, Within(p, {lock}) PROVE Within(Locked(lock, p), {})
  <2>1. {} \cup {lock} = {lock} /\ lock \notin {}
    OBVIOUS
  <2>2. Within(p, {} \cup {lock})
    BY <1>1, <2>1
  <2> QED BY <2>1, <2>2, Scope
<1>2. ASSUME NEW p, Within(p, {"clients", "rooms"})
      PROVE  /\ Within(Locked("clients", p), {"rooms"})
             /\ 1 \in 1 .. Len(p) /\ p[1][1] \in {"leave", "join"} =>
                    Within(Locked("rooms", p), {"clients"})
  <2>1. /\ {"clients"} \cup {"rooms"} = {"clients", "rooms"} /\ "rooms" \notin {"clients"}
        /\ {"rooms"} \cup {"clients"} = {"clients", "rooms"} /\ "clients" \notin {"rooms"}
    OBVIOUS
  <2>2. Within(p, {"clients"} \cup {"rooms"}) /\ Within(p, {"rooms"} \cup {"clients"})
    BY <1>2, <2>1
  <2> QED BY <2>1, <2>2, Scope, LockNames
<1> QED BY <1>1, <1>2, Sequel

LEMMA PairIsSequel == \A a, b \in Instruction : <<a, b>> = <<a>> \o <<b>>
<1> SUFFICES ASSUME NEW a \in Instruction, NEW b \in Instruction PROVE <<a, b>> = <<a>> \o <<b>>
  OBVIOUS
<1>1. <<a>> \in Programs /\ <<b>> \in Programs /\ <<a, b>> \in Programs
  BY DEF Programs
<1>2. <<a>> \o <<b>> \in Programs
  BY <1>1 DEF Programs
<1>3. Len(<<a>> \o <<b>>) = 2 /\ Len(<<a, b>>) = 2
  BY <1>1 DEF Programs
<1>4. \A i \in 1 .. 2 : (<<a>> \o <<b>>)[i] = <<a, b>>[i]
  BY <1>1 DEF Programs
<1>5. \A p, q \in Programs : Len(p) = Len(q) /\ (\A i \in 1 .. Len(p) : p[i] = q[i]) => p = q
  BY DEF Programs
<1> QED BY <1>1, <1>2, <1>3, <1>4, <1>5, Zenon

LEMMA TripleIsSequel == \A a, b, c \in Instruction : <<a, b, c>> = <<a, b>> \o <<c>>
<1> SUFFICES ASSUME NEW a \in Instruction, NEW b \in Instruction, NEW c \in Instruction
             PROVE  <<a, b, c>> = <<a, b>> \o <<c>>
  OBVIOUS
<1>1. <<a, b>> \in Programs /\ <<c>> \in Programs /\ <<a, b, c>> \in Programs
  BY DEF Programs
<1>2. <<a, b>> \o <<c>> \in Programs
  BY <1>1 DEF Programs
<1>3. Len(<<a, b>> \o <<c>>) = 3 /\ Len(<<a, b, c>>) = 3
  BY <1>1 DEF Programs
<1>4. \A i \in 1 .. 3 : (<<a, b>> \o <<c>>)[i] = <<a, b, c>>[i]
  BY <1>1 DEF Programs
<1>5. \A p, q \in Programs : Len(p) = Len(q) /\ (\A i \in 1 .. Len(p) : p[i] = q[i]) => p = q
  BY DEF Programs
<1> QED BY <1>1, <1>2, <1>3, <1>4, <1>5

LEMMA Readers ==
    /\ Within(Look, {}) /\ Within(Look, {"rooms"}) /\ Within(Look \o Look, {})
    /\ Within(Reads("rooms"), {}) /\ Within(Reads("rooms"), {"clients"})
BY Steps, LockNames, Scopes DEF Look

\* What leaving a room does to the rooms, and then to the client's record.
LEMMA Leavers ==
    ASSUME NEW s \in Clients, NEW r \in Rooms
    PROVE  /\ \A op \in {"leave", "remove", "open"} : Within(Locked("rooms", <<<<op, s, r>>>>), {})
           /\ \A q \in Rooms \cup {NoRoom}, b \in BOOLEAN :
                /\ Within(Locked("clients", <<<<"record", s, q, b>>>>), {})
                /\ Within(Locked("clients", <<<<"record", s, q, b>>>>), {"rooms"})
           /\ Within(Locked("rooms", <<<<"erase", r>>>>), {})
<1>1. /\ \A op \in {"leave", "remove", "open"} : Within(<<<<op, s, r>>>>, {"rooms"})
      /\ Within(<<<<"erase", r>>>>, {"rooms"})
  BY Steps
<1>2. \A q \in Rooms \cup {NoRoom}, b \in BOOLEAN :
        /\ Within(<<<<"record", s, q, b>>>>, {"clients"})
        /\ Within(<<<<"record", s, q, b>>>>, {"clients", "rooms"})
  BY Steps
<1> QED BY <1>1, <1>2, Scopes, LockNames

LEMMA AcceptWithin == \A s \in Clients : Within(Accept(s), {})
<1>1. \A s \in Clients : Within(<<<<"register", s>>>>, {"clients"})
  BY Steps
<1> QED BY <1>1, Scopes, LockNames DEF Accept

LEMMA AskWithin ==
    /\ Within(SetName, {}) /\ Within(List, {}) /\ Within(Password, {}) /\ Within(Users, {})
    /\ Within(JoinRefused, {}) /\ Within(BanAbsent, {})
<1>1. Within(Locked("rooms", Look), {}) /\ Within(Locked("clients", Reads("rooms")), {})
  BY Readers, Scopes, LockNames
<1> QED BY <1>1, Readers, Scopes DEF SetName, List, Password, Users, JoinRefused, BanAbsent

LEMMA CreateWithin ==
    ASSUME NEW s \in Clients, NEW r \in Rooms, roomOf[s] \in Rooms \cup {NoRoom}
    PROVE  Within(Create(s, r), {})
<1>1. /\ Within(Locked("rooms", <<<<"open", s, r>>>>), {})
      /\ Within(Locked("clients", <<<<"record", s, r, TRUE>>>>), {})
  BY Leavers
<1>2. ASSUME roomOf[s] # NoRoom
      PROVE  Within(Locked("clients", Locked("rooms", <<<<"leave", s, roomOf[s]>>>>)), {})
  <2>1. Within(<<<<"leave", s, roomOf[s]>>>>, {"clients", "rooms"})
    BY <1>2, Steps
  <2>2. 1 \in 1 .. Len(<<<<"leave", s, roomOf[s]>>>>)
        /\ <<<<"leave", s, roomOf[s]>>>>[1][1] \in {"leave", "join"}
    OBVIOUS
  <2>3. Within(Locked("rooms", <<<<"leave", s, roomOf[s]>>>>), {"clients"})
    BY <2>1, <2>2, Scopes
  <2> QED BY <2>3, Scopes, LockNames
<1>3. Within(IF roomOf[s] = NoRoom THEN Look
             ELSE Locked("clients", Locked("rooms", <<<<"leave", s, roomOf[s]>>>>)), {})
  BY <1>2, Readers
<1> QED BY <1>1, <1>3, Scopes DEF Create

LEMMA JoinWithin == \A s \in Clients, r \in Rooms : Within(Join(s, r), {})
<1> SUFFICES ASSUME NEW s \in Clients, NEW r \in Rooms PROVE Within(Join(s, r), {})
  OBVIOUS
<1>1. Within(<<<<"join", s, r>>>>, {"clients", "rooms"})
  BY Steps
<1>2. 1 \in 1 .. Len(<<<<"join", s, r>>>>) /\ <<<<"join", s, r>>>>[1][1] \in {"leave", "join"}
  OBVIOUS
<1>3. Within(Locked("rooms", <<<<"join", s, r>>>>), {"clients"})
  BY <1>1, <1>2, Scopes
<1> QED BY <1>3, Scopes, LockNames DEF Join

LEMMA ExpelWithin ==
    ASSUME NEW t \in Clients, roomOf[t] \in Rooms
    PROVE  Within(Kick(t), {}) /\ Within(Ban(t), {})
<1>1. /\ Within(Locked("rooms", <<<<"remove", t, roomOf[t]>>>>), {})
      /\ Within(Locked("clients", <<<<"record", t, NoRoom, FALSE>>>>), {})
      /\ Within(Locked("clients", <<<<"record", t, NoRoom, FALSE>>>>), {"rooms"})
  BY Leavers
<1>2. Within(<<<<"remove", t, roomOf[t]>>>>, {"rooms"})
  BY Steps
<1>3. Within(Locked("rooms", <<<<"remove", t, roomOf[t]>>>>
                             \o Locked("clients", <<<<"record", t, NoRoom, FALSE>>>>)), {})
  BY <1>1, <1>2, Scopes, LockNames
<1>4. Within(Kick(t), {})
  BY <1>1, Readers, Scopes DEF Kick
<1>5. Within(Ban(t), {})
  BY <1>3, Readers, Scopes DEF Ban
<1> QED BY <1>4, <1>5

LEMMA HandOverWithin ==
    ASSUME NEW s \in Clients, NEW t \in Clients
    PROVE  /\ Within(Transfer(s, t), {})
           /\ roomOf[s] \in Rooms => Within(Leave(s), {}) /\ Within(ForceLeave(s, t), {})
<1>1. /\ Within(<<<<"flag", s, FALSE>>>>, {"clients", "rooms"})
      /\ Within(<<<<"flag", t, TRUE>>>>, {"clients", "rooms"})
  BY Steps
<1>2. Within(Locked("clients", <<<<"flag", t, TRUE>>>>), {"rooms"})
  BY <1>1, Scopes
<1>3. <<<<"flag", s, FALSE>>, <<"flag", t, TRUE>>>> = <<<<"flag", s, FALSE>>>> \o <<<<"flag", t, TRUE>>>>
  <2>1. <<"flag", s, FALSE>> \in Instruction /\ <<"flag", t, TRUE>> \in Instruction
    BY DEF Instruction
  <2> QED BY <2>1, PairIsSequel, Zenon
<1>4. Within(Locked("clients", <<<<"flag", s, FALSE>>, <<"flag", t, TRUE>>>>), {"rooms"})
  BY <1>1, <1>3, Scopes
<1>5. Within(Locked("rooms", Locked("clients", <<<<"flag", s, FALSE>>, <<"flag", t, TRUE>>>>)), {})
  BY <1>4, Scopes, LockNames
<1>6. Within(Transfer(s, t), {})
  BY <1>5, Readers, Scopes DEF Transfer
<1>7. ASSUME roomOf[s] \in Rooms PROVE Within(Leave(s), {}) /\ Within(ForceLeave(s, t), {})
  <2>1. /\ Within(Locked("rooms", <<<<"leave", s, roomOf[s]>>>>), {})
        /\ Within(Locked("clients", <<<<"record", s, NoRoom, FALSE>>>>), {})
    BY <1>7, Leavers
  <2>2. Within(<<<<"leave", s, roomOf[s]>>>>, {"rooms"})
    BY <1>7, Steps
  <2>3. Within(Locked("rooms", Locked("clients", <<<<"flag", t, TRUE>>>>)
                               \o <<<<"leave", s, roomOf[s]>>>>), {})
    BY <1>2, <2>2, Scopes, LockNames
  <2>4. Within(Leave(s), {})
    BY <2>1, Readers, Scopes DEF Leave
  <2>5. Within(ForceLeave(s, t), {})
    BY <2>1, <2>3, Readers, Scopes DEF ForceLeave
  <2> QED BY <2>4, <2>5
<1> QED BY <1>6, <1>7

LEMMA SayWithin ==
    ASSUME NEW s \in Clients, roomOf[s] \in Rooms, NEW to \in Addressees \cup {Everyone}
    PROVE  Within(Say(s, to), {})
<1>1. [to |-> to, room |-> roomOf[s]] \in Message
  BY DEF Message
<1>2. Within(<<<<"push", [to |-> to, room |-> roomOf[s]]>>>>, {"queue"})
  BY <1>1, Steps
<1>3. Within(Locked("queue", <<<<"push", [to |-> to, room |-> roomOf[s]]>>>>), {})
  BY <1>2, Scopes, LockNames
<1>4. Within(<<<<"notify">>>>, {})
  BY Steps
<1> QED BY <1>3, <1>4, Readers, Scopes DEF Say

LEMMA DisconnectWithin ==
    ASSUME NEW s \in Clients, roomOf[s] \in Rooms \cup {NoRoom}
    PROVE  Within(Disconnect(s), {})
<1>1. Within(<<<<"forget", s>>>>, {"clients"})
  BY Steps
<1>2. Within(Locked("clients", <<<<"forget", s>>>>) \o <<<<"closesocket", s>>>>, {})
  <2>1. Within(<<<<"closesocket", s>>>>, {})
    BY Steps
  <2>2. Within(Locked("clients", <<<<"forget", s>>>>), {})
    BY <1>1, Scopes, LockNames
  <2> QED BY <2>1, <2>2, Scopes
<1>3. CASE roomOf[s] = NoRoom
  BY <1>2, <1>3, Nothing, Readers, Scopes DEF Disconnect
<1>4. CASE roomOf[s] # NoRoom
  <2>1. /\ Within(Locked("rooms", <<<<"remove", s, roomOf[s]>>>>), {})
        /\ Within(Locked("clients", <<<<"record", s, NoRoom, FALSE>>>>), {})
        /\ Within(Locked("rooms", <<<<"erase", roomOf[s]>>>>), {})
    BY <1>4, Leavers
  <2>2. Within(Locked("rooms", <<<<"remove", s, roomOf[s]>>>>)
               \o Locked("clients", <<<<"record", s, NoRoom, FALSE>>>>)
               \o Locked("rooms", <<<<"erase", roomOf[s]>>>>), {})
    BY <2>1, Scopes
  <2> QED BY <1>2, <1>4, <2>2, Readers, Scopes DEF Disconnect
<1> QED BY <1>3, <1>4

LEMMA ShutdownIsWhole == Whole(Shutdown)
<1>1. /\ Within(<<<<"notify">>>>, {}) /\ Within(<<<<"joinBroadcaster">>>>, {})
      /\ Within(<<<<"closeSockets">>>>, {})
      /\ Within(<<<<"clearRooms">>>>, {"rooms"}) /\ Within(<<<<"clearClients">>>>, {"clients"})
  BY Steps
<1>2. /\ Within(Locked("rooms", <<<<"clearRooms">>>>), {})
      /\ Within(Locked("clients", <<<<"clearClients">>>>), {})
  BY <1>1, Scopes, LockNames
<1>3. <<"notify">> \in Instruction /\ <<"joinBroadcaster">> \in Instruction
      /\ <<"closeSockets">> \in Instruction
  BY DEF Instruction
<1>4. Within(<<<<"notify">>, <<"joinBroadcaster">>, <<"closeSockets">>>>, {})
  <2>1. Within(<<<<"notify">>>> \o <<<<"joinBroadcaster">>>>, {})
    BY <1>1, Scopes
  <2>2. Within(<<<<"notify">>, <<"joinBroadcaster">>>>, {})
    BY <1>3, <2>1, PairIsSequel, Zenon
  <2>3. Within(<<<<"notify">>, <<"joinBroadcaster">>>> \o <<<<"closeSockets">>>>, {})
    BY <1>1, <2>2, Scopes
  <2> QED BY <1>3, <2>3, TripleIsSequel, Zenon
<1> DEFINE p == <<<<"notify">>, <<"joinBroadcaster">>, <<"closeSockets">>>>
                   \o Locked("rooms", <<<<"clearRooms">>>>)
                   \o Locked("clients", <<<<"clearClients">>>>)
<1>5. Within(p, {})
  BY <1>2, <1>4, Scopes
<1>6. <<"closeDatabase">> \in Instruction /\ <<"closeDatabase">>[1] = "closeDatabase"
  BY DEF Instruction
<1>7. Needs(<<"closeDatabase">>) \subseteq {}
  BY <1>6 DEF Needs
<1>8. <<<<"closeDatabase">>>> \in Programs /\ Closed(<<<<"closeDatabase">>>>, {})
  BY <1>6, <1>7, SingleIsClosed
<1> HIDE DEF p
<1>9. p \in Programs /\ Closed(p, {})
  BY <1>5 DEF Within, Routines
<1>10. p \o <<<<"closeDatabase">>>> \in Programs /\ Closed(p \o <<<<"closeDatabase">>>>, {})
  BY <1>8, <1>9, SequelIsClosed
<1> QED BY <1>10 DEF Whole, Shutdown, p

(***************************************************************************)
(* The invariant.                                                           *)
(***************************************************************************)
\* The variables that decide which programs are written.
Typed ==
    /\ todo \in [Threads -> Programs]
    /\ holder \in [Locks -> Threads \cup {Nobody}]
    /\ connected \subseteq Clients
    /\ roomOf \in [Clients -> Rooms \cup {NoRoom}]
    /\ members \in [Rooms -> SUBSET Clients]
    /\ queue \in Seq(Message)

\* The main thread and the cleanup threads run whole programs.
Workers == {"main"} \cup Rooms

WorkersInv ==
    \A th \in Workers :
        /\ Disciplined(todo[th])
        /\ \A lock \in Locks : holder[lock] = th <=> GivesUp(todo[th], 1, lock)

\* The broadcaster decides as it goes: these are the programs it can be left with,
\* and the mutexes it then holds.
Holding(locks) == \A lock \in Locks : holder[lock] = "broadcaster" <=> lock \in locks

TurnInv ==
    LET p == todo["broadcaster"]
    IN  \/ Len(p) = 0 /\ Holding({})
        \/ Len(p) = 2 /\ Begins(p[1], "queue") /\ p[2][1] = "take" /\ Holding({})
        \/ Len(p) = 1 /\ p[1][1] \in {"take", "sleep"} /\ Holding({"queue"})
        \/ Len(p) = 1 /\ Ends(p[1], "queue") /\ Holding({"queue"})
        \/ /\ Len(p) = 4 /\ Ends(p[1], "queue") /\ Begins(p[2], "rooms")
           /\ p[3][1] = "look" /\ Ends(p[4], "rooms") /\ Holding({"queue"})
        \/ /\ Len(p) = 3 /\ Begins(p[1], "rooms") /\ p[2][1] = "look"
           /\ Ends(p[3], "rooms") /\ Holding({})
        \/ /\ Len(p) = 2 /\ p[1][1] \in {"look", "sendTo"} /\ Ends(p[2], "rooms")
           /\ Holding({"rooms"})
        \/ Len(p) = 1 /\ Ends(p[1], "rooms") /\ Holding({"rooms"})
        \/ /\ Len(p) = 4 /\ Begins(p[1], "clients") /\ p[2][1] = "find"
           /\ Ends(p[3], "clients") /\ Ends(p[4], "rooms") /\ Holding({"rooms"})
        \/ /\ Len(p) = 3 /\ p[1][1] = "find" /\ Ends(p[2], "clients") /\ Ends(p[3], "rooms")
           /\ Holding({"rooms", "clients"})
        \/ /\ Len(p) = 3 /\ Ends(p[1], "clients") /\ p[2][1] = "sendTo" /\ Ends(p[3], "rooms")
           /\ Holding({"rooms", "clients"})
        \/ /\ Len(p) = 2 /\ Ends(p[1], "clients") /\ Ends(p[2], "rooms")
           /\ Holding({"rooms", "clients"})

WaitInv == broadcaster \in {"asleep", "notified"} => todo["broadcaster"] = <<>>

LockInv == Typed /\ WorkersInv /\ TurnInv /\ WaitInv

LEMMA ThreadNames ==
    /\ "main" \in Threads /\ "main" \in Workers /\ "main" # "broadcaster"
    /\ "broadcaster" \in Threads /\ "broadcaster" \notin Workers
    /\ Workers \subseteq Threads /\ Rooms \subseteq Workers /\ Nobody \notin Threads
    /\ \A th \in Threads : th \in Workers \/ th = "broadcaster"
    /\ Nobody # "broadcaster"
BY ThreadNamesAssumption DEF Threads, Workers

LEMMA InstructionTypes ==
    ASSUME NEW i \in Instruction
    PROVE  /\ i[1] \in {"acquire", "release", "pass"} => i[2] \in Locks
           /\ i[1] \in {"register", "forget", "closesocket"} => i[2] \in Clients
           /\ i[1] \in {"leave", "remove", "open", "join", "sendTo"} =>
                i[2] \in Clients /\ i[3] \in Rooms
           /\ i[1] = "record" => i[2] \in Clients /\ i[3] \in Rooms \cup {NoRoom}
           /\ i[1] = "flag" => i[2] \in Clients /\ i[3] \in BOOLEAN
           /\ i[1] = "erase" => i[2] \in Rooms
           /\ i[1] \in {"push", "look", "find"} => i[2] \in Message
<1>1. CASE i \in {"acquire", "release", "pass"} \X Locks
  BY <1>1
<1>2. CASE i \in {"register", "forget", "closesocket"} \X Clients
  BY <1>2
<1>3. CASE i \in {"leave", "remove", "open", "join", "sendTo"} \X Clients \X Rooms
  BY <1>3
<1>4. CASE i \in {"record"} \X Clients \X (Rooms \cup {NoRoom}) \X BOOLEAN
  BY <1>4
<1>5. CASE i \in {"flag"} \X Clients \X BOOLEAN
  BY <1>5
<1>6. CASE i \in {"erase"} \X Rooms
  BY <1>6
<1>7. CASE i \in {"push", "look", "find"} \X Message
  BY <1>7
<1>8. CASE i \in {"take"} \X BOOLEAN
  BY <1>8
<1>9. CASE i \in {<<op>> : op \in {"notify", "sleep", "joinBroadcaster", "closeSockets",
                                   "clearRooms", "clearClients", "closeDatabase"}}
  BY <1>9
<1> QED BY <1>1, <1>2, <1>3, <1>4, <1>5, <1>6, <1>7, <1>8, <1>9, Zenon DEF Instruction

LEMMA CommandsWithin ==
    ASSUME Typed, NEW s \in Clients, NEW handler \in Commands(s)
    PROVE  Within(handler, {})
<1> DEFINE r == roomOf[s]
           others == {t \in connected \ {s} : roomOf[t] = r}
<1>1. /\ r \in Rooms \cup {NoRoom}
      /\ r # NoRoom => r \in Rooms /\ members[r] \subseteq Clients
      /\ \A t \in others : t \in Clients /\ roomOf[t] = r
  BY DEF Typed
<1>2. CASE handler \in {Look, SetName, List, JoinRefused, Disconnect(s)}
  BY <1>1, <1>2, Readers, AskWithin, DisconnectWithin
<1>3. ASSUME NEW q \in Rooms PROVE Within(Create(s, q), {}) /\ Within(Join(s, q), {})
  BY <1>1, CreateWithin, JoinWithin
<1>4. Within(Users, {}) /\ Within(Password, {}) /\ Within(BanAbsent, {})
  BY AskWithin
<1>5. ASSUME r # NoRoom, NEW to \in Recipients(s) PROVE Within(Say(s, to), {})
  BY <1>1, <1>5, SayWithin DEF Recipients
<1>6. ASSUME r # NoRoom PROVE Within(Leave(s), {})
  BY <1>1, <1>6, HandOverWithin
<1>7. ASSUME r # NoRoom, NEW t \in others
      PROVE  Within(Kick(t), {}) /\ Within(Ban(t), {}) /\ Within(Transfer(s, t), {})
  BY <1>1, <1>7, ExpelWithin, HandOverWithin
<1>8. ASSUME r # NoRoom, NEW t \in members[r] PROVE Within(ForceLeave(s, t), {})
  BY <1>1, <1>8, HandOverWithin
<1> QED BY <1>2, <1>3, <1>4, <1>5, <1>6, <1>7, <1>8 DEF Commands

(***************************************************************************)
(* What a worker's step does to the locks.                                  *)
(***************************************************************************)
LEMMA FirstOfTail ==
    ASSUME NEW p \in Programs, p # <<>>, NEW lock \in Locks
    PROVE  /\ GivesUp(Tail(p), 1, lock) <=> GivesUp(p, 2, lock)
           /\ Head(p) = p[1] /\ p[1] \in Instruction /\ 1 \in 1 .. Len(p) /\ Tail(p) \in Programs
           /\ GivesUp(p, 1, lock) <=>
                Ends(p[1], lock) \/ (~Begins(p[1], lock) /\ GivesUp(p, 2, lock))
<1>1. /\ Len(p) \in Nat \ {0} /\ Head(p) = p[1] /\ p[1] \in Instruction /\ 1 \in 1 .. Len(p)
      /\ Tail(p) \in Programs
  BY DEF Programs
<1>2. GivesUp(Tail(p), 1, lock) <=> GivesUp(p, 2, lock)
  <2>1. 1 + 1 = 2
    OBVIOUS
  <2> QED BY <1>1, <2>1, TailGivesUp
<1>3. ASSUME GivesUp(p, 1, lock), ~Ends(p[1], lock)
      PROVE  ~Begins(p[1], lock) /\ GivesUp(p, 2, lock)
  <2>1. PICK m \in 1 .. Len(p) : Ends(p[m], lock) /\ \A j \in 1 .. m - 1 : ~Begins(p[j], lock)
    BY <1>3 DEF GivesUp
  <2>2. m \in 2 .. Len(p) /\ 1 \in 1 .. m - 1 /\ \A j \in 2 .. m - 1 : j \in 1 .. m - 1
    BY <1>1, <1>3, <2>1
  <2> QED BY <2>1, <2>2 DEF GivesUp
<1>4. ASSUME Ends(p[1], lock) PROVE GivesUp(p, 1, lock)
  <2>1. \A j \in 1 .. 1 - 1 : FALSE
    OBVIOUS
  <2> QED BY <1>1, <1>4, <2>1 DEF GivesUp
<1>5. ASSUME ~Begins(p[1], lock), GivesUp(p, 2, lock) PROVE GivesUp(p, 1, lock)
  <2>1. PICK m \in 2 .. Len(p) : Ends(p[m], lock) /\ \A j \in 2 .. m - 1 : ~Begins(p[j], lock)
    BY <1>5 DEF GivesUp
  <2>2. m \in 1 .. Len(p) /\ \A j \in 1 .. m - 1 : j = 1 \/ j \in 2 .. m - 1
    BY <2>1
  <2> QED BY <1>5, <2>1, <2>2 DEF GivesUp
<1> QED BY <1>1, <1>2, <1>3, <1>4, <1>5

\* The broadcaster's part is about its own program and its own mutexes.
LEMMA TurnKept ==
    ASSUME TurnInv, todo'["broadcaster"] = todo["broadcaster"],
           \A lock \in Locks : holder'[lock] = "broadcaster" <=> holder[lock] = "broadcaster"
    PROVE  TurnInv'
BY DEF TurnInv, Holding

LEMMA StartsProgram ==
    ASSUME LockInv, NEW th \in Workers, todo[th] = <<>>, NEW p, Whole(p),
           todo' = [todo EXCEPT ![th] = p], UNCHANGED holder
    PROVE  todo' \in [Threads -> Programs] /\ WorkersInv' /\ TurnInv'
<1>1. /\ todo' \in [Threads -> Programs] /\ todo'[th] = p /\ th \in Threads
      /\ \A other \in Threads : other # th => todo'[other] = todo[other]
  BY ThreadNames DEF LockInv, Typed, Whole
<1>2. Disciplined(p) /\ \A lock \in Locks : ~GivesUp(p, 1, lock)
  BY ClosedIsDisciplined DEF Whole
<1>3. \A lock \in Locks : ~GivesUp(<<>>, 1, lock)
  BY DEF GivesUp
<1>4. \A lock \in Locks : holder[lock] # th
  BY <1>3 DEF LockInv, WorkersInv
<1>5. WorkersInv'
  BY <1>1, <1>2, <1>4, ThreadNames DEF LockInv, WorkersInv
<1>6. TurnInv'
  BY <1>1, TurnKept, ThreadNames DEF LockInv
<1> QED BY <1>1, <1>5, <1>6

LEMMA StepsOver ==
    ASSUME LockInv, NEW th \in Workers, todo[th] # <<>>, NEW op, At(th, op),
           op \notin {"acquire", "release"}, Continue(th), UNCHANGED holder
    PROVE  todo' \in [Threads -> Programs] /\ WorkersInv' /\ TurnInv'
<1>1. th \in Threads /\ todo[th] \in Programs
  BY ThreadNames DEF LockInv, Typed
<1>2. /\ Tail(todo[th]) \in Programs /\ Head(todo[th]) = todo[th][1]
      /\ \A lock \in Locks :
            /\ GivesUp(Tail(todo[th]), 1, lock) <=> GivesUp(todo[th], 2, lock)
            /\ GivesUp(todo[th], 1, lock) <=>
                 Ends(todo[th][1], lock)
                   \/ (~Begins(todo[th][1], lock) /\ GivesUp(todo[th], 2, lock))
  BY <1>1, FirstOfTail, LockNames
<1>3. \A lock \in Locks : ~Begins(todo[th][1], lock) /\ ~Ends(todo[th][1], lock)
  BY <1>2 DEF At, Begins, Ends
<1>4. /\ todo' \in [Threads -> Programs] /\ todo'[th] = Tail(todo[th])
      /\ \A other \in Threads : other # th => todo'[other] = todo[other]
  BY <1>1, <1>2 DEF LockInv, Typed, Continue
<1>5. Disciplined(Tail(todo[th]))
  BY <1>1, TailIsDisciplined DEF LockInv, WorkersInv
<1>6. WorkersInv'
  BY <1>2, <1>3, <1>4, <1>5, ThreadNames DEF LockInv, WorkersInv
<1>7. TurnInv'
  BY <1>4, TurnKept, ThreadNames DEF LockInv
<1> QED BY <1>4, <1>6, <1>7

LEMMA WorkerAcquires ==
    ASSUME LockInv, NEW th \in Workers, Acquire(th)
    PROVE  LockInv'
<1> DEFINE l == Argument(th, 1)
<1>1. th \in Threads /\ todo[th] \in Programs /\ todo[th] # <<>>
  BY ThreadNames DEF LockInv, Typed, Acquire, At
<1>2. /\ Tail(todo[th]) \in Programs /\ Head(todo[th]) = todo[th][1] /\ 1 \in 1 .. Len(todo[th])
      /\ todo[th][1] \in Instruction
      /\ \A lock \in Locks :
            /\ GivesUp(Tail(todo[th]), 1, lock) <=> GivesUp(todo[th], 2, lock)
            /\ GivesUp(todo[th], 1, lock) <=>
                 Ends(todo[th][1], lock)
                   \/ (~Begins(todo[th][1], lock) /\ GivesUp(todo[th], 2, lock))
  BY <1>1, FirstOfTail, LockNames
<1>3. todo[th][1][1] = "acquire" /\ l = todo[th][1][2]
  BY <1>2 DEF Acquire, At, Argument
<1>4. l \in Locks /\ holder[l] = Nobody
  BY <1>2, <1>3, InstructionTypes DEF Acquire
<1> HIDE DEF l
<1>5. \A lock \in Locks : (Begins(todo[th][1], lock) <=> lock = l) /\ ~Ends(todo[th][1], lock)
  BY <1>3 DEF Begins, Ends
<1>6. /\ todo' \in [Threads -> Programs] /\ todo'[th] = Tail(todo[th])
      /\ \A other \in Threads : other # th => todo'[other] = todo[other]
  BY <1>1, <1>2 DEF LockInv, Typed, Continue, Acquire
<1>7. holder' \in [Locks -> Threads \cup {Nobody}] /\ holder'[l] = th
      /\ \A lock \in Locks : lock # l => holder'[lock] = holder[lock]
  BY <1>1, <1>4 DEF LockInv, Typed, Acquire, l
<1>8. Disciplined(Tail(todo[th]))
  BY <1>1, TailIsDisciplined DEF LockInv, WorkersInv
<1>9. GivesUp(todo[th], 2, l)
  <2>1. 1 + 1 = 2
    OBVIOUS
  <2> QED BY <1>2, <1>4, <1>5, <2>1 DEF LockInv, WorkersInv, Disciplined
<1>10. \A other \in Threads, lock \in Locks : other # th =>
          (holder'[lock] = other <=> holder[lock] = other)
  BY <1>4, <1>7, ThreadNames
<1>11. \A lock \in Locks : holder'[lock] = th <=> GivesUp(Tail(todo[th]), 1, lock)
  BY <1>2, <1>4, <1>5, <1>7, <1>9 DEF LockInv, WorkersInv
<1>12. WorkersInv'
  BY <1>6, <1>8, <1>10, <1>11, ThreadNames DEF LockInv, WorkersInv
<1>13. TurnInv'
  BY <1>6, <1>10, TurnKept, ThreadNames DEF LockInv
<1>14. Typed' /\ WaitInv'
  BY <1>6, <1>7, ThreadNames DEF LockInv, Typed, WaitInv, Acquire, people, rooms, messages, control
<1> QED BY <1>12, <1>13, <1>14 DEF LockInv

LEMMA WorkerReleases ==
    ASSUME LockInv, NEW th \in Workers, Release(th)
    PROVE  LockInv'
<1> DEFINE l == Argument(th, 1)
<1>1. th \in Threads /\ todo[th] \in Programs /\ todo[th] # <<>>
  BY ThreadNames DEF LockInv, Typed, Release, At
<1>2. /\ Tail(todo[th]) \in Programs /\ Head(todo[th]) = todo[th][1] /\ 1 \in 1 .. Len(todo[th])
      /\ todo[th][1] \in Instruction
      /\ \A lock \in Locks :
            /\ GivesUp(Tail(todo[th]), 1, lock) <=> GivesUp(todo[th], 2, lock)
            /\ GivesUp(todo[th], 1, lock) <=>
                 Ends(todo[th][1], lock)
                   \/ (~Begins(todo[th][1], lock) /\ GivesUp(todo[th], 2, lock))
  BY <1>1, FirstOfTail, LockNames
<1>3. todo[th][1][1] = "release" /\ l = todo[th][1][2]
  BY <1>2 DEF Release, At, Argument
<1>4. l \in Locks
  BY <1>2, <1>3, InstructionTypes
<1> HIDE DEF l
<1>5. \A lock \in Locks : (Ends(todo[th][1], lock) <=> lock = l) /\ ~Begins(todo[th][1], lock)
  BY <1>3 DEF Begins, Ends
<1>6. /\ todo' \in [Threads -> Programs] /\ todo'[th] = Tail(todo[th])
      /\ \A other \in Threads : other # th => todo'[other] = todo[other]
  BY <1>1, <1>2 DEF LockInv, Typed, Continue, Release
<1>7. holder' \in [Locks -> Threads \cup {Nobody}] /\ holder'[l] = Nobody
      /\ \A lock \in Locks : lock # l => holder'[lock] = holder[lock]
  BY <1>1, <1>4 DEF LockInv, Typed, Release, l
<1>8. Disciplined(Tail(todo[th]))
  BY <1>1, TailIsDisciplined DEF LockInv, WorkersInv
<1>9. ~GivesUp(todo[th], 2, l) /\ holder[l] = th
  <2>1. 1 + 1 = 2
    OBVIOUS
  <2> QED BY <1>2, <1>4, <1>5, <2>1 DEF LockInv, WorkersInv, Disciplined
<1>10. \A other \in Threads, lock \in Locks : other # th =>
          (holder'[lock] = other <=> holder[lock] = other)
  BY <1>4, <1>7, <1>9, ThreadNames
<1>11. \A lock \in Locks : holder'[lock] = th <=> GivesUp(Tail(todo[th]), 1, lock)
  BY <1>1, <1>2, <1>4, <1>5, <1>7, <1>9, ThreadNames DEF LockInv, WorkersInv
<1>12. WorkersInv'
  BY <1>6, <1>8, <1>10, <1>11, ThreadNames DEF LockInv, WorkersInv
<1>13. TurnInv'
  BY <1>6, <1>10, TurnKept, ThreadNames DEF LockInv
<1>14. Typed' /\ WaitInv'
  BY <1>6, <1>7, ThreadNames DEF LockInv, Typed, WaitInv, Release, people, rooms, messages, control
<1> QED BY <1>12, <1>13, <1>14 DEF LockInv

(***************************************************************************)
(* The steps of the main thread and of the cleanup threads.                 *)
(***************************************************************************)
\* A step past an instruction that leaves the mutexes, the broadcaster's state and
\* the shared maps' types alone.
LEMMA WorkerSteps ==
    ASSUME LockInv, NEW th \in Workers,
           NEW op, At(th, op), op \notin {"acquire", "release"}, Continue(th), UNCHANGED holder,
           broadcaster' = broadcaster \/ (broadcaster = "asleep" /\ broadcaster' = "notified"),
           connected' \subseteq Clients, roomOf' \in [Clients -> Rooms \cup {NoRoom}],
           members' \in [Rooms -> SUBSET Clients], queue' \in Seq(Message)
    PROVE  LockInv'
<1>1. todo[th] # <<>>
  BY DEF At
<1>2. todo' \in [Threads -> Programs] /\ WorkersInv' /\ TurnInv'
  BY <1>1, StepsOver
<1>3. todo'["broadcaster"] = todo["broadcaster"]
  BY ThreadNames DEF LockInv, Typed, Continue
<1> QED BY <1>2, <1>3 DEF LockInv, Typed, WaitInv

LEMMA AtArguments ==
    ASSUME LockInv, NEW th \in Threads, NEW op, At(th, op)
    PROVE  /\ op \in {"register", "forget", "closesocket"} => Argument(th, 1) \in Clients
           /\ op \in {"leave", "remove", "open", "join", "sendTo"} =>
                Argument(th, 1) \in Clients /\ Argument(th, 2) \in Rooms
           /\ op = "record" =>
                Argument(th, 1) \in Clients /\ Argument(th, 2) \in Rooms \cup {NoRoom}
           /\ op = "flag" => Argument(th, 1) \in Clients /\ Argument(th, 2) \in BOOLEAN
           /\ op = "erase" => Argument(th, 1) \in Rooms
           /\ op \in {"push", "look", "find"} => Argument(th, 1) \in Message
<1>1. todo[th] \in Programs /\ todo[th] # <<>>
  BY DEF LockInv, Typed, At
<1>2. Head(todo[th]) \in Instruction /\ Head(todo[th])[1] = op
  BY <1>1 DEF Programs, At
<1>3. Argument(th, 1) = Head(todo[th])[2] /\ Argument(th, 2) = Head(todo[th])[3]
  BY DEF Argument
<1> QED BY <1>2, <1>3, InstructionTypes

LEMMA PassKeeps == ASSUME LockInv, Pass PROVE LockInv'
<1>1. At("main", "pass") /\ Continue("main") /\ UNCHANGED <<holder, people, rooms, messages, control>>
  BY DEF Pass
<1> QED BY <1>1, WorkerSteps, ThreadNames DEF LockInv, Typed, people, rooms, messages, control

LEMMA RegisterKeeps == ASSUME LockInv, Register PROVE LockInv'
<1>1. At("main", "register") /\ Argument("main", 1) \in Clients
  BY AtArguments, ThreadNames DEF Register
<1>2. /\ connected' \subseteq Clients /\ roomOf' \in [Clients -> Rooms \cup {NoRoom}]
      /\ members' = members /\ queue' = queue /\ broadcaster' = broadcaster /\ holder' = holder
      /\ Continue("main")
  BY <1>1 DEF Register, Write, LockInv, Typed, rooms, messages, control
<1> QED BY <1>1, <1>2, WorkerSteps, ThreadNames DEF LockInv, Typed

LEMMA ForgetKeeps == ASSUME LockInv, Forget PROVE LockInv'
<1>1. At("main", "forget")
  BY DEF Forget
<1>2. /\ connected' \subseteq Clients /\ roomOf' = roomOf
      /\ members' = members /\ queue' = queue /\ broadcaster' = broadcaster /\ holder' = holder
      /\ Continue("main")
  BY DEF Forget, Write, LockInv, Typed, rooms, messages, control
<1> QED BY <1>1, <1>2, WorkerSteps, ThreadNames DEF LockInv, Typed

LEMMA RecordKeeps == ASSUME LockInv, Record PROVE LockInv'
<1>1. /\ At("main", "record") /\ Argument("main", 1) \in Clients
      /\ Argument("main", 2) \in Rooms \cup {NoRoom}
  BY AtArguments, ThreadNames DEF Record
<1>2. /\ connected' = connected /\ roomOf' \in [Clients -> Rooms \cup {NoRoom}]
      /\ members' = members /\ queue' = queue /\ broadcaster' = broadcaster /\ holder' = holder
      /\ Continue("main")
  BY <1>1 DEF Record, Write, LockInv, Typed, rooms, messages, control
<1> QED BY <1>1, <1>2, WorkerSteps, ThreadNames DEF LockInv, Typed

LEMMA FlagKeeps == ASSUME LockInv, Flag PROVE LockInv'
<1>1. At("main", "flag")
  BY DEF Flag
<1>2. /\ connected' = connected /\ roomOf' = roomOf
      /\ members' = members /\ queue' = queue /\ broadcaster' = broadcaster /\ holder' = holder
      /\ Continue("main")
  BY DEF Flag, Write, rooms, messages, control
<1> QED BY <1>1, <1>2, WorkerSteps, ThreadNames DEF LockInv, Typed

LEMMA ClearClientsKeeps == ASSUME LockInv, ClearClients PROVE LockInv'
<1>1. At("main", "clearClients")
  BY DEF ClearClients
<1>2. /\ connected' = {} /\ roomOf' \in [Clients -> Rooms \cup {NoRoom}]
      /\ members' = members /\ queue' = queue /\ broadcaster' = broadcaster /\ holder' = holder
      /\ Continue("main")
  BY DEF ClearClients, Write, rooms, messages, control
<1> QED BY <1>1, <1>2, WorkerSteps, ThreadNames DEF LockInv, Typed

LEMMA WithoutTyped ==
    ASSUME Typed, NEW s, NEW r PROVE Without(s, r) \in [Rooms -> SUBSET Clients]
BY DEF Typed, Without

LEMMA LeaveRoomKeeps == ASSUME LockInv, LeaveRoom PROVE LockInv'
<1>1. At("main", "leave")
  BY DEF LeaveRoom
<1>2. /\ members' \in [Rooms -> SUBSET Clients]
      /\ connected' = connected /\ roomOf' = roomOf
      /\ queue' = queue /\ broadcaster' = broadcaster /\ holder' = holder /\ Continue("main")
  BY WithoutTyped DEF LeaveRoom, LockInv, people, messages, control
<1> QED BY <1>1, <1>2, WorkerSteps, ThreadNames DEF LockInv, Typed

LEMMA RemoveKeeps == ASSUME LockInv, Remove PROVE LockInv'
<1>1. At("main", "remove")
  BY DEF Remove
<1>2. /\ members' \in [Rooms -> SUBSET Clients]
      /\ connected' = connected /\ roomOf' = roomOf
      /\ queue' = queue /\ broadcaster' = broadcaster /\ holder' = holder /\ Continue("main")
  BY WithoutTyped DEF Remove, LockInv, people, messages, control
<1> QED BY <1>1, <1>2, WorkerSteps, ThreadNames DEF LockInv, Typed

LEMMA OpenKeeps == ASSUME LockInv, Open PROVE LockInv'
<1>1. At("main", "open") /\ Argument("main", 1) \in Clients /\ Argument("main", 2) \in Rooms
  BY AtArguments, ThreadNames DEF Open
<1>2. /\ members' \in [Rooms -> SUBSET Clients]
      /\ connected' = connected /\ roomOf' = roomOf
      /\ queue' = queue /\ broadcaster' = broadcaster /\ holder' = holder /\ Continue("main")
  BY <1>1 DEF Open, LockInv, Typed, people, messages, control
<1> QED BY <1>1, <1>2, WorkerSteps, ThreadNames DEF LockInv, Typed

LEMMA JoinRoomKeeps == ASSUME LockInv, JoinRoom PROVE LockInv'
<1> DEFINE s == Argument("main", 1)
           r == Argument("main", 2)
<1>1. At("main", "join") /\ s \in Clients /\ r \in Rooms
  BY AtArguments, ThreadNames DEF JoinRoom
<1>2. /\ queue' = queue /\ broadcaster' = broadcaster /\ holder' = holder /\ Continue("main")
  BY DEF JoinRoom, messages, control
<1>3. Left(s) \in [Rooms -> SUBSET Clients]
  BY WithoutTyped DEF Left, LockInv, Typed
<1>4. \/ /\ members' = [Left(s) EXCEPT ![r] = @ \cup {s}]
         /\ roomOf' = [roomOf EXCEPT ![s] = r] /\ connected' = connected
      \/ members' = members /\ connected' = connected /\ roomOf' = roomOf
  BY DEF JoinRoom, people
<1> HIDE DEF s, r
<1>5. /\ members' \in [Rooms -> SUBSET Clients] /\ connected' \subseteq Clients
      /\ roomOf' \in [Clients -> Rooms \cup {NoRoom}]
  BY <1>1, <1>3, <1>4 DEF LockInv, Typed
<1> QED BY <1>1, <1>2, <1>5, WorkerSteps, ThreadNames DEF LockInv, Typed

LEMMA ClearRoomsKeeps == ASSUME LockInv, ClearRooms PROVE LockInv'
<1>1. At("main", "clearRooms") /\ Continue("main")
      /\ UNCHANGED <<holder, people, members, sleeping, messages, control>>
  BY DEF ClearRooms
<1> QED BY <1>1, WorkerSteps, ThreadNames DEF LockInv, Typed, people, messages, control

LEMMA EraseKeeps == ASSUME LockInv, NEW th \in Workers, Erase(th) PROVE LockInv'
<1>1. At(th, "erase") /\ Continue(th)
      /\ UNCHANGED <<holder, people, members, sleeping, messages, control>>
  BY DEF Erase
<1> QED BY <1>1, WorkerSteps DEF LockInv, Typed, people, messages, control

LEMMA PushKeeps == ASSUME LockInv, Push PROVE LockInv'
<1>1. At("main", "push") /\ Argument("main", 1) \in Message
  BY AtArguments, ThreadNames DEF Push
<1>2. /\ queue' \in Seq(Message)
      /\ connected' = connected /\ roomOf' = roomOf /\ members' = members
      /\ broadcaster' = broadcaster /\ holder' = holder /\ Continue("main")
  BY <1>1 DEF Push, LockInv, Typed, people, rooms, control
<1> QED BY <1>1, <1>2, WorkerSteps, ThreadNames DEF LockInv, Typed

LEMMA NotifyKeeps == ASSUME LockInv, Notify PROVE LockInv'
<1>1. At("main", "notify") /\ Continue("main") /\ UNCHANGED <<holder, people, rooms, messages>>
      /\ (broadcaster' = broadcaster \/ (broadcaster = "asleep" /\ broadcaster' = "notified"))
  BY DEF Notify
<1> QED BY <1>1, WorkerSteps, ThreadNames DEF LockInv, Typed, people, rooms, messages

LEMMA JoinBroadcasterKeeps == ASSUME LockInv, JoinBroadcaster PROVE LockInv'
<1>1. /\ At("main", "joinBroadcaster") /\ Continue("main")
      /\ UNCHANGED <<holder, people, rooms, messages, control>>
  BY DEF JoinBroadcaster
<1> QED BY <1>1, WorkerSteps, ThreadNames DEF LockInv, Typed, people, rooms, messages, control

LEMMA CloseKeeps == ASSUME LockInv, CloseSocket \/ CloseSockets PROVE LockInv'
<1>1. PICK op \in {"closesocket", "closeSockets"} : At("main", op)
  BY DEF CloseSocket, CloseSockets
<1>2. Continue("main") /\ UNCHANGED <<holder, connected, roomOf, isOwner, rooms, messages, control>>
  BY DEF CloseSocket, CloseSockets, Close
<1> QED BY <1>1, <1>2, WorkerSteps, ThreadNames DEF LockInv, Typed, rooms, messages, control

LEMMA CloseDatabaseKeeps == ASSUME LockInv, CloseDatabase PROVE LockInv'
<1>1. /\ At("main", "closeDatabase") /\ Continue("main") /\ broadcaster' = broadcaster
      /\ UNCHANGED <<holder, people, rooms, messages>>
  BY DEF CloseDatabase
<1> QED BY <1>1, WorkerSteps, ThreadNames DEF LockInv, Typed, people, rooms, messages

\* A worker with nothing to do starts a program.
LEMMA WorkerStarts ==
    ASSUME LockInv, NEW th \in Workers, todo[th] = <<>>, NEW p, Whole(p),
           todo' = [todo EXCEPT ![th] = p],
           UNCHANGED <<holder, people, members, messages, broadcaster>>
    PROVE  LockInv'
<1>1. todo' \in [Threads -> Programs] /\ WorkersInv' /\ TurnInv'
  BY StartsProgram
<1>2. todo'["broadcaster"] = todo["broadcaster"]
  BY ThreadNames DEF LockInv, Typed
<1> QED BY <1>1, <1>2 DEF LockInv, Typed, WaitInv, people, messages

LEMMA ServeKeeps == ASSUME LockInv, NEW s \in Clients, Serve(s) PROVE LockInv'
<1>1. PICK handler \in IF s \in connected THEN Commands(s) ELSE {Accept(s)} :
        todo' = [todo EXCEPT !["main"] = handler]
  BY DEF Serve
<1>2. Within(handler, {})
  BY <1>1, CommandsWithin, AcceptWithin DEF LockInv
<1>3. todo["main"] = <<>> /\ UNCHANGED <<holder, people, members, messages, broadcaster>>
  BY DEF Serve, Polling, rooms
<1> QED BY <1>1, <1>2, <1>3, WholeWithin, WorkerStarts, ThreadNames

LEMMA StopServingKeeps == ASSUME LockInv, StopServing PROVE LockInv'
<1>1. /\ todo["main"] = <<>> /\ UNCHANGED <<holder, people, members, messages, broadcaster>>
      /\ todo' = [todo EXCEPT !["main"] = Shutdown]
  BY DEF StopServing, Polling, rooms
<1> QED BY <1>1, ShutdownIsWhole, WorkerStarts, ThreadNames

LEMMA WakeCleanupKeeps == ASSUME LockInv, NEW r \in Rooms, WakeCleanup(r) PROVE LockInv'
<1>1. /\ todo[r] = <<>> /\ UNCHANGED <<holder, people, members, messages, broadcaster>>
      /\ todo' = [todo EXCEPT ![r] = Locked("rooms", <<<<"erase", r>>>>)]
  BY DEF WakeCleanup, control
<1>2. Within(<<<<"erase", r>>>>, {"rooms"})
  BY Steps
<1>3. Within(Locked("rooms", <<<<"erase", r>>>>), {})
  BY <1>2, Scopes, LockNames
<1> QED BY <1>1, <1>3, WholeWithin, WorkerStarts, ThreadNames

(***************************************************************************)
(* The broadcaster's steps.                                                 *)
(***************************************************************************)
LEMMA WorkersKept ==
    ASSUME LockInv, NEW p \in Programs, todo' = [todo EXCEPT !["broadcaster"] = p],
           \A th \in Workers, lock \in Locks : holder'[lock] = th <=> holder[lock] = th
    PROVE  /\ todo' \in [Threads -> Programs] /\ todo'["broadcaster"] = p
           /\ WorkersInv'
BY ThreadNames DEF LockInv, Typed, WorkersInv

LEMMA Pairs ==
    \A a, b \in Instruction :
        /\ <<a, b>> \in Programs
        /\ Len(<<a, b>>) = 2 /\ <<a, b>>[1] = a /\ <<a, b>>[2] = b
BY DEF Programs

LEMMA Ones == \A a \in Instruction : <<a>> \in Programs /\ Len(<<a>>) = 1 /\ <<a>>[1] = a
BY DEF Programs

LEMMA Joined ==
    \A u, v \in Programs :
        /\ u \o v \in Programs /\ Len(u \o v) = Len(u) + Len(v)
        /\ \A i \in 1 .. Len(u) : (u \o v)[i] = u[i]
        /\ \A i \in 1 .. Len(v) : (u \o v)[Len(u) + i] = v[i]
BY DEF Programs

\* A scope of one instruction, after or before another stretch.
LEMMA ScopesOfOne ==
    ASSUME NEW a \in Instruction, NEW b \in Instruction, NEW c \in Instruction,
           NEW p \in Programs, Len(p) = 1
    PROVE  /\ p \o (<<a>> \o <<b>> \o <<c>>) \in Programs
           /\ Len(p \o (<<a>> \o <<b>> \o <<c>>)) = 4
           /\ (p \o (<<a>> \o <<b>> \o <<c>>))[1] = p[1]
           /\ (p \o (<<a>> \o <<b>> \o <<c>>))[2] = a
           /\ (p \o (<<a>> \o <<b>> \o <<c>>))[3] = b
           /\ (p \o (<<a>> \o <<b>> \o <<c>>))[4] = c
           /\ (<<a>> \o <<b>> \o <<c>>) \o p \in Programs
           /\ Len((<<a>> \o <<b>> \o <<c>>) \o p) = 4
           /\ ((<<a>> \o <<b>> \o <<c>>) \o p)[1] = a
           /\ ((<<a>> \o <<b>> \o <<c>>) \o p)[2] = b
           /\ ((<<a>> \o <<b>> \o <<c>>) \o p)[3] = c
           /\ ((<<a>> \o <<b>> \o <<c>>) \o p)[4] = p[1]
<1> DEFINE s == <<a>> \o <<b>> \o <<c>>
<1>1. s \in Programs /\ Len(s) = 3 /\ s[1] = a /\ s[2] = b /\ s[3] = c
  BY DEF Programs
<1> HIDE DEF s
<1> DEFINE u == p \o s
           v == s \o p
<1>3. /\ u \in Programs /\ Len(u) = Len(p) + Len(s)
      /\ \A i \in 1 .. Len(p) : u[i] = p[i]
      /\ \A i \in 1 .. Len(s) : u[Len(p) + i] = s[i]
      /\ v \in Programs /\ Len(v) = Len(s) + Len(p)
      /\ \A i \in 1 .. Len(s) : v[i] = s[i]
      /\ \A i \in 1 .. Len(p) : v[Len(s) + i] = p[i]
  BY <1>1, Joined, Zenon
<1> HIDE DEF u, v
<1>4. /\ u \in Programs /\ Len(u) = 4
      /\ u[1] = p[1] /\ u[1 + 1] = s[1] /\ u[1 + 2] = s[2] /\ u[1 + 3] = s[3]
      /\ v \in Programs /\ Len(v) = 4
      /\ v[1] = s[1] /\ v[2] = s[2] /\ v[3] = s[3] /\ v[3 + 1] = p[1]
  BY <1>1, <1>3
<1> QED BY <1>1, <1>4 DEF s, u, v

LEMMA TailOf ==
    ASSUME NEW p \in Programs, p # <<>>
    PROVE  /\ Len(p) \in Nat \ {0} /\ Head(p) = p[1]
           /\ \A k \in 1 .. Len(p) : p[k] \in Instruction
           /\ Tail(p) \in Programs /\ Len(Tail(p)) = Len(p) - 1
           /\ \A k \in 1 .. Len(p) - 1 : Tail(p)[k] = p[k + 1]
BY DEF Programs

LEMMA BroadcasterAcquires == ASSUME LockInv, Acquire("broadcaster") PROVE LockInv'
<1> DEFINE p == todo["broadcaster"]
           l == Argument("broadcaster", 1)
<1>1. p \in Programs /\ p # <<>> /\ p[1][1] = "acquire" /\ l = p[1][2]
  BY TailOf, ThreadNames DEF LockInv, Typed, Acquire, At, Argument
<1>2. /\ Len(p) \in Nat \ {0} /\ Tail(p) \in Programs /\ Len(Tail(p)) = Len(p) - 1
      /\ \A k \in 1 .. Len(p) - 1 : Tail(p)[k] = p[k + 1]
      /\ p[1] \in Instruction
  BY <1>1, TailOf
<1>3. l \in Locks /\ holder[l] = Nobody
  BY <1>1, <1>2, InstructionTypes DEF Acquire
<1>4. /\ todo' = [todo EXCEPT !["broadcaster"] = Tail(p)]
      /\ holder' = [holder EXCEPT ![l] = "broadcaster"]
      /\ UNCHANGED <<people, rooms, messages, control>>
  BY DEF Acquire, Continue
<1> HIDE DEF l
<1>5. /\ holder' \in [Locks -> Threads \cup {Nobody}] /\ holder'[l] = "broadcaster"
      /\ \A lock \in Locks : lock # l => holder'[lock] = holder[lock]
  BY <1>3, <1>4, ThreadNames DEF LockInv, Typed
<1>6. \A th \in Workers, lock \in Locks : holder'[lock] = th <=> holder[lock] = th
  BY <1>3, <1>5, ThreadNames
<1>7. todo' \in [Threads -> Programs] /\ todo'["broadcaster"] = Tail(p) /\ WorkersInv'
  BY <1>2, <1>4, <1>6, WorkersKept
<1>8. TurnInv'
  <2> DEFINE q == Tail(p)
  <2>1. \/ Len(p) = 2 /\ l = "queue" /\ p[2][1] = "take" /\ Holding({})
        \/ /\ Len(p) = 3 /\ l = "rooms" /\ p[2][1] = "look" /\ Ends(p[3], "rooms") /\ Holding({})
        \/ /\ Len(p) = 4 /\ l = "clients" /\ p[2][1] = "find"
           /\ Ends(p[3], "clients") /\ Ends(p[4], "rooms") /\ Holding({"rooms"})
    BY <1>1, <1>2 DEF LockInv, TurnInv, Begins, Ends
  <2>2. CASE Len(p) = 2 /\ l = "queue" /\ p[2][1] = "take" /\ Holding({})
    <3>1. Holding({"queue"})'
      BY <1>5, <2>2, ThreadNames DEF Holding
    <3>2. Len(q) = 1 /\ q[1][1] = "take"
      BY <1>2, <2>2
    <3> QED BY <1>7, <3>1, <3>2 DEF TurnInv
  <2>3. CASE Len(p) = 3 /\ l = "rooms" /\ p[2][1] = "look" /\ Ends(p[3], "rooms") /\ Holding({})
    <3>1. Holding({"rooms"})'
      BY <1>5, <2>3, ThreadNames DEF Holding
    <3>2. Len(q) = 2 /\ q[1][1] = "look" /\ Ends(q[2], "rooms")
      BY <1>2, <2>3
    <3> QED BY <1>7, <3>1, <3>2 DEF TurnInv
  <2>4. CASE /\ Len(p) = 4 /\ l = "clients" /\ p[2][1] = "find"
             /\ Ends(p[3], "clients") /\ Ends(p[4], "rooms") /\ Holding({"rooms"})
    <3>1. Holding({"rooms", "clients"})'
      BY <1>5, <2>4, ThreadNames DEF Holding
    <3>2. Len(q) = 3 /\ q[1][1] = "find" /\ Ends(q[2], "clients") /\ Ends(q[3], "rooms")
      BY <1>2, <2>4
    <3> QED BY <1>7, <3>1, <3>2 DEF TurnInv
  <2> QED BY <2>1, <2>2, <2>3, <2>4
<1>9. WaitInv'
  BY <1>1, <1>4 DEF LockInv, WaitInv, control
<1>10. Typed'
  BY <1>4, <1>5, <1>7 DEF LockInv, Typed, people, rooms, messages
<1> QED BY <1>7, <1>8, <1>9, <1>10 DEF LockInv

LEMMA BroadcasterReleases == ASSUME LockInv, Release("broadcaster") PROVE LockInv'
<1> DEFINE p == todo["broadcaster"]
           l == Argument("broadcaster", 1)
<1>1. p \in Programs /\ p # <<>> /\ p[1][1] = "release" /\ l = p[1][2]
  BY TailOf, ThreadNames DEF LockInv, Typed, Release, At, Argument
<1>2. /\ Len(p) \in Nat \ {0} /\ Tail(p) \in Programs /\ Len(Tail(p)) = Len(p) - 1
      /\ \A k \in 1 .. Len(p) - 1 : Tail(p)[k] = p[k + 1]
      /\ p[1] \in Instruction
  BY <1>1, TailOf
<1>3. l \in Locks
  BY <1>1, <1>2, InstructionTypes
<1>4. /\ todo' = [todo EXCEPT !["broadcaster"] = Tail(p)]
      /\ holder' = [holder EXCEPT ![l] = Nobody]
      /\ UNCHANGED <<people, rooms, messages, control>>
  BY DEF Release, Continue
<1> HIDE DEF l
<1>5. /\ holder' \in [Locks -> Threads \cup {Nobody}] /\ holder'[l] = Nobody
      /\ \A lock \in Locks : lock # l => holder'[lock] = holder[lock]
  BY <1>3, <1>4 DEF LockInv, Typed
<1>6. \/ Len(p) = 1 /\ l = "queue" /\ Holding({"queue"})
      \/ /\ Len(p) = 4 /\ l = "queue" /\ Begins(p[2], "rooms")
         /\ p[3][1] = "look" /\ Ends(p[4], "rooms") /\ Holding({"queue"})
      \/ Len(p) = 1 /\ l = "rooms" /\ Holding({"rooms"})
      \/ /\ Len(p) = 3 /\ l = "clients" /\ p[2][1] = "sendTo" /\ Ends(p[3], "rooms")
         /\ Holding({"rooms", "clients"})
      \/ /\ Len(p) = 2 /\ l = "clients" /\ Ends(p[2], "rooms") /\ Holding({"rooms", "clients"})
  BY <1>1, <1>2 DEF LockInv, TurnInv, Begins, Ends
<1>7. holder[l] = "broadcaster"
  BY <1>3, <1>6 DEF Holding
<1>8. \A th \in Workers, lock \in Locks : holder'[lock] = th <=> holder[lock] = th
  BY <1>3, <1>5, <1>7, ThreadNames
<1>9. todo' \in [Threads -> Programs] /\ todo'["broadcaster"] = Tail(p) /\ WorkersInv'
  BY <1>2, <1>4, <1>8, WorkersKept
<1>10. TurnInv'
  <2> DEFINE q == Tail(p)
  <2>1. ASSUME Len(p) = 1, NEW lock \in Locks, l = lock, Holding({lock}) PROVE TurnInv'
    <3>1. Holding({})'
      BY <1>5, <2>1, ThreadNames DEF Holding
    <3>2. Len(q) = 0
      BY <1>2, <2>1
    <3> QED BY <1>9, <3>1, <3>2 DEF TurnInv
  <2>2. CASE /\ Len(p) = 4 /\ l = "queue" /\ Begins(p[2], "rooms")
             /\ p[3][1] = "look" /\ Ends(p[4], "rooms") /\ Holding({"queue"})
    <3>1. Holding({})'
      BY <1>5, <2>2, ThreadNames DEF Holding
    <3>2. Len(q) = 3 /\ Begins(q[1], "rooms") /\ q[2][1] = "look" /\ Ends(q[3], "rooms")
      BY <1>2, <2>2
    <3> QED BY <1>9, <3>1, <3>2 DEF TurnInv
  <2>3. CASE /\ Len(p) = 3 /\ l = "clients" /\ p[2][1] = "sendTo" /\ Ends(p[3], "rooms")
             /\ Holding({"rooms", "clients"})
    <3>1. Holding({"rooms"})'
      BY <1>5, <2>3, ThreadNames DEF Holding
    <3>2. Len(q) = 2 /\ q[1][1] = "sendTo" /\ Ends(q[2], "rooms")
      BY <1>2, <2>3
    <3> QED BY <1>9, <3>1, <3>2 DEF TurnInv
  <2>4. CASE Len(p) = 2 /\ l = "clients" /\ Ends(p[2], "rooms") /\ Holding({"rooms", "clients"})
    <3>1. Holding({"rooms"})'
      BY <1>5, <2>4, ThreadNames DEF Holding
    <3>2. Len(q) = 1 /\ Ends(q[1], "rooms")
      BY <1>2, <2>4
    <3> QED BY <1>9, <3>1, <3>2 DEF TurnInv
  <2> QED BY <1>6, <2>1, <2>2, <2>3, <2>4, LockNames
<1>11. WaitInv'
  BY <1>1, <1>4 DEF LockInv, WaitInv, control
<1>12. Typed'
  BY <1>4, <1>5, <1>9 DEF LockInv, Typed, people, rooms, messages
<1> QED BY <1>9, <1>10, <1>11, <1>12 DEF LockInv

\* A step of the broadcaster that decides what it does next, with the mutexes it has.
LEMMA BroadcasterTurns ==
    ASSUME LockInv, NEW p \in Programs, todo' = [todo EXCEPT !["broadcaster"] = p],
           UNCHANGED <<holder, people, rooms>>, queue' \in Seq(Message),
           broadcaster' \in {"asleep", "notified"} => p = <<>>,
           todo'["broadcaster"] = p => TurnInv'
    PROVE  LockInv'
<1>1. todo' \in [Threads -> Programs] /\ todo'["broadcaster"] = p /\ WorkersInv'
  BY WorkersKept
<1> QED BY <1>1 DEF LockInv, Typed, WaitInv, people, rooms

\* The mutexes in hand are those the first instruction tells of.
LEMMA HoldsAt ==
    ASSUME LockInv
    PROVE  /\ todo["broadcaster"] = <<>> => Holding({})
           /\ At("broadcaster", "take") \/ At("broadcaster", "sleep") =>
                Holding({"queue"}) /\ Tail(todo["broadcaster"]) = <<>>
           /\ At("broadcaster", "look") \/ At("broadcaster", "sendTo") =>
                /\ Holding({"rooms"}) /\ Len(todo["broadcaster"]) = 2
                /\ Ends(todo["broadcaster"][2], "rooms")
           /\ At("broadcaster", "find") =>
                /\ Holding({"rooms", "clients"}) /\ Len(todo["broadcaster"]) = 3
                /\ Ends(todo["broadcaster"][2], "clients") /\ Ends(todo["broadcaster"][3], "rooms")
<1> DEFINE p == todo["broadcaster"]
<1>1. p \in Programs
  BY ThreadNames DEF LockInv, Typed
<1>2. CASE p = <<>>
  <2>1. Len(p) = 0
    BY <1>2
  <2> QED BY <1>2, <2>1 DEF LockInv, TurnInv, At
<1>3. CASE p # <<>>
  <2>1. /\ Len(p) \in Nat \ {0} /\ Head(p) = p[1] /\ Tail(p) \in Programs
        /\ Len(Tail(p)) = Len(p) - 1
    BY <1>1, <1>3, TailOf
  <2>2. Len(p) = 1 => Tail(p) = <<>>
    <3>1. \A q \in Programs : Len(q) = 0 => q = <<>>
      BY DEF Programs
    <3>2. Len(p) = 1 => Len(Tail(p)) = 0
      BY <2>1
    <3> QED BY <2>1, <3>1, <3>2, Zenon
  <2>3. \A op : At("broadcaster", op) <=> p[1][1] = op
    BY <1>3, <2>1 DEF At
  <2>4. p[1][1] \in {"take", "sleep"} => Holding({"queue"}) /\ Len(p) = 1
    BY <2>1 DEF LockInv, TurnInv, Begins, Ends
  <2>5. p[1][1] \in {"look", "sendTo"} =>
            Holding({"rooms"}) /\ Len(p) = 2 /\ Ends(p[2], "rooms")
    BY <2>1 DEF LockInv, TurnInv, Begins, Ends
  <2>6. p[1][1] = "find" => /\ Holding({"rooms", "clients"}) /\ Len(p) = 3
                            /\ Ends(p[2], "clients") /\ Ends(p[3], "rooms")
    BY <2>1 DEF LockInv, TurnInv, Begins, Ends
  <2> QED BY <1>3, <2>2, <2>3, <2>4, <2>5, <2>6
<1> QED BY <1>2, <1>3

\* The instructions the broadcaster writes.
LEMMA BroadcasterWrites ==
    /\ \A lock \in Locks :
          /\ <<"acquire", lock>> \in Instruction /\ Begins(<<"acquire", lock>>, lock)
          /\ <<"release", lock>> \in Instruction /\ Ends(<<"release", lock>>, lock)
    /\ \A b \in BOOLEAN : <<"take", b>> \in Instruction /\ <<"take", b>>[1] = "take"
    /\ <<"sleep">> \in Instruction /\ <<"sleep">>[1] = "sleep"
    /\ \A m \in Message :
          /\ <<"look", m>> \in Instruction /\ <<"look", m>>[1] = "look"
          /\ <<"find", m>> \in Instruction /\ <<"find", m>>[1] = "find"
    /\ \A s \in Clients, r \in Rooms :
          <<"sendTo", s, r>> \in Instruction /\ <<"sendTo", s, r>>[1] = "sendTo"
<1>1. ASSUME NEW lock \in Locks
      PROVE  /\ <<"acquire", lock>> \in Instruction /\ Begins(<<"acquire", lock>>, lock)
             /\ <<"release", lock>> \in Instruction /\ Ends(<<"release", lock>>, lock)
  BY DEF Instruction, Begins, Ends
<1>2. ASSUME NEW b \in BOOLEAN PROVE <<"take", b>> \in Instruction /\ <<"take", b>>[1] = "take"
  BY DEF Instruction
<1>3. <<"sleep">> \in Instruction /\ <<"sleep">>[1] = "sleep"
  BY DEF Instruction
<1>4. ASSUME NEW m \in Message
      PROVE  /\ <<"look", m>> \in Instruction /\ <<"look", m>>[1] = "look"
             /\ <<"find", m>> \in Instruction /\ <<"find", m>>[1] = "find"
  BY DEF Instruction
<1>5. ASSUME NEW s \in Clients, NEW r \in Rooms
      PROVE  <<"sendTo", s, r>> \in Instruction /\ <<"sendTo", s, r>>[1] = "sendTo"
  BY DEF Instruction
<1> QED BY <1>1, <1>2, <1>3, <1>4, <1>5

\* Waiting for the queue, to look into it.
LEMMA Waiting ==
    \A b \in BOOLEAN :
        LET p == <<<<"acquire", "queue">>, <<"take", b>>>>
        IN  p \in Programs /\ Len(p) = 2 /\ Begins(p[1], "queue") /\ p[2][1] = "take"
<1> SUFFICES ASSUME NEW b \in BOOLEAN
             PROVE  LET p == <<<<"acquire", "queue">>, <<"take", b>>>>
                    IN  p \in Programs /\ Len(p) = 2 /\ Begins(p[1], "queue") /\ p[2][1] = "take"
  OBVIOUS
<1> DEFINE a == <<"acquire", "queue">>
           c == <<"take", b>>
<1>1. a \in Instruction /\ Begins(a, "queue") /\ c \in Instruction /\ c[1] = "take"
  BY BroadcasterWrites, LockNames
<1> HIDE DEF a, c
<1>2. /\ <<a, c>> \in Programs /\ Len(<<a, c>>) = 2
      /\ Begins(<<a, c>>[1], "queue") /\ <<a, c>>[2][1] = "take"
  BY <1>1, Pairs
<1> QED BY <1>2 DEF a, c

LEMMA LoopKeeps == ASSUME LockInv, Loop PROVE LockInv'
<1>1. CASE shutdown
  <2>1. /\ broadcaster' = "done" /\ todo' = todo
        /\ UNCHANGED <<holder, people, rooms, messages>>
    BY <1>1 DEF Loop
  <2> QED BY <2>1, TurnKept DEF LockInv, Typed, WorkersInv, WaitInv, people, rooms, messages
<1>2. CASE ~shutdown
  <2> DEFINE p == <<<<"acquire", "queue">>, <<"take", FALSE>>>>
  <2>1. /\ todo' = [todo EXCEPT !["broadcaster"] = p] /\ broadcaster' = "awake"
        /\ UNCHANGED <<holder, people, rooms>> /\ queue' = queue /\ Holding({})
    BY <1>2, HoldsAt DEF Loop, messages
  <2>2. p \in Programs /\ Len(p) = 2 /\ Begins(p[1], "queue") /\ p[2][1] = "take"
    BY Waiting
  <2> HIDE DEF p
  <2>3. todo'["broadcaster"] = p => TurnInv'
    <3>1. Holding({})'
      BY <2>1 DEF Holding
    <3> QED BY <2>2, <3>1 DEF TurnInv
  <2> QED BY <2>1, <2>2, <2>3, BroadcasterTurns DEF LockInv, Typed
<1> QED BY <1>1, <1>2

LEMMA WakeUpKeeps == ASSUME LockInv, WakeUp PROVE LockInv'
<1> DEFINE b == broadcaster = "asleep"
           p == <<<<"acquire", "queue">>, <<"take", b>>>>
<1>1. /\ todo' = [todo EXCEPT !["broadcaster"] = p] /\ broadcaster' = "awake"
      /\ UNCHANGED <<holder, people, rooms>> /\ queue' = queue
      /\ todo["broadcaster"] = <<>>
  BY DEF WakeUp, LockInv, WaitInv, messages
<1>2. Holding({})
  BY <1>1, HoldsAt
<1>3. b \in BOOLEAN
  BY DEF b
<1>4. p \in Programs /\ Len(p) = 2 /\ Begins(p[1], "queue") /\ p[2][1] = "take"
  BY <1>3, Waiting
<1> HIDE DEF p
<1>5. todo'["broadcaster"] = p => TurnInv'
  <2>1. Holding({})'
    BY <1>1, <1>2 DEF Holding
  <2> QED BY <1>4, <2>1 DEF TurnInv
<1> QED BY <1>1, <1>4, <1>5, BroadcasterTurns DEF LockInv, Typed

LEMMA TakeKeeps == ASSUME LockInv, Take PROVE LockInv'
<1>1. Holding({"queue"}) /\ UNCHANGED <<holder, people, rooms>>
  BY HoldsAt DEF Take
<1>2. Holding({"queue"})'
  BY <1>1 DEF Holding
<1>3. CASE TakeMessage
  <2> DEFINE a == <<"release", "queue">>
             b == <<"acquire", "rooms">>
             c == <<"look", Head(queue)>>
             d == <<"release", "rooms">>
             p == <<a>> \o (<<b>> \o <<c>> \o <<d>>)
  <2>1. /\ Head(queue) \in Message /\ queue' \in Seq(Message) /\ broadcaster' = broadcaster
        /\ todo' = [todo EXCEPT !["broadcaster"] = p]
    BY <1>3 DEF TakeMessage, LockInv, Typed, Locked
  <2>2. /\ a \in Instruction /\ Ends(a, "queue") /\ b \in Instruction /\ Begins(b, "rooms")
        /\ c \in Instruction /\ c[1] = "look" /\ d \in Instruction /\ Ends(d, "rooms")
    BY <2>1, BroadcasterWrites, LockNames
  <2> HIDE DEF a, b, c, d
  <2>3. <<a>> \in Programs /\ Len(<<a>>) = 1 /\ <<a>>[1] = a
    BY <2>2, Ones
  <2>4. p \in Programs /\ Len(p) = 4 /\ p[1] = a /\ p[2] = b /\ p[3] = c /\ p[4] = d
    BY <2>2, <2>3, ScopesOfOne
  <2> HIDE DEF p
  <2>5. todo'["broadcaster"] = p => TurnInv'
    BY <1>2, <2>2, <2>4 DEF TurnInv
  <2>6. broadcaster' \notin {"asleep", "notified"}
    BY <2>1, TailOf DEF Take, At, LockInv, WaitInv
  <2> QED BY <1>1, <2>1, <2>4, <2>5, <2>6, BroadcasterTurns
<1>4. ASSUME NEW op \in {"release", "sleep"},
             todo' = [todo EXCEPT !["broadcaster"] =
                         IF op = "sleep" THEN <<<<"sleep">>>> ELSE <<<<"release", "queue">>>>],
             queue' = queue, broadcaster' \in {broadcaster, "done"}
      PROVE  LockInv'
  <2> DEFINE a == IF op = "sleep" THEN <<"sleep">> ELSE <<"release", "queue">>
  <2>1. a \in Instruction /\ (a[1] \in {"take", "sleep"} \/ Ends(a, "queue"))
    BY BroadcasterWrites, LockNames
  <2>2. todo' = [todo EXCEPT !["broadcaster"] = <<a>>]
    BY <1>4, Zenon
  <2> HIDE DEF a
  <2>3. <<a>> \in Programs /\ Len(<<a>>) = 1 /\ <<a>>[1] = a
    BY <2>1, Ones
  <2>4. todo'["broadcaster"] = <<a>> => TurnInv'
    BY <1>2, <2>1, <2>3 DEF TurnInv
  <2>5. broadcaster' \notin {"asleep", "notified"}
    BY <1>4 DEF Take, At, LockInv, WaitInv
  <2> QED BY <1>1, <1>4, <2>2, <2>3, <2>4, <2>5, BroadcasterTurns DEF LockInv, Typed
<1>5. CASE EndBroadcast
  BY <1>4, <1>5 DEF EndBroadcast
<1>6. ASSUME NEW again \in BOOLEAN, Wait(again) PROVE LockInv'
  BY <1>4, <1>6 DEF Wait
<1> QED BY <1>3, <1>5, <1>6 DEF Take, AfterWait

LEMMA SleepKeeps == ASSUME LockInv, Sleep PROVE LockInv'
<1>1. /\ Holding({"queue"}) /\ Tail(todo["broadcaster"]) = <<>>
  BY HoldsAt DEF Sleep
<1>2. /\ todo' = [todo EXCEPT !["broadcaster"] = <<>>] /\ UNCHANGED <<people, rooms, messages>>
      /\ holder' = [holder EXCEPT !["queue"] = Nobody]
  BY <1>1 DEF Sleep, Continue
<1>3. <<>> \in Programs /\ Len(<<>>) = 0
  BY DEF Programs
<1>4. /\ holder' \in [Locks -> Threads \cup {Nobody}] /\ holder'["queue"] = Nobody
      /\ \A lock \in Locks : lock # "queue" => holder'[lock] = holder[lock]
      /\ holder["queue"] = "broadcaster"
  BY <1>1, <1>2, LockNames DEF LockInv, Typed, Holding
<1>5. \A th \in Workers, lock \in Locks : holder'[lock] = th <=> holder[lock] = th
  BY <1>4, ThreadNames
<1>6. todo' \in [Threads -> Programs] /\ todo'["broadcaster"] = <<>> /\ WorkersInv'
  BY <1>2, <1>3, <1>5, WorkersKept
<1>7. Holding({})'
  BY <1>1, <1>4, ThreadNames DEF Holding
<1>8. TurnInv'
  BY <1>3, <1>6, <1>7 DEF TurnInv
<1>9. Typed' /\ WaitInv'
  BY <1>2, <1>4, <1>6 DEF LockInv, Typed, WaitInv, people, rooms, messages
<1> QED BY <1>6, <1>8, <1>9 DEF LockInv

LEMMA SendPrivateKeeps == ASSUME LockInv, SendPrivate PROVE LockInv'
<1> DEFINE p == todo["broadcaster"]
           q == Tail(p)
<1>1. /\ Holding({"rooms"}) /\ Len(p) = 2 /\ Ends(p[2], "rooms")
      /\ p \in Programs /\ p # <<>>
      /\ todo' = [todo EXCEPT !["broadcaster"] = q]
      /\ UNCHANGED <<holder, people, rooms>> /\ queue' = queue /\ broadcaster' = broadcaster
  BY HoldsAt, ThreadNames DEF SendPrivate, Continue, At, LockInv, Typed, messages, control
<1>2. q \in Programs /\ Len(q) = 1 /\ Ends(q[1], "rooms")
  BY <1>1, TailOf
<1> HIDE DEF q
<1>3. todo'["broadcaster"] = q => TurnInv'
  <2>1. Holding({"rooms"})'
    BY <1>1 DEF Holding
  <2> QED BY <1>2, <2>1 DEF TurnInv
<1>4. broadcaster' \notin {"asleep", "notified"}
  BY <1>1 DEF LockInv, WaitInv
<1> QED BY <1>1, <1>2, <1>3, <1>4, BroadcasterTurns DEF LockInv, Typed

LEMMA LookUpRoomKeeps == ASSUME LockInv, LookUpRoom PROVE LockInv'
<1> DEFINE p == todo["broadcaster"]
           q == Tail(p)
           m == Argument("broadcaster", 1)
           b == <<"acquire", "clients">>
           c == <<"find", m>>
           d == <<"release", "clients">>
           s == (<<b>> \o <<c>> \o <<d>>) \o q
<1>1. /\ Holding({"rooms"}) /\ Len(p) = 2 /\ Ends(p[2], "rooms") /\ m \in Message
      /\ p \in Programs /\ p # <<>>
      /\ UNCHANGED <<holder, people, rooms>> /\ queue' = queue /\ broadcaster' = broadcaster
  BY HoldsAt, AtArguments, ThreadNames DEF LookUpRoom, At, LockInv, Typed, messages, control
<1>2. q \in Programs /\ Len(q) = 1 /\ Ends(q[1], "rooms")
  BY <1>1, TailOf
<1>3. /\ b \in Instruction /\ Begins(b, "clients") /\ c \in Instruction /\ c[1] = "find"
      /\ d \in Instruction /\ Ends(d, "clients")
  BY <1>1, BroadcasterWrites, LockNames
<1>4. todo' = [todo EXCEPT !["broadcaster"] = q] \/ todo' = [todo EXCEPT !["broadcaster"] = s]
  BY DEF LookUpRoom, Locked
<1> HIDE DEF q, b, c, d
<1>5. s \in Programs /\ Len(s) = 4 /\ s[1] = b /\ s[2] = c /\ s[3] = d /\ s[4] = q[1]
  BY <1>2, <1>3, ScopesOfOne
<1> HIDE DEF s
<1>6. Holding({"rooms"})'
  BY <1>1 DEF Holding
<1>7. todo'["broadcaster"] = q => TurnInv'
  BY <1>2, <1>6 DEF TurnInv
<1>8. todo'["broadcaster"] = s => TurnInv'
  BY <1>2, <1>3, <1>5, <1>6 DEF TurnInv
<1>9. broadcaster' \notin {"asleep", "notified"}
  BY <1>1 DEF LockInv, WaitInv
<1>10. queue' \in Seq(Message)
  BY <1>1 DEF LockInv, Typed
<1> QED BY <1>1, <1>2, <1>4, <1>5, <1>7, <1>8, <1>9, <1>10, BroadcasterTurns

LEMMA FindRecipientKeeps == ASSUME LockInv, FindRecipient PROVE LockInv'
<1> DEFINE p == todo["broadcaster"]
           m == Argument("broadcaster", 1)
           u == SubSeq(p, 2, 2)
           v == SubSeq(p, 3, Len(p))
           c == <<"sendTo", m.to, m.room>>
           s == u \o <<c>> \o v
           q == u \o v
<1>1. /\ Holding({"rooms", "clients"}) /\ Len(p) = 3 /\ Ends(p[2], "clients")
      /\ Ends(p[3], "rooms") /\ m \in Message
      /\ p \in Programs /\ p # <<>>
      /\ UNCHANGED <<holder, people, rooms>> /\ queue' = queue /\ broadcaster' = broadcaster
  BY HoldsAt, AtArguments, ThreadNames DEF FindRecipient, At, LockInv, Typed, messages, control
<1>2. \/ todo' = [todo EXCEPT !["broadcaster"] = q]
      \/ m.to \in connected /\ todo' = [todo EXCEPT !["broadcaster"] = s]
  BY DEF FindRecipient
<1>3. /\ u \in Programs /\ Len(u) = 1 /\ u[1] = p[2]
      /\ v \in Programs /\ Len(v) = 1 /\ v[1] = p[3]
  BY <1>1 DEF Programs
<1> HIDE DEF u, v
<1>4. q \in Programs /\ Len(q) = 2 /\ q[1] = p[2] /\ q[2] = p[3]
  <2>1. /\ q \in Programs /\ Len(q) = Len(u) + Len(v)
        /\ \A i \in 1 .. Len(u) : q[i] = u[i]
        /\ \A i \in 1 .. Len(v) : q[Len(u) + i] = v[i]
    BY <1>3, Joined, Zenon
  <2> HIDE DEF q
  <2>2. Len(q) = 2 /\ q[1] = u[1] /\ q[1 + 1] = v[1]
    BY <1>3, <2>1
  <2> QED BY <1>3, <2>1, <2>2
<1>5. ASSUME m.to \in connected
      PROVE  s \in Programs /\ Len(s) = 3 /\ s[1] = p[2] /\ s[2][1] = "sendTo" /\ s[3] = p[3]
  <2>1. m.to \in Clients /\ m.room \in Rooms
    BY <1>1, <1>5 DEF Message, LockInv, Typed
  <2>2. c \in Instruction /\ c[1] = "sendTo"
    BY <2>1, BroadcasterWrites
  <2> HIDE DEF c
  <2>3. <<c>> \in Programs /\ Len(<<c>>) = 1 /\ <<c>>[1] = c
    BY <2>2, Ones
  <2> DEFINE w == u \o <<c>>
  <2>4. /\ w \in Programs /\ Len(w) = Len(u) + Len(<<c>>)
        /\ \A i \in 1 .. Len(u) : w[i] = u[i]
        /\ \A i \in 1 .. Len(<<c>>) : w[Len(u) + i] = <<c>>[i]
    BY <1>3, <2>3, Joined, Zenon
  <2>5. Len(w) = 2 /\ w[1] = u[1] /\ w[1 + 1] = c
    BY <1>3, <2>3, <2>4
  <2>6. /\ s \in Programs /\ Len(s) = Len(w) + Len(v)
        /\ \A i \in 1 .. Len(w) : s[i] = w[i]
        /\ \A i \in 1 .. Len(v) : s[Len(w) + i] = v[i]
    BY <1>3, <2>4, Joined, Zenon
  <2> HIDE DEF s, w
  <2>7. Len(s) = 3 /\ s[1] = u[1] /\ s[2] = c /\ s[2 + 1] = v[1]
    BY <1>3, <2>5, <2>6
  <2>8. 2 + 1 = 3
    OBVIOUS
  <2> QED BY <1>3, <2>2, <2>6, <2>7, <2>8, Zenon
<1> HIDE DEF s, q
<1>6. Holding({"rooms", "clients"})'
  BY <1>1 DEF Holding
<1>7. todo'["broadcaster"] = q => TurnInv'
  BY <1>1, <1>4, <1>6 DEF TurnInv
<1>8. m.to \in connected /\ todo'["broadcaster"] = s => TurnInv'
  BY <1>1, <1>5, <1>6 DEF TurnInv
<1>9. broadcaster' \notin {"asleep", "notified"}
  BY <1>1 DEF LockInv, WaitInv
<1>10. queue' \in Seq(Message)
  BY <1>1 DEF LockInv, Typed
<1> QED BY <1>1, <1>2, <1>4, <1>5, <1>7, <1>8, <1>9, <1>10, BroadcasterTurns

(***************************************************************************)
(* The invariant holds in every state.                                      *)
(***************************************************************************)
\* A cleanup thread uses no mutex but the rooms'.
Cleans(p) ==
    \A k \in 1 .. Len(p) :
        /\ p[k][1] \in {"acquire", "erase", "release"}
        /\ p[k][1] # "erase" => p[k][2] = "rooms"

CleanupInv == \A r \in Rooms : Cleans(todo[r])

LEMMA InitLocks == ASSUME Init PROVE LockInv /\ CleanupInv
<1>1. /\ \A th \in Threads : todo[th] = <<>>
      /\ \A lock \in Locks : holder[lock] = Nobody
      /\ <<>> \in Programs /\ Len(<<>>) = 0
  BY DEF Init, Programs
<1>2. Typed
  BY <1>1, ThreadNames DEF Init, Typed
<1>3. Within(<<>>, {})
  BY Nothing
<1>4. Disciplined(<<>>) /\ \A lock \in Locks : ~GivesUp(<<>>, 1, lock)
  BY <1>3, ClosedIsDisciplined DEF Within
<1>5. WorkersInv
  BY <1>1, <1>4, ThreadNames DEF WorkersInv
<1>6. Holding({})
  BY <1>1, ThreadNames DEF Holding
<1>7. TurnInv /\ WaitInv
  BY <1>1, <1>6, ThreadNames DEF TurnInv, WaitInv
<1>8. CleanupInv
  BY <1>1, ThreadNames DEF CleanupInv, Cleans
<1> QED BY <1>2, <1>5, <1>7, <1>8 DEF LockInv

\* A step without an instruction.
LEMMA IdleKeeps ==
    ASSUME LockInv, UNCHANGED <<todo, holder, people, members, messages, broadcaster>>
    PROVE  LockInv'
<1>1. TurnInv'
  BY TurnKept DEF LockInv
<1> QED BY <1>1 DEF LockInv, Typed, WorkersInv, WaitInv, people, messages

LEMMA NextLocks == ASSUME LockInv, [Next]_vars PROVE LockInv'
<1>1. CASE MainThread
  <2>1. CASE Acquire("main") \/ Release("main")
    BY <2>1, WorkerAcquires, WorkerReleases, ThreadNames
  <2>2. CASE Pass \/ Register \/ Forget \/ Record \/ Flag \/ ClearClients
    BY <2>2, PassKeeps, RegisterKeeps, ForgetKeeps, RecordKeeps, FlagKeeps, ClearClientsKeeps
  <2>3. CASE LeaveRoom \/ Remove \/ Open \/ JoinRoom \/ Erase("main") \/ ClearRooms
    BY <2>3, LeaveRoomKeeps, RemoveKeeps, OpenKeeps, JoinRoomKeeps, EraseKeeps, ClearRoomsKeeps,
       ThreadNames
  <2>4. CASE Push \/ Notify \/ JoinBroadcaster \/ CloseSocket \/ CloseSockets \/ CloseDatabase
    BY <2>4, PushKeeps, NotifyKeeps, JoinBroadcasterKeeps, CloseKeeps, CloseDatabaseKeeps
  <2>5. CASE (\E s \in Clients : Serve(s)) \/ EndLoop
    BY <2>5, ServeKeeps, StopServingKeeps DEF EndLoop
  <2> QED BY <1>1, <2>1, <2>2, <2>3, <2>4, <2>5 DEF MainThread
<1>2. CASE broadcastMessages
  BY <1>2, BroadcasterAcquires, BroadcasterReleases, LoopKeeps, TakeKeeps, SleepKeeps,
     WakeUpKeeps, LookUpRoomKeeps, FindRecipientKeeps, SendPrivateKeeps DEF broadcastMessages
<1>3. ASSUME NEW r \in Rooms, cleanupEmptyRoom(r) PROVE LockInv'
  BY <1>3, WakeCleanupKeeps, WorkerAcquires, WorkerReleases, EraseKeeps, ThreadNames
     DEF cleanupEmptyRoom
<1>4. CASE PollFails
  BY <1>4, StopServingKeeps DEF PollFails
<1>5. CASE Poll \/ signalHandler
  BY <1>5, IdleKeeps DEF Poll, signalHandler, rooms
<1>6. CASE UNCHANGED vars
  BY <1>6, IdleKeeps DEF vars, rooms, control
<1> QED BY <1>1, <1>2, <1>3, <1>4, <1>5, <1>6 DEF Next, Terminated

\* The main thread and the broadcaster do not write what a cleanup thread has to do.
LEMMA CleanupKept ==
    ASSUME LockInv, CleanupInv, NEW th, th \notin Rooms, NEW p, todo' = [todo EXCEPT ![th] = p]
    PROVE  CleanupInv'
<1>1. \A r \in Rooms : todo'[r] = todo[r]
  BY ThreadNames DEF LockInv, Typed
<1> QED BY <1>1 DEF CleanupInv

LEMMA CleanupSteps ==
    ASSUME LockInv, CleanupInv, NEW r \in Rooms, NEW op, At(r, op), Continue(r)
    PROVE  CleanupInv'
<1>1. r \in Threads /\ todo[r] \in Programs /\ todo[r] # <<>>
  BY ThreadNames DEF LockInv, Typed, At
<1>2. todo'[r] = Tail(todo[r]) /\ \A q \in Rooms : q # r => todo'[q] = todo[q]
  BY <1>1, ThreadNames DEF LockInv, Typed, Continue
<1>3. /\ Len(todo[r]) \in Nat /\ Len(Tail(todo[r])) = Len(todo[r]) - 1
      /\ \A k \in 1 .. Len(todo[r]) - 1 : Tail(todo[r])[k] = todo[r][k + 1]
  BY <1>1, TailOf
<1>4. \A k \in 1 .. Len(Tail(todo[r])) :
        k + 1 \in 1 .. Len(todo[r]) /\ Tail(todo[r])[k] = todo[r][k + 1]
  BY <1>3
<1>5. Cleans(Tail(todo[r]))
  BY <1>4 DEF CleanupInv, Cleans
<1> QED BY <1>2, <1>5 DEF CleanupInv

LEMMA CleanupStarts ==
    ASSUME LockInv, CleanupInv, NEW r \in Rooms, WakeCleanup(r) PROVE CleanupInv'
<1> DEFINE a == <<"acquire", "rooms">>
           b == <<"erase", r>>
           c == <<"release", "rooms">>
           p == <<a>> \o <<b>> \o <<c>>
<1>1. /\ r \in Threads /\ todo'[r] = p /\ \A q \in Rooms : q # r => todo'[q] = todo[q]
  BY ThreadNames DEF WakeCleanup, LockInv, Typed, Locked
<1>2. /\ a \in Instruction /\ b \in Instruction /\ c \in Instruction
  BY DEF Instruction, Locks
<1>3. /\ a[1] = "acquire" /\ a[2] = "rooms" /\ b[1] = "erase" /\ c[1] = "release" /\ c[2] = "rooms"
  OBVIOUS
<1> HIDE DEF a, b, c
<1>4. Len(p) = 3 /\ p[1] = a /\ p[2] = b /\ p[3] = c
  OBVIOUS
<1> HIDE DEF p
<1>5. \A k \in 1 .. Len(p) : k = 1 \/ k = 2 \/ k = 3
  BY <1>4
<1>6. Cleans(p)
  BY <1>3, <1>4, <1>5 DEF Cleans
<1> QED BY <1>1, <1>6 DEF CleanupInv

LEMMA NextCleanup == ASSUME LockInv, CleanupInv, [Next]_vars PROVE CleanupInv'
<1> USE ThreadNames
<1>1. "main" \notin Rooms /\ "broadcaster" \notin Rooms
  BY ThreadNamesAssumption
<1>2. CASE MainThread
  <2>1. Continue("main") => CleanupInv'
    BY <1>1, CleanupKept DEF Continue
  <2>2. CASE \/ Acquire("main") \/ Pass \/ Release("main") \/ Register \/ Forget \/ Record \/ Flag
             \/ ClearClients
    BY <2>1, <2>2
       DEF Acquire, Pass, Release, Register, Forget, Record, Flag, ClearClients, Write
  <2>3. CASE LeaveRoom \/ Remove \/ Open \/ JoinRoom \/ Erase("main") \/ ClearRooms
    BY <2>1, <2>3 DEF LeaveRoom, Remove, Open, JoinRoom, Erase, ClearRooms
  <2>4. CASE Push \/ Notify \/ JoinBroadcaster \/ CloseSocket \/ CloseSockets \/ CloseDatabase
    BY <2>1, <2>4 DEF Push, Notify, JoinBroadcaster, CloseSocket, CloseSockets, Close, CloseDatabase
  <2>5. CASE (\E s \in Clients : Serve(s)) \/ EndLoop
    <3>1. \E p : todo' = [todo EXCEPT !["main"] = p]
      BY <2>5, Zenon DEF Serve, EndLoop, StopServing
    <3> QED BY <1>1, <3>1, CleanupKept
  <2> QED BY <1>2, <2>2, <2>3, <2>4, <2>5 DEF MainThread
<1>3. CASE broadcastMessages
  <2>1. CASE Loop
    BY <1>1, <2>1, CleanupKept DEF Loop, CleanupInv
  <2>2. CASE Take
    BY <1>1, <2>2, CleanupKept DEF Take, AfterWait, TakeMessage, EndBroadcast, Wait
  <2>3. CASE broadcastMessages /\ ~Loop /\ ~Take
    BY <1>1, <2>3, CleanupKept
       DEF broadcastMessages, Acquire, Release, Sleep, WakeUp, LookUpRoom, FindRecipient,
           SendPrivate, Continue
  <2> QED BY <1>3, <2>1, <2>2, <2>3
<1>4. ASSUME NEW r \in Rooms, cleanupEmptyRoom(r) PROVE CleanupInv'
  BY <1>4, CleanupStarts, CleanupSteps DEF cleanupEmptyRoom, Acquire, Erase, Release
<1>5. CASE PollFails
  BY <1>1, <1>5, CleanupKept DEF PollFails, StopServing
<1>6. CASE Poll \/ signalHandler \/ UNCHANGED vars
  BY <1>6 DEF Poll, signalHandler, vars, CleanupInv
<1> QED BY <1>2, <1>3, <1>4, <1>5, <1>6 DEF Next, Terminated

LEMMA LockInvariant == Spec => [](LockInv /\ CleanupInv)
<1>1. Init => LockInv /\ CleanupInv
  BY InitLocks
<1>2. LockInv /\ CleanupInv /\ [Next]_vars => (LockInv /\ CleanupInv)'
  BY NextLocks, NextCleanup
<1> QED BY <1>1, <1>2, PTL DEF Spec

(***************************************************************************)
(* No data race.                                                            *)
(***************************************************************************)
\* A thread holds the mutexes of the maps its next instruction touches.
LEMMA TouchesHeld ==
    ASSUME LockInv, NEW th \in Threads, NEW lock \in Touches(th)
    PROVE  lock \in Locks /\ holder[lock] = th
<1>1. lock \in Locks
  BY DEF Touches, Locks
<1>2. todo[th] \in Programs /\ todo[th] # <<>>
  BY DEF LockInv, Typed, Touches, At
<1>3. /\ Head(todo[th]) = todo[th][1] /\ 1 \in 1 .. Len(todo[th])
  BY <1>1, <1>2, FirstOfTail
<1>4. CASE th \in Workers
  <2>1. lock \in Needs(todo[th][1])
    BY <1>3 DEF Touches, At, Needs
  <2>2. GivesUp(todo[th], 1, lock)
    BY <1>3, <1>4, <2>1 DEF LockInv, WorkersInv, Disciplined
  <2> QED BY <1>1, <1>4, <2>2 DEF LockInv, WorkersInv
<1>5. CASE th = "broadcaster"
  <2> DEFINE p == todo["broadcaster"]
  <2>1. \/ /\ lock = "clients"
           /\ p[1][1] \in {"register", "forget", "record", "flag", "join", "find", "clearClients"}
        \/ /\ lock = "rooms"
           /\ p[1][1] \in {"leave", "remove", "open", "join", "erase", "look", "sendTo",
                           "clearRooms"}
        \/ lock = "queue" /\ p[1][1] \in {"push", "take"}
    BY <1>3, <1>5 DEF Touches, At
  <2>2. Len(p) # 0
    BY <1>3, <1>5
  <2>3. Holding({lock}) \/ (p[1][1] = "find" /\ Holding({"rooms", "clients"}))
    BY <2>1, <2>2 DEF LockInv, TurnInv, Begins, Ends
  <2> QED BY <1>1, <1>5, <2>1, <2>3 DEF Holding
<1> QED BY <1>1, <1>4, <1>5, ThreadNames

\* No two threads ever touch the clients, the rooms or the queue at the same time,
\* however many clients, rooms and messages there are: every handler, the
\* broadcaster and the cleanup threads touch them inside the mutex that guards them.
THEOREM MutexesLeaveNoRace == Spec => []NoDataRace
<1>1. LockInv => NoDataRace
  BY TouchesHeld DEF NoDataRace
<1> QED BY <1>1, LockInvariant, PTL

(***************************************************************************)
(* Who can wait for whom.                                                   *)
(***************************************************************************)
Waits(th) == At(th, "acquire") \/ At(th, "pass")

LEMMA PassIs == \A i \in Instruction : i[1] = "pass" => i = <<"pass", i[2]>>
<1> SUFFICES ASSUME NEW i \in Instruction, i[1] = "pass" PROVE i = <<"pass", i[2]>>
  OBVIOUS
<1>1. CASE i \in {"acquire", "release", "pass"} \X Locks
  BY <1>1
<1>2. CASE i \in {"register", "forget", "closesocket"} \X Clients
  BY <1>2
<1>3. CASE i \in {"leave", "remove", "open", "join", "sendTo"} \X Clients \X Rooms
  BY <1>3
<1>4. CASE i \in {"record"} \X Clients \X (Rooms \cup {NoRoom}) \X BOOLEAN
  BY <1>4
<1>5. CASE i \in {"flag"} \X Clients \X BOOLEAN
  BY <1>5
<1>6. CASE i \in {"erase"} \X Rooms
  BY <1>6
<1>7. CASE i \in {"push", "look", "find"} \X Message
  BY <1>7
<1>8. CASE i \in {"take"} \X BOOLEAN
  BY <1>8
<1>9. CASE i \in {<<op>> : op \in {"notify", "sleep", "joinBroadcaster", "closeSockets",
                                   "clearRooms", "clearClients", "closeDatabase"}}
  BY <1>9
<1> QED BY <1>1, <1>2, <1>3, <1>4, <1>5, <1>6, <1>7, <1>8, <1>9, Zenon DEF Instruction

\* The first instruction of a thread that waits.
LEMMA WaitingFirst ==
    ASSUME LockInv, NEW th \in Threads, Waits(th)
    PROVE  /\ todo[th] \in Programs /\ todo[th] # <<>> /\ 1 \in 1 .. Len(todo[th])
           /\ todo[th][1] \in Instruction /\ Head(todo[th]) = todo[th][1]
           /\ Argument(th, 1) = todo[th][1][2] /\ Argument(th, 1) \in Locks
           /\ todo[th][1][1] \in {"acquire", "pass"}
           /\ At(th, "acquire") <=> todo[th][1][1] = "acquire"
           /\ At(th, "pass") <=> todo[th][1][1] = "pass"
<1>1. todo[th] \in Programs /\ todo[th] # <<>>
  BY DEF LockInv, Typed, Waits, At
<1>2. /\ Head(todo[th]) = todo[th][1] /\ 1 \in 1 .. Len(todo[th]) /\ todo[th][1] \in Instruction
  BY <1>1, TailOf
<1>3. /\ At(th, "acquire") <=> todo[th][1][1] = "acquire"
      /\ At(th, "pass") <=> todo[th][1][1] = "pass"
  BY <1>1, <1>2 DEF At
<1>4. Argument(th, 1) = todo[th][1][2]
  BY <1>2 DEF Argument
<1>5. todo[th][1][1] \in {"acquire", "pass"}
  BY <1>3 DEF Waits
<1> QED BY <1>1, <1>2, <1>3, <1>4, <1>5, InstructionTypes

LEMMA CleanupWaitsFree ==
    ASSUME LockInv, CleanupInv, NEW r \in Rooms, Waits(r), NEW lock \in Locks
    PROVE  holder[lock] # r
<1> DEFINE p == todo[r]
<1>1. /\ p \in Programs /\ p # <<>> /\ 1 \in 1 .. Len(p) /\ p[1][1] \in {"acquire", "pass"}
      /\ r \in Workers
  BY WaitingFirst, ThreadNames
<1>2. p[1][1] = "acquire" /\ p[1][2] = "rooms"
  BY <1>1 DEF CleanupInv, Cleans
<1>3. ~GivesUp(p, 1, lock)
  <2>1. CASE lock = "rooms"
    BY <1>1, <1>2, <2>1, FirstOfTail DEF Begins, Ends
  <2>2. CASE lock # "rooms"
    <3>1. \A m \in 1 .. Len(p) : ~Ends(p[m], lock)
      BY <2>2 DEF CleanupInv, Cleans, Ends
    <3> QED BY <3>1 DEF GivesUp
  <2> QED BY <2>1, <2>2
<1> QED BY <1>1, <1>3 DEF LockInv, WorkersInv

LEMMA BroadcasterWaits ==
    ASSUME LockInv, Waits("broadcaster"), NEW lock \in Locks, holder[lock] = "broadcaster"
    PROVE  /\ lock = "rooms" /\ Argument("broadcaster", 1) = "clients"
           /\ todo["broadcaster"][2][1] = "find"
<1> DEFINE p == todo["broadcaster"]
<1>1. /\ Len(p) # 0 /\ p[1][1] \in {"acquire", "pass"} /\ Argument("broadcaster", 1) = p[1][2]
  BY WaitingFirst, ThreadNames
<1>2. \/ Holding({})
      \/ Begins(p[1], "clients") /\ p[2][1] = "find" /\ Holding({"rooms"})
  BY <1>1 DEF LockInv, TurnInv, Begins, Ends
<1>3. ~Holding({})
  BY DEF Holding
<1>4. Begins(p[1], "clients") /\ p[2][1] = "find" /\ Holding({"rooms"})
  BY <1>2, <1>3
<1>5. lock = "rooms"
  BY <1>4 DEF Holding
<1> QED BY <1>1, <1>4, <1>5 DEF Begins

LEMMA MainWaits ==
    ASSUME LockInv, Waits("main")
    PROVE  /\ holder[Argument("main", 1)] # "main"
           /\ Argument("main", 1) = "rooms" /\ holder["clients"] = "main" =>
                \/ Head(todo["main"]) = <<"pass", "rooms">>
                \/ todo["main"][2][1] \in {"leave", "join"}
<1> DEFINE p == todo["main"]
           l == Argument("main", 1)
<1>1. /\ p \in Programs /\ p # <<>> /\ 1 \in 1 .. Len(p) /\ p[1][1] \in {"acquire", "pass"}
      /\ l = p[1][2] /\ l \in Locks /\ p[1] \in Instruction /\ Head(p) = p[1]
  BY WaitingFirst, ThreadNames
<1>2. \A lock \in Locks : holder[lock] = "main" <=> GivesUp(p, 1, lock)
  BY ThreadNames DEF LockInv, WorkersInv
<1>3. Disciplined(p)
  BY ThreadNames DEF LockInv, WorkersInv
<1> HIDE DEF p, l
<1>4. ~GivesUp(p, 1, l)
  <2>1. CASE p[1][1] = "acquire"
    <3>1. Begins(p[1], l) /\ ~Ends(p[1], l)
      BY <1>1, <2>1 DEF Begins, Ends
    <3> QED BY <1>1, <3>1, FirstOfTail
  <2>2. CASE p[1][1] = "pass"
    <3>1. Passes(p[1], l)
      BY <1>1, <2>2 DEF Passes
    <3> QED BY <1>1, <1>3, <3>1 DEF Disciplined
  <2> QED BY <1>1, <2>1, <2>2
<1>5. ASSUME l = "rooms", holder["clients"] = "main"
      PROVE  Head(p) = <<"pass", "rooms">> \/ p[2][1] \in {"leave", "join"}
  <2>1. CASE p[1][1] = "pass"
    <3>1. p[1] = <<"pass", p[1][2]>>
      BY <1>1, <2>1, PassIs
    <3> QED BY <1>1, <1>5, <3>1, Zenon
  <2>2. CASE p[1][1] = "acquire"
    <3>1. Begins(p[1], "rooms") /\ GivesUp(p, 1, "clients")
      BY <1>1, <1>2, <1>5, <2>2, LockNames DEF Begins
    <3>2. Changes(p, 1) /\ 1 + 1 = 2
      BY <1>1, <1>3, <3>1 DEF Disciplined
    <3> QED BY <3>2 DEF Changes
  <2> QED BY <1>1, <2>1, <2>2
<1> QED BY <1>1, <1>2, <1>4, <1>5 DEF p, l

LEMMA NobodyElseWaits == ASSUME LockInv, CleanupInv PROVE OnlyPrivateMessagesDeadlock
<1> SUFFICES ASSUME NEW a \in Threads, NEW b \in Threads, WaitsFor(a, b), WaitsFor(b, a)
             PROVE  /\ {a, b} = {"main", "broadcaster"}
                    /\ todo["broadcaster"][2][1] = "find"
                    /\ \/ Head(todo["main"]) = <<"pass", "rooms">>
                       \/ todo["main"][2][1] \in {"leave", "join"}
  BY Zenon DEF OnlyPrivateMessagesDeadlock
<1>1. /\ Waits(a) /\ holder[Argument(a, 1)] = b /\ Argument(a, 1) \in Locks
      /\ Waits(b) /\ holder[Argument(b, 1)] = a /\ Argument(b, 1) \in Locks
  <2>1. Waits(a) /\ holder[Argument(a, 1)] = b /\ Waits(b) /\ holder[Argument(b, 1)] = a
    BY DEF WaitsFor, Waits
  <2> QED BY <2>1, WaitingFirst
<1>2. a \notin Rooms /\ b \notin Rooms
  BY <1>1, CleanupWaitsFree
<1>3. a \in {"main", "broadcaster"} /\ b \in {"main", "broadcaster"}
  BY <1>2 DEF Threads
<1>4. a # b
  <2>1. CASE a = "main" /\ b = "main"
    BY <1>1, <2>1, MainWaits
  <2>2. CASE a = "broadcaster" /\ b = "broadcaster"
    <3>1. Argument("broadcaster", 1) = "rooms" /\ Argument("broadcaster", 1) = "clients"
      BY <1>1, <2>2, BroadcasterWaits
    <3> QED BY <3>1
  <2> QED BY <1>3, <2>1, <2>2
<1>5. /\ Waits("main") /\ holder[Argument("main", 1)] = "broadcaster"
      /\ Argument("main", 1) \in Locks
      /\ Waits("broadcaster") /\ holder[Argument("broadcaster", 1)] = "main"
  BY <1>1, <1>3, <1>4
<1>6. /\ Argument("main", 1) = "rooms" /\ Argument("broadcaster", 1) = "clients"
      /\ todo["broadcaster"][2][1] = "find"
  BY <1>5, BroadcasterWaits
<1>7. \/ Head(todo["main"]) = <<"pass", "rooms">>
      \/ todo["main"][2][1] \in {"leave", "join"}
  BY <1>5, <1>6, MainWaits, Zenon
<1>8. {a, b} = {"main", "broadcaster"}
  BY <1>3, <1>4
<1> QED BY <1>6, <1>7, <1>8, Zenon

\* No thread waits for a mutex it has, and two that wait for each other are always
\* main in CREATE or JOIN and the broadcaster with a private message, however many
\* clients, rooms, messages and cleanup threads there are.
THEOREM OneWayToDeadlock == Spec => []OnlyPrivateMessagesDeadlock
BY LockInvariant, NobodyElseWaits, PTL

(***************************************************************************)
(* The end of the program.                                                  *)
(***************************************************************************)
\* What main does, in order, once its poll loop has ended.
Ends10 == <<"notify", "joinBroadcaster", "closeSockets", "acquire", "clearRooms", "release",
            "acquire", "clearClients", "release", "closeDatabase">>

\* Until then it never closes the database; after, it is on the way through Ends10,
\* with the broadcaster gone behind the second step and the rooms behind the fifth.
EndInv ==
    LET p == todo["main"]
    IN  /\ serving => databaseOpen /\ p \in Routines
        /\ ~serving =>
              /\ Len(p) \in 0 .. 10
              /\ \A k \in 1 .. Len(p) : p[k][1] = Ends10[k + (10 - Len(p))]
              /\ ~databaseOpen => Len(p) = 0
              /\ Len(p) <= 8 => broadcaster = "done" /\ todo["broadcaster"] = <<>>
              /\ Len(p) <= 5 => live = {}

\* The step of main at its instruction op, once the poll loop has ended.
LEMMA Ending ==
    ASSUME LockInv, EndInv, ~serving, NEW op, At("main", op), Continue("main")
    PROVE  LET n == Len(todo["main"])
           IN  /\ n \in 1 .. 10 /\ op = Ends10[11 - n]
               /\ Len(todo'["main"]) = n - 1
               /\ \A k \in 1 .. n - 1 : todo'["main"][k][1] = Ends10[k + (10 - (n - 1))]
               /\ todo'["broadcaster"] = todo["broadcaster"]
<1> DEFINE p == todo["main"]
           n == Len(p)
<1>1. /\ p \in Programs /\ p # <<>> /\ todo'["main"] = Tail(p)
      /\ todo'["broadcaster"] = todo["broadcaster"]
  BY ThreadNames DEF LockInv, Typed, At, Continue
<1>2. /\ n \in Nat \ {0} /\ Head(p) = p[1] /\ Len(Tail(p)) = n - 1
      /\ \A k \in 1 .. n - 1 : Tail(p)[k] = p[k + 1]
  BY <1>1, TailOf
<1>3. n \in 1 .. 10 /\ \A k \in 1 .. n : p[k][1] = Ends10[k + (10 - n)]
  <2>1. n \in 0 .. 10 /\ \A k \in 1 .. n : p[k][1] = Ends10[k + (10 - n)]
    BY Zenon DEF EndInv
  <2>2. n \in 1 .. 10
    BY <1>2, <2>1
  <2> QED BY <2>1, <2>2, Zenon
<1>4. op = p[1][1] /\ 1 \in 1 .. n /\ 1 + (10 - n) = 11 - n
  BY <1>2, <1>3 DEF At
<1>5. \A k \in 1 .. n - 1 : k + 1 \in 1 .. n /\ (k + 1) + (10 - n) = k + (10 - (n - 1))
  BY <1>3
<1>6. \A k \in 1 .. n - 1 : Tail(p)[k][1] = Ends10[k + (10 - (n - 1))]
  BY <1>2, <1>3, <1>5
<1>7. op = Ends10[11 - n]
  BY <1>3, <1>4
<1> QED BY <1>1, <1>2, <1>3, <1>6, <1>7

LEMMA Ends10Is ==
    \A n \in 1 .. 10 :
        /\ Ends10[11 - n] \in {"notify", "joinBroadcaster", "closeSockets", "acquire",
                               "clearRooms", "release", "clearClients", "closeDatabase"}
        /\ Ends10[11 - n] = "joinBroadcaster" <=> n = 9
        /\ Ends10[11 - n] = "closeSockets" <=> n = 8
        /\ Ends10[11 - n] = "clearRooms" <=> n = 6
        /\ Ends10[11 - n] = "closeDatabase" <=> n = 1
        /\ Ends10[11 - n] = "notify" <=> n = 10
BY DEF Ends10

LEMMA RoutineTail ==
    ASSUME NEW p \in Routines, p # <<>> PROVE Tail(p) \in Routines
<1>1. p \in Programs /\ \A k \in 1 .. Len(p) : p[k][1] # "closeDatabase"
  BY DEF Routines
<1>2. /\ Len(p) \in Nat \ {0} /\ Tail(p) \in Programs /\ Len(Tail(p)) = Len(p) - 1
      /\ \A k \in 1 .. Len(p) - 1 : Tail(p)[k] = p[k + 1]
  BY <1>1, TailOf
<1>3. \A k \in 1 .. Len(Tail(p)) : k + 1 \in 1 .. Len(p) /\ Tail(p)[k] = p[k + 1]
  BY <1>2
<1> QED BY <1>1, <1>2, <1>3 DEF Routines

\* While it serves, main runs past any instruction.
LEMMA ServingSteps ==
    ASSUME LockInv, EndInv, serving, serving' = serving, NEW op, At("main", op),
           Continue("main"), op = "closeDatabase" \/ databaseOpen' = databaseOpen
    PROVE  EndInv'
<1> DEFINE p == todo["main"]
<1>1. p \in Routines /\ p # <<>> /\ p[1][1] = op /\ todo'["main"] = Tail(p) /\ 1 \in 1 .. Len(p)
  BY TailOf, ThreadNames DEF LockInv, Typed, At, Continue, EndInv, Routines
<1>2. op # "closeDatabase"
  BY <1>1 DEF Routines
<1>3. Tail(p) \in Routines
  BY <1>1, RoutineTail
<1> QED BY <1>1, <1>2, <1>3 DEF EndInv

\* After it has ended, main runs through Ends10.
LEMMA EndingSteps ==
    ASSUME LockInv, EndInv, ~serving, serving' = serving, NEW op, At("main", op),
           Continue("main"),
           op # "closeDatabase" => databaseOpen' = databaseOpen,
           op # "notify" => broadcaster' = broadcaster,
           op = "joinBroadcaster" => broadcaster = "done" /\ todo["broadcaster"] = <<>>,
           op = "clearRooms" => live' = {},
           op \in {"notify", "joinBroadcaster", "acquire", "release", "clearClients",
                   "closeSockets", "closeDatabase"} => live' = live
    PROVE  EndInv'
<1> DEFINE n == Len(todo["main"])
           m == Len(todo'["main"])
<1>1. /\ n \in 1 .. 10 /\ op = Ends10[11 - n]
      /\ m = n - 1
      /\ \A k \in 1 .. n - 1 : todo'["main"][k][1] = Ends10[k + (10 - (n - 1))]
      /\ todo'["broadcaster"] = todo["broadcaster"]
  BY Ending
<1>2. /\ op \in {"notify", "joinBroadcaster", "closeSockets", "acquire", "clearRooms", "release",
                 "clearClients", "closeDatabase"}
      /\ op = "joinBroadcaster" <=> n = 9
      /\ op = "clearRooms" <=> n = 6
      /\ op = "closeDatabase" <=> n = 1
      /\ op = "notify" <=> n = 10
  BY <1>1, Ends10Is
<1>3. /\ ~databaseOpen => n = 0
      /\ n <= 8 => broadcaster = "done" /\ todo["broadcaster"] = <<>>
      /\ n <= 5 => live = {}
  BY DEF EndInv
<1> HIDE DEF n
<1>4. m \in 0 .. 10 /\ (m <= 8 => n <= 8 \/ n = 9) /\ (m <= 5 => n <= 5 \/ n = 6) /\ n # 0
  BY <1>1
<1>5. ~databaseOpen' => m = 0
  BY <1>1, <1>2, <1>3, <1>4
<1>6. m <= 8 => broadcaster' = "done" /\ todo'["broadcaster"] = <<>>
  BY <1>1, <1>2, <1>3, <1>4
<1>7. m <= 5 => live' = {}
  BY <1>1, <1>2, <1>3, <1>4
<1>8. \A k \in 1 .. m : todo'["main"][k][1] = Ends10[k + (10 - m)]
  BY <1>1
<1> HIDE DEF m
<1>9. ~serving'
  OBVIOUS
<1> QED BY <1>4, <1>5, <1>6, <1>7, <1>8, <1>9 DEF EndInv, m

LEMMA InitEnd == ASSUME Init PROVE EndInv
<1>1. todo["main"] = <<>> /\ serving /\ databaseOpen
  BY ThreadNames DEF Init
<1>2. <<>> \in Routines
  BY DEF Routines, Programs
<1> QED BY <1>1, <1>2 DEF EndInv

\* The poll loop ends, by a signal or by an error.
LEMMA StopEnd == ASSUME LockInv, EndInv, StopServing PROVE EndInv'
<1> DEFINE a == <<"notify">>
           b == <<"joinBroadcaster">>
           z == <<"closeSockets">>
           c == <<"acquire", "rooms">>
           d == <<"clearRooms">>
           e == <<"release", "rooms">>
           f == <<"acquire", "clients">>
           g == <<"clearClients">>
           h == <<"release", "clients">>
           i == <<"closeDatabase">>
           p == <<a, b, z>> \o (<<c>> \o <<d>> \o <<e>>) \o (<<f>> \o <<g>> \o <<h>>) \o <<i>>
<1>1. /\ todo' = [todo EXCEPT !["main"] = p] /\ ~serving' /\ databaseOpen' = databaseOpen
      /\ databaseOpen
  BY DEF StopServing, Polling, Shutdown, Locked, EndInv
<1>2. todo'["main"] = p
  BY <1>1, ThreadNames DEF LockInv, Typed
<1>3. /\ a[1] = Ends10[1] /\ b[1] = Ends10[2] /\ z[1] = Ends10[3] /\ c[1] = Ends10[4]
      /\ d[1] = Ends10[5] /\ e[1] = Ends10[6] /\ f[1] = Ends10[7] /\ g[1] = Ends10[8]
      /\ h[1] = Ends10[9] /\ i[1] = Ends10[10]
  BY DEF Ends10
<1> HIDE DEF a, b, z, c, d, e, f, g, h, i
<1>4. /\ Len(p) = 10
      /\ p[1] = a /\ p[2] = b /\ p[3] = z /\ p[4] = c /\ p[5] = d /\ p[6] = e /\ p[7] = f
      /\ p[8] = g /\ p[9] = h /\ p[10] = i
  OBVIOUS
<1> HIDE DEF p
<1>5. \A k \in 1 .. 10 : p[k][1] = Ends10[k]
  <2> SUFFICES ASSUME NEW k \in 1 .. 10 PROVE p[k][1] = Ends10[k]
    OBVIOUS
  <2>1. \/ k = 1 \/ k = 2 \/ k = 3 \/ k = 4 \/ k = 5
        \/ k = 6 \/ k = 7 \/ k = 8 \/ k = 9 \/ k = 10
    OBVIOUS
  <2>2. /\ p[1][1] = Ends10[1] /\ p[2][1] = Ends10[2] /\ p[3][1] = Ends10[3]
        /\ p[4][1] = Ends10[4] /\ p[5][1] = Ends10[5] /\ p[6][1] = Ends10[6]
        /\ p[7][1] = Ends10[7] /\ p[8][1] = Ends10[8] /\ p[9][1] = Ends10[9]
        /\ p[10][1] = Ends10[10]
    BY <1>3, <1>4
  <2> QED BY <2>1, <2>2
<1>6. \A k \in 1 .. Len(p) : k + (10 - Len(p)) = k /\ k \in 1 .. 10
  BY <1>4
<1>7. \A k \in 1 .. Len(p) : p[k][1] = Ends10[k + (10 - Len(p))]
  BY <1>5, <1>6
<1>8. Len(p) \in 0 .. 10 /\ ~(Len(p) <= 8) /\ ~(Len(p) <= 5)
  BY <1>4
<1> QED BY <1>1, <1>2, <1>7, <1>8, Zenon DEF EndInv

\* The instructions of the main thread, and what they leave alone.
LEMMA MainEnd == ASSUME LockInv, EndInv, MainThread PROVE EndInv'
<1>1. ASSUME serving' = serving, NEW op, At("main", op), Continue("main"),
             op # "closeDatabase" => databaseOpen' = databaseOpen,
             op # "notify" => broadcaster' = broadcaster,
             op = "joinBroadcaster" => broadcaster = "done" /\ todo["broadcaster"] = <<>>,
             op = "clearRooms" => live' = {},
             op \in {"notify", "joinBroadcaster", "acquire", "release", "clearClients",
                     "closeSockets", "closeDatabase"} => live' = live
      PROVE  EndInv'
  <2>1. CASE serving
    BY <1>1, <2>1, ServingSteps
  <2>2. CASE ~serving
    BY <1>1, <2>2, EndingSteps
  <2> QED BY <2>1, <2>2
<1>2. CASE Acquire("main")
  BY <1>1, <1>2 DEF Acquire, control, rooms
<1>3. CASE Pass
  BY <1>1, <1>3 DEF Pass, control
<1>4. CASE Release("main")
  BY <1>1, <1>4 DEF Release, control, rooms
<1>5. CASE Register
  BY <1>1, <1>5 DEF Register, Write, control
<1>6. CASE Forget
  BY <1>1, <1>6 DEF Forget, Write, control
<1>7. CASE Record
  BY <1>1, <1>7 DEF Record, Write, control
<1>8. CASE Flag
  BY <1>1, <1>8 DEF Flag, Write, control
<1>9. CASE ClearClients
  BY <1>1, <1>9 DEF ClearClients, Write, control, rooms
<1>10. CASE LeaveRoom
  BY <1>1, <1>10 DEF LeaveRoom, control
<1>11. CASE Remove
  BY <1>1, <1>11 DEF Remove, control
<1>12. CASE Open
  BY <1>1, <1>12 DEF Open, control
<1>13. CASE JoinRoom
  BY <1>1, <1>13 DEF JoinRoom, control
<1>14. CASE Erase("main")
  BY <1>1, <1>14 DEF Erase, control
<1>15. CASE ClearRooms
  BY <1>1, <1>15 DEF ClearRooms, control
<1>16. CASE Push
  BY <1>1, <1>16 DEF Push, control
<1>17. CASE Notify
  BY <1>1, <1>17 DEF Notify, rooms
<1>18. CASE JoinBroadcaster
  BY <1>1, <1>18 DEF JoinBroadcaster, control, rooms
<1>19. CASE CloseDatabase
  BY <1>1, <1>19 DEF CloseDatabase, rooms
<1>20. CASE CloseSocket
  BY <1>1, <1>20 DEF CloseSocket, Close, control
<1>21. CASE CloseSockets
  BY <1>1, <1>21 DEF CloseSockets, Close, control, rooms
<1>22. CASE \E s \in Clients : Serve(s)
  <2>1. PICK s \in Clients : Serve(s)
    BY <1>22
  <2>2. PICK handler \in IF s \in connected THEN Commands(s) ELSE {Accept(s)} :
            todo' = [todo EXCEPT !["main"] = handler]
    BY <2>1 DEF Serve
  <2>3. Within(handler, {})
    BY <2>2, CommandsWithin, AcceptWithin DEF LockInv
  <2>4. serving /\ serving' = serving /\ databaseOpen' = databaseOpen
    BY <2>1 DEF Serve, Polling
  <2>5. todo'["main"] = handler /\ handler \in Routines
    BY <2>2, <2>3, ThreadNames DEF LockInv, Typed, Within
  <2> QED BY <2>4, <2>5 DEF EndInv
<1>23. CASE EndLoop
  BY <1>23, StopEnd DEF EndLoop
<1> QED BY <1>2, <1>3, <1>4, <1>5, <1>6, <1>7, <1>8, <1>9, <1>10, <1>11, <1>12, <1>13, <1>14,
           <1>15, <1>16, <1>17, <1>18, <1>19, <1>22, <1>23, <1>20, <1>21 DEF MainThread

\* The broadcaster is gone, and stays gone, behind the second step.
LEMMA BroadcasterEnd == ASSUME LockInv, EndInv, broadcastMessages PROVE EndInv'
<1>1. /\ serving' = serving /\ databaseOpen' = databaseOpen /\ live' = live
      /\ todo'["main"] = todo["main"]
  BY ThreadNames
     DEF broadcastMessages, Acquire, Release, Loop, Take, AfterWait, TakeMessage, EndBroadcast,
         Wait, Sleep, WakeUp, LookUpRoom, FindRecipient, SendPrivate, Continue, control, rooms,
         LockInv, Typed
<1>2. ~(broadcaster = "done" /\ todo["broadcaster"] = <<>>)
  BY DEF broadcastMessages, Acquire, Release, Loop, Take, Sleep, WakeUp, LookUpRoom,
         FindRecipient, SendPrivate, At
<1> QED BY <1>1, <1>2 DEF EndInv

LEMMA CleanupEnd == ASSUME LockInv, EndInv, NEW r \in Rooms, cleanupEmptyRoom(r) PROVE EndInv'
<1>1. "main" # r /\ "broadcaster" # r
  BY ThreadNamesAssumption
<1>2. /\ serving' = serving /\ databaseOpen' = databaseOpen /\ live' \subseteq live
      /\ broadcaster' = broadcaster
      /\ todo'["main"] = todo["main"] /\ todo'["broadcaster"] = todo["broadcaster"]
  BY <1>1, ThreadNames
     DEF cleanupEmptyRoom, WakeCleanup, Acquire, Erase, Release, Continue, control, rooms,
         LockInv, Typed
<1> QED BY <1>2 DEF EndInv

LEMMA NextEnd == ASSUME LockInv, EndInv, [Next]_vars PROVE EndInv'
<1>1. CASE PollFails
  BY <1>1, StopEnd DEF PollFails
<1>2. CASE Poll \/ signalHandler \/ UNCHANGED vars
  <2>1. UNCHANGED <<todo, serving, databaseOpen, broadcaster, live>>
    BY <1>2 DEF Poll, signalHandler, vars, rooms, control
  <2> QED BY <2>1, Zenon DEF EndInv
<1> QED BY <1>1, <1>2, MainEnd, BroadcasterEnd, CleanupEnd, Zenon DEF Next, Terminated

\* Once main has closed the database no thread can reach it any more: the
\* broadcaster is gone and no room is left for a cleanup thread to delete.
THEOREM DatabaseClosesLast == Spec => []DatabaseOutlivesItsUsers
<1>1. LockInv /\ EndInv => DatabaseOutlivesItsUsers
  <2> SUFFICES ASSUME LockInv, EndInv, ~databaseOpen
               PROVE  live = {} /\ todo["broadcaster"] = <<>>
    BY DEF DatabaseOutlivesItsUsers, At
  <2>1. /\ ~serving /\ Len(todo["main"]) = 0
        /\ Len(todo["main"]) <= 8 => todo["broadcaster"] = <<>>
        /\ Len(todo["main"]) <= 5 => live = {}
    BY Zenon DEF EndInv
  <2> QED BY <2>1
<1>2. Init => EndInv
  BY InitEnd
<1>3. LockInv /\ EndInv /\ [Next]_vars => EndInv'
  BY NextEnd
<1> QED BY <1>1, <1>2, <1>3, LockInvariant, PTL DEF Spec
===============================================================================
