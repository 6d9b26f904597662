----------------------------- MODULE FramingProofs -----------------------------
(***************************************************************************)
(* Proofs about the stream of lines, for any lines, buffer sizes and number *)
(* of lines sent: what a message that the receiver parses is made of,       *)
(* wherever send and recv cut the stream, and that server and client are a  *)
(* channel of messages.                                                     *)
(***************************************************************************)
EXTENDS Framing, WellFoundedInduction, SequenceTheorems, FiniteSetTheorems,
        FunctionTheorems, TLAPS

Byte == {b \in Lines \X Nat : b[2] \in 1 .. Length[b[1]]}

\* Each byte comes behind the earlier ones of its line: a line may lose its end,
\* never its beginning.
Unbroken(bytes) ==
    \A k \in 1 .. Len(bytes) :
        /\ bytes[k][2] <= k
        /\ \A i \in 1 .. bytes[k][2] : bytes[k - bytes[k][2] + i] = <<bytes[k][1], i>>

\* No line has lost its end: what follows its first byte is the whole of it.
Whole(bytes) ==
    \A k \in 1 .. Len(bytes) :
        bytes[k][2] = 1 =>
            /\ k - 1 + Length[bytes[k][1]] <= Len(bytes)
            /\ \A i \in 1 .. Length[bytes[k][1]] : bytes[k - 1 + i] = <<bytes[k][1], i>>

Typed ==
    /\ pipe \in Seq(Byte) /\ Len(pipe) <= Capacity
    /\ receivedData \in Seq(Byte) /\ parsed \in Seq(Seq(Byte))

StreamInv ==
    /\ Typed
    /\ Unbroken(outstanding)
    /\ ~torn => Whole(outstanding)
    /\ WholeLines /\ LinesResume

(***************************************************************************)
(* Bytes.                                                                   *)
(***************************************************************************)
LEMMA ByteIs ==
    \A b \in Byte : /\ b = <<b[1], b[2]>> /\ b[1] \in Lines /\ b[2] \in Nat \ {0}
                    /\ Length[b[1]] \in Nat \ {0} /\ b[2] <= Length[b[1]]
BY FramingAssumption DEF Byte

LEMMA PieceIs ==
    ASSUME NEW line \in Lines, NEW n \in 0 .. Length[line]
    PROVE  /\ Piece(line, n) \in Seq(Byte) /\ Len(Piece(line, n)) = n
           /\ \A k \in 1 .. n : Piece(line, n)[k] = <<line, k>>
<1>1. n \in Nat /\ Length[line] \in Nat
  BY FramingAssumption
<1>2. \A k \in 1 .. n : <<line, k>> \in Byte
  BY <1>1 DEF Byte
<1> QED BY <1>1, <1>2, IsASeq DEF Piece

\* There is a first newline where there is one.
LEMMA FirstOf ==
    ASSUME NEW T \in SUBSET Nat, T # {}
    PROVE  Min(T) \in T /\ \A k \in T : Min(T) <= k
<1> DEFINE Less == {p \in Nat \X Nat : p[1] < p[2]}
<1>1. IsWellFoundedOn(Less, Nat)
  BY NatLessThanWellFounded, Zenon DEF OpToRel
<1>0. \A k, n \in Nat : <<k, n>> \in Less <=> k < n
  OBVIOUS
<1> HIDE DEF Less
<1>2. PICK n \in T : \A k \in T : ~(<<k, n>> \in Less)
  BY <1>1, WFMin, Zenon
<1>3. ASSUME NEW k \in T PROVE n <= k
  <2>1. k \in Nat /\ n \in Nat /\ ~(<<k, n>> \in Less)
    BY <1>2
  <2>2. ~(k < n)
    BY <1>0, <2>1
  <2> QED BY <2>1, <2>2
<1> QED BY <1>3 DEF Min

LEMMA FirstNewline ==
    ASSUME NEW bytes \in Seq(Byte), Newlines(bytes) # {}, NEW n, n = Min(Newlines(bytes))
    PROVE  /\ n \in 1 .. Len(bytes) /\ IsNewline(bytes[n])
           /\ \A k \in 1 .. n - 1 : ~IsNewline(bytes[k])
<1>1. DOMAIN bytes = 1 .. Len(bytes) /\ Len(bytes) \in Nat
  OBVIOUS
<1>2. Newlines(bytes) \in SUBSET Nat
  BY <1>1 DEF Newlines
<1>3. n \in Newlines(bytes) /\ \A k \in Newlines(bytes) : n <= k
  BY <1>2, FirstOf
<1>4. \A k : k \in Newlines(bytes) <=> k \in 1 .. Len(bytes) /\ IsNewline(bytes[k])
  BY <1>1 DEF Newlines
<1>5. \A k \in 1 .. n - 1 : k \in 1 .. Len(bytes) /\ ~(n <= k)
  BY <1>1, <1>3, <1>4
<1> QED BY <1>3, <1>4, <1>5

(***************************************************************************)
(* What a newline ends.                                                     *)
(***************************************************************************)
LEMMA NewlineIs ==
    ASSUME NEW bytes \in Seq(Byte), Unbroken(bytes), NEW n \in 1 .. Len(bytes),
           IsNewline(bytes[n]), \A k \in 1 .. n - 1 : ~IsNewline(bytes[k])
    PROVE  \E line \in Lines :
               /\ Length[line] \in 1 .. n
               /\ \A i \in 1 .. Length[line] : bytes[n - Length[line] + i] = <<line, i>>
               /\ bytes[1][2] = 1
               /\ Whole(bytes) => Length[line] = n
<1>0. PICK line : line = bytes[n][1]
  OBVIOUS
<1>1. /\ Len(bytes) \in Nat /\ n \in Nat /\ bytes[n] \in Byte /\ 1 \in 1 .. Len(bytes)
      /\ bytes[1] \in Byte
  OBVIOUS
<1>2. line \in Lines /\ Length[line] \in Nat \ {0} /\ bytes[n][2] = Length[line]
  BY <1>0, <1>1, ByteIs DEF IsNewline
<1>3. Length[line] <= n /\ \A i \in 1 .. Length[line] : bytes[n - Length[line] + i] = <<line, i>>
  BY <1>0, <1>2 DEF Unbroken
<1>4. bytes[1][2] = 1
  <2>1. bytes[1][2] <= 1 /\ bytes[1][2] \in Nat \ {0}
    BY <1>1, ByteIs DEF Unbroken
  <2> QED BY <2>1
<1>5. ASSUME Whole(bytes) PROVE Length[line] = n
  <2> DEFINE first == bytes[1][1]
  <2>1. /\ first \in Lines /\ Length[first] \in Nat \ {0} /\ Length[first] <= Len(bytes)
        /\ \A i \in 1 .. Length[first] : bytes[i] = <<first, i>>
    <3>1. first \in Lines /\ Length[first] \in Nat \ {0}
      BY <1>1, ByteIs
    <3>2. /\ 1 - 1 + Length[first] <= Len(bytes)
          /\ \A i \in 1 .. Length[first] : bytes[1 - 1 + i] = <<first, i>>
      BY <1>1, <1>4, <1>5 DEF Whole
    <3> QED BY <3>1, <3>2
  <2>2. \A i \in 1 .. Length[first] : IsNewline(bytes[i]) <=> i = Length[first]
    BY <2>1 DEF IsNewline
  <2>3. ~(Length[first] < n)
    <3>1. ASSUME Length[first] < n PROVE FALSE
      <4>1. Length[first] \in 1 .. n - 1 /\ Length[first] \in 1 .. Length[first]
        BY <1>1, <2>1, <3>1
      <4> QED BY <2>2, <4>1
    <3> QED BY <3>1
  <2>4. n \in 1 .. Length[first]
    BY <1>1, <2>1, <2>3
  <2>5. n = Length[first] /\ bytes[n] = <<first, n>>
    BY <2>1, <2>2, <2>4
  <2> QED BY <1>0, <2>5
<1> QED BY <1>1, <1>2, <1>3, <1>4, <1>5

(***************************************************************************)
(* Bytes come at the end and go at the beginning.                           *)
(***************************************************************************)
LEMMA IsUnbroken ==
    ASSUME NEW bytes \in Seq(Byte),
           \A k \in 1 .. Len(bytes), line \in Lines, j \in Nat \ {0} :
               bytes[k] = <<line, j>> =>
                   j <= k /\ \A i \in 1 .. j : bytes[k - j + i] = <<line, i>>
    PROVE  Unbroken(bytes)
<1>1. ASSUME NEW k \in 1 .. Len(bytes)
      PROVE  /\ bytes[k][2] <= k
             /\ \A i \in 1 .. bytes[k][2] : bytes[k - bytes[k][2] + i] = <<bytes[k][1], i>>
  <2>1. bytes[k] \in Byte
    OBVIOUS
  <2>2. /\ bytes[k] = <<bytes[k][1], bytes[k][2]>>
        /\ bytes[k][1] \in Lines /\ bytes[k][2] \in Nat \ {0}
    BY <2>1, ByteIs
  <2> QED BY <2>2, Zenon
<1> QED BY <1>1 DEF Unbroken

LEMMA IsWhole ==
    ASSUME NEW bytes \in Seq(Byte),
           \A k \in 1 .. Len(bytes), line \in Lines :
               bytes[k] = <<line, 1>> =>
                   /\ k - 1 + Length[line] <= Len(bytes)
                   /\ \A i \in 1 .. Length[line] : bytes[k - 1 + i] = <<line, i>>
    PROVE  Whole(bytes)
<1>1. ASSUME NEW k \in 1 .. Len(bytes), bytes[k][2] = 1
      PROVE  /\ k - 1 + Length[bytes[k][1]] <= Len(bytes)
             /\ \A i \in 1 .. Length[bytes[k][1]] : bytes[k - 1 + i] = <<bytes[k][1], i>>
  <2>1. bytes[k] \in Byte
    OBVIOUS
  <2>2. bytes[k] = <<bytes[k][1], 1>> /\ bytes[k][1] \in Lines
    BY <1>1, <2>1, ByteIs
  <2> QED BY <2>2, Zenon
<1> QED BY <1>1 DEF Whole

LEMMA Sent ==
    ASSUME NEW old \in Seq(Byte), NEW line \in Lines, NEW n \in 0 .. Length[line],
           NEW new \in Seq(Byte), Len(new) = Len(old) + n,
           \A k \in 1 .. Len(old) : new[k] = old[k],
           \A k \in 1 .. n : new[Len(old) + k] = <<line, k>>
    PROVE  /\ Unbroken(old) => Unbroken(new)
           /\ Whole(old) /\ n \in {0, Length[line]} => Whole(new)
<1>1. PICK m, size : m = Len(old) /\ size = Length[line]
  OBVIOUS
<1>2. /\ m \in Nat /\ size \in Nat \ {0} /\ n \in Nat /\ n <= size
      /\ Len(new) = m + n
      /\ \A k \in 1 .. m : new[k] = old[k]
      /\ \A k \in 1 .. n : new[m + k] = <<line, k>>
  <2>1. m \in Nat /\ size \in Nat \ {0}
    BY <1>1, FramingAssumption
  <2>2. n \in Nat /\ n <= size
    BY <1>1, <2>1
  <2> QED BY <1>1, <2>1, <2>2, Zenon
<1>3. ASSUME NEW k \in 1 .. Len(new)
      PROVE  k \in 1 .. m \/ \E j \in 1 .. n : k = m + j
  <2>1. k \in 1 .. m \/ (k - m \in 1 .. n /\ k = m + (k - m))
    BY <1>2
  <2> QED BY <2>1
<1>4. ASSUME Unbroken(old), NEW k \in 1 .. Len(new), NEW l \in Lines, NEW j \in Nat \ {0},
             new[k] = <<l, j>>
      PROVE  j <= k /\ \A i \in 1 .. j : new[k - j + i] = <<l, i>>
  <2>1. CASE k \in 1 .. m
    <3>1. old[k][1] = l /\ old[k][2] = j /\ k \in 1 .. Len(old)
      BY <1>1, <1>2, <1>4, <2>1
    <3>2. j <= k /\ \A i \in 1 .. j : old[k - j + i] = <<l, i>>
      BY <1>4, <3>1 DEF Unbroken
    <3>3. \A i \in 1 .. j : k - j + i \in 1 .. m
      BY <1>2, <2>1, <3>2
    <3> QED BY <1>2, <3>2, <3>3
  <2>2. ASSUME NEW p \in 1 .. n, k = m + p
        PROVE  j <= k /\ \A i \in 1 .. j : new[k - j + i] = <<l, i>>
    <3>1. l = line /\ j = p
      <4>1. new[k] = <<line, p>>
        BY <1>2, <2>2
      <4> QED BY <1>4, <4>1
    <3>2. j <= k /\ \A i \in 1 .. j : k - j + i = m + i /\ i \in 1 .. n
      BY <1>2, <2>2, <3>1
    <3> QED BY <1>2, <3>1, <3>2
  <2> QED BY <1>3, <2>1, <2>2
<1>5. ASSUME Whole(old), n \in {0, Length[line]}, NEW k \in 1 .. Len(new), NEW l \in Lines,
             new[k] = <<l, 1>>
      PROVE  /\ k - 1 + Length[l] <= Len(new)
             /\ \A i \in 1 .. Length[l] : new[k - 1 + i] = <<l, i>>
  <2>0. PICK length : length = Length[l]
    OBVIOUS
  <2>1. CASE k \in 1 .. m
    <3>1. old[k][1] = l /\ old[k][2] = 1 /\ k \in 1 .. Len(old)
      BY <1>1, <1>2, <1>5, <2>1
    <3>2. /\ length \in Nat \ {0} /\ k - 1 + length <= m
          /\ \A i \in 1 .. length : old[k - 1 + i] = <<l, i>>
      BY <1>1, <1>5, <2>0, <3>1, FramingAssumption DEF Whole
    <3>3. k - 1 + length <= Len(new) /\ \A i \in 1 .. length : k - 1 + i \in 1 .. m
      BY <1>2, <2>1, <3>2
    <3> QED BY <1>2, <2>0, <3>2, <3>3
  <2>2. ASSUME NEW p \in 1 .. n, k = m + p
        PROVE  /\ k - 1 + Length[l] <= Len(new)
               /\ \A i \in 1 .. Length[l] : new[k - 1 + i] = <<l, i>>
    <3>1. l = line /\ p = 1
      <4>1. new[k] = <<line, p>>
        BY <1>2, <2>2
      <4> QED BY <1>5, <4>1
    <3>2. length = n /\ k - 1 = m
      BY <1>1, <1>2, <1>5, <2>0, <2>2, <3>1
    <3>3. k - 1 + length <= Len(new) /\ \A i \in 1 .. length : k - 1 + i = m + i
      BY <1>2, <3>2
    <3> QED BY <1>2, <2>0, <3>1, <3>2, <3>3
  <2> QED BY <1>3, <2>1, <2>2
<1> QED BY <1>4, <1>5, IsUnbroken, IsWhole

\* What is left of the old bytes without the first n.
Behind(new, old, n) ==
    Len(new) = Len(old) - n /\ \A k \in 1 .. Len(new) : new[k] = old[n + k]

\* Nothing, or all up to a newline.
LEMMA Taken ==
    ASSUME NEW old \in Seq(Byte), NEW n \in 0 .. Len(old), n # 0 => IsNewline(old[n]),
           NEW new \in Seq(Byte), Behind(new, old, n)
    PROVE  /\ Unbroken(old) => Unbroken(new)
           /\ Whole(old) => Whole(new)
<1>1. PICK m : m = Len(old)
  OBVIOUS
<1>2. m \in Nat /\ n \in Nat /\ n <= m /\ Len(new) = m - n
  BY <1>1 DEF Behind
<1>3. ASSUME NEW k \in 1 .. Len(new)
      PROVE  k \in Nat \ {0} /\ n + k \in 1 .. Len(old) /\ new[k] = old[n + k]
  BY <1>1, <1>2 DEF Behind
<1>4. ASSUME Unbroken(old), NEW k \in 1 .. Len(new), NEW l \in Lines, NEW j \in Nat \ {0},
             new[k] = <<l, j>>
      PROVE  j <= k /\ \A i \in 1 .. j : new[k - j + i] = <<l, i>>
  <2>1. PICK q \in 1 .. Len(old) : q = n + k
    BY <1>3
  <2>2. old[q] = <<l, j>> /\ old[q] \in Byte /\ k \in Nat \ {0}
    BY <1>3, <1>4, <2>1
  <2>3. j <= q /\ \A i \in 1 .. j : old[q - j + i] = <<l, i>>
    <3>1. /\ old[q][2] <= q
          /\ \A i \in 1 .. old[q][2] : old[q - old[q][2] + i] = <<old[q][1], i>>
      BY <1>4, Zenon DEF Unbroken
    <3>2. old[q][1] = l /\ old[q][2] = j
      BY <2>2
    <3> QED BY <3>1, <3>2, Zenon
  <2>4. j <= k
    <3>1. SUFFICES ASSUME j > k PROVE FALSE
      BY <2>2
    <3>2. n # 0 /\ j - k \in 1 .. j /\ q - j + (j - k) = n
      BY <1>2, <2>1, <2>2, <2>3, <3>1
    <3>3. old[n] = <<l, j - k>>
      BY <2>3, <3>2
    <3>4. j - k = Length[l]
      BY <3>2, <3>3 DEF IsNewline
    <3>5. j <= Length[l]
      <4>1. old[q][1] = l /\ old[q][2] = j
        BY <2>2
      <4> QED BY <2>2, <4>1, ByteIs, Zenon
    <3> QED BY <2>2, <3>4, <3>5
  <2>5. \A i \in 1 .. j : k - j + i \in 1 .. Len(new) /\ n + (k - j + i) = q - j + i
    BY <1>2, <2>1, <2>2, <2>4
  <2>6. \A i \in 1 .. j : new[k - j + i] = old[q - j + i]
    BY <2>5 DEF Behind
  <2> QED BY <2>3, <2>4, <2>6
<1>5. ASSUME Whole(old), NEW k \in 1 .. Len(new), NEW l \in Lines, new[k] = <<l, 1>>
      PROVE  /\ k - 1 + Length[l] <= Len(new)
             /\ \A i \in 1 .. Length[l] : new[k - 1 + i] = <<l, i>>
  <2>1. PICK q \in 1 .. Len(old), length \in Nat \ {0} : q = n + k /\ length = Length[l]
    BY <1>3, FramingAssumption
  <2>2. old[q][1] = l /\ old[q][2] = 1 /\ k \in Nat \ {0}
    BY <1>3, <1>5, <2>1
  <2>3. q - 1 + length <= m /\ \A i \in 1 .. length : old[q - 1 + i] = <<l, i>>
    <3>1. old[q][2] = 1 => /\ q - 1 + Length[old[q][1]] <= Len(old)
                           /\ \A i \in 1 .. Length[old[q][1]] :
                                  old[q - 1 + i] = <<old[q][1], i>>
      BY <1>5, Zenon DEF Whole
    <3> QED BY <1>1, <2>1, <2>2, <3>1, Zenon
  <2>4. k - 1 + length <= Len(new)
    BY <1>2, <2>1, <2>2, <2>3
  <2>5. \A i \in 1 .. length : k - 1 + i \in 1 .. Len(new) /\ n + (k - 1 + i) = q - 1 + i
    BY <1>2, <2>1, <2>2, <2>3
  <2>6. \A i \in 1 .. length : new[k - 1 + i] = old[q - 1 + i]
    BY <2>5 DEF Behind
  <2> QED BY <2>1, <2>3, <2>4, <2>6
<1> QED BY <1>4, <1>5, IsUnbroken, IsWhole

(***************************************************************************)
(* The steps.                                                               *)
(***************************************************************************)
LEMMA JoinIs ==
    ASSUME NEW a \in Seq(Byte), NEW b \in Seq(Byte)
    PROVE  /\ a \o b \in Seq(Byte) /\ Len(a \o b) = Len(a) + Len(b)
           /\ \A k \in 1 .. Len(a) : (a \o b)[k] = a[k]
           /\ \A k \in 1 .. Len(b) : (a \o b)[Len(a) + k] = b[k]
           /\ Len(a) \in Nat /\ Len(b) \in Nat
OBVIOUS

LEMMA JoinAssociates ==
    ASSUME NEW a \in Seq(Byte), NEW b \in Seq(Byte), NEW c \in Seq(Byte)
    PROVE  a \o (b \o c) = (a \o b) \o c
OBVIOUS

LEMMA CutIs ==
    ASSUME NEW a \in Seq(Byte), NEW n \in 0 .. Len(a)
    PROVE  /\ SubSeq(a, 1, n) \in Seq(Byte) /\ Len(SubSeq(a, 1, n)) = n
           /\ \A k \in 1 .. n : SubSeq(a, 1, n)[k] = a[k]
           /\ SubSeq(a, n + 1, Len(a)) \in Seq(Byte)
           /\ Len(SubSeq(a, n + 1, Len(a))) = Len(a) - n
           /\ \A k \in 1 .. Len(a) - n : SubSeq(a, n + 1, Len(a))[k] = a[n + k]
OBVIOUS

\* What sendToClient adds to the stream: nothing, a line, or the beginning of one.
Adds(old, line, n, new) ==
    /\ old \in Seq(Byte) /\ new \in Seq(Byte) /\ line \in Lines
    /\ n \in 0 .. Length[line] /\ Len(new) = Len(old) + n
    /\ \A k \in 1 .. Len(old) : new[k] = old[k]
    /\ \A k \in 1 .. n : new[Len(old) + k] = <<line, k>>

\* sendToClient adds to the stream.
LEMMA SendIs ==
    ASSUME Typed, NEW line \in Lines, sendToClient(line)
    PROVE  /\ Typed' /\ parsed' = parsed
           /\ \E n \in 0 .. Length[line] : \E old, new :
                 /\ outstanding = old /\ outstanding' = new /\ Adds(old, line, n, new)
                 /\ torn' = (torn \/ n \in 1 .. Length[line] - 1)
<1> DEFINE room == Capacity - Len(pipe)
           n == IF Length[line] <= room THEN Length[line] ELSE room
<1>1. /\ pipe' = pipe \o Piece(line, n) /\ torn' = (torn \/ n \in 1 .. Length[line] - 1)
      /\ receivedData' = receivedData /\ parsed' = parsed
  BY DEF sendToClient
<1>2. Typed
  OBVIOUS
<1>3. Length[line] \in Nat \ {0} /\ Len(pipe) \in Nat /\ room \in Nat
  BY <1>2, FramingAssumption DEF Typed
<1>4. n \in 0 .. Length[line] /\ n <= room
  BY <1>3
<1>5. n \in Nat /\ Len(pipe) + n <= Capacity
  BY <1>3, <1>4, FramingAssumption
<1> HIDE DEF n, room
<1>6. PICK piece : piece = Piece(line, n)
  OBVIOUS
<1>7. /\ piece \in Seq(Byte) /\ Len(piece) = n
      /\ \A k \in 1 .. n : piece[k] = <<line, k>>
  BY <1>4, <1>6, PieceIs
<1>8. PICK old : old = receivedData \o pipe
  OBVIOUS
<1> DEFINE new == old \o piece
<1>9. outstanding = old /\ outstanding' = new /\ pipe' = pipe \o piece
  <2>1. receivedData \o (pipe \o piece) = (receivedData \o pipe) \o piece
    <3>1. receivedData \in Seq(Byte) /\ pipe \in Seq(Byte) /\ piece \in Seq(Byte)
      BY <1>2, <1>7 DEF Typed
    <3> QED BY <3>1, JoinAssociates, Zenon
  <2>2. pipe' = pipe \o piece /\ receivedData' = receivedData
    BY <1>1, <1>6
  <2> QED BY <1>8, <2>1, <2>2 DEF outstanding
<1>10. Typed'
  <2>1. pipe' \in Seq(Byte) /\ Len(pipe') = Len(pipe) + n
    BY <1>2, <1>7, <1>9, JoinIs DEF Typed
  <2> QED BY <1>1, <1>2, <1>5, <2>1 DEF Typed
<1>11. old \in Seq(Byte) /\ new \in Seq(Byte) /\ Len(old) \in Nat
  BY <1>2, <1>7, <1>8, JoinIs DEF Typed
<1>12. /\ Len(new) = Len(old) + n
       /\ \A k \in 1 .. Len(old) : new[k] = old[k]
       /\ \A k \in 1 .. n : new[Len(old) + k] = <<line, k>>
  <2>1. /\ Len(new) = Len(old) + Len(piece)
        /\ \A k \in 1 .. Len(old) : new[k] = old[k]
        /\ \A k \in 1 .. Len(piece) : new[Len(old) + k] = piece[k]
    BY <1>7, <1>11, JoinIs
  <2> QED BY <1>5, <1>7, <2>1
<1> HIDE DEF new
<1>13. Adds(old, line, n, new)
  BY <1>4, <1>11, <1>12 DEF Adds
<1> QED BY <1>1, <1>4, <1>9, <1>10, <1>13

LEMMA SendKeeps == ASSUME StreamInv, NEW line \in Lines, sendToClient(line) PROVE StreamInv'
<1>1. Typed
  BY DEF StreamInv
<1>2. Typed' /\ parsed' = parsed
  BY <1>1, SendIs
<1>3. PICK n \in 0 .. Length[line] : \E old, new :
        /\ outstanding = old /\ outstanding' = new /\ Adds(old, line, n, new)
        /\ torn' = (torn \/ n \in 1 .. Length[line] - 1)
  BY <1>1, SendIs
<1>4. PICK old, new :
        /\ outstanding = old /\ outstanding' = new /\ Adds(old, line, n, new)
        /\ torn' = (torn \/ n \in 1 .. Length[line] - 1)
  BY <1>3
<1>5. n \in 1 .. Length[line] - 1 \/ n \in {0, Length[line]}
  BY FramingAssumption
<1>6. /\ Unbroken(old) => Unbroken(new)
      /\ Whole(old) /\ n \in {0, Length[line]} => Whole(new)
  BY <1>4, Sent DEF Adds
<1>7. /\ Unbroken(outstanding)'
      /\ Whole(outstanding) /\ n \in {0, Length[line]} => Whole(outstanding)'
  BY <1>4, <1>6 DEF StreamInv, Unbroken, Whole
<1>8. WholeLines' /\ LinesResume'
  BY <1>2, <1>4 DEF StreamInv, WholeLines, LinesResume
<1> QED BY <1>2, <1>4, <1>5, <1>7, <1>8 DEF StreamInv

\* Recv leaves the stream as it is.
LEMMA RecvIs ==
    ASSUME Typed, Recv
    PROVE  Typed' /\ outstanding' = outstanding /\ parsed' = parsed /\ torn' = torn
<1>1. PICK n \in 1 .. Len(pipe) :
          /\ receivedData' = receivedData \o SubSeq(pipe, 1, n)
          /\ pipe' = SubSeq(pipe, n + 1, Len(pipe))
          /\ parsed' = parsed /\ torn' = torn
  BY DEF Recv
<1>2. Typed /\ Len(pipe) \in Nat /\ n \in 0 .. Len(pipe) /\ n \in Nat
  BY DEF Typed
<1>3. PICK a, b : a = SubSeq(pipe, 1, n) /\ b = SubSeq(pipe, n + 1, Len(pipe))
  OBVIOUS
<1>4. a \in Seq(Byte) /\ b \in Seq(Byte) /\ a \o b = pipe /\ Len(b) = Len(pipe) - n
  <2>1. SubSeq(pipe, 1, n) \in Seq(Byte) /\ SubSeq(pipe, n + 1, Len(pipe)) \in Seq(Byte)
    BY <1>2, CutIs DEF Typed
  <2>2. Len(SubSeq(pipe, n + 1, Len(pipe))) = Len(pipe) - n
    BY <1>2, CutIs DEF Typed
  <2>3. SubSeq(pipe, 1, n) \o SubSeq(pipe, n + 1, Len(pipe)) = SubSeq(pipe, 1, Len(pipe))
    BY <1>2, ConcatAdjacentSubSeq DEF Typed
  <2>4. SubSeq(pipe, 1, Len(pipe)) = pipe
    BY <1>2, SubSeqFull DEF Typed
  <2>5. a \in Seq(Byte) /\ b \in Seq(Byte) /\ Len(b) = Len(pipe) - n
    BY <1>3, <2>1, <2>2
  <2>6. a \o b = pipe
    BY <1>3, <2>3, <2>4
  <2> QED BY <2>5, <2>6
<1>5. receivedData' \in Seq(Byte) /\ pipe' \in Seq(Byte) /\ Len(pipe') <= Capacity
  <2>1. receivedData \o a \in Seq(Byte)
    BY <1>2, <1>4, JoinIs DEF Typed
  <2>2. Len(b) <= Capacity
    BY <1>2, <1>4, FramingAssumption DEF Typed
  <2> QED BY <1>1, <1>3, <1>4, <2>1, <2>2
<1>6. outstanding' = outstanding
  <2>1. receivedData \in Seq(Byte) /\ a \in Seq(Byte) /\ b \in Seq(Byte)
    BY <1>2, <1>4 DEF Typed
  <2>2. receivedData \o (a \o b) = (receivedData \o a) \o b
    BY <2>1, JoinAssociates, Zenon
  <2>3. receivedData' = receivedData \o a /\ pipe' = b /\ pipe = a \o b
    BY <1>1, <1>3, <1>4
  <2>4. outstanding' = (receivedData \o a) \o b /\ outstanding = receivedData \o (a \o b)
    BY <2>3 DEF outstanding
  <2> QED BY <2>2, <2>4
<1> QED BY <1>1, <1>2, <1>5, <1>6 DEF Typed

LEMMA RecvKeeps == ASSUME StreamInv, Recv PROVE StreamInv'
<1>1. Typed' /\ outstanding' = outstanding /\ parsed' = parsed /\ torn' = torn
  BY RecvIs DEF StreamInv
<1>2. Unbroken(outstanding)' /\ (Whole(outstanding) => Whole(outstanding)')
  BY <1>1 DEF StreamInv, Unbroken, Whole
<1>3. WholeLines' /\ LinesResume'
  BY <1>1 DEF StreamInv, WholeLines, LinesResume
<1> QED BY <1>1, <1>2, <1>3 DEF StreamInv

\* What a message that ends with the last byte of a line ends with.
LEMMA EndsWith ==
    ASSUME NEW m \in Seq(Byte), NEW line \in Lines, Length[line] \in 1 .. Len(m),
           \A i \in 1 .. Length[line] : m[Len(m) - Length[line] + i] = <<line, i>>
    PROVE  /\ IsSuffix(Piece(line, Length[line]), m)
           /\ Length[line] = Len(m) => m = Piece(line, Length[line])
<1> DEFINE p == Piece(line, Length[line])
<1>1. PICK n, size : n = Length[line] /\ size = Len(m)
  OBVIOUS
<1>2. /\ p \in Seq(Byte) /\ Len(p) = n /\ \A k \in 1 .. n : p[k] = <<line, k>>
      /\ n \in Nat /\ size \in Nat /\ n \in 1 .. size
  BY <1>1, PieceIs
<1> HIDE DEF p
<1>3. \A i \in 1 .. n : m[size - n + i] = p[i]
  BY <1>1, <1>2
<1>4. IsSuffix(p, m)
  <2>1. PICK back, all : back = Reverse(p) /\ all = Reverse(m)
    OBVIOUS
  <2>2. /\ back = [i \in 1 .. n |-> p[(n - i) + 1]]
        /\ all = [i \in 1 .. size |-> m[(size - i) + 1]]
    BY <1>1, <1>2, <2>1 DEF Reverse
  <2>3. /\ back \in Seq(Byte) /\ Len(back) = n
        /\ all \in Seq(Byte) /\ Len(all) = size
    <3>1. \A i \in 1 .. n : p[(n - i) + 1] \in Byte
      BY <1>2
    <3>2. \A i \in 1 .. size : m[(size - i) + 1] \in Byte
      BY <1>1, <1>2
    <3> QED BY <1>2, <2>2, <3>1, <3>2, IsASeq
  <2>4. \A i \in 1 .. n : all[i] = back[i]
    <3>1. ASSUME NEW i \in 1 .. n PROVE all[i] = back[i]
      <4>1. (n - i) + 1 \in 1 .. n /\ size - n + ((n - i) + 1) = (size - i) + 1 /\ i \in 1 .. size
        BY <1>2
      <4>2. m[(size - i) + 1] = p[(n - i) + 1]
        BY <1>3, <4>1
      <4> QED BY <2>2, <4>1, <4>2
    <3> QED BY <3>1
  <2>5. SubSeq(back, 1, n) = SubSeq(all, 1, n)
    <3>1. /\ SubSeq(back, 1, n) \in Seq(Byte) /\ Len(SubSeq(back, 1, n)) = n
          /\ SubSeq(all, 1, n) \in Seq(Byte) /\ Len(SubSeq(all, 1, n)) = n
          /\ \A k \in 1 .. n : SubSeq(back, 1, n)[k] = back[k] /\ SubSeq(all, 1, n)[k] = all[k]
      BY <1>2, <2>3, CutIs
    <3> QED BY <2>4, <3>1, SeqEqual
  <2> QED BY <1>2, <2>1, <2>3, <2>5 DEF IsSuffix, IsPrefix
<1>5. ASSUME n = size PROVE m = p
  <2>1. \A i \in 1 .. n : m[i] = p[i]
    BY <1>2, <1>3, <1>5
  <2> QED BY <1>1, <1>2, <1>5, <2>1, SeqEqual
<1> QED BY <1>1, <1>4, <1>5 DEF p

\* All up to the first newline.
Takes(old, n, new) ==
    /\ old \in Seq(Byte) /\ n \in 1 .. Len(old) /\ IsNewline(old[n])
    /\ \A k \in 1 .. n - 1 : ~IsNewline(old[k])
    /\ new \in Seq(Byte) /\ Behind(new, old, n)

\* ParseLine takes the stream's bytes up to the first newline, and they are the message.
LEMMA ParseIs ==
    ASSUME Typed, ParseLine
    PROVE  /\ Typed' /\ torn' = torn
           /\ \E n, old, new, message :
                 /\ outstanding = old /\ outstanding' = new /\ Takes(old, n, new)
                 /\ message \in Seq(Byte) /\ Len(message) = n
                 /\ \A k \in 1 .. n : message[k] = old[k]
                 /\ parsed' = Append(parsed, message)
<1>0. PICK n, message : /\ n = Min(Newlines(receivedData))
                        /\ message = SubSeq(receivedData, 1, n)
  OBVIOUS
<1>1. /\ Newlines(receivedData) # {}
      /\ parsed' = Append(parsed, message)
      /\ receivedData' = SubSeq(receivedData, n + 1, Len(receivedData))
      /\ pipe' = pipe /\ torn' = torn
  BY <1>0 DEF ParseLine
<1>2. Typed
  OBVIOUS
<1>3. /\ n \in 1 .. Len(receivedData) /\ IsNewline(receivedData[n])
      /\ \A k \in 1 .. n - 1 : ~IsNewline(receivedData[k])
  BY <1>0, <1>1, <1>2, FirstNewline DEF Typed
<1>4. PICK old, rest : old = receivedData \o pipe /\ rest = receivedData'
  OBVIOUS
<1>5. /\ old \in Seq(Byte) /\ Len(old) = Len(receivedData) + Len(pipe)
      /\ \A k \in 1 .. Len(receivedData) : old[k] = receivedData[k]
      /\ \A k \in 1 .. Len(pipe) : old[Len(receivedData) + k] = pipe[k]
      /\ Len(receivedData) \in Nat /\ Len(pipe) \in Nat
  BY <1>2, <1>4, JoinIs DEF Typed
<1>6. /\ message \in Seq(Byte) /\ Len(message) = n
      /\ \A k \in 1 .. n : message[k] = receivedData[k]
      /\ rest \in Seq(Byte) /\ Len(rest) = Len(receivedData) - n
      /\ \A k \in 1 .. Len(receivedData) - n : rest[k] = receivedData[n + k]
  <2>1. n \in 0 .. Len(receivedData) /\ receivedData \in Seq(Byte)
    BY <1>2, <1>3 DEF Typed
  <2>2. rest = SubSeq(receivedData, n + 1, Len(receivedData))
    BY <1>1, <1>4
  <2> QED BY <1>0, <2>1, <2>2, CutIs
<1>7. n \in Nat /\ n \in 1 .. Len(old) /\ \A k \in 1 .. n : k \in 1 .. Len(receivedData)
  BY <1>3, <1>5
<1>8. \A k \in 1 .. n : message[k] = old[k]
  BY <1>5, <1>6, <1>7
<1>9. old[n] = receivedData[n] /\ \A k \in 1 .. n - 1 : old[k] = receivedData[k]
  BY <1>5, <1>7
<1>10. IsNewline(old[n]) /\ \A k \in 1 .. n - 1 : ~IsNewline(old[k])
  BY <1>3, <1>9 DEF IsNewline
<1>11. parsed' \in Seq(Seq(Byte)) /\ receivedData' \in Seq(Byte)
  BY <1>1, <1>2, <1>4, <1>6 DEF Typed
<1> DEFINE new == rest \o pipe
<1>12. /\ new \in Seq(Byte) /\ Len(new) = Len(old) - n
       /\ \A k \in 1 .. Len(new) : new[k] = old[n + k]
  <2>1. /\ new \in Seq(Byte) /\ Len(new) = Len(rest) + Len(pipe)
        /\ \A k \in 1 .. Len(rest) : new[k] = rest[k]
        /\ \A k \in 1 .. Len(pipe) : new[Len(rest) + k] = pipe[k]
    BY <1>2, <1>6, JoinIs DEF Typed
  <2> HIDE DEF new
  <2>2. ASSUME NEW k \in 1 .. Len(new) PROVE new[k] = old[n + k]
    <3>1. CASE k \in 1 .. Len(rest)
      <4>1. k \in 1 .. Len(receivedData) - n /\ n + k \in 1 .. Len(receivedData)
        BY <1>5, <1>6, <1>7, <3>1
      <4> QED BY <1>5, <1>6, <2>1, <3>1, <4>1
    <3>2. CASE k \notin 1 .. Len(rest)
      <4>1. /\ k - Len(rest) \in 1 .. Len(pipe) /\ k = Len(rest) + (k - Len(rest))
            /\ n + k = Len(receivedData) + (k - Len(rest))
        BY <1>5, <1>6, <1>7, <2>1, <3>2
      <4> QED BY <1>5, <2>1, <4>1
    <3> QED BY <3>1, <3>2
  <2> QED BY <1>5, <1>6, <1>7, <2>1, <2>2
<1>13. outstanding' = new /\ outstanding = old
  BY <1>1, <1>4 DEF outstanding
<1> HIDE DEF new
<1>14. Takes(old, n, new)
  BY <1>5, <1>7, <1>10, <1>12 DEF Takes, Behind
<1>15. Typed'
  BY <1>1, <1>2, <1>11 DEF Typed
<1> QED BY <1>1, <1>6, <1>8, <1>13, <1>14, <1>15

LEMMA ParseKeeps == ASSUME StreamInv, ParseLine PROVE StreamInv'
<1>1. Typed /\ parsed \in Seq(Seq(Byte))
  BY DEF StreamInv, Typed
<1>2. Typed' /\ torn' = torn
  BY <1>1, ParseIs
<1>3. PICK n, old, new, message :
        /\ outstanding = old /\ outstanding' = new /\ Takes(old, n, new)
        /\ message \in Seq(Byte) /\ Len(message) = n /\ \A k \in 1 .. n : message[k] = old[k]
        /\ parsed' = Append(parsed, message)
  BY <1>1, ParseIs
<1>4. /\ old \in Seq(Byte) /\ n \in 1 .. Len(old) /\ n \in Nat /\ IsNewline(old[n])
      /\ \A k \in 1 .. n - 1 : ~IsNewline(old[k])
      /\ new \in Seq(Byte) /\ Behind(new, old, n)
  BY <1>3 DEF Takes
<1>5. Unbroken(old) /\ (~torn => Whole(old))
  BY <1>3 DEF StreamInv
<1>6. PICK line \in Lines :
          /\ Length[line] \in 1 .. n
          /\ \A i \in 1 .. Length[line] : old[n - Length[line] + i] = <<line, i>>
          /\ old[1][2] = 1
          /\ Whole(old) => Length[line] = n
  BY <1>4, <1>5, NewlineIs, Zenon
<1>7. \A i \in 1 .. Length[line] : message[Len(message) - Length[line] + i] = <<line, i>>
  <2>1. \A i \in 1 .. Length[line] : n - Length[line] + i \in 1 .. n
    <3>1. PICK size \in 1 .. n : size = Length[line]
      BY <1>6
    <3>2. n \in Nat /\ \A i \in 1 .. size : n - size + i \in 1 .. n
      BY <1>4
    <3> QED BY <3>1, <3>2, Zenon
  <2>2. /\ Len(message) = n /\ \A k \in 1 .. n : message[k] = old[k]
        /\ \A i \in 1 .. Length[line] : old[n - Length[line] + i] = <<line, i>>
    BY <1>3, <1>6, Zenon
  <2>3. \A i \in 1 .. Length[line] : message[n - Length[line] + i] = <<line, i>>
    BY <2>1, <2>2
  <2> QED BY <2>2, <2>3
<1>8. message[1][2] = 1
  <2>1. 1 \in 1 .. n
    BY <1>4
  <2> QED BY <1>3, <1>6, <2>1
<1>9. IsSuffix(Piece(line, Length[line]), message) /\ (~torn => message = Piece(line, Length[line]))
  <2>1. Length[line] \in 1 .. Len(message) /\ message \in Seq(Byte) /\ Len(message) = n
    BY <1>3, <1>6
  <2>2. IsSuffix(Piece(line, Length[line]), message)
        /\ (Length[line] = Len(message) => message = Piece(line, Length[line]))
    BY <1>7, <2>1, EndsWith, Zenon
  <2>3. ~torn => Length[line] = Len(message)
    BY <1>5, <1>6, <2>1, Zenon
  <2> QED BY <2>2, <2>3, Zenon
<1>10. \A k \in DOMAIN parsed' :
           (k \in DOMAIN parsed /\ parsed'[k] = parsed[k]) \/ parsed'[k] = message
  BY <1>1, <1>3, AppendProperties
<1>11. WholeLines'
  BY <1>2, <1>5, <1>6, <1>9, <1>10 DEF StreamInv, WholeLines
<1>12. LinesResume'
  BY <1>5, <1>6, <1>8, <1>9, <1>10 DEF StreamInv, LinesResume
<1>13. (Unbroken(old) => Unbroken(new)) /\ (Whole(old) => Whole(new))
  <2>1. n \in 0 .. Len(old)
    BY <1>4
  <2> QED BY <1>4, <2>1, Taken
<1>14. Unbroken(outstanding)' /\ (Whole(old) => Whole(outstanding)')
  BY <1>3, <1>5, <1>13 DEF Unbroken, Whole
<1> QED BY <1>2, <1>5, <1>11, <1>12, <1>14 DEF StreamInv

(***************************************************************************)
(* The messages of a stream, by the places where they end.                  *)
(***************************************************************************)
\* These are the ends, in their order.
InOrder(cuts, ends) ==
    /\ cuts \in Seq(Nat)
    /\ \A i, j \in 1 .. Len(cuts) : i < j => cuts[i] < cuts[j]
    /\ ends = {cuts[i] : i \in 1 .. Len(cuts)}

\* Where the k-th message begins: behind the end before its own.
Start(cuts, k) == IF k = 1 THEN 1 ELSE cuts[k - 1] + 1

Divided(bytes, cuts) ==
    [k \in 1 .. Len(cuts) |-> SubSeq(bytes, Start(cuts, k), cuts[k])]

\* The end before which k - 1 others come is the k-th.
LEMMA Ranked ==
    ASSUME NEW cuts, NEW ends, InOrder(cuts, ends)
    PROVE  /\ Cardinality(ends) = Len(cuts)
           /\ \A k \in 1 .. Len(cuts) : Nth(ends, k) = cuts[k]
<1>1. PICK count \in Nat : count = Len(cuts)
  BY DEF InOrder
<1>2. /\ \A i \in 1 .. count : cuts[i] \in Nat
      /\ \A i, j \in 1 .. count : i < j => cuts[i] < cuts[j]
      /\ ends = {cuts[i] : i \in 1 .. count}
  BY <1>1 DEF InOrder
<1>3. \A i, j \in 1 .. count : cuts[i] < cuts[j] => i < j
  <2>1. ASSUME NEW i \in 1 .. count, NEW j \in 1 .. count, cuts[i] < cuts[j] PROVE i < j
    <3>1. cuts[i] \in Nat /\ cuts[j] \in Nat /\ i \in Nat /\ j \in Nat
      BY <1>1, <1>2
    <3>2. ~(j < i) /\ i # j
      BY <1>2, <2>1, <3>1
    <3> QED BY <3>1, <3>2
  <2> QED BY <2>1
<1>4. ASSUME NEW k \in 0 .. count PROVE Cardinality({cuts[i] : i \in 1 .. k}) = k
  <2> DEFINE first == {cuts[i] : i \in 1 .. k}
             f == [i \in 1 .. k |-> cuts[i]]
  <2>1. k \in Nat /\ \A i \in 1 .. k : i \in 1 .. count /\ i \in Nat
    BY <1>1
  <2>2. \A i, j \in 1 .. k : f[i] = f[j] => i = j
    <3>1. ASSUME NEW i \in 1 .. k, NEW j \in 1 .. k, f[i] = f[j] PROVE i = j
      <4>1. cuts[i] = cuts[j] /\ cuts[i] \in Nat
        BY <1>2, <2>1, <3>1
      <4>2. ~(i < j) /\ ~(j < i)
        BY <1>2, <2>1, <4>1
      <4> QED BY <2>1, <4>2
    <3> QED BY <3>1
  <2>3. f \in Bijection(1 .. k, first)
    BY <2>2 DEF Bijection, Injection, Surjection, IsInjective
  <2>4. IsFiniteSet(1 .. k) /\ Cardinality(1 .. k) = k
    BY <2>1, FS_Interval
  <2> HIDE DEF f, first
  <2>5. ExistsBijection(1 .. k, first)
    BY <2>3 DEF ExistsBijection
  <2>6. Cardinality(first) = k
    BY <2>4, <2>5, FS_Bijection
  <2> QED BY <2>6 DEF first
<1>5. Cardinality(ends) = count
  <2>1. count \in 0 .. count
    BY <1>1
  <2> QED BY <1>2, <1>4, <2>1
<1>6. ASSUME NEW k \in 1 .. count
      PROVE  Cardinality({m \in ends : m < cuts[k]}) = k - 1
  <2>1. {m \in ends : m < cuts[k]} = {cuts[i] : i \in 1 .. k - 1}
    <3>1. \A i \in 1 .. count : cuts[i] < cuts[k] <=> i \in 1 .. k - 1
      BY <1>1, <1>2, <1>3
    <3>2. \A i \in 1 .. k - 1 : i \in 1 .. count
      BY <1>1
    <3> QED BY <1>2, <3>1, <3>2
  <2>2. k - 1 \in 0 .. count
    BY <1>1
  <2> QED BY <1>4, <2>1, <2>2
<1>7. ASSUME NEW k \in 1 .. count PROVE Nth(ends, k) = cuts[k]
  <2> DEFINE Rank(n) == Cardinality({m \in ends : m < n})
  <2>1. cuts[k] \in ends /\ Rank(cuts[k]) = k - 1
    BY <1>2, <1>6
  <2>2. ASSUME NEW n \in ends, Rank(n) = k - 1 PROVE n = cuts[k]
    <3>1. PICK i \in 1 .. count : n = cuts[i]
      BY <1>2
    <3>2. i - 1 = k - 1
      BY <1>6, <2>2, <3>1
    <3> QED BY <1>1, <3>1, <3>2
  <2> HIDE DEF Rank
  <2>3. cuts[k] = CHOOSE n \in ends : Rank(n) = k - 1
    BY <2>1, <2>2
  <2> QED BY <2>3 DEF Nth, Rank
<1> QED BY <1>1, <1>5, <1>7

\* With the ends in order, the messages are what lies between them.
LEMMA Messaged ==
    ASSUME NEW bytes, NEW cuts, InOrder(cuts, Ends(bytes))
    PROVE  Messages(bytes) = Divided(bytes, cuts)
<1>1. PICK ends : ends = Ends(bytes)
  OBVIOUS
<1>2. /\ Cardinality(ends) = Len(cuts) /\ Len(cuts) \in Nat
      /\ \A k \in 1 .. Len(cuts) : Nth(ends, k) = cuts[k]
  <2>1. InOrder(cuts, ends)
    BY <1>1
  <2>2. Len(cuts) \in Nat
    BY <2>1 DEF InOrder
  <2> QED BY <2>1, <2>2, Ranked
<1>3. \A k \in 1 .. Len(cuts) : Begin(ends, k) = Start(cuts, k)
  <2>1. \A k \in 1 .. Len(cuts) : k = 1 \/ k - 1 \in 1 .. Len(cuts)
    BY <1>2
  <2> QED BY <1>2, <2>1 DEF Begin, Start
<1>4. Messages(bytes) = [k \in 1 .. Cardinality(ends) |->
                            SubSeq(bytes, Begin(ends, k), Nth(ends, k))]
  BY <1>1 DEF Messages
<1> QED BY <1>2, <1>3, <1>4 DEF Divided

\* What is known of the ends of a stream.
Open(bytes) == bytes # <<>> /\ ~IsNewline(Last(bytes))

\* Every end lies in the stream, behind the one before; the last is its last byte.
LEMMA EndsAre ==
    ASSUME NEW bytes \in Seq(Byte), NEW cuts, InOrder(cuts, Ends(bytes))
    PROVE  /\ cuts \in Seq(Nat) /\ Len(cuts) \in Nat /\ Len(bytes) \in Nat
           /\ \A k \in 1 .. Len(cuts) :
                 cuts[k] \in 1 .. Len(bytes) /\ Start(cuts, k) \in 1 .. cuts[k]
           /\ Len(cuts) = 0 <=> Len(bytes) = 0
           /\ Len(cuts) # 0 => cuts[Len(cuts)] = Len(bytes)
<1>1. /\ cuts \in Seq(Nat) /\ Len(cuts) \in Nat /\ Len(bytes) \in Nat
      /\ DOMAIN bytes = 1 .. Len(bytes)
      /\ \A i, j \in 1 .. Len(cuts) : i < j => cuts[i] < cuts[j]
      /\ Ends(bytes) = {cuts[i] : i \in 1 .. Len(cuts)}
  BY DEF InOrder
<1>2. Ends(bytes) \subseteq 1 .. Len(bytes)
  BY <1>1 DEF Ends, Newlines
<1>3. Len(bytes) # 0 => Len(bytes) \in Ends(bytes)
  BY <1>1 DEF Ends
<1>4. \A k \in 1 .. Len(cuts) : cuts[k] \in 1 .. Len(bytes)
  BY <1>1, <1>2
<1>5. ASSUME NEW k \in 1 .. Len(cuts) PROVE Start(cuts, k) \in 1 .. cuts[k]
  <2>1. CASE k = 1
    BY <1>4, <2>1 DEF Start
  <2>2. CASE k # 1
    <3>1. k - 1 \in 1 .. Len(cuts) /\ k - 1 < k
      BY <1>1, <2>2
    <3>2. cuts[k - 1] < cuts[k] /\ cuts[k - 1] \in Nat /\ cuts[k] \in Nat
      BY <1>1, <1>4, <3>1
    <3> QED BY <2>2, <3>2 DEF Start
  <2> QED BY <2>1, <2>2
<1>6. Len(cuts) = 0 <=> Len(bytes) = 0
  BY <1>1, <1>3, <1>4
<1>7. ASSUME Len(cuts) # 0 PROVE cuts[Len(cuts)] = Len(bytes)
  <2>1. PICK i \in 1 .. Len(cuts) : cuts[i] = Len(bytes)
    <3>1. Len(bytes) \in {cuts[k] : k \in 1 .. Len(cuts)}
      BY <1>1, <1>3, <1>6, <1>7, Zenon
    <3> QED BY <3>1
  <2>2. Len(cuts) \in 1 .. Len(cuts)
    BY <1>1, <1>7
  <2>3. ~(i < Len(cuts))
    <3>1. i < Len(cuts) => cuts[i] < cuts[Len(cuts)]
      BY <1>1, <2>2, Zenon
    <3>2. cuts[Len(cuts)] \in 1 .. Len(bytes)
      BY <1>4, <2>2, Zenon
    <3> QED BY <1>1, <2>1, <3>1, <3>2
  <2>4. i = Len(cuts)
    BY <1>1, <2>3
  <2> QED BY <2>1, <2>4
<1> QED BY <1>1, <1>4, <1>5, <1>6, <1>7

\* The ends are the newlines, and the last byte of an unfinished line.
LEMMA OpenEnds ==
    ASSUME NEW bytes \in Seq(Byte)
    PROVE  /\ \A k : k \in Newlines(bytes) <=> k \in 1 .. Len(bytes) /\ IsNewline(bytes[k])
           /\ ~Open(bytes) => Ends(bytes) = Newlines(bytes)
           /\ Open(bytes) => /\ Len(bytes) \in Nat \ {0} /\ Len(bytes) \notin Newlines(bytes)
                             /\ Ends(bytes) = Newlines(bytes) \cup {Len(bytes)}
<1>1. DOMAIN bytes = 1 .. Len(bytes) /\ Len(bytes) \in Nat /\ (Len(bytes) = 0 <=> bytes = <<>>)
  OBVIOUS
<1>2. Last(bytes) = bytes[Len(bytes)]
  BY DEF Last
<1>3. \A k : k \in Newlines(bytes) <=> k \in 1 .. Len(bytes) /\ IsNewline(bytes[k])
  BY <1>1 DEF Newlines
<1>4. CASE Len(bytes) = 0
  <2>1. DOMAIN bytes = {} /\ ~Open(bytes)
    BY <1>1, <1>4 DEF Open
  <2>2. Ends(bytes) = Newlines(bytes)
    BY <2>1 DEF Ends
  <2> QED BY <1>3, <2>1, <2>2, Zenon
<1>5. CASE Len(bytes) # 0
  <2>1. Len(bytes) \in 1 .. Len(bytes)
    BY <1>1, <1>5
  <2>2. Ends(bytes) = Newlines(bytes) \cup {Len(bytes)}
    BY <1>1, <2>1 DEF Ends
  <2>3. Open(bytes) <=> Len(bytes) \notin Newlines(bytes)
    BY <1>1, <1>2, <1>3, <1>5, <2>1 DEF Open
  <2> QED BY <1>1, <1>3, <1>5, <2>2, <2>3
<1>6. Open(bytes) => Len(bytes) \in Nat \ {0}
  BY <1>1 DEF Open
<1>7. /\ ~Open(bytes) => Ends(bytes) = Newlines(bytes)
      /\ Open(bytes) => /\ Len(bytes) \notin Newlines(bytes)
                        /\ Ends(bytes) = Newlines(bytes) \cup {Len(bytes)}
  BY <1>4, <1>5, <1>6
<1> QED BY <1>3, <1>6, <1>7, Zenon

\* What is added at the end leaves what lies before as it is.
LEMMA SliceBefore ==
    ASSUME NEW old \in Seq(Byte), NEW new \in Seq(Byte),
           \A k \in 1 .. Len(old) : new[k] = old[k], Len(old) <= Len(new),
           NEW j \in 1 .. Len(old), NEW i \in 1 .. j
    PROVE  SubSeq(new, i, j) = SubSeq(old, i, j)
<1>1. Len(old) \in Nat /\ Len(new) \in Nat
  OBVIOUS
<1>2. SubSeq(new, i, j) = [k \in 1 .. (1 + j) - i |-> new[(i + k) - 1]]
      /\ SubSeq(old, i, j) = [k \in 1 .. (1 + j) - i |-> old[(i + k) - 1]]
  BY <1>1
<1>3. \A k \in 1 .. (1 + j) - i : (i + k) - 1 \in 1 .. Len(old)
  BY <1>1
<1> QED BY <1>2, <1>3

\* The last message so far, and what comes after it.
LEMMA SliceAfter ==
    ASSUME NEW old \in Seq(Byte), NEW piece \in Seq(Byte), NEW new \in Seq(Byte),
           Len(new) = Len(old) + Len(piece),
           \A k \in 1 .. Len(old) : new[k] = old[k],
           \A k \in 1 .. Len(piece) : new[Len(old) + k] = piece[k]
    PROVE  /\ SubSeq(new, Len(old) + 1, Len(new)) = piece
           /\ \A i \in 1 .. Len(old) :
                 SubSeq(new, i, Len(new)) = SubSeq(old, i, Len(old)) \o piece
<1>1. PICK m, n : m = Len(old) /\ n = Len(piece)
  OBVIOUS
<1>2. /\ m \in Nat /\ n \in Nat /\ Len(new) = m + n
      /\ \A k \in 1 .. m : new[k] = old[k]
      /\ \A k \in 1 .. n : new[m + k] = piece[k]
  BY <1>1
<1>3. ASSUME NEW i \in 1 .. m + 1
      PROVE  /\ SubSeq(new, i, m + n) \in Seq(Byte)
             /\ Len(SubSeq(new, i, m + n)) = m + n + 1 - i
             /\ \A k \in 1 .. m + n + 1 - i : SubSeq(new, i, m + n)[k] = new[i - 1 + k]
  <2>1. i - 1 \in 0 .. Len(new) /\ i = (i - 1) + 1
    BY <1>2
  <2>2. /\ SubSeq(new, (i - 1) + 1, Len(new)) \in Seq(Byte)
        /\ Len(SubSeq(new, (i - 1) + 1, Len(new))) = Len(new) - (i - 1)
        /\ \A k \in 1 .. Len(new) - (i - 1) :
              SubSeq(new, (i - 1) + 1, Len(new))[k] = new[(i - 1) + k]
    BY <2>1, CutIs
  <2>3. Len(new) - (i - 1) = m + n + 1 - i
    BY <1>2
  <2> QED BY <1>2, <2>1, <2>2, <2>3
<1>4. SubSeq(new, m + 1, m + n) = piece
  <2>1. m + 1 \in 1 .. m + 1 /\ m + n + 1 - (m + 1) = n
    BY <1>2
  <2>2. /\ SubSeq(new, m + 1, m + n) \in Seq(Byte)
        /\ Len(SubSeq(new, m + 1, m + n)) = n
        /\ \A k \in 1 .. n : SubSeq(new, m + 1, m + n)[k] = new[(m + 1) - 1 + k]
    BY <1>3, <2>1
  <2>3. \A k \in 1 .. n : SubSeq(new, m + 1, m + n)[k] = piece[k]
    BY <1>2, <2>2
  <2> QED BY <1>1, <2>2, <2>3, SeqEqual
<1>5. ASSUME NEW i \in 1 .. m
      PROVE  SubSeq(new, i, m + n) = SubSeq(old, i, m) \o piece
  <2>1. i - 1 \in 0 .. Len(old) /\ i = (i - 1) + 1 /\ i \in 1 .. m + 1
    BY <1>1, <1>2
  <2>2. PICK whole, tail : whole = SubSeq(new, i, m + n) /\ tail = SubSeq(old, i, m)
    OBVIOUS
  <2>3. /\ tail \in Seq(Byte) /\ Len(tail) = m + 1 - i
        /\ \A k \in 1 .. m + 1 - i : tail[k] = old[i - 1 + k]
    <3>1. /\ SubSeq(old, (i - 1) + 1, Len(old)) \in Seq(Byte)
          /\ Len(SubSeq(old, (i - 1) + 1, Len(old))) = Len(old) - (i - 1)
          /\ \A k \in 1 .. Len(old) - (i - 1) :
                SubSeq(old, (i - 1) + 1, Len(old))[k] = old[(i - 1) + k]
      BY <2>1, CutIs
    <3>2. Len(old) - (i - 1) = m + 1 - i
      BY <1>1, <1>2
    <3> QED BY <1>1, <2>1, <2>2, <3>1, <3>2
  <2>4. /\ whole \in Seq(Byte) /\ Len(whole) = m + n + 1 - i
        /\ \A k \in 1 .. m + n + 1 - i : whole[k] = new[i - 1 + k]
    BY <1>3, <2>1, <2>2
  <2>5. /\ tail \o piece \in Seq(Byte) /\ Len(tail \o piece) = m + n + 1 - i
        /\ \A k \in 1 .. Len(tail) : (tail \o piece)[k] = tail[k]
        /\ \A k \in 1 .. Len(piece) : (tail \o piece)[Len(tail) + k] = piece[k]
    <3>1. Len(tail \o piece) = Len(tail) + Len(piece)
      BY <2>3, JoinIs
    <3>2. (m + 1 - i) + n = m + n + 1 - i
      BY <1>2
    <3> QED BY <1>1, <2>3, <3>1, <3>2, JoinIs
  <2>6. ASSUME NEW k \in 1 .. m + n + 1 - i PROVE whole[k] = (tail \o piece)[k]
    <3>1. CASE k \in 1 .. m + 1 - i
      <4>1. i - 1 + k \in 1 .. m
        BY <1>2, <3>1
      <4> QED BY <1>2, <2>3, <2>4, <2>5, <3>1, <4>1
    <3>2. CASE k \notin 1 .. m + 1 - i
      <4>1. PICK p \in 1 .. n : p = k - (m + 1 - i)
        BY <1>2, <3>2
      <4>2. i - 1 + k = m + p /\ k = (m + 1 - i) + p
        BY <1>2, <4>1
      <4>3. whole[k] = new[m + p]
        BY <2>4, <4>2
      <4>4. (tail \o piece)[k] = piece[p]
        BY <1>1, <2>3, <2>5, <4>2
      <4> QED BY <1>2, <4>3, <4>4
    <3> QED BY <3>1, <3>2
  <2> QED BY <2>2, <2>4, <2>5, <2>6, SeqEqual
<1> QED BY <1>1, <1>2, <1>4, <1>5

\* What is taken off at the beginning shifts the rest.
LEMMA SliceBehind ==
    ASSUME NEW old \in Seq(Byte), NEW n \in 0 .. Len(old), NEW new \in Seq(Byte),
           Behind(new, old, n), NEW j \in 1 .. Len(new), NEW i \in 1 .. j
    PROVE  SubSeq(new, i, j) = SubSeq(old, n + i, n + j)
<1>1. /\ Len(old) \in Nat /\ Len(new) = Len(old) - n
      /\ \A k \in 1 .. Len(new) : new[k] = old[n + k]
  BY DEF Behind
<1>2. /\ SubSeq(new, i, j) = [k \in 1 .. (1 + j) - i |-> new[(i + k) - 1]]
      /\ SubSeq(old, n + i, n + j) = [k \in 1 .. (1 + (n + j)) - (n + i) |-> old[((n + i) + k) - 1]]
  BY <1>1
<1>3. (1 + (n + j)) - (n + i) = (1 + j) - i
  BY <1>1
<1>4. \A k \in 1 .. (1 + j) - i :
         (i + k) - 1 \in 1 .. Len(new) /\ n + ((i + k) - 1) = ((n + i) + k) - 1
  BY <1>1
<1>5. \A k \in 1 .. (1 + j) - i : new[(i + k) - 1] = old[((n + i) + k) - 1]
  BY <1>1, <1>4
<1> QED BY <1>2, <1>3, <1>5

\* A divided stream has one message for each end.
LEMMA DividedIs ==
    ASSUME NEW bytes \in Seq(Byte), NEW cuts, InOrder(cuts, Ends(bytes))
    PROVE  /\ Divided(bytes, cuts) \in Seq(Seq(Byte))
           /\ Len(Divided(bytes, cuts)) = Len(cuts)
           /\ \A k \in 1 .. Len(cuts) :
                 Divided(bytes, cuts)[k] = SubSeq(bytes, Start(cuts, k), cuts[k])
<1>1. PICK count : count = Len(cuts)
  OBVIOUS
<1>2. count \in Nat /\ \A k \in 1 .. count :
          cuts[k] \in 1 .. Len(bytes) /\ Start(cuts, k) \in 1 .. cuts[k]
  BY <1>1, EndsAre
<1>3. ASSUME NEW k \in 1 .. count PROVE SubSeq(bytes, Start(cuts, k), cuts[k]) \in Seq(Byte)
  <2>1. PICK i, j \in Nat : i = Start(cuts, k) /\ j = cuts[k]
    BY <1>2
  <2>2. \A p \in i .. j : bytes[p] \in Byte
    <3>1. \A p \in i .. j : p \in 1 .. Len(bytes)
      BY <1>2, <2>1
    <3> QED BY <3>1
  <2>3. SubSeq(bytes, i, j) \in Seq(Byte)
    BY <2>2, SubSeqProperties
  <2> QED BY <2>1, <2>3
<1>4. Divided(bytes, cuts) = [k \in 1 .. count |-> SubSeq(bytes, Start(cuts, k), cuts[k])]
  BY <1>1 DEF Divided
<1>5. [k \in 1 .. count |-> SubSeq(bytes, Start(cuts, k), cuts[k])] \in Seq(Seq(Byte))
  BY <1>2, <1>3, IsASeq, SMTT(30)
<1> QED BY <1>1, <1>2, <1>4, <1>5, SMTT(20)

\* The last byte sent is an end, and takes the place of one that was not a newline.
LEMMA SentEnds ==
    ASSUME NEW old, NEW line, NEW n, NEW new, Adds(old, line, n, new), n # 0
    PROVE  /\ Open(new) <=> n < Length[line]
           /\ Ends(new) = Newlines(old) \cup {Len(old) + n}
<1>1. PICK m, size : m = Len(old) /\ size = Length[line]
  OBVIOUS
<1>2. /\ m \in Nat /\ size \in Nat \ {0} /\ n \in 1 .. size /\ n \in Nat \ {0} /\ Len(new) = m + n
      /\ old \in Seq(Byte) /\ new \in Seq(Byte)
      /\ \A k \in 1 .. m : new[k] = old[k]
      /\ \A k \in 1 .. n : new[m + k] = <<line, k>>
  <2>1. Length[line] \in Nat \ {0} /\ n \in 0 .. Length[line]
    BY FramingAssumption DEF Adds
  <2>2. n \in 1 .. Length[line] /\ n \in Nat \ {0}
    BY <2>1
  <2>3. m \in Nat
    BY <1>1 DEF Adds
  <2> QED BY <1>1, <2>1, <2>2, <2>3 DEF Adds
<1>3. \A k \in 1 .. n : IsNewline(new[m + k]) <=> k = size
  BY <1>1, <1>2 DEF IsNewline
<1>4. \A k \in 1 .. m : IsNewline(new[k]) <=> IsNewline(old[k])
  BY <1>2
<1>5. Open(new) <=> n < size
  <2>1. new # <<>> /\ Last(new) = new[m + n]
    BY <1>2 DEF Last
  <2>2. IsNewline(new[m + n]) <=> n = size
    <3>1. n \in 1 .. n
      BY <1>2
    <3> QED BY <1>3, <3>1
  <2> QED BY <1>2, <2>1, <2>2 DEF Open
<1>6. /\ \A k : k \in Newlines(old) <=> k \in 1 .. m /\ IsNewline(old[k])
      /\ \A k : k \in Newlines(new) <=> k \in 1 .. m + n /\ IsNewline(new[k])
  BY <1>1, <1>2, OpenEnds
<1>7. ASSUME NEW k PROVE k \in Newlines(new) <=> k \in Newlines(old) \/ (k = m + n /\ n = size)
  <2>1. CASE k \in 1 .. m
    <3>1. k \in 1 .. m + n /\ k # m + n
      BY <1>2, <2>1
    <3> QED BY <1>4, <1>6, <2>1, <3>1
  <2>2. CASE k \in 1 .. m + n /\ k \notin 1 .. m
    <3>1. PICK p \in 1 .. n : k = m + p
      <4>1. k - m \in 1 .. n /\ k = m + (k - m)
        BY <1>2, <2>2
      <4> QED BY <4>1
    <3>2. IsNewline(new[k]) <=> p = size
      BY <1>3, <3>1
    <3>3. p = size <=> k = m + n /\ n = size
      BY <1>2, <3>1
    <3> QED BY <1>6, <2>2, <3>2, <3>3
  <2>3. CASE k \notin 1 .. m + n
    <3>1. k # m + n /\ k \notin 1 .. m
      BY <1>2, <2>3
    <3> QED BY <1>6, <2>3, <3>1
  <2> QED BY <2>1, <2>2, <2>3
<1>8. Ends(new) = Newlines(old) \cup {m + n}
  <2>1. CASE n = size
    <3>1. Ends(new) = Newlines(new)
      BY <1>2, <1>5, <2>1, OpenEnds
    <3> QED BY <1>7, <2>1, <3>1
  <2>2. CASE n # size
    <3>1. Ends(new) = Newlines(new) \cup {m + n}
      <4>1. Open(new)
        BY <1>2, <1>5, <2>2
      <4>2. Ends(new) = Newlines(new) \cup {Len(new)}
        BY <1>2, <4>1, OpenEnds
      <4> QED BY <1>2, <4>2
    <3> QED BY <1>7, <2>2, <3>1
  <2> QED BY <2>1, <2>2
<1> QED BY <1>1, <1>5, <1>8

\* No message is open: one more begins.
LEMMA SentAsNew ==
    ASSUME NEW old, NEW line, NEW n, NEW new, Adds(old, line, n, new), n # 0, ~Open(old),
           NEW cuts, InOrder(cuts, Ends(old)), NEW more, more = Append(cuts, Len(new))
    PROVE  /\ InOrder(more, Ends(new))
           /\ Messages(new) = Append(Messages(old), Piece(line, n))
<1>1. PICK m, count : m = Len(old) /\ count = Len(cuts)
  OBVIOUS
<1>2. /\ m \in Nat /\ n \in Nat \ {0} /\ Len(new) = m + n
      /\ old \in Seq(Byte) /\ new \in Seq(Byte) /\ line \in Lines /\ n \in 0 .. Length[line]
      /\ \A k \in 1 .. m : new[k] = old[k]
      /\ \A k \in 1 .. n : new[m + k] = <<line, k>>
  <2>1. Length[line] \in Nat /\ n \in 0 .. Length[line]
    BY FramingAssumption DEF Adds
  <2>2. n \in Nat \ {0} /\ n \in 0 .. Length[line]
    BY <2>1
  <2>3. m \in Nat
    BY <1>1 DEF Adds
  <2> QED BY <1>1, <2>2, <2>3 DEF Adds
<1>3. /\ cuts \in Seq(Nat) /\ count \in Nat
      /\ \A k \in 1 .. count : cuts[k] \in 1 .. m /\ Start(cuts, k) \in 1 .. cuts[k]
      /\ count = 0 <=> m = 0
      /\ count # 0 => cuts[count] = m
  BY <1>1, <1>2, EndsAre
<1>4. /\ more \in Seq(Nat) /\ Len(more) = count + 1
      /\ \A k \in 1 .. count : more[k] = cuts[k]
      /\ more[count + 1] = m + n
  BY <1>1, <1>2, <1>3
<1>5. InOrder(more, Ends(new))
  <2>1. \A i, j \in 1 .. count : i < j => cuts[i] < cuts[j]
    BY <1>1 DEF InOrder
  <2>2. ASSUME NEW i \in 1 .. Len(more), NEW j \in 1 .. Len(more), i < j PROVE more[i] < more[j]
    <3>1. i \in 1 .. count /\ (j \in 1 .. count \/ j = count + 1)
      BY <1>3, <1>4, <2>2
    <3>2. CASE j \in 1 .. count
      BY <1>4, <2>1, <2>2, <3>1, <3>2
    <3>3. CASE j = count + 1
      <4>1. more[i] = cuts[i] /\ cuts[i] \in 1 .. m /\ more[j] = m + n
        BY <1>3, <1>4, <3>1, <3>3, Zenon
      <4> QED BY <1>2, <4>1
    <3> QED BY <3>1, <3>2, <3>3
  <2>3. Ends(new) = {cuts[k] : k \in 1 .. count} \cup {m + n}
    <3>1. Ends(new) = Newlines(old) \cup {m + n}
      BY <1>1, SentEnds
    <3>2. Ends(old) = Newlines(old)
      BY <1>2, OpenEnds
    <3> QED BY <1>1, <3>1, <3>2 DEF InOrder
  <2>4. Ends(new) = {more[k] : k \in 1 .. Len(more)}
    <3>1. \A k : k \in 1 .. Len(more) <=> k \in 1 .. count \/ k = count + 1
      BY <1>3, <1>4
    <3> QED BY <1>4, <2>3, <3>1
  <2> QED BY <1>4, <2>2, <2>4 DEF InOrder
<1>6. PICK piece : piece = Piece(line, n)
  OBVIOUS
<1>7. /\ piece \in Seq(Byte) /\ Len(piece) = n
      /\ \A k \in 1 .. n : new[m + k] = piece[k]
  BY <1>2, <1>6, PieceIs
<1>8. SubSeq(new, m + 1, m + n) = piece
  BY <1>1, <1>2, <1>7, SliceAfter
<1>9. Messages(old) = Divided(old, cuts) /\ Messages(new) = Divided(new, more)
  BY <1>5, Messaged
<1>10. ASSUME NEW k \in 1 .. count
       PROVE  SubSeq(new, Start(more, k), more[k]) = SubSeq(old, Start(cuts, k), cuts[k])
  <2>1. Start(more, k) = Start(cuts, k)
    <3>1. k = 1 \/ k - 1 \in 1 .. count
      BY <1>3
    <3> QED BY <1>4, <3>1 DEF Start
  <2>2. Len(old) <= Len(new) /\ cuts[k] \in 1 .. Len(old) /\ Start(cuts, k) \in 1 .. cuts[k]
    BY <1>1, <1>2, <1>3
  <2>3. SubSeq(new, Start(cuts, k), cuts[k]) = SubSeq(old, Start(cuts, k), cuts[k])
    <3>1. \A j \in 1 .. Len(old) : new[j] = old[j]
      BY <1>1, <1>2
    <3> QED BY <1>2, <2>2, <3>1, SliceBefore
  <2> QED BY <1>4, <2>1, <2>3
<1>11. SubSeq(new, Start(more, count + 1), more[count + 1]) = piece
  <2>1. Start(more, count + 1) = m + 1
    <3>1. count = 0 \/ (count \in 1 .. count /\ (count + 1) - 1 = count /\ count + 1 # 1)
      BY <1>3
    <3> QED BY <1>3, <1>4, <3>1 DEF Start
  <2> QED BY <1>4, <1>8, <2>1
<1>12. Divided(new, more) = Append(Divided(old, cuts), piece)
  <2>1. PICK a, b : a = Divided(old, cuts) /\ b = Divided(new, more)
    OBVIOUS
  <2>2. /\ a \in Seq(Seq(Byte)) /\ Len(a) = count
        /\ \A k \in 1 .. count : a[k] = SubSeq(old, Start(cuts, k), cuts[k])
    BY <1>1, <1>2, <2>1, DividedIs
  <2>3. /\ b \in Seq(Seq(Byte)) /\ Len(b) = count + 1
        /\ \A k \in 1 .. count + 1 : b[k] = SubSeq(new, Start(more, k), more[k])
    <3>1. /\ b \in Seq(Seq(Byte)) /\ Len(b) = Len(more)
          /\ \A k \in 1 .. Len(more) : b[k] = SubSeq(new, Start(more, k), more[k])
      BY <1>2, <1>5, <2>1, DividedIs, Zenon
    <3> QED BY <1>4, <3>1, Zenon
  <2>4. ASSUME NEW k \in 1 .. count + 1 PROVE (k = count + 1 /\ b[k] = piece)
                                             \/ (k \in 1 .. count /\ b[k] = a[k])
    <3>1. CASE k \in 1 .. count
      BY <1>10, <2>2, <2>3, <3>1
    <3>2. CASE k = count + 1
      BY <1>11, <2>3, <3>2
    <3> QED BY <1>3, <3>1, <3>2
  <2>5. b = Append(a, piece)
    <3>1. /\ Append(a, piece) \in Seq(Seq(Byte)) /\ Len(Append(a, piece)) = count + 1
          /\ \A k \in 1 .. count : Append(a, piece)[k] = a[k]
          /\ Append(a, piece)[count + 1] = piece
      BY <1>7, <2>2, AppendProperties
    <3>2. \A k \in 1 .. count + 1 : b[k] = Append(a, piece)[k]
      BY <2>4, <3>1
    <3> QED BY <2>3, <3>1, <3>2, SeqEqual
  <2> QED BY <2>1, <2>5
<1> QED BY <1>5, <1>6, <1>9, <1>12

\* A message is open: it goes on.
LEMMA SentToOpen ==
    ASSUME NEW old, NEW line, NEW n, NEW new, Adds(old, line, n, new), n # 0, Open(old),
           NEW cuts, InOrder(cuts, Ends(old)), NEW more,
           more = [cuts EXCEPT ![Len(cuts)] = Len(new)]
    PROVE  /\ InOrder(more, Ends(new))
           /\ Messages(new) = [Messages(old) EXCEPT ![Len(Messages(old))] = @ \o Piece(line, n)]
<1>1. PICK m, count : m = Len(old) /\ count = Len(cuts)
  OBVIOUS
<1>2. /\ m \in Nat \ {0} /\ n \in Nat \ {0} /\ Len(new) = m + n
      /\ old \in Seq(Byte) /\ new \in Seq(Byte) /\ line \in Lines /\ n \in 0 .. Length[line]
      /\ \A k \in 1 .. m : new[k] = old[k]
      /\ \A k \in 1 .. n : new[m + k] = <<line, k>>
  <2>1. Length[line] \in Nat /\ n \in 0 .. Length[line]
    BY FramingAssumption DEF Adds
  <2>2. n \in Nat \ {0} /\ n \in 0 .. Length[line]
    BY <2>1
  <2>3. m \in Nat \ {0}
    BY <1>1, OpenEnds DEF Adds
  <2> QED BY <1>1, <2>2, <2>3 DEF Adds
<1>3. /\ cuts \in Seq(Nat) /\ count \in Nat \ {0} /\ count \in 1 .. count
      /\ \A k \in 1 .. count : cuts[k] \in 1 .. m /\ Start(cuts, k) \in 1 .. cuts[k]
      /\ cuts[count] = m
  <2>1. /\ cuts \in Seq(Nat) /\ count \in Nat
        /\ \A k \in 1 .. count : cuts[k] \in 1 .. m /\ Start(cuts, k) \in 1 .. cuts[k]
        /\ count = 0 <=> m = 0
        /\ count # 0 => cuts[count] = m
    BY <1>1, <1>2, EndsAre
  <2> QED BY <1>2, <2>1
<1>4. /\ more \in Seq(Nat) /\ Len(more) = count
      /\ \A k \in 1 .. count - 1 : more[k] = cuts[k]
      /\ more[count] = m + n
  BY <1>1, <1>2, <1>3
<1>5. InOrder(more, Ends(new))
  <2>1. \A i, j \in 1 .. count : i < j => cuts[i] < cuts[j]
    BY <1>1 DEF InOrder
  <2>2. ASSUME NEW i \in 1 .. Len(more), NEW j \in 1 .. Len(more), i < j PROVE more[i] < more[j]
    <3>1. i \in 1 .. count - 1 /\ i \in 1 .. count /\ (j \in 1 .. count - 1 \/ j = count)
      BY <1>3, <1>4, <2>2
    <3>2. CASE j \in 1 .. count - 1
      BY <1>4, <2>1, <2>2, <3>1, <3>2
    <3>3. CASE j = count
      <4>1. more[i] = cuts[i] /\ cuts[i] \in 1 .. m /\ more[j] = m + n
        BY <1>3, <1>4, <3>1, <3>3, Zenon
      <4> QED BY <1>2, <4>1
    <3> QED BY <3>1, <3>2, <3>3
  <2>3. Newlines(old) = {cuts[k] : k \in 1 .. count - 1}
    <3>1. Ends(old) = Newlines(old) \cup {m} /\ m \notin Newlines(old)
      BY <1>1, <1>2, OpenEnds
    <3>2. Ends(old) = {cuts[k] : k \in 1 .. count}
      BY <1>1 DEF InOrder
    <3>3. \A k \in 1 .. count - 1 : k \in 1 .. count /\ cuts[k] # m
      <4>1. \A k \in 1 .. count - 1 : k \in 1 .. count /\ k < count
        BY <1>3
      <4>2. \A k \in 1 .. count - 1 : cuts[k] < m /\ cuts[k] \in 1 .. m
        BY <1>3, <2>1, <4>1, Zenon
      <4> QED BY <1>2, <4>1, <4>2
    <3>4. \A k \in 1 .. count : k \in 1 .. count - 1 \/ k = count
      BY <1>3
    <3> QED BY <1>3, <3>1, <3>2, <3>3, <3>4
  <2>4. Ends(new) = {cuts[k] : k \in 1 .. count - 1} \cup {m + n}
    BY <1>1, <2>3, SentEnds
  <2>5. Ends(new) = {more[k] : k \in 1 .. Len(more)}
    <3>1. \A k : k \in 1 .. Len(more) <=> k \in 1 .. count - 1 \/ k = count
      BY <1>3, <1>4
    <3> QED BY <1>4, <2>4, <3>1
  <2> QED BY <1>4, <2>2, <2>5 DEF InOrder
<1>6. PICK piece : piece = Piece(line, n)
  OBVIOUS
<1>7. /\ piece \in Seq(Byte) /\ Len(piece) = n
      /\ \A k \in 1 .. n : new[m + k] = piece[k]
  BY <1>2, <1>6, PieceIs
<1>8. \A k \in 1 .. count : Start(more, k) = Start(cuts, k)
  <2>1. \A k \in 1 .. count : k = 1 \/ k - 1 \in 1 .. count - 1
    BY <1>3
  <2> QED BY <1>4, <2>1 DEF Start
<1>9. PICK a, b : a = Divided(old, cuts) /\ b = Divided(new, more)
  OBVIOUS
<1>10. /\ a \in Seq(Seq(Byte)) /\ Len(a) = count
       /\ \A k \in 1 .. count : a[k] = SubSeq(old, Start(cuts, k), cuts[k])
  BY <1>1, <1>2, <1>9, DividedIs, Zenon
<1>11. /\ b \in Seq(Seq(Byte)) /\ Len(b) = count
       /\ \A k \in 1 .. count : b[k] = SubSeq(new, Start(more, k), more[k])
  <2>1. /\ b \in Seq(Seq(Byte)) /\ Len(b) = Len(more)
        /\ \A k \in 1 .. Len(more) : b[k] = SubSeq(new, Start(more, k), more[k])
    BY <1>2, <1>5, <1>9, DividedIs, Zenon
  <2> QED BY <1>4, <2>1, Zenon
<1>12. ASSUME NEW k \in 1 .. count - 1 PROVE b[k] = a[k]
  <2>1. k \in 1 .. count
    BY <1>3
  <2>2. Len(old) <= Len(new) /\ cuts[k] \in 1 .. Len(old) /\ Start(cuts, k) \in 1 .. cuts[k]
    BY <1>1, <1>2, <1>3, <2>1
  <2>3. SubSeq(new, Start(cuts, k), cuts[k]) = SubSeq(old, Start(cuts, k), cuts[k])
    <3>1. \A j \in 1 .. Len(old) : new[j] = old[j]
      BY <1>1, <1>2
    <3> QED BY <1>2, <2>2, <3>1, SliceBefore
  <2> QED BY <1>4, <1>8, <1>10, <1>11, <2>1, <2>3
<1>13. b[count] = a[count] \o piece
  <2>1. Start(cuts, count) \in 1 .. m
    BY <1>3
  <2>2. SubSeq(new, Start(cuts, count), m + n) = SubSeq(old, Start(cuts, count), m) \o piece
    <3>1. /\ Len(new) = Len(old) + Len(piece)
          /\ \A k \in 1 .. Len(old) : new[k] = old[k]
          /\ \A k \in 1 .. Len(piece) : new[Len(old) + k] = piece[k]
      BY <1>1, <1>2, <1>7
    <3>2. \A i \in 1 .. Len(old) : SubSeq(new, i, Len(new)) = SubSeq(old, i, Len(old)) \o piece
      BY <1>2, <1>7, <3>1, SliceAfter
    <3> QED BY <1>1, <1>2, <2>1, <3>2
  <2> QED BY <1>3, <1>4, <1>8, <1>10, <1>11, <2>2
<1>14. b = [a EXCEPT ![count] = a[count] \o piece]
  <2>1. PICK c : c = [a EXCEPT ![count] = a[count] \o piece]
    OBVIOUS
  <2>2. a[count] \o piece \in Seq(Byte)
    BY <1>3, <1>7, <1>10
  <2>3. /\ c \in Seq(Seq(Byte)) /\ Len(c) = count
        /\ \A k \in 1 .. count : c[k] = IF k = count THEN a[count] \o piece ELSE a[k]
    BY <1>3, <1>10, <2>1, <2>2, ExceptSeq
  <2>4. \A k \in 1 .. count : k = count \/ k \in 1 .. count - 1
    BY <1>3
  <2>5. \A k \in 1 .. count : b[k] = c[k]
    BY <1>12, <1>13, <2>3, <2>4
  <2> QED BY <1>11, <2>1, <2>3, <2>5, SeqEqual
<1>15. Messages(old) = a /\ Messages(new) = b
  BY <1>5, <1>9, Messaged
<1> QED BY <1>5, <1>6, <1>10, <1>14, <1>15

\* The first message is taken off.
Moved(cuts, n) == [k \in 1 .. Len(cuts) - 1 |-> cuts[k + 1] - n]

\* The end it had is gone, and the others lie n bytes nearer.
LEMMA TakenFirst ==
    ASSUME NEW old, NEW n, NEW new, Takes(old, n, new),
           NEW cuts, InOrder(cuts, Ends(old)), NEW more, more = Moved(cuts, n)
    PROVE  /\ InOrder(more, Ends(new))
           /\ Open(new) <=> Open(old)
           /\ Len(Messages(old)) > (IF Open(old) THEN 1 ELSE 0)
           /\ Head(Messages(old)) = SubSeq(old, 1, n)
           /\ Messages(new) = Tail(Messages(old))
<1>1. PICK m, count : m = Len(old) /\ count = Len(cuts)
  OBVIOUS
<1>2. /\ m \in Nat \ {0} /\ n \in Nat \ {0} /\ n <= m /\ Len(new) = m - n
      /\ \A k \in 1 .. m - n : new[k] = old[n + k]
      /\ old \in Seq(Byte) /\ new \in Seq(Byte) /\ IsNewline(old[n])
      /\ \A k \in 1 .. n - 1 : ~IsNewline(old[k])
  BY <1>1 DEF Takes, Behind
<1>3. /\ cuts \in Seq(Nat) /\ count \in Nat \ {0} /\ 1 \in 1 .. count
      /\ \A k \in 1 .. count : cuts[k] \in 1 .. m /\ Start(cuts, k) \in 1 .. cuts[k]
      /\ cuts[count] = m
  <2>1. /\ cuts \in Seq(Nat) /\ count \in Nat
        /\ \A k \in 1 .. count : cuts[k] \in 1 .. m /\ Start(cuts, k) \in 1 .. cuts[k]
        /\ count = 0 <=> m = 0
        /\ count # 0 => cuts[count] = m
    BY <1>1, <1>2, EndsAre
  <2> QED BY <1>2, <2>1
<1>4. \A i, j \in 1 .. count : i < j => cuts[i] < cuts[j]
  BY <1>1 DEF InOrder
<1>5. \A k : k \in Ends(old) <=> \E i \in 1 .. count : k = cuts[i]
  BY <1>1 DEF InOrder
<1>6. /\ \A k : k \in Newlines(old) <=> k \in 1 .. m /\ IsNewline(old[k])
      /\ \A k : k \in Newlines(new) <=> k \in 1 .. m - n /\ IsNewline(new[k])
  BY <1>1, <1>2, OpenEnds
<1>7. /\ \A k : k \in Ends(old) <=> k \in Newlines(old) \/ k = m
      /\ \A k : k \in Ends(new) <=> k \in Newlines(new) \/ (m # n /\ k = m - n)
  <2>1. DOMAIN old = 1 .. m /\ DOMAIN new = 1 .. m - n
    BY <1>1, <1>2
  <2>2. DOMAIN old \cap {Len(old)} = {m}
    BY <1>1, <1>2, <2>1
  <2>3. DOMAIN new \cap {Len(new)} = IF m = n THEN {} ELSE {m - n}
    BY <1>2, <2>1
  <2> QED BY <2>2, <2>3 DEF Ends
<1>8. cuts[1] = n
  <2>1. PICK i \in 1 .. count : n = cuts[i]
    <3>1. n \in Newlines(old)
      BY <1>2, <1>6
    <3> QED BY <1>5, <1>7, <3>1
  <2>2. i = 1 \/ cuts[1] < n
    BY <1>3, <1>4, <2>1
  <2>3. ~(cuts[1] < n)
    <3>1. SUFFICES ASSUME cuts[1] < n PROVE FALSE
      OBVIOUS
    <3>2. cuts[1] \in 1 .. n - 1 /\ cuts[1] # m
      BY <1>2, <1>3, <3>1
    <3>3. cuts[1] \in Newlines(old)
      BY <1>3, <1>5, <1>7, <3>2
    <3> QED BY <1>2, <1>6, <3>2, <3>3
  <2> QED BY <2>1, <2>2, <2>3
<1>9. ASSUME NEW k PROVE k \in Ends(new) <=> k \in 1 .. m - n /\ n + k \in Ends(old)
  <2>1. CASE k \in 1 .. m - n
    <3>1. n + k \in 1 .. m /\ (n + k = m <=> k = m - n) /\ m # n
      BY <1>2, <2>1
    <3>2. IsNewline(new[k]) <=> IsNewline(old[n + k])
      BY <1>2, <2>1
    <3> QED BY <1>6, <1>7, <2>1, <3>1, <3>2
  <2>2. CASE k \notin 1 .. m - n
    <3>1. ~(m # n /\ k = m - n)
      BY <1>2, <2>2
    <3> QED BY <1>6, <1>7, <2>2, <3>1
  <2> QED BY <2>1, <2>2
<1>10. \A k \in 1 .. count - 1 : /\ k + 1 \in 1 .. count /\ n < cuts[k + 1]
                                 /\ cuts[k + 1] - n \in 1 .. m - n
  <2>1. ASSUME NEW k \in 1 .. count - 1
        PROVE  /\ k + 1 \in 1 .. count /\ n < cuts[k + 1] /\ cuts[k + 1] - n \in 1 .. m - n
    <3>1. k + 1 \in 1 .. count /\ 1 < k + 1
      BY <1>3
    <3>2. n < cuts[k + 1] /\ cuts[k + 1] \in 1 .. m
      BY <1>3, <1>4, <1>8, <3>1
    <3> QED BY <1>2, <3>1, <3>2
  <2> QED BY <2>1
<1>11. /\ more \in Seq(Nat) /\ Len(more) = count - 1
       /\ \A k \in 1 .. count - 1 : more[k] = cuts[k + 1] - n
  <2>1. \A k \in 1 .. count - 1 : cuts[k + 1] - n \in Nat
    BY <1>10
  <2>2. PICK last \in Nat : last = count - 1
    BY <1>3
  <2>3. more = [k \in 1 .. last |-> cuts[k + 1] - n]
    BY <1>1, <2>2 DEF Moved
  <2>4. more \in Seq(Nat)
    BY <2>1, <2>2, <2>3, IsASeq
  <2>5. Len(more) = last /\ \A k \in 1 .. last : more[k] = cuts[k + 1] - n
    BY <2>2, <2>3
  <2> QED BY <2>2, <2>4, <2>5
<1>12. InOrder(more, Ends(new))
  <2>1. ASSUME NEW i \in 1 .. count - 1, NEW j \in 1 .. count - 1, i < j PROVE more[i] < more[j]
    <3>1. i + 1 \in 1 .. count /\ j + 1 \in 1 .. count /\ i + 1 < j + 1
      BY <1>3, <2>1
    <3>2. cuts[i + 1] < cuts[j + 1] /\ cuts[i + 1] \in 1 .. m /\ cuts[j + 1] \in 1 .. m
      BY <1>3, <1>4, <3>1, Zenon
    <3>3. more[i] = cuts[i + 1] - n /\ more[j] = cuts[j + 1] - n
      BY <1>11
    <3> QED BY <1>2, <3>2, <3>3
  <2>2. ASSUME NEW k \in Ends(new) PROVE \E i \in 1 .. count - 1 : k = more[i]
    <3>1. PICK j \in 1 .. count : n + k = cuts[j] /\ k \in 1 .. m - n
      BY <1>5, <1>9
    <3>2. j # 1
      BY <1>2, <1>8, <3>1
    <3>3. j - 1 \in 1 .. count - 1 /\ (j - 1) + 1 = j
      BY <1>3, <3>2
    <3>4. more[j - 1] = k
      BY <1>2, <1>11, <3>1, <3>3
    <3> QED BY <3>3, <3>4
  <2>3. ASSUME NEW i \in 1 .. count - 1 PROVE more[i] \in Ends(new)
    <3>1. n + more[i] = cuts[i + 1] /\ more[i] \in 1 .. m - n /\ i + 1 \in 1 .. count
      <4>1. more[i] = cuts[i + 1] - n
        BY <1>11
      <4>2. i + 1 \in 1 .. count /\ cuts[i + 1] - n \in 1 .. m - n /\ cuts[i + 1] \in Nat
        BY <1>3, <1>10
      <4> QED BY <1>2, <4>1, <4>2
    <3> QED BY <1>5, <1>9, <3>1
  <2>4. Ends(new) = {more[i] : i \in 1 .. Len(more)}
    BY <1>11, <2>2, <2>3
  <2> QED BY <1>11, <2>1, <2>4 DEF InOrder
<1>13. PICK a, b : a = Divided(old, cuts) /\ b = Divided(new, more)
  OBVIOUS
<1>14. /\ a \in Seq(Seq(Byte)) /\ Len(a) = count
       /\ \A k \in 1 .. count : a[k] = SubSeq(old, Start(cuts, k), cuts[k])
  BY <1>1, <1>2, <1>13, DividedIs
<1>15. /\ b \in Seq(Seq(Byte)) /\ Len(b) = count - 1
       /\ \A k \in 1 .. count - 1 : b[k] = SubSeq(new, Start(more, k), more[k])
  <2>1. /\ b \in Seq(Seq(Byte)) /\ Len(b) = Len(more)
        /\ \A k \in 1 .. Len(more) : b[k] = SubSeq(new, Start(more, k), more[k])
    BY <1>2, <1>12, <1>13, DividedIs
  <2> QED BY <1>11, <2>1
<1>16. Messages(old) = a /\ Messages(new) = b
  BY <1>12, <1>13, Messaged
<1>17. Head(a) = SubSeq(old, 1, n)
  <2>1. a[1] = SubSeq(old, Start(cuts, 1), cuts[1])
    BY <1>3, <1>14
  <2>2. Start(cuts, 1) = 1
    BY DEF Start
  <2> QED BY <1>8, <2>1, <2>2
<1>18. b = Tail(a)
  <2>1. /\ Tail(a) \in Seq(Seq(Byte)) /\ Len(Tail(a)) = count - 1
        /\ \A k \in 1 .. count - 1 : Tail(a)[k] = a[k + 1]
    BY <1>3, <1>14
  <2>2. ASSUME NEW k \in 1 .. count - 1 PROVE b[k] = a[k + 1]
    <3>1. Start(cuts, k + 1) = cuts[k] + 1 /\ k \in 1 .. count /\ k + 1 \in 1 .. count
      BY <1>3 DEF Start
    <3>2. Start(more, k) \in 1 .. more[k] /\ more[k] \in 1 .. Len(new)
      BY <1>2, <1>11, <1>12, EndsAre
    <3>3. SubSeq(new, Start(more, k), more[k]) = SubSeq(old, n + Start(more, k), n + more[k])
      <4>1. n \in 0 .. Len(old)
        BY <1>1, <1>2
      <4>2. Behind(new, old, n)
        BY DEF Takes
      <4>3. old \in Seq(Byte) /\ new \in Seq(Byte)
        BY <1>2
      <4>4. PICK j \in 1 .. Len(new) : j = more[k]
        BY <3>2
      <4>5. PICK i \in 1 .. j : i = Start(more, k)
        BY <3>2, <4>4
      <4>6. SubSeq(new, i, j) = SubSeq(old, n + i, n + j)
        BY <4>1, <4>2, <4>3, SliceBehind
      <4> QED BY <4>4, <4>5, <4>6
    <3>4. n + more[k] = cuts[k + 1]
      <4>1. more[k] = cuts[k + 1] - n
        BY <1>11
      <4>2. cuts[k + 1] \in 1 .. m
        BY <1>3, <3>1, Zenon
      <4>3. m \in Nat /\ n \in Nat
        BY <1>2
      <4> QED BY <4>1, <4>2, <4>3
    <3>5. n + Start(more, k) = cuts[k] + 1
      <4>1. CASE k = 1
        BY <1>2, <1>8, <4>1 DEF Start
      <4>2. CASE k # 1
        <5>1. k - 1 \in 1 .. count - 1 /\ (k - 1) + 1 = k
          BY <1>3, <4>2
        <5>2. more[k - 1] = cuts[(k - 1) + 1] - n
          BY <1>11, <5>1
        <5>3. more[k - 1] = cuts[k] - n /\ cuts[k] \in Nat
          BY <1>3, <3>1, <5>1, <5>2
        <5> QED BY <1>2, <4>2, <5>3 DEF Start
      <4> QED BY <4>1, <4>2
    <3> QED BY <1>14, <1>15, <3>1, <3>3, <3>4, <3>5
  <2> QED BY <1>15, <2>1, <2>2, SeqEqual
<1>19. Open(new) <=> Open(old)
  <2>1. Last(old) = old[m] /\ old # <<>> /\ Last(new) = new[m - n] /\ (new = <<>> <=> m = n)
    BY <1>1, <1>2 DEF Last
  <2>2. CASE m = n
    BY <1>2, <2>1, <2>2 DEF Open
  <2>3. CASE m # n
    <3>1. new[m - n] = old[m]
      <4>1. m - n \in 1 .. m - n /\ n + (m - n) = m
        BY <1>2, <2>3
      <4> QED BY <1>2, <4>1
    <3> QED BY <2>1, <2>3, <3>1 DEF Open
  <2> QED BY <2>2, <2>3
<1>20. Open(old) => count > 1
  <2>1. Open(old) => m # n
    <3>1. Open(old) => ~IsNewline(old[m])
      BY <1>1 DEF Open, Last
    <3>2. IsNewline(old[n])
      BY <1>2
    <3> QED BY <3>1, <3>2, Zenon
  <2>2. count = 1 => m = n
    BY <1>3, <1>8
  <2> QED BY <1>3, <2>1, <2>2
<1>21. Len(Messages(old)) > (IF Open(old) THEN 1 ELSE 0)
  <2>1. Len(Messages(old)) = count
    BY <1>14, <1>16, Zenon
  <2> QED BY <1>3, <1>20, <2>1
<1>22. Head(Messages(old)) = SubSeq(old, 1, n) /\ Messages(new) = Tail(Messages(old))
  BY <1>16, <1>17, <1>18, Zenon
<1> QED BY <1>12, <1>19, <1>21, <1>22, Zenon

(***************************************************************************)
(* Each step as a step of the channel.                                      *)
(***************************************************************************)
\* The ends of what is outstanding can be put in order: each step says how.
DividedInv == Typed /\ \E cuts : InOrder(cuts, Ends(outstanding))

\* What the channel is to do, and with it the order of the new ends.
Promise == DividedInv' /\ (Channel!Next \/ UNCHANGED Channel!vars)

\* What the channel's variables are before a step and after it.
LEMMA Moves ==
    ASSUME NEW old, NEW new, outstanding = old, outstanding' = new
    PROVE  /\ Messages(outstanding) = Messages(old) /\ Messages(outstanding)' = Messages(new)
           /\ (\E cuts : InOrder(cuts, Ends(new))) => (\E cuts : InOrder(cuts, Ends(outstanding)))'
           /\ (outstanding # <<>> /\ ~IsNewline(Last(outstanding))) = Open(old)
           /\ (outstanding # <<>> /\ ~IsNewline(Last(outstanding)))' = Open(new)
<1>1. Messages(outstanding) = Messages(old)
  OBVIOUS
<1>2. Messages(outstanding)' = Messages(new)
  BY DEF Messages
<1>3. (\E cuts : InOrder(cuts, Ends(new))) => (\E cuts : InOrder(cuts, Ends(outstanding)))'
  BY DEF InOrder, Ends
<1>4. (outstanding # <<>> /\ ~IsNewline(Last(outstanding))) = Open(old)
  BY DEF Open
<1>5. (outstanding # <<>> /\ ~IsNewline(Last(outstanding)))' = Open(new)
  BY DEF Open, IsNewline, Last
<1> QED BY <1>1, <1>2, <1>3, <1>4, <1>5

\* sendToClient sends a piece of the line, or nothing.
LEMMA SendPromise == ASSUME DividedInv, NEW line \in Lines, sendToClient(line) PROVE Promise
<1>1. Typed' /\ parsed' = parsed
  BY SendIs DEF DividedInv
<1>2. PICK n \in 0 .. Length[line] : \E old, new :
        outstanding = old /\ outstanding' = new /\ Adds(old, line, n, new)
  BY SendIs DEF DividedInv
<1>3. PICK old, new :
        outstanding = old /\ outstanding' = new /\ Adds(old, line, n, new)
  BY <1>2
<1>4. /\ Messages(outstanding) = Messages(old) /\ Messages(outstanding)' = Messages(new)
      /\ (\E cuts : InOrder(cuts, Ends(new))) => (\E cuts : InOrder(cuts, Ends(outstanding)))'
      /\ (outstanding # <<>> /\ ~IsNewline(Last(outstanding))) = Open(old)
      /\ (outstanding # <<>> /\ ~IsNewline(Last(outstanding)))' = Open(new)
  BY <1>3, Moves
<1>5. PICK cuts : InOrder(cuts, Ends(old))
  BY <1>3 DEF DividedInv
<1>6. CASE n = 0
  <2>1. new = old
    <3>1. /\ old \in Seq(Byte) /\ new \in Seq(Byte) /\ Len(new) = Len(old)
          /\ \A k \in 1 .. Len(old) : new[k] = old[k]
      BY <1>3, <1>6 DEF Adds
    <3> QED BY <3>1, SeqEqual
  <2>2. DividedInv'
    BY <1>1, <1>4, <1>5, <2>1 DEF DividedInv
  <2>3. UNCHANGED Channel!vars
    BY <1>1, <1>4, <2>1 DEF Channel!vars
  <2> QED BY <2>2, <2>3 DEF Promise
<1>7. CASE n # 0
  <2>1. /\ n \in 1 .. Length[line]
        /\ Open(new) <=> n < Length[line]
    <3>1. Open(new) <=> n < Length[line]
      BY <1>3, <1>7, SentEnds
    <3>2. n \in 1 .. Length[line]
      BY <1>7, FramingAssumption
    <3> QED BY <3>1, <3>2
  <2>2. /\ \E more : InOrder(more, Ends(new))
        /\ Messages(new) = IF Open(old)
                           THEN [Messages(old) EXCEPT
                                    ![Len(Messages(old))] = @ \o Channel!Piece(line, n)]
                           ELSE Append(Messages(old), Channel!Piece(line, n))
    <3>1. Channel!Piece(line, n) = Piece(line, n)
      BY DEF Channel!Piece, Piece
    <3>2. CASE Open(old)
      <4>1. PICK more : more = [cuts EXCEPT ![Len(cuts)] = Len(new)]
        OBVIOUS
      <4> QED BY <1>3, <1>5, <1>7, <3>1, <3>2, <4>1, SentToOpen, SMTT(30)
    <3>3. CASE ~Open(old)
      <4>1. PICK more : more = Append(cuts, Len(new))
        OBVIOUS
      <4> QED BY <1>3, <1>5, <1>7, <3>1, <3>3, <4>1, SentAsNew
    <3> QED BY <3>2, <3>3
  <2>3. Channel!Send(line)
    <3>1. Open(old) \in BOOLEAN /\ Open(new) \in BOOLEAN
      BY DEF Open
    <3>2. Open(new) = (n < Length[line])
      BY <2>1, <3>1
    <3> QED BY <1>1, <1>4, <2>1, <2>2, <3>2 DEF Channel!Send
  <2>4. DividedInv'
    BY <1>1, <1>4, <2>2 DEF DividedInv
  <2> QED BY <2>3, <2>4 DEF Promise, Channel!Next
<1> QED BY <1>6, <1>7

\* recv moves bytes between the two buffers, and the channel does nothing.
LEMMA RecvPromise == ASSUME DividedInv, Recv PROVE Promise
<1>1. Typed' /\ outstanding' = outstanding /\ parsed' = parsed
  BY RecvIs DEF DividedInv
<1>2. PICK old : outstanding = old /\ outstanding' = old
  BY <1>1
<1>3. /\ Messages(outstanding) = Messages(old) /\ Messages(outstanding)' = Messages(old)
      /\ (\E cuts : InOrder(cuts, Ends(old))) => (\E cuts : InOrder(cuts, Ends(outstanding)))'
      /\ (outstanding # <<>> /\ ~IsNewline(Last(outstanding))) = Open(old)
      /\ (outstanding # <<>> /\ ~IsNewline(Last(outstanding)))' = Open(old)
  BY <1>2, Moves
<1>4. DividedInv'
  BY <1>1, <1>2, <1>3 DEF DividedInv
<1>5. UNCHANGED Channel!vars
  BY <1>1, <1>3 DEF Channel!vars
<1> QED BY <1>4, <1>5 DEF Promise

\* The receiver takes the first message of the channel.
LEMMA ParsePromise == ASSUME DividedInv, ParseLine PROVE Promise
<1>1. Typed'
  BY ParseIs DEF DividedInv
<1>2. PICK n, old, new, message :
        /\ outstanding = old /\ outstanding' = new /\ Takes(old, n, new)
        /\ message \in Seq(Byte) /\ Len(message) = n /\ \A k \in 1 .. n : message[k] = old[k]
        /\ parsed' = Append(parsed, message)
  BY ParseIs DEF DividedInv
<1>3. /\ Messages(outstanding) = Messages(old) /\ Messages(outstanding)' = Messages(new)
      /\ (\E cuts : InOrder(cuts, Ends(new))) => (\E cuts : InOrder(cuts, Ends(outstanding)))'
      /\ (outstanding # <<>> /\ ~IsNewline(Last(outstanding))) = Open(old)
      /\ (outstanding # <<>> /\ ~IsNewline(Last(outstanding)))' = Open(new)
  BY <1>2, Moves
<1>4. PICK cuts : InOrder(cuts, Ends(old))
  BY <1>2 DEF DividedInv
<1>5. PICK more : more = Moved(cuts, n)
  OBVIOUS
<1>6. /\ InOrder(more, Ends(new))
      /\ Open(new) <=> Open(old)
      /\ Len(Messages(old)) > (IF Open(old) THEN 1 ELSE 0)
      /\ Head(Messages(old)) = SubSeq(old, 1, n)
      /\ Messages(new) = Tail(Messages(old))
  BY <1>2, <1>4, <1>5, TakenFirst
<1>7. SubSeq(old, 1, n) = message
  <2>1. old \in Seq(Byte) /\ n \in 0 .. Len(old)
    BY <1>2 DEF Takes
  <2>2. /\ SubSeq(old, 1, n) \in Seq(Byte) /\ Len(SubSeq(old, 1, n)) = n
        /\ \A k \in 1 .. n : SubSeq(old, 1, n)[k] = old[k]
    BY <2>1, CutIs
  <2> QED BY <1>2, <2>2, SeqEqual
<1>8. Channel!Parse
  BY <1>2, <1>3, <1>6, <1>7 DEF Channel!Parse
<1>9. DividedInv'
  BY <1>1, <1>3, <1>6 DEF DividedInv
<1> QED BY <1>8, <1>9 DEF Promise, Channel!Next

(***************************************************************************)
(* What follows.                                                            *)
(***************************************************************************)
LEMMA StreamInvariant == Spec => []StreamInv
<1>1. Init => StreamInv
  <2> SUFFICES ASSUME Init PROVE StreamInv
    OBVIOUS
  <2>1. Len(<<>>) = 0 /\ <<>> \o <<>> = <<>> /\ \A k \in 1 .. 0 : FALSE
    OBVIOUS
  <2>2. Typed
    BY FramingAssumption DEF Init, Typed
  <2>3. outstanding = <<>> /\ DOMAIN parsed = {}
    BY <2>1 DEF Init, outstanding
  <2> QED BY <2>1, <2>2, <2>3 DEF StreamInv, Unbroken, Whole, WholeLines, LinesResume
<1>2. StreamInv /\ UNCHANGED vars => StreamInv'
  <2> SUFFICES ASSUME StreamInv, UNCHANGED vars PROVE StreamInv'
    OBVIOUS
  <2>1. pipe' = pipe /\ receivedData' = receivedData /\ parsed' = parsed /\ torn' = torn
    BY DEF vars
  <2>2. outstanding' = outstanding
    BY <2>1 DEF outstanding
  <2>3. Unbroken(outstanding)' /\ (~torn' => Whole(outstanding)')
    BY <2>1, <2>2 DEF StreamInv, Unbroken, Whole
  <2>4. Typed' /\ WholeLines' /\ LinesResume'
    BY <2>1 DEF StreamInv, Typed, WholeLines, LinesResume
  <2> QED BY <2>3, <2>4 DEF StreamInv
<1>3. StreamInv /\ [Next]_vars => StreamInv'
  BY <1>2, SendKeeps, RecvKeeps, ParseKeeps DEF Next
<1> QED BY <1>1, <1>3, PTL DEF Spec

\* While no send is cut short, whatever pieces recv returns and however full its
\* buffer is, each message the receiver parses is one whole line.
THEOREM MessagesAreLines == Spec => []WholeLines
<1>1. StreamInv => WholeLines
  BY DEF StreamInv
<1> QED BY <1>1, StreamInvariant, PTL

\* After a send that was cut short every message still begins with a line and ends
\* with a whole one, so what was lost spoils one message.
THEOREM MessagesResume == Spec => []LinesResume
<1>1. StreamInv => LinesResume
  BY DEF StreamInv
<1> QED BY <1>1, StreamInvariant, PTL

\* Wherever send and recv cut the stream, the receiver parses the messages of the channel:
\* in order, none twice, none left out, and a torn line only joins the next.
THEOREM FramingIsAChannel == Spec => ImplementsLineChannel
<1>1. Init => DividedInv /\ Channel!Init
  <2> SUFFICES ASSUME Init PROVE DividedInv /\ Channel!Init
    OBVIOUS
  <2>1. Typed
    <3>1. Len(<<>>) = 0
      OBVIOUS
    <3> QED BY <3>1, FramingAssumption DEF Init, Typed
  <2>2. PICK none : none = <<>>
    OBVIOUS
  <2>3. outstanding = none /\ parsed = <<>>
    BY <2>2 DEF Init, outstanding
  <2>4. none \in Seq(Byte) /\ ~Open(none) /\ DOMAIN none = {} /\ Len(none) = 0
    BY <2>2 DEF Open
  <2>5. Ends(none) = {}
    BY <2>4 DEF Ends, Newlines
  <2>6. InOrder(none, Ends(none))
    <3>1. none \in Seq(Nat) /\ \A k \in 1 .. 0 : FALSE
      BY <2>2
    <3> QED BY <2>4, <2>5, <3>1 DEF InOrder
  <2>7. Messages(outstanding) = <<>>
    <3>1. Messages(none) = Divided(none, none)
      BY <2>6, Messaged
    <3>2. Divided(none, none) = <<>>
      BY <2>4 DEF Divided
    <3> QED BY <2>3, <3>1, <3>2
  <2>8. DividedInv
    BY <2>1, <2>3, <2>6 DEF DividedInv
  <2>9. ~(outstanding # <<>> /\ ~IsNewline(Last(outstanding)))
    BY <2>2, <2>3
  <2> QED BY <2>3, <2>7, <2>8, <2>9 DEF Channel!Init
<1>2. DividedInv /\ [Next]_vars => DividedInv' /\ [Channel!Next]_(Channel!vars)
  <2> SUFFICES ASSUME DividedInv, [Next]_vars PROVE Promise
    BY DEF Promise
  <2>1. CASE Next
    BY <2>1, SendPromise, RecvPromise, ParsePromise DEF Next
  <2>2. CASE UNCHANGED vars
    <3>1. /\ pipe' = pipe /\ receivedData' = receivedData /\ parsed' = parsed
          /\ outstanding' = outstanding
      BY <2>2 DEF vars, outstanding
    <3>2. Typed'
      BY <3>1 DEF DividedInv, Typed
    <3>3. PICK old : outstanding = old /\ outstanding' = old
      BY <3>1
    <3>4. /\ Messages(outstanding) = Messages(old) /\ Messages(outstanding)' = Messages(old)
          /\ (\E cuts : InOrder(cuts, Ends(old))) => (\E cuts : InOrder(cuts, Ends(outstanding)))'
          /\ (outstanding # <<>> /\ ~IsNewline(Last(outstanding))) = Open(old)
          /\ (outstanding # <<>> /\ ~IsNewline(Last(outstanding)))' = Open(old)
      BY <3>3, Moves
    <3>5. DividedInv'
      BY <3>2, <3>3, <3>4 DEF DividedInv
    <3> QED BY <3>1, <3>4, <3>5 DEF Promise, Channel!vars
  <2> QED BY <2>1, <2>2
<1> QED BY <1>1, <1>2, PTL DEF Spec, ImplementsLineChannel, Channel!Spec
===============================================================================
