------------------------------- MODULE Framing -------------------------------
(***************************************************************************)
(* The bytes of one connection from the server to a client: sendToClient    *)
(* puts lines into a non-blocking socket (Utilities.cpp), and               *)
(* receiveMessages puts together what recv returns (NetworkClient.cpp).     *)
(***************************************************************************)
EXTENDS Naturals, Sequences, SequencesExt, FiniteSetsExt

CONSTANTS
    Lines,        \* the lines the server sends
    Length,       \* their bytes, the newline at the end included
    Capacity,     \* the bytes the two socket buffers hold
    BUFFER_SIZE,  \* of the client; recv returns at most one byte less
    MaxLines      \* bound: lines sent

ASSUME FramingAssumption ==
    /\ Length \in [Lines -> Nat \ {0}]
    /\ Capacity \in Nat \ {0} /\ MaxLines \in Nat
    /\ BUFFER_SIZE \in Nat \ {0, 1}

VARIABLES
    pipe,           \* the bytes in the socket buffers
    receivedData,   \* what the receiver has not parsed; incompleteMessage between
                    \* two calls of recv
    parsed,         \* the messages parsed
    sends,          \* lines sent so far
    torn            \* TRUE: a send was cut short

vars == <<pipe, receivedData, parsed, sends, torn>>

\* The first n bytes of a line.
Piece(line, n) == [k \in 1 .. n |-> <<line, k>>]
IsNewline(byte) == byte[2] = Length[byte[1]]

(***************************************************************************)
(* Server: a short count of send is not looked at, a failure only logged.   *)
(***************************************************************************)
sendToClient(line) ==
    LET room == Capacity - Len(pipe)
        n == IF Length[line] <= room THEN Length[line] ELSE room
    IN
    /\ sends < MaxLines /\ sends' = sends + 1
    /\ pipe' = pipe \o Piece(line, n)
    /\ torn' = (torn \/ n \in 1 .. Length[line] - 1)
    /\ UNCHANGED <<receivedData, parsed>>

(***************************************************************************)
(* Client.                                                                  *)
(***************************************************************************)
Newlines(bytes) == {k \in DOMAIN bytes : IsNewline(bytes[k])}

\* Mutant: incompleteMessage is not put before the new bytes.
RecvAfresh ==
    /\ Newlines(receivedData) = {}
    /\ \E n \in 1 .. Len(pipe) :
        /\ n < BUFFER_SIZE
        /\ receivedData' = SubSeq(pipe, 1, n)
        /\ pipe' = SubSeq(pipe, n + 1, Len(pipe))
    /\ UNCHANGED <<parsed, sends, torn>>

\* Mutant: what is kept of an incomplete line takes its room from the next recv.
RecvIntoRest ==
    /\ Newlines(receivedData) = {}
    /\ \E n \in 1 .. Len(pipe) :
        /\ Len(receivedData) + n < BUFFER_SIZE
        /\ receivedData' = receivedData \o SubSeq(pipe, 1, n)
        /\ pipe' = SubSeq(pipe, n + 1, Len(pipe))
    /\ UNCHANGED <<parsed, sends, torn>>

\* recv returns as many bytes as have arrived, anywhere in a line.
Recv ==
    /\ Newlines(receivedData) = {}
    /\ \E n \in 1 .. Len(pipe) :
        /\ n < BUFFER_SIZE
        /\ receivedData' = receivedData \o SubSeq(pipe, 1, n)
        /\ pipe' = SubSeq(pipe, n + 1, Len(pipe))
    /\ UNCHANGED <<parsed, sends, torn>>

\* Mutant: only the first line of what recv returned is parsed.
ParseFirst ==
    /\ Newlines(receivedData) # {}
    /\ LET newlinePos == Min(Newlines(receivedData)) IN
        parsed' = Append(parsed, SubSeq(receivedData, 1, newlinePos))
    /\ receivedData' = <<>>
    /\ UNCHANGED <<pipe, sends, torn>>

\* One turn of the loop that looks for newlines.
ParseLine ==
    /\ Newlines(receivedData) # {}
    /\ LET newlinePos == Min(Newlines(receivedData)) IN
        /\ parsed' = Append(parsed, SubSeq(receivedData, 1, newlinePos))
        /\ receivedData' = SubSeq(receivedData, newlinePos + 1, Len(receivedData))
    /\ UNCHANGED <<pipe, sends, torn>>

Init ==
    /\ pipe = <<>> /\ receivedData = <<>> /\ parsed = <<>>
    /\ sends = 0 /\ torn = FALSE

Next == Recv \/ ParseLine \/ \E line \in Lines : sendToClient(line)

\* The receiver goes on while there is something to receive or to parse.
Spec == Init /\ [][Next]_vars /\ WF_vars(Recv) /\ WF_vars(ParseLine)

(***************************************************************************)
(* Properties.                                                              *)
(***************************************************************************)
\* The places where a message ends, or is cut off.
Ends(bytes) == Newlines(bytes) \cup (DOMAIN bytes \cap {Len(bytes)})
\* The k-th of them.
Nth(ends, k) == CHOOSE n \in ends : Cardinality({m \in ends : m < n}) = k - 1
Begin(ends, k) == IF k = 1 THEN 1 ELSE Nth(ends, k - 1) + 1

Messages(bytes) ==
    LET ends == Ends(bytes)
    IN  [k \in 1 .. Cardinality(ends) |-> SubSeq(bytes, Begin(ends, k), Nth(ends, k))]

outstanding == receivedData \o pipe

Channel == INSTANCE LineChannel WITH
    transit <- Messages(outstanding), got <- parsed,
    open <- outstanding # <<>> /\ ~IsNewline(Last(outstanding))

\* Wherever recv cuts the stream, and however many lines it returns at once, the
\* receiver parses the messages the newlines make, in order and each once.
ImplementsLineChannel == Channel!Spec

\* Every message that has been ended is parsed in the end, also one that is longer
\* than what a recv returns, and one that arrives together with others.
Ended == Len(parsed) + Cardinality(Newlines(outstanding))
EveryMessageIsParsed == \A n \in 1 .. MaxLines : Ended >= n ~> Len(parsed) >= n

\* As long as no send was cut short, every message is one whole line.
WholeLines ==
    ~torn => \A k \in DOMAIN parsed :
        \E line \in Lines : parsed[k] = Piece(line, Length[line])

\* A line cut short spoils the message it runs into and none after that: whatever
\* was lost, a message ends with a whole line, and the next begins with one.
LinesResume ==
    \A k \in DOMAIN parsed :
        /\ parsed[k][1][2] = 1
        /\ \E line \in Lines : IsSuffix(Piece(line, Length[line]), parsed[k])
===============================================================================
