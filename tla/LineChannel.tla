----------------------------- MODULE LineChannel -----------------------------
(***************************************************************************)
(* What the client's receiver makes of the server's lines, whatever pieces  *)
(* recv returns: messages arrive in the order they were sent and cut where  *)
(* the newlines are.  A line that is cut short by a full socket has lost    *)
(* its newline, and the next line runs into the same message.               *)
(***************************************************************************)
EXTENDS Naturals, Sequences

CONSTANTS
    Lines,      \* the lines the server sends
    Length      \* their bytes, the newline at the end included

VARIABLES
    transit,    \* the messages on their way, in order; a message is its bytes
    open,       \* TRUE: the last of them has no newline yet
    got         \* the messages the client has parsed

vars == <<transit, open, got>>

\* The first n bytes of a line.
Piece(line, n) == [k \in 1 .. n |-> <<line, k>>]

Init == transit = <<>> /\ open = FALSE /\ got = <<>>

Send(line) ==
    \E n \in 1 .. Length[line] :
        /\ transit' = IF open
                      THEN [transit EXCEPT ![Len(transit)] = @ \o Piece(line, n)]
                      ELSE Append(transit, Piece(line, n))
        /\ open' = (n < Length[line])
        /\ UNCHANGED got

Parse ==
    /\ Len(transit) > (IF open THEN 1 ELSE 0)
    /\ got' = Append(got, Head(transit))
    /\ transit' = Tail(transit)
    /\ UNCHANGED open

Next == Parse \/ \E line \in Lines : Send(line)

Spec == Init /\ [][Next]_vars
===============================================================================
