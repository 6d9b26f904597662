------------------------------- MODULE MCFraming -------------------------------
(***************************************************************************)
(* Framing on a small instance: a short line and one longer than the        *)
(* client's buffer.                                                         *)
(***************************************************************************)
EXTENDS Framing

CONSTANTS short, long

BothLines == {short, long}
Lengths == [line \in BothLines |-> IF line = short THEN 2 ELSE 4]
===============================================================================
