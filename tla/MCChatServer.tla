----------------------------- MODULE MCChatServer -----------------------------
(***************************************************************************)
(* ChatServer on small instances.  Handles are numbers, because FORCELEAVE  *)
(* compares them; ids, names and passwords are interchangeable.             *)
(***************************************************************************)
EXTENDS ChatServer

\* The lines of the last step do not tell states apart: no guard reads them.
WithoutOut == state

Symmetry == Permutations(RoomIds) \cup Permutations(Names) \cup Permutations(Passwords)
===============================================================================
