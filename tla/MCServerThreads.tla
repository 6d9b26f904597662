---------------------------- MODULE MCServerThreads ----------------------------
(***************************************************************************)
(* ServerThreads on small instances: clients and rooms are interchangeable. *)
(***************************************************************************)
EXTENDS ServerThreads, TLC

\* Bounds of the run rooms: it looks at the server while it serves, one handle in a
\* round, and the broadcaster does not come for a message before there is one.  The
\* run threads has the rest: rounds, waiting, shutdown.
Running ==
    /\ serving /\ ~shutdown
    /\ Cardinality(round) <= 1
    /\ queue = <<>> =>
        ~(At("broadcaster", "acquire") /\ Argument("broadcaster", 1) = "queue")

Symmetry == Permutations(Clients) \cup Permutations(Rooms)
===============================================================================
