---------------------------- MODULE MCClientServer ----------------------------
(***************************************************************************)
(* ClientServer on a small instance.  Names are interchangeable.            *)
(***************************************************************************)
EXTENDS ClientServer

\* What tells states apart: no guard reads the lines of the last step or table
\* rooms; once its user has quit a client only counts the lines it gets; and
\* nothing passes between client and server when their connection is gone.
Relevant ==
    <<sender, receiver, main, link, up,
      IF sender = "done" THEN <<Len(todo), Len(down)>> ELSE <<client, todo, down>>,
      IF link = "up" THEN <<memory, dbBans, dbMessages, sends, restarts>> ELSE <<>>>>

\* The commands by which a client changes rooms.
RoomCommands ==
    {<<"LEAVE">>, <<"CREATE PUBLIC">>}
    \cup ({"JOIN"} \X RoomIds \X {NoPassword})

OwnersCommands == RoomCommands \cup ({"TRANSFER"} \X Names)

Symmetry == Permutations(Names) \cup Permutations(RoomIds)
===============================================================================
