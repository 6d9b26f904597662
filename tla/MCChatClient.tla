----------------------------- MODULE MCChatClient -----------------------------
(***************************************************************************)
(* ChatClient on a small instance.                                          *)
(***************************************************************************)
EXTENDS ChatClient

\* One command of each kind the client tells apart: it sends the others of the
\* kind under the same conditions and forgets which it was.
OneOfEach ==
    {<<"CHAT">>, <<"LEAVE">>, <<"LIST">>} \cup ({"CHANGEPASSWORD"} \X Passwords)
===============================================================================
