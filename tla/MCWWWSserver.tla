---------------------------- MODULE MCWWWSserver ----------------------------
(***************************************************************************)
(* TLC instance of WWWSserver, of two kinds, chosen at the start: a busy   *)
(* house, where many clients come with one request and short answers, and  *)
(* a quiet one, where one client has a long conversation.                  *)
(***************************************************************************)
EXTENDS WWWSserver

CONSTANTS c1, c2, c3, c4

FourClients == {c1, c2, c3, c4}
OnlyFourth == {c4}

VARIABLE house
\* What clients do: the event loop is not held back.
Limits ==
  \/ house = "busy" /\ \A c \in Client : reads'[c] <= 1 /\ \A x \in Exchange : size'[x] <= 1
  \/ house = "quiet" /\ \A c \in Client \ {c1} : link'[c] = "idle"
MCInit == Init /\ house \in {"busy", "quiet"}
MCNext == Next /\ Limits /\ UNCHANGED house
MCSpec == MCInit /\ [][MCNext]_<<vars, house>> /\ Fairness
=============================================================================
