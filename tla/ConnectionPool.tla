---------------------------- MODULE ConnectionPool ----------------------------
(***************************************************************************)
(* What the servers of this program promise about their connections,       *)
(* whatever protocol runs on them: a connection enters the pool at most    *)
(* once, never when the pool is full, and once it has left it stays out.   *)
(* WWWSserver implements this specification.                               *)
(***************************************************************************)
EXTENDS Naturals, FiniteSets

CONSTANTS Client,   \* the connections that may ever be made
          Capacity  \* how many may be served at a time

VARIABLES inside,   \* connections being served
          left      \* connections that were served, or turned away

vars == <<inside, left>>

Init == inside = {} /\ left = {}

Enter(c) == /\ c \notin inside \cup left
            /\ Cardinality(inside) < Capacity
            /\ inside' = inside \cup {c}
            /\ UNCHANGED left

TurnAway(c) == /\ c \notin inside \cup left
               /\ left' = left \cup {c}
               /\ UNCHANGED inside

Leave(c) == /\ c \in inside
            /\ inside' = inside \ {c}
            /\ left' = left \cup {c}

Next == \E c \in Client : Enter(c) \/ TurnAway(c) \/ Leave(c)

Spec == Init /\ [][Next]_vars
===============================================================================
