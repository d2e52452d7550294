----------------------------- MODULE MCWSSserver -----------------------------
(* A TLC instance of WSSserver: four clients, one of them not to be let in.  *)
EXTENDS WSSserver

CONSTANTS c1, c2, c3, c4

FourClients == {c1, c2, c3, c4}
AllButFourth == {c1, c2, c3}
===============================================================================
