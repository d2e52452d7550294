------------------------------ MODULE PrioQueue ------------------------------
(***************************************************************************)
(* Avahi's priority queue (prioq.c): a binary tree whose rows are filled   *)
(* from left to right.  Node number i, counted along the rows, is the one  *)
(* at x = i - 2^y of row y; next and prev link the numbers, and its parent *)
(* has number i \div 2.  So the queue is the sequence of what its nodes    *)
(* hold.                                                                   *)
(***************************************************************************)
EXTENDS Naturals, Sequences

CONSTANT Before(_, _)   \* compare(a, b) < 0

\* get_node_at_xy, for the node above.
Parent(i) == i \div 2
\* exchange_nodes: what is held changes places, the tree keeps its shape.
Exchanged(q, a, b) == [q EXCEPT ![a] = q[b], ![b] = q[a]]

\* A loop of avahi_prio_queue_shuffle on the node at x.at.  A round leaves a
\* node alone that is in its place, and otherwise exchanges it with a parent or
\* makes it one, at another place each time: there are Len \div 2 of those.
Rounds(x, Round(_)) ==
  LET f[n \in 0 .. Len(x.q) \div 2] == IF n = 0 THEN x ELSE Round(f[n - 1])
  IN  f[Len(x.q) \div 2]

\* "Move up until the position is OK": where it ends.
Rise(x) ==
  IF x.at > 1 /\ Before(x.q[x.at], x.q[Parent(x.at)])
  THEN [q |-> Exchanged(x.q, x.at, Parent(x.at)), at |-> Parent(x.at)] ELSE x
Up(q, i) == Rounds([q |-> q, at |-> i], Rise)
\* "min now contains the smaller one of our two children".
\* (LeftChild: mutant that never looks to the right.)
LeftChild(q, i) == 2 * i
SmallerChild(q, i) == IF 2 * i < Len(q) /\ Before(q[2 * i + 1], q[2 * i]) THEN 2 * i + 1 ELSE 2 * i
\* "Move down until the position is OK".
Sink(x) ==
  LET min == SmallerChild(x.q, x.at)
  IN  IF 2 * x.at <= Len(x.q) /\ Before(x.q[min], x.q[x.at])
      THEN [q |-> Exchanged(x.q, x.at, min), at |-> min] ELSE x
Down(q, i) == Rounds([q |-> q, at |-> i], Sink).q
Shuffle(q, i) == LET up == Up(q, i) IN Down(up.q, up.at)

Put(q, e) == Shuffle(Append(q, e), Len(q) + 1)

Shortened(q) == SubSeq(q, 1, Len(q) - 1)
\* (RemoveDown: mutant that only moves the replacement down.)
RemoveDown(q, i) == IF i = Len(q) THEN Shortened(q) ELSE Down(Shortened(Exchanged(q, i, Len(q))), i)
\* (RemoveLast: mutant that removes the replacement.)
RemoveLast(q, i) == Shortened(q)
Remove(q, i) == IF i = Len(q) THEN Shortened(q) ELSE Shuffle(Shortened(Exchanged(q, i, Len(q))), i)
=============================================================================
