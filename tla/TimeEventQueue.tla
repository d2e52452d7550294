---------------------------- MODULE TimeEventQueue ----------------------------
(***************************************************************************)
(* Avahi's time events (timeeventq.c): all of them share one timeout of    *)
(* the event loop, here a single-shot QTimer (qt-watch.cpp), armed for the *)
(* first of the queue.  The callback of an event may make events, free and *)
(* change any, itself included.  One thread.                               *)
(*                                                                         *)
(* Not modelled: no memory.                                                *)
(***************************************************************************)
EXTENDS Naturals, Sequences, FiniteSets

CONSTANTS MaxTime,      \* bound: the clock stops there
          MaxEvents     \* bound: events in the queue
ASSUME TimeBounds == MaxTime \in Nat /\ MaxEvents \in Nat

NONE == MaxTime + 1     \* the timer is not running

VARIABLES now,
          prioq,        \* the events
          timeout,      \* what the timer is armed for
          running       \* the callback of an event
timeVars == <<now, prioq, timeout, running>>

AvahiTimeEvent == [expiry : 0 .. MaxTime, last_run : 0 .. MaxTime]

\* compare.  (EarlierExpiry: mutant that forgets who ran last.)
EarlierExpiry(a, b) == a.expiry < b.expiry
Earlier(a, b) == a.expiry < b.expiry \/ (a.expiry = b.expiry /\ a.last_run < b.last_run)
Heap == INSTANCE PrioQueue WITH Before <- Earlier

\* (OnlySooner: mutant that arms the timer only for what comes sooner.)
OnlySooner(q) == IF q # <<>> /\ Head(q).expiry < timeout THEN Head(q).expiry ELSE timeout
update_timeout(q) == IF q = <<>> THEN NONE ELSE Head(q).expiry

Queue(q) == prioq' = q /\ timeout' = update_timeout(q)

avahi_time_event_new(t) ==
  /\ Len(prioq) < MaxEvents /\ Queue(Heap!Put(prioq, [expiry |-> t, last_run |-> 0]))
  /\ UNCHANGED <<now, running>>
avahi_time_event_free(i) == UNCHANGED <<now, running>> /\ Queue(Heap!Remove(prioq, i))
avahi_time_event_update(i, t) ==
  Queue(Heap!Shuffle([prioq EXCEPT ![i].expiry = t], i)) /\ UNCHANGED <<now, running>>

\* The timer fires, perhaps before its time, and is not armed again by itself.
Run(q) == Heap!Shuffle([q EXCEPT ![1].last_run = now], 1)
Expires == timeout # NONE /\ ~running /\ prioq # <<>>
Expired ==
  /\ Expires /\ now >= Head(prioq).expiry
  /\ prioq' = Run(prioq) /\ timeout' = NONE /\ running' = TRUE /\ UNCHANGED now
\* "Strange, expiration_event() called, but nothing really happened."
Early ==
  /\ Expires /\ now < Head(prioq).expiry
  /\ Queue(prioq) /\ UNCHANGED <<now, running>>
Returned == running /\ running' = FALSE /\ Queue(prioq) /\ UNCHANGED now

Tick == now < MaxTime /\ now' = now + 1 /\ UNCHANGED <<prioq, timeout, running>>

TimeInit == now = 0 /\ prioq = <<>> /\ timeout = NONE /\ running = FALSE
TimeNext ==
  \/ \E t \in 0 .. MaxTime : avahi_time_event_new(t) \/ \E i \in DOMAIN prioq : avahi_time_event_update(i, t)
  \/ \E i \in DOMAIN prioq : avahi_time_event_free(i)
  \/ Expired \/ Early \/ Returned \/ Tick
TimeSpec == TimeInit /\ [][TimeNext]_timeVars

(***************************************************************************)
(* Properties                                                              *)
(***************************************************************************)
TimeTypeOK ==
  /\ now \in 0 .. MaxTime /\ timeout \in 0 .. NONE /\ running \in BOOLEAN
  /\ Len(prioq) <= MaxEvents /\ \A i \in DOMAIN prioq : prioq[i] \in AvahiTimeEvent

\* No event is before the one above it, whatever was put, removed from
\* anywhere or changed (avahi_prio_queue_shuffle, avahi_prio_queue_remove).
HeapOrder == \A i \in 2 .. Len(prioq) : ~Earlier(prioq[i], prioq[i \div 2])

\* While no callback runs, the timer is armed for the earliest event of all,
\* also when it fired too early (expiration_event, update_timeout).
ArmedForFirst ==
  ~running => /\ timeout = NONE <=> prioq = <<>>
              /\ \A i \in DOMAIN prioq : timeout <= prioq[i].expiry
              /\ prioq # <<>> => \E i \in DOMAIN prioq : timeout = prioq[i].expiry

\* An event runs only when those of the same time ran after it ("put the entry
\* that has been run earlier the last time first"), and none is due sooner.
TakesTurns ==
  [][~running /\ running' =>
       \A i \in DOMAIN prioq :
         /\ Head(prioq).expiry <= prioq[i].expiry
         /\ Head(prioq).expiry = prioq[i].expiry => Head(prioq).last_run <= prioq[i].last_run]_timeVars

\* To free an event takes that one out of the queue and no other, wherever in
\* the tree it is (avahi_prio_queue_remove).
Copies(q, e) == Cardinality({i \in DOMAIN q : q[i] = e})
Events(q) == {q[i] : i \in DOMAIN q}
FreesTheOne ==
  [][\A i \in DOMAIN prioq : avahi_time_event_free(i) =>
       \A e \in Events(prioq) \union Events(prioq') :
         Copies(prioq, e) = Copies(prioq', e) + (IF e = prioq[i] THEN 1 ELSE 0)]_timeVars

\* The queue is a heap through all removals, its timer is set for the first, and
\* events run in order, each of them in its turn.
TimesKept == [](TimeTypeOK /\ HeapOrder /\ ArmedForFirst) /\ TakesTurns /\ FreesTheOne
=============================================================================
