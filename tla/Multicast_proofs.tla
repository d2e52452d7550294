--------------------------- MODULE Multicast_proofs ---------------------------
(***************************************************************************)
(* What the two ends of multicast DNS promise, for every value of their    *)
(* constants: the list of services of a client (ServiceClient) and the     *)
(* answers and probes of an interface (MdnsTraffic).  They share no state, *)
(* and each has an inductive invariant of its own, introduced where its    *)
(* part begins.                                                            *)
(***************************************************************************)
EXTENDS ServiceClient, MdnsTraffic, FiniteSetTheorems, WellFoundedInduction, TLAPS

-------------------------------------------------------------------------------
(* ServiceClient.  A resolver that has all of a service waits for nothing: the   *)
(* time it is given begins when it loses a record; and the address it looks for  *)
(* is that of the host its SRV names.                                            *)

FoundRests == resolver # None /\ ~resolver.dead =>
  (Complete(resolver) => ~resolver.timer) /\ resolver.asks = resolver.srv
ClientInv == ListSound /\ FoundRests

Records == Srvs \cup Addrs \cup {Txt}

LEMMA RecordKinds ==
  /\ \A h \in Host : Srv(h)[2] = h /\ Srv(h) \in Srvs /\ Srv(h) \notin Addrs /\ Srv(h) # Txt
  /\ \A h \in Host : Addr(h)[2] = h /\ Addr(h) \in Addrs /\ Addr(h) \notin Srvs /\ Addr(h) # Txt
  /\ Txt \notin Srvs /\ Txt \notin Addrs
  /\ \A x \in Srvs : x[2] \in Host /\ x = Srv(x[2])
  /\ \A x \in Addrs : x[2] \in Host /\ x = Addr(x[2])
<1>1. \A h \in Host : Srv(h)[1] = "SRV" /\ Srv(h)[2] = h /\ Addr(h)[1] = "A" /\ Addr(h)[2] = h
  BY DEF Srv, Addr
<1>2. Txt[1] = "TXT"
  BY DEF Txt
<1>3. \A x \in Srvs : \E h \in Host : x = Srv(h)
  BY DEF Srvs
<1>4. \A x \in Addrs : \E h \in Host : x = Addr(h)
  BY DEF Addrs
<1>5. \A h \in Host : Srv(h) \in Srvs /\ Addr(h) \in Addrs
  BY DEF Srvs, Addrs
<1> QED BY <1>1, <1>2, <1>3, <1>4, <1>5

LEMMA ClientStarts == ClientInit => ClientInv
BY DEF ClientInit, ClientInv, ListSound, ClientTypeOK, ListedHasResolver, ListedIsFound, HeldIsTold, FoundRests

(* Of a resolver that is alive: what it holds, and what of this it was told of.  *)
Sound(o, listing) ==
  /\ o \in Resolver
  /\ ~o.dead =>
       /\ listing => Complete(o) \/ o.timer
       /\ Complete(o) => listing /\ ~o.timer
       /\ o.srv # None => Srv(o.srv) \in o.told
       /\ o.txt => Txt \in o.told
       /\ o.address # None /\ ~o.kept => o.address = o.srv /\ Addr(o.address) \in o.told
       /\ o.asks = o.srv

LEMMA ClientInvIs ==
  ClientInv <=> /\ ClientTypeOK /\ ListedHasResolver
                /\ resolver # None => Sound(resolver, services)
BY DEF ClientInv, ListSound, ListedIsFound, HeldIsTold, FoundRests, Sound, ClientTypeOK

LEMMA NewIsSound ==
  ASSUME NEW p \in Proto
  PROVE  Sound(NewResolver(p), FALSE)
<1>1. NewResolver(p) \in Resolver
  BY DEF NewResolver, Resolver
<1>2. /\ NewResolver(p).srv = None /\ NewResolver(p).txt = FALSE /\ NewResolver(p).asks = None
      /\ NewResolver(p).address = None
  BY DEF NewResolver
<1> QED BY <1>1, <1>2 DEF Sound, Complete

LEMMA TakenInResolver ==
  ASSUME NEW o \in Resolver, NEW x \in Records
  PROVE  [Takes(o, x) EXCEPT !.told = @ \cup {x}] \in Resolver
<1>1. PICK t : t = Takes(o, x)
  OBVIOUS
<1>2. t \in Resolver
  <2>1. CASE x \in Srvs
    BY <1>1, <2>1, RecordKinds DEF Takes, Resolver
  <2>2. CASE x = Txt
    BY <1>1, <2>2, RecordKinds DEF Takes, Resolver
  <2>3. CASE x \in Addrs
    BY <1>1, <2>3, RecordKinds DEF Takes, Resolver
  <2> QED BY <2>1, <2>2, <2>3 DEF Records
<1>3. [t EXCEPT !.told = @ \cup {x}] \in Resolver
  BY <1>2 DEF Resolver, Records
<1> QED BY <1>1, <1>3

LEMMA ForgottenInResolver ==
  ASSUME NEW o \in Resolver, NEW x \in Records
  PROVE  Forgets(o, x) \in Resolver /\ Forgets(o, x).dead = o.dead
<1>1. PICK t : t = DropsOnly(o, x)
  OBVIOUS
<1>2. t \in Resolver /\ t.dead = o.dead
  <2>1. CASE x \in Srvs
    BY <1>1, <2>1 DEF DropsOnly, Resolver
  <2>2. CASE x = Txt
    BY <1>1, <2>2, RecordKinds DEF DropsOnly, Resolver
  <2>3. CASE x \in Addrs
    BY <1>1, <2>3, RecordKinds DEF DropsOnly, Resolver
  <2> QED BY <2>1, <2>2, <2>3 DEF Records
<1>3. Drops(o, x) \in Resolver /\ Drops(o, x).dead = o.dead
  BY <1>1, <1>2 DEF Drops, Resolver
<1>4. [o EXCEPT !.told = @ \ {x}] \in Resolver /\ [o EXCEPT !.told = @ \ {x}].dead = o.dead
  BY DEF Resolver
<1> QED BY <1>3, <1>4 DEF Forgets

(* AVAHI_BROWSER_NEW: the first record of each kind is kept.                     *)
LEMMA TakenSound ==
  ASSUME NEW o \in Resolver, NEW x \in Records, ~o.dead, NEW listing \in BOOLEAN, Sound(o, listing),
         x \in Addrs => x = Addr(o.asks)
  PROVE  LET one == [Takes(o, x) EXCEPT !.told = @ \cup {x}] IN
         /\ Changed(o, x) /\ Complete(one) => Sound([one EXCEPT !.timer = FALSE], TRUE)
         /\ ~(Changed(o, x) /\ Complete(one)) => Sound(one, listing)
<1>1. /\ o.srv \in Host \cup {None} /\ o.address \in Host \cup {None} /\ o.txt \in BOOLEAN /\ o.timer \in BOOLEAN
      /\ o.asks \in Host \cup {None} /\ o.kept \in BOOLEAN
      /\ o.told \subseteq Records /\ None \notin Host
  BY ClientAssumption DEF Resolver, Records
<1>2. PICK one : one = [Takes(o, x) EXCEPT !.told = @ \cup {x}]
  OBVIOUS
<1>3. PICK rest : rest = [one EXCEPT !.timer = FALSE]
  OBVIOUS
<1>4. SUFFICES /\ Changed(o, x) /\ Complete(one) => Sound(rest, TRUE)
               /\ ~(Changed(o, x) /\ Complete(one)) => Sound(one, listing)
  BY <1>2, <1>3
<1>5. ASSUME one \in Resolver
      PROVE  /\ rest \in Resolver /\ ~rest.timer /\ rest.srv = one.srv /\ rest.txt = one.txt
             /\ rest.address = one.address /\ rest.told = one.told /\ rest.dead = one.dead
             /\ rest.asks = one.asks /\ rest.kept = one.kept
  BY <1>3, <1>5 DEF Resolver
<1>6. CASE x \in Srvs /\ o.srv = None
  <2>1. Takes(o, x) = [o EXCEPT !.srv = x[2], !.asks = x[2], !.told = o.told \ Addrs]
    BY <1>6, RecordKinds DEF Takes
  <2>2. x[2] \in Host /\ x = Srv(x[2]) /\ x # Txt /\ Txt \notin Addrs
    BY <1>6, RecordKinds
  <2>3. one = [o EXCEPT !.srv = x[2], !.asks = x[2], !.told = (o.told \ Addrs) \cup {x}]
    BY <1>2, <2>1 DEF Resolver
  <2>4. /\ one \in Resolver /\ one.dead = o.dead /\ one.srv = x[2] /\ one.txt = o.txt
        /\ one.address = o.address /\ one.timer = o.timer /\ one.told = (o.told \ Addrs) \cup {x}
        /\ one.asks = x[2] /\ one.kept = o.kept
    BY <1>1, <2>2, <2>3 DEF Resolver, Records
  <2> QED BY <1>1, <1>5, <1>6, <2>2, <2>4 DEF Sound, Complete, Changed
<1>7. CASE x = Txt
  <2>1. x \notin Srvs /\ x \notin Addrs
    BY <1>7, RecordKinds
  <2>2. Takes(o, x) = [o EXCEPT !.txt = TRUE]
    BY <1>7, <2>1 DEF Takes
  <2>3. one = [o EXCEPT !.txt = TRUE, !.told = o.told \cup {x}]
    BY <1>2, <2>2 DEF Resolver
  <2>4. /\ one \in Resolver /\ one.dead = o.dead /\ one.srv = o.srv /\ one.txt
        /\ one.address = o.address /\ one.timer = o.timer /\ one.told = o.told \cup {x}
        /\ one.asks = o.asks /\ one.kept = o.kept
    BY <1>1, <2>3 DEF Resolver, Records
  <2> QED BY <1>1, <1>5, <1>7, <2>1, <2>4 DEF Sound, Complete, Changed
<1>8. CASE x \in Addrs /\ o.address = None
  <2>1. x \notin Srvs /\ x # Txt /\ x[2] \in Host /\ o.asks = x[2] /\ Addr(x[2]) = x
    <3>1. x = Addr(x[2]) /\ x = Addr(o.asks) /\ Addr(o.asks)[2] = o.asks
      BY <1>8, RecordKinds DEF Addr
    <3> QED BY <1>8, <3>1, RecordKinds
  <2>2. Takes(o, x) = [o EXCEPT !.address = x[2]]
    BY <1>8, <2>1 DEF Takes
  <2>3. one = [o EXCEPT !.address = x[2], !.told = o.told \cup {x}]
    BY <1>2, <2>2 DEF Resolver
  <2>4. /\ one \in Resolver /\ one.dead = o.dead /\ one.srv = o.srv /\ one.txt = o.txt
        /\ one.address = x[2] /\ one.timer = o.timer /\ one.told = o.told \cup {x}
        /\ one.asks = o.asks /\ one.kept = o.kept
    BY <1>1, <2>1, <2>3 DEF Resolver, Records
  <2> QED BY <1>1, <1>5, <1>8, <2>1, <2>4 DEF Sound, Complete, Changed
<1>9. CASE (x \in Srvs /\ o.srv # None) \/ (x \in Addrs /\ o.address # None)
  <2>1. x # Txt /\ (x \in Srvs => x \notin Addrs)
    BY <1>9, RecordKinds
  <2>2. Takes(o, x) = o
    BY <1>9, <2>1 DEF Takes
  <2>3. one = [o EXCEPT !.told = o.told \cup {x}]
    BY <1>2, <2>2 DEF Resolver
  <2>4. /\ one \in Resolver /\ one.dead = o.dead /\ one.srv = o.srv /\ one.txt = o.txt
        /\ one.address = o.address /\ one.timer = o.timer /\ one.told = o.told \cup {x}
        /\ one.asks = o.asks /\ one.kept = o.kept
    BY <1>1, <2>3 DEF Resolver, Records
  <2> QED BY <1>1, <1>9, <2>1, <2>4, RecordKinds DEF Sound, Complete, Changed
<1> QED BY <1>6, <1>7, <1>8, <1>9 DEF Records

(* AVAHI_BROWSER_REMOVE: what is held no longer has the time to be replaced.     *)
LEMMA ForgottenSound ==
  ASSUME NEW o \in Resolver, NEW x \in Records, ~o.dead, NEW listing \in BOOLEAN, Sound(o, listing)
  PROVE  Sound(Forgets(o, x), listing)
<1>1. /\ o.srv \in Host \cup {None} /\ o.address \in Host \cup {None} /\ o.txt \in BOOLEAN /\ o.timer \in BOOLEAN
      /\ o.asks \in Host \cup {None} /\ o.kept \in BOOLEAN
      /\ o.told \subseteq Records /\ None \notin Host
  BY ClientAssumption DEF Resolver, Records
<1>2. CASE ~Holds(o, x)
  <2>1. Forgets(o, x) = [o EXCEPT !.told = o.told \ {x}]
    BY <1>2 DEF Forgets, Resolver
  <2>2. \E one : one = [o EXCEPT !.told = o.told \ {x}]
    OBVIOUS
  <2>3. PICK one : one = Forgets(o, x)
    OBVIOUS
  <2>4. /\ one \in Resolver /\ one.dead = o.dead /\ one.srv = o.srv /\ one.txt = o.txt
        /\ one.address = o.address /\ one.timer = o.timer /\ one.told = o.told \ {x}
        /\ one.asks = o.asks /\ one.kept = o.kept
    BY <1>1, <2>1, <2>3 DEF Resolver, Records
  <2>5. (o.srv # None => Srv(o.srv) # x) /\ (o.txt => x # Txt) /\ (o.address # None => Addr(o.address) # x)
    BY <1>1, <1>2, RecordKinds DEF Holds
  <2> QED BY <2>3, <2>4, <2>5 DEF Sound, Complete
<1>3. CASE Holds(o, x) /\ x \in Srvs
  <2>1. DropsOnly(o, x) = [o EXCEPT !.srv = None, !.asks = None, !.told = o.told \ (Srvs \cup Addrs),
                                  !.kept = (o.address # None)]
    BY <1>3, RecordKinds DEF DropsOnly
  <2>2. Forgets(o, x) = [o EXCEPT !.srv = None, !.asks = None, !.told = o.told \ (Srvs \cup Addrs),
                               !.kept = (o.address # None), !.timer = TRUE]
    BY <1>3, <2>1 DEF Forgets, Drops, Resolver
  <2>3. PICK one : one = Forgets(o, x)
    OBVIOUS
  <2>4. /\ one \in Resolver /\ one.srv = None /\ one.txt = o.txt /\ one.timer
        /\ one.asks = None /\ one.address = o.address /\ one.kept = (o.address # None)
        /\ one.told = o.told \ (Srvs \cup Addrs)
    BY <1>1, <2>2, <2>3 DEF Resolver, Records
  <2> QED BY <2>3, <2>4, RecordKinds DEF Sound, Complete
<1>4. CASE Holds(o, x) /\ x = Txt
  <2>1. Forgets(o, x) = [o EXCEPT !.txt = FALSE, !.told = o.told \ {Txt}, !.timer = TRUE]
    BY <1>4, RecordKinds DEF Forgets, Drops, DropsOnly, Resolver
  <2>2. PICK one : one = Forgets(o, x)
    OBVIOUS
  <2>3. /\ one \in Resolver /\ one.srv = o.srv /\ one.txt = FALSE /\ one.timer /\ one.told = o.told \ {Txt}
        /\ one.asks = o.asks /\ one.kept = o.kept /\ one.address = o.address
    BY <1>1, <2>1, <2>2 DEF Resolver, Records
  <2>4. (o.srv # None => Srv(o.srv) # Txt) /\ (o.address # None => Addr(o.address) # Txt)
    BY <1>1, RecordKinds
  <2> QED BY <2>2, <2>3, <2>4 DEF Sound, Complete
<1>5. CASE Holds(o, x) /\ x \in Addrs
  <2>1. Forgets(o, x) = [o EXCEPT !.address = None, !.kept = FALSE, !.told = o.told \ Addrs, !.timer = TRUE]
    BY <1>5, RecordKinds DEF Forgets, Drops, DropsOnly, Resolver
  <2>2. PICK one : one = Forgets(o, x)
    OBVIOUS
  <2>3. /\ one \in Resolver /\ one.srv = o.srv /\ one.txt = o.txt /\ one.address = None /\ one.timer
        /\ one.told = o.told \ Addrs /\ one.asks = o.asks
    BY <1>1, <2>1, <2>2 DEF Resolver, Records
  <2>4. (o.srv # None => Srv(o.srv) \notin Addrs) /\ Txt \notin Addrs
    BY <1>1, RecordKinds
  <2> QED BY <2>2, <2>3, <2>4 DEF Sound, Complete
<1> QED BY <1>2, <1>3, <1>4, <1>5 DEF Records

LEMMA ClientGoes == ClientInv /\ [ClientNext]_clientVars => ClientInv'
<1> SUFFICES ASSUME ClientInv, [ClientNext]_clientVars
             PROVE  ClientTypeOK' /\ ListedHasResolver' /\ (resolver' # None => Sound(resolver', services'))
  BY DEF ClientInv, ListSound, ListedIsFound, HeldIsTold, FoundRests, Sound, ClientTypeOK
<1>1. /\ cached \in [Proto -> SUBSET (Srvs \cup Addrs \cup {Ptr, Txt})] /\ browser \in BOOLEAN
      /\ ptrs \subseteq Proto /\ services \in BOOLEAN /\ reported \subseteq Proto
      /\ (services => resolver # None) /\ (resolver # None => browser)
      /\ resolver # None => resolver \in Resolver /\ Sound(resolver, services)
  BY ClientInvIs DEF ClientTypeOK, ListedHasResolver
<1>2. \A o \in Resolver : o # None
  BY ResolverAssumption
<1> USE DEF ClientTypeOK, ListedHasResolver
<1> DEFINE Keeps == ClientTypeOK' /\ ListedHasResolver' /\ (resolver' # None => Sound(resolver', services'))
<1>3. ASSUME NEW p \in Proto, BrowserNew(p) PROVE Keeps
  <2>1. /\ browser /\ ptrs' = ptrs \cup {p} /\ UNCHANGED <<cached, browser, services, reported>>
        /\ resolver' = IF resolver = None THEN NewResolver(p) ELSE resolver
    BY <1>3 DEF BrowserNew, Quiet
  <2>2. Sound(NewResolver(p), FALSE) /\ NewResolver(p) \in Resolver
    BY NewIsSound DEF Sound
  <2> QED BY <1>1, <1>2, <2>1, <2>2
<1>4. ASSUME NEW p \in Proto, BrowserRemove(p) PROVE Keeps
  BY <1>1, <1>4 DEF BrowserRemove, Lost, Quiet
<1>5. ASSUME NEW x \in Records, ResolverNew(x) PROVE Keeps
  <2> DEFINE one == [Takes(resolver, x) EXCEPT !.told = @ \cup {x}]
  <2>1. ~resolver.dead /\ resolver # None /\ (x \in Addrs => x = Addr(resolver.asks))
    BY <1>5, RecordKinds DEF ResolverNew, Visible
  <2>2. /\ Changed(resolver, x) /\ Complete(one) => Sound([one EXCEPT !.timer = FALSE], TRUE)
        /\ ~(Changed(resolver, x) /\ Complete(one)) => Sound(one, services)
    BY <1>1, <2>1, TakenSound
  <2> HIDE DEF one
  <2>3. CASE Changed(resolver, x) /\ Complete(one)
    <3>1. resolver' = [one EXCEPT !.timer = FALSE] /\ services' = TRUE /\ reported' = reported \cup {one.protocol}
          /\ UNCHANGED <<cached, browser, ptrs>>
      BY <1>5, <2>3 DEF ResolverNew, Found, one
    <3>2. one \in Resolver
      BY <1>1, <2>1, TakenInResolver DEF one
    <3>3. one.protocol \in Proto
      BY <3>2 DEF Resolver
    <3> QED BY <1>1, <1>2, <2>1, <2>2, <2>3, <3>1, <3>3 DEF Sound
  <2>4. CASE ~(Changed(resolver, x) /\ Complete(one))
    <3>1. resolver' = one /\ UNCHANGED <<cached, browser, ptrs, services, reported>>
      BY <1>5, <2>4 DEF ResolverNew, Quiet, one
    <3> QED BY <1>1, <1>2, <2>1, <2>2, <2>4, <3>1 DEF Sound
  <2> QED BY <2>3, <2>4
<1>6. ASSUME NEW x \in Records, ResolverRemove(x) PROVE Keeps
  <2>1. resolver # None /\ x \in resolver.told /\ resolver' = Forgets(resolver, x)
        /\ UNCHANGED <<cached, browser, ptrs, services, reported>>
    BY <1>6 DEF ResolverRemove, Quiet
  <2>2. CASE ~resolver.dead
    <3>1. Sound(Forgets(resolver, x), services)
      BY <1>1, <2>1, <2>2, ForgottenSound
    <3> QED BY <1>1, <1>2, <2>1, <3>1 DEF Sound
  <2>3. CASE resolver.dead
    <3>1. Forgets(resolver, x) \in Resolver /\ Forgets(resolver, x).dead
      BY <1>1, <2>1, <2>3, ForgottenInResolver
    <3> QED BY <1>1, <1>2, <2>1, <3>1 DEF Sound
  <2> QED BY <2>2, <2>3
<1>7. CASE ResolverTimeout
  <2>1. /\ resolver # None /\ resolver.timer /\ resolver' = [resolver EXCEPT !.timer = FALSE]
        /\ services' = FALSE /\ reported' = {} /\ UNCHANGED <<cached, browser, ptrs>>
    BY <1>7 DEF ResolverTimeout, Lost
  <2>2. resolver' \in Resolver
    BY <1>1, <2>1 DEF Resolver
  <2>3. \A field \in {"dead", "srv", "txt", "address", "told", "asks", "kept"} : resolver'[field] = resolver[field]
    BY <1>1, <2>1 DEF Resolver
  <2>4. Sound(resolver', services')
    BY <1>1, <2>1, <2>2, <2>3 DEF Sound, Complete
  <2> QED BY <1>1, <1>2, <2>1, <2>2, <2>4
<1>8. CASE ResolverFails
  <2>1. /\ resolver # None /\ services' = FALSE /\ reported' = {} /\ UNCHANGED <<cached, browser, ptrs>>
        /\ resolver' = [resolver EXCEPT !.dead = TRUE, !.told = {}, !.asks = None, !.timer = FALSE]
    BY <1>8 DEF ResolverFails, Lost
  <2>2. resolver' \in Resolver /\ resolver'.dead
    BY <1>1, <2>1 DEF Resolver
  <2> QED BY <1>1, <1>2, <2>1, <2>2 DEF Sound
<1>9. CASE Start \/ Stop \/ BrowserFails
  BY <1>1, <1>9 DEF Start, Stop, BrowserFails, CleanUp, Lost
<1>10. ASSUME NEW p \in Proto, NEW x \in Carried[p], Appears(p, x) \/ Vanishes(p, x) PROVE Keeps
  <2>1. UNCHANGED <<browser, ptrs, resolver, services, reported>>
    BY <1>10 DEF Appears, Vanishes
  <2>2. cached' \in [Proto -> SUBSET (Srvs \cup Addrs \cup {Ptr, Txt})]
    BY <1>1, <1>10, ClientAssumption DEF Appears, Vanishes
  <2> QED BY <1>1, <1>2, <2>1, <2>2
<1>11. CASE UNCHANGED clientVars
  BY <1>1, <1>11 DEF clientVars
<1> QED BY <1>3, <1>4, <1>5, <1>6, <1>7, <1>8, <1>9, <1>10, <1>11 DEF ClientNext, Tell, Records

(* The list of services, its resolvers and what they were told agree, whatever   *)
(* records come and go, and time out, but for an address kept from an old SRV.   *)
THEOREM ListStaysSound == ClientSpec => []ListSound
<1>1. ClientInv => ListSound
  BY DEF ClientInv
<1> QED BY <1>1, ClientStarts, ClientGoes, PTL DEF ClientSpec

-------------------------------------------------------------------------------
(* MdnsTraffic.  A state of the response scheduler is fine for the records R     *)
(* when no record is in two places of it, and every job is for what stands of    *)
(* its record: the full TTL if it is in R, a goodbye if it is not.  R are the    *)
(* records published and those a conflict took without a word (Standing): what   *)
(* is scheduled for these is an answer still.                                    *)
Standing == registered \cup forsaken

Sched == [jobs: SUBSET Job, history: SUBSET Done, suppressed: SUBSET Known]
Answer(x, R) == [rec |-> x, ttl |-> IF x \in R THEN Full ELSE 0, flush |-> x \in Unique]
AsDone(j) == [rec |-> j.rec, ttl |-> j.ttl, flush |-> j.flush]

Fine(s, R) ==
  /\ s \in Sched
  /\ \A j, k \in s.jobs : j.rec = k.rec => j = k
  /\ \A h, g \in s.history : h.rec = g.rec => h = g
  /\ \A j \in s.jobs : \A h \in s.history : j.rec # h.rec
  /\ \A j \in s.jobs : AsDone(j) = Answer(j.rec, R)
KnownOnce(s) == \A k, l \in s.suppressed : k.rec = l.rec /\ k.who = l.who => k = l

(* A goodbye that was sent was heard; who is owed an answer is owed it by a job  *)
(* of a record that stands; a record that does not, and is believed in, has a    *)
(* job.                                                                          *)
GoodbyeHeard == \A h \in sched.history : h.ttl = 0 /\ h.rec \notin forsaken => ~said[h.rec]
OwedHasJob == \A d \in owed :
  d[1] \in Standing /\ \E j \in sched.jobs : j.rec = d[1] /\ j.who \in {d[2], NoOne}
GoneHasJob == \A r \in Record \ Standing :
  said[r] => announcing /\ \E j \in sched.jobs : j.rec = r

TrafficInv ==
  /\ TrafficTypeOK /\ probes \cap probed = {}
  /\ Fine(sched, Standing) /\ KnownOnce(sched)
  /\ registered \cap forsaken = {} /\ (announcing \/ registered = {})
  /\ GoodbyeHeard /\ OwedHasJob /\ GoneHasJob

Taken(s, X, ttl, q) == {r \in X : ~Refused(s, r, ttl, r \in Unique, q)}
JobFor(s, x, ttl, q) == Joined(s, x, ttl, x \in Unique, q)
Posters == Querier \cup {NoOne}

LEMMA NumbersKept ==
  /\ Full \in Nat /\ Full # 0 /\ 0 \in Ttls /\ Full \in Ttls
  /\ Serves(Full, Full)
  /\ \A t \in Ttls, w \in Ttls : Serves(t, w) => (t = 0) = (w = 0)
<1>1. Full \in Nat /\ Full # 0 /\ Full >= Full \div 2
  BY TrafficAssumption
<1> QED BY <1>1 DEF Ttls, Serves

IsJobFor(k, s, x, ttl, q) ==
  /\ k \in Job /\ k.rec = x /\ k.ttl = ttl /\ k.who \in {q, NoOne}
  /\ (\A j \in s.jobs : j.rec = x => (j.flush <=> x \in Unique)) => (k.flush <=> x \in Unique)
  /\ \A j \in s.jobs : j.rec = x => k.who \in {j.who, NoOne}
LEMMA JobForIs ==
  ASSUME NEW s \in Sched, NEW x \in Record, NEW ttl \in {0, Full}, NEW q \in Posters,
         NEW k, k = JobFor(s, x, ttl, q)
  PROVE  IsJobFor(k, s, x, ttl, q)
<1>1. \A j : j \in For(s.jobs, x) <=> j \in s.jobs /\ j.rec = x
  BY DEF For
<1>2. /\ k.rec = x /\ k.ttl = ttl
      /\ k.flush = (x \in Unique \/ \E j \in For(s.jobs, x) : j.flush)
      /\ k.who = IF \A j \in For(s.jobs, x) : j.who = q THEN q ELSE NoOne
      /\ k = [rec |-> k.rec, ttl |-> k.ttl, flush |-> k.flush, who |-> k.who]
  BY DEF JobFor, Joined
<1>3. k.flush \in BOOLEAN /\ k.who \in Posters
  BY <1>2 DEF Posters
<1>4. k \in Job
  BY <1>2, <1>3, NumbersKept DEF Job, Posters
<1>5. (\A j \in s.jobs : j.rec = x => (j.flush <=> x \in Unique)) => (k.flush <=> x \in Unique)
  BY <1>1, <1>2
<1>6. \A j \in s.jobs : j.rec = x => k.who \in {j.who, NoOne}
  BY <1>1, <1>2
<1> QED BY <1>2, <1>4, <1>5, <1>6 DEF IsJobFor

(* What a post does, record by record.                                           *)
Posted(s, t, T, ttl, q) ==
  /\ t \in Sched /\ t.suppressed = s.suppressed
  /\ \A h : h \in t.history <=> h \in s.history /\ h.rec \notin T
  /\ \A j : j \in t.jobs <=> \/ j \in s.jobs /\ j.rec \notin T
                             \/ \E r \in T : j = JobFor(s, r, ttl, q)
LEMMA PostIs ==
  ASSUME NEW s \in Sched, NEW X \in SUBSET Record, NEW ttl \in {0, Full}, NEW q \in Posters,
         NEW T, T = Taken(s, X, ttl, q), NEW t, t = Post(s, X, ttl, q)
  PROVE  Posted(s, t, T, ttl, q)
<1>1. PICK new : new = {JobFor(s, r, ttl, q) : r \in T}
  OBVIOUS
<1>2. t = [s EXCEPT !.history = {h \in @ : h.rec \notin T},
                    !.jobs = {j \in @ : j.rec \notin T} \cup new]
  BY <1>1 DEF Post, Taken, JobFor
<1>3. /\ t.suppressed = s.suppressed /\ t.history = {h \in s.history : h.rec \notin T}
      /\ t.jobs = {j \in s.jobs : j.rec \notin T} \cup new
      /\ t = [jobs |-> t.jobs, history |-> t.history, suppressed |-> t.suppressed]
  BY <1>2 DEF Sched
<1>4. \A j : j \in new <=> \E r \in T : j = JobFor(s, r, ttl, q)
  BY <1>1
<1>5. ASSUME NEW j \in new PROVE j \in Job
  <2>1. PICK r \in T : j = JobFor(s, r, ttl, q)
    BY <1>4
  <2>2. r \in Record
    BY DEF Taken
  <2> QED BY <2>1, <2>2, JobForIs DEF IsJobFor
<1>6. t \in Sched
  BY <1>3, <1>5 DEF Sched
<1> QED BY <1>3, <1>4, <1>6 DEF Posted

LEMMA NotTwice ==
  ASSUME NEW s, NEW R, Fine(s, R), NEW x \in Record, NEW ttl, NEW q,
         \E j \in s.jobs : j.rec = x
  PROVE  ~SentLately(s, x, ttl, x \in Unique)
BY DEF Fine, SentLately, For

LEMMA NobodyKnows ==
  ASSUME NEW s \in Sched, NEW x, NEW ttl
  PROVE  ~KnownTo(s, x, ttl, NoOne)
BY TrafficAssumption DEF Sched, Known, KnownTo, For

Kept(s, t, X, Q, ttl, q) ==
  /\ Fine(t, Q) /\ t.suppressed = s.suppressed
  /\ \A h \in t.history : h \in s.history
  /\ \A j \in s.jobs : \E k \in t.jobs : k.rec = j.rec /\ k.who \in {j.who, NoOne}
  /\ \A k \in t.jobs : k.rec \in X \/ k \in s.jobs
  /\ \A x \in X : ~Refused(s, x, ttl, x \in Unique, q) =>
       \E k \in t.jobs : k.rec = x /\ k.who \in {q, NoOne}
  /\ \A h \in s.history : Answer(h.rec, Q) = h => h \in t.history
  /\ \A h \in s.history : h \in t.history \/ \E k \in t.jobs : k.rec = h.rec
  /\ \A h \in t.history : h.rec \in X => Refused(s, h.rec, ttl, h.rec \in Unique, q)

(* What R is may change with a post that says so: to what is announced, or to    *)
(* what a goodbye is said for.                                                   *)
LEMMA PostFine ==
  ASSUME NEW s, NEW R, Fine(s, R), NEW Q, NEW X \in SUBSET Record, NEW ttl \in {0, Full}, NEW q \in Posters,
         NEW t, t = Post(s, X, ttl, q), q = NoOne \/ Q = R,
         \A x \in X : x \in Q <=> ttl = Full,
         \A x \in Record \ X : x \in Q <=> x \in R
  PROVE  Kept(s, t, X, Q, ttl, q)
<1>1. PICK T : T = Taken(s, X, ttl, q)
  OBVIOUS
<1>2. s \in Sched /\ T \subseteq X /\ X \subseteq Record
  BY <1>1 DEF Fine, Taken
<1>3. /\ t \in Sched /\ t.suppressed = s.suppressed
      /\ \A h : h \in t.history <=> h \in s.history /\ h.rec \notin T
      /\ \A j : j \in t.jobs <=> \/ j \in s.jobs /\ j.rec \notin T
                                 \/ \E r \in T : j = JobFor(s, r, ttl, q)
  <2>1. Posted(s, t, T, ttl, q)
    BY <1>1, <1>2, PostIs
  <2> QED BY <2>1 DEF Posted
<1>4. /\ \A j, k \in s.jobs : j.rec = k.rec => j = k
      /\ \A h, g \in s.history : h.rec = g.rec => h = g
      /\ \A j \in s.jobs : \A h \in s.history : j.rec # h.rec
      /\ \A j \in s.jobs : AsDone(j) = Answer(j.rec, R)
  BY DEF Fine
<1>5. \A j \in s.jobs : j.ttl = (IF j.rec \in R THEN Full ELSE 0) /\ (j.flush <=> j.rec \in Unique) /\ j \in Job /\ j.rec \in Record
  BY <1>2, <1>4 DEF AsDone, Answer, Sched, Job
<1>6. ASSUME NEW x \in T, NEW k, k = JobFor(s, x, ttl, q)
      PROVE  /\ k \in Job /\ k.rec = x /\ k.ttl = ttl /\ (k.flush <=> x \in Unique)
             /\ \A j \in s.jobs : j.rec = x => k.who \in {j.who, NoOne}
             /\ k.who \in {q, NoOne}
  <2>1. \A j \in s.jobs : j.rec = x => (j.flush <=> x \in Unique)
    BY <1>5
  <2>2. x \in Record
    BY <1>2
  <2>3. IsJobFor(k, s, x, ttl, q)
    BY <1>2, <1>6, <2>2, JobForIs
  <2> QED BY <1>6, <2>1, <2>2, <2>3 DEF IsJobFor
<1>7. \A j, k \in t.jobs : j.rec = k.rec => j = k
  BY <1>3, <1>4, <1>6
<1>8. \A h, g \in t.history : h.rec = g.rec => h = g
  BY <1>3, <1>4
<1>9. \A j \in t.jobs : \A h \in t.history : j.rec # h.rec
  BY <1>3, <1>4, <1>6
<1>10. ASSUME NEW k \in t.jobs PROVE AsDone(k) = Answer(k.rec, Q)
  <2>1. CASE k \in s.jobs /\ k.rec \notin T
    <3>1. k.ttl = (IF k.rec \in R THEN Full ELSE 0) /\ (k.flush <=> k.rec \in Unique) /\ k.rec \in Record
      BY <1>5, <2>1
    <3>2. k.rec \in Q <=> k.rec \in R
      <4>1. CASE k.rec \notin X
        BY <3>1, <4>1
      <4>2. CASE k.rec \in X
        <5>1. Refused(s, k.rec, ttl, k.rec \in Unique, q)
          BY <1>1, <2>1, <4>2 DEF Taken
        <5>2. ~SentLately(s, k.rec, ttl, k.rec \in Unique)
          BY <2>1, <3>1, NotTwice
        <5>3. q # NoOne
          BY <1>2, <5>1, <5>2, NobodyKnows DEF Refused
        <5> QED BY <5>3
      <4> QED BY <4>1, <4>2
    <3>3. k.flush = (k.rec \in Unique)
      BY <1>5, <2>1, <3>1 DEF Job
    <3> QED BY <3>1, <3>2, <3>3 DEF AsDone, Answer
  <2>2. CASE \E r \in T : k = JobFor(s, r, ttl, q)
    <3>1. k.rec \in T /\ k.ttl = ttl /\ (k.flush <=> k.rec \in Unique)
      BY <1>6, <2>2
    <3>2. k.rec \in Q <=> ttl = Full
      BY <1>2, <3>1
    <3>3. k.flush \in BOOLEAN
      BY <1>3 DEF Sched, Job
    <3>4. k.flush = (k.rec \in Unique)
      BY <3>1, <3>3
    <3> QED BY <3>1, <3>2, <3>4, NumbersKept DEF AsDone, Answer
  <2> QED BY <1>3, <2>1, <2>2
<1>11. \A j \in s.jobs : \E k \in t.jobs : k.rec = j.rec /\ k.who \in {j.who, NoOne}
  BY <1>3, <1>6
<1>12. \A k \in t.jobs : k.rec \in X \/ k \in s.jobs
  BY <1>2, <1>3, <1>6
<1>13. ASSUME NEW x \in X, ~Refused(s, x, ttl, x \in Unique, q)
       PROVE  \E k \in t.jobs : k.rec = x /\ k.who \in {q, NoOne}
  BY <1>1, <1>3, <1>6, <1>13 DEF Taken
<1>14. ASSUME NEW h \in s.history, Answer(h.rec, Q) = h PROVE h \in t.history
  <2>1. h.rec \in Record /\ h.flush = (h.rec \in Unique) /\ h.ttl = IF h.rec \in Q THEN Full ELSE 0
    BY <1>2, <1>14 DEF Sched, Done, Answer
  <2>2. CASE h.rec \notin X
    BY <1>2, <1>3, <2>2
  <2>3. CASE h.rec \in X
    <3>1. h.ttl = ttl
      BY <2>1, <2>3
    <3>2. Serves(ttl, ttl)
      BY NumbersKept DEF Serves
    <3>3. SentLately(s, h.rec, ttl, h.rec \in Unique)
      BY <2>1, <3>1, <3>2 DEF SentLately, For
    <3> QED BY <1>1, <1>3, <3>3 DEF Refused, Taken
  <2> QED BY <2>2, <2>3
<1>15. \A h \in s.history : h \in t.history \/ \E k \in t.jobs : k.rec = h.rec
  BY <1>3, <1>6
<1>17. \A h \in t.history : h.rec \in X => Refused(s, h.rec, ttl, h.rec \in Unique, q)
  BY <1>1, <1>3 DEF Taken
<1>16. Fine(t, Q)
  BY <1>3, <1>7, <1>8, <1>9, <1>10 DEF Fine
<1> QED BY <1>3, <1>11, <1>12, <1>13, <1>14, <1>15, <1>16, <1>17 DEF Kept

(* What posts for published records and packets that are sent make of a state:   *)
(* no job is lost but by being sent, and what was sent is not sent again.        *)
Present(s, x) == (\E j \in s.jobs : j.rec = x) \/ \E h \in s.history : h.rec = x
Follows(s, t, R) ==
  /\ t.suppressed = s.suppressed
  /\ \A j \in s.jobs : AsDone(j) \in t.history \/ \E k \in t.jobs : k.rec = j.rec /\ k.who \in {j.who, NoOne}
  /\ \A h \in s.history : Answer(h.rec, R) = h => h \in t.history
  /\ \A x \in Record : Present(s, x) => Present(t, x)
  /\ \A h \in t.history : h \in s.history \/ Answer(h.rec, R) = h

LEMMA FollowsItself ==
  ASSUME NEW s, NEW R, Fine(s, R)
  PROVE  Follows(s, s, R)
BY DEF Follows

LEMMA FollowsOn ==
  ASSUME NEW s, NEW t, NEW u, NEW R, Fine(s, R), Fine(t, R), Follows(s, t, R), Follows(t, u, R)
  PROVE  Follows(s, u, R)
<1>1. \A j \in s.jobs : AsDone(j).rec = j.rec /\ AsDone(j) = Answer(j.rec, R)
  BY DEF Fine, AsDone
<1>2. u.suppressed = s.suppressed
  BY DEF Follows
<1>3. ASSUME NEW j \in s.jobs
      PROVE  AsDone(j) \in u.history \/ \E k \in u.jobs : k.rec = j.rec /\ k.who \in {j.who, NoOne}
  <2>1. CASE AsDone(j) \in t.history
    BY <1>1, <2>1 DEF Follows
  <2>2. CASE AsDone(j) \notin t.history
    <3>1. PICK k \in t.jobs : k.rec = j.rec /\ k.who \in {j.who, NoOne}
      BY <2>2 DEF Follows
    <3>2. AsDone(k) \in u.history \/ \E l \in u.jobs : l.rec = k.rec /\ l.who \in {k.who, NoOne}
      BY <3>1 DEF Follows
    <3>3. AsDone(k) = AsDone(j)
      BY <1>1, <3>1 DEF Fine
    <3> QED BY <3>1, <3>2, <3>3
  <2> QED BY <2>1, <2>2
<1>4. \A h \in s.history : Answer(h.rec, R) = h => h \in u.history
  BY DEF Follows
<1>5. \A x \in Record : Present(s, x) => Present(u, x)
  BY DEF Follows
<1>6. \A h \in u.history : h \in s.history \/ Answer(h.rec, R) = h
  BY DEF Follows
<1> QED BY <1>2, <1>3, <1>4, <1>5, <1>6 DEF Follows

LEMMA PostFollows ==
  ASSUME NEW s, NEW R \in SUBSET Record, Fine(s, R), NEW X \in SUBSET R, NEW q \in Posters,
         NEW t, t = Post(s, X, Full, q)
  PROVE  /\ Fine(t, R) /\ Follows(s, t, R)
         /\ \A x \in X : ~Refused(s, x, Full, x \in Unique, q) =>
              \E k \in t.jobs : k.rec = x /\ k.who \in {q, NoOne}
<1>1. Kept(s, t, X, R, Full, q)
  <2>1. /\ X \in SUBSET Record /\ Full \in {0, Full}
        /\ \A x \in X : x \in R <=> Full = Full
        /\ \A x \in Record \ X : x \in R <=> x \in R
    OBVIOUS
  <2> QED BY <2>1, PostFine
<1>2. /\ Fine(t, R) /\ t.suppressed = s.suppressed
      /\ \A h \in t.history : h \in s.history
      /\ \A j \in s.jobs : \E k \in t.jobs : k.rec = j.rec /\ k.who \in {j.who, NoOne}
      /\ \A h \in s.history : Answer(h.rec, R) = h => h \in t.history
      /\ \A h \in s.history : h \in t.history \/ \E k \in t.jobs : k.rec = h.rec
  BY <1>1 DEF Kept
<1>3. \A x \in Record : Present(s, x) => Present(t, x)
  BY <1>2 DEF Present
<1>4. Follows(s, t, R)
  BY <1>2, <1>3 DEF Follows
<1> QED BY <1>1, <1>2, <1>4 DEF Kept

LEMMA DoneFine ==
  ASSUME NEW s, NEW R, Fine(s, R), NEW D \in SUBSET s.jobs, NEW t, t = MarkDone(s, D)
  PROVE  /\ Fine(t, R) /\ Follows(s, t, R) /\ t.jobs = s.jobs \ D
         /\ \A h : h \in t.history <=> h \in s.history \/ \E j \in D : h = AsDone(j)
<1>1. PICK new : new = {[rec |-> j.rec, ttl |-> j.ttl, flush |-> j.flush] : j \in D}
  OBVIOUS
<1>2. \A h : h \in new <=> \E j \in D : h = AsDone(j)
  BY <1>1 DEF AsDone
<1>3. s \in Sched
  BY DEF Fine
<1>4. t = [s EXCEPT !.jobs = @ \ D, !.history = @ \cup new]
  BY <1>1 DEF MarkDone
<1>5. /\ t.suppressed = s.suppressed /\ t.jobs = s.jobs \ D /\ t.history = s.history \cup new
      /\ t = [jobs |-> t.jobs, history |-> t.history, suppressed |-> t.suppressed]
  BY <1>3, <1>4 DEF Sched
<1>6. \A j \in s.jobs : AsDone(j) \in Done /\ AsDone(j).rec = j.rec
  BY <1>3 DEF Sched, Job, Done, AsDone
<1>7. t \in Sched
  BY <1>2, <1>3, <1>5, <1>6 DEF Sched
<1>8. /\ \A j, k \in s.jobs : j.rec = k.rec => j = k
      /\ \A h, g \in s.history : h.rec = g.rec => h = g
      /\ \A j \in s.jobs : \A h \in s.history : j.rec # h.rec
      /\ \A j \in s.jobs : AsDone(j) = Answer(j.rec, R)
  BY DEF Fine
<1>9. \A h, g \in t.history : h.rec = g.rec => h = g
  BY <1>2, <1>5, <1>6, <1>8
<1>10. \A j \in t.jobs : \A h \in t.history : j.rec # h.rec
  BY <1>2, <1>5, <1>6, <1>8
<1>11. Fine(t, R)
  BY <1>5, <1>7, <1>8, <1>9, <1>10 DEF Fine
<1>12. \A j \in s.jobs : AsDone(j) \in t.history \/ j \in t.jobs
  BY <1>2, <1>5
<1>13. \A x \in Record : Present(s, x) => Present(t, x)
  BY <1>2, <1>5, <1>6, <1>12 DEF Present
<1>14. \A h \in t.history : h \in s.history \/ Answer(h.rec, R) = h
  BY <1>2, <1>5, <1>6, <1>8
<1>15. Follows(s, t, R)
  BY <1>5, <1>12, <1>13, <1>14 DEF Follows
<1> QED BY <1>2, <1>5, <1>11, <1>15

LEMMA WithAuxFine ==
  ASSUME NEW s, NEW R \in SUBSET Record, Fine(s, R), NEW P \in SUBSET R,
         NEW j \in s.jobs, NEW t, t = WithAux(s, j, P)
  PROVE  /\ Fine(t, R) /\ Follows(s, t, R)
         /\ P = {} => t.jobs = {k \in s.jobs : k.rec # j.rec}
         /\ \A x \in Aux[j.rec] \cap P : Present(t, x) \/ KnownTo(s, x, Full, j.who)
<1>1. j.rec \in Record /\ j.who \in Posters /\ Aux[j.rec] \cap P \in SUBSET R /\ s \in Sched
  BY DEF Fine, Sched, Job, Posters
<1>2. PICK X : X = Aux[j.rec] \cap P
  OBVIOUS
<1>3. PICK u : u = Post(s, X, Full, j.who)
  OBVIOUS
<1>4. /\ Fine(u, R) /\ Follows(s, u, R)
      /\ \A x \in X : ~Refused(s, x, Full, x \in Unique, j.who) =>
           \E k \in u.jobs : k.rec = x /\ k.who \in {j.who, NoOne}
  BY <1>1, <1>2, <1>3, PostFollows
<1>5. For(u.jobs, j.rec) \in SUBSET u.jobs /\ t = MarkDone(u, For(u.jobs, j.rec))
  BY <1>2, <1>3 DEF For, WithAux
<1>6. Fine(t, R) /\ Follows(u, t, R) /\ t.jobs = u.jobs \ For(u.jobs, j.rec)
  BY <1>4, <1>5, DoneFine
<1>7. Follows(s, t, R)
  BY <1>4, <1>6, FollowsOn
<1>8. ASSUME P = {} PROVE t.jobs = {k \in s.jobs : k.rec # j.rec}
  <2>1. Taken(s, X, Full, j.who) = {} /\ X \in SUBSET Record
    BY <1>2, <1>8 DEF Taken
  <2>2. Posted(s, u, {}, Full, j.who)
    BY <1>1, <1>3, <2>1, PostIs
  <2>3. u.jobs = s.jobs
    BY <2>2 DEF Posted
  <2> QED BY <1>6, <2>3 DEF For
<1>9. ASSUME NEW x \in X PROVE Present(t, x) \/ KnownTo(s, x, Full, j.who)
  <2>1. CASE Refused(s, x, Full, x \in Unique, j.who)
    <3>1. SentLately(s, x, Full, x \in Unique) => Present(s, x)
      BY DEF SentLately, Present, For
    <3> QED BY <1>2, <1>7, <2>1, <3>1 DEF Refused, Follows
  <2>2. CASE ~Refused(s, x, Full, x \in Unique, j.who)
    <3>1. Present(u, x)
      BY <1>4, <2>2 DEF Present
    <3> QED BY <1>2, <1>6, <3>1 DEF Follows
  <2> QED BY <2>1, <2>2
<1> QED BY <1>2, <1>6, <1>7, <1>8, <1>9

(* The three loops of the module are functions defined from one number to the    *)
(* next: that there is such a function, and what holds of all its values, by the *)
(* least number for which it would not.                                          *)
LEMMA Least ==
  ASSUME NEW T \in SUBSET Nat, T # {}
  PROVE  \E n \in T : \A m \in T : n <= m
<1>1. IsWellFoundedOn(OpToRel(<, Nat), Nat)
  BY NatLessThanWellFounded
<1>2. \A m, n \in Nat : m < n => <<m, n>> \in OpToRel(<, Nat)
  BY DEF OpToRel
<1> HIDE DEF OpToRel
<1>3. \A R : IsWellFoundedOn(R, Nat) => \E n \in T : \A m \in T : ~ (<<m, n>> \in R)
  BY WFMin, Zenon
<1>4. PICK n \in T : \A m \in T : ~ (<<m, n>> \in OpToRel(<, Nat))
  BY <1>1, <1>3, Zenon
<1>5. \A m \in T : m \in Nat /\ n \in Nat
  OBVIOUS
<1>6. \A m \in T : ~ (m < n)
  BY <1>2, <1>4, <1>5, Zenon
<1> QED BY <1>5, <1>6

LEMMA AllAlong ==
  ASSUME NEW b \in Nat, NEW N \in Nat, b <= N, NEW T \in SUBSET (b .. N), b \notin T,
         \A n \in b .. N : n # b /\ n - 1 \notin T => n \notin T
  PROVE  T = {}
<1>1. SUFFICES ASSUME T # {} PROVE FALSE
  OBVIOUS
<1>2. T \in SUBSET Nat
  OBVIOUS
<1>3. PICK n \in T : \A m \in T : n <= m
  BY <1>1, <1>2, Least
<1>4. n \in b .. N /\ n # b /\ n - 1 \in b .. N /\ n - 1 \notin T
  BY <1>3
<1> QED BY <1>4

Runs(f, b, N, a, g) == \A n \in b .. N : f[n] = IF n = b THEN a ELSE g[f[n-1]]
LEMMA Iterates ==
  ASSUME NEW b \in Nat, NEW N \in Nat, b <= N, NEW S, NEW a \in S, NEW g \in [S -> S]
  PROVE  \E f \in [b .. N -> S] : Runs(f, b, N, a, g)
<1> USE DEF Runs
<1> DEFINE Is(f, m) == f \in [b .. m -> S] /\ Runs(f, b, m, a, g)
           T == {m \in b .. N : ~\E f : Is(f, m)}
<1>1. b \notin T
  <2>1. b .. b = {b}
    OBVIOUS
  <2>2. PICK f : f = [n \in b .. b |-> a]
    OBVIOUS
  <2>3. Is(f, b)
    BY <2>1, <2>2
  <2> QED BY <2>3
<1>2. ASSUME NEW m \in b .. N, m # b, m - 1 \notin T PROVE m \notin T
  <2>1. m - 1 \in b .. N
    BY <1>2
  <2>2. PICK f : Is(f, m - 1)
    BY <1>2, <2>1
  <2>3. PICK h : h = [n \in b .. m |-> IF n = m THEN g[f[m-1]] ELSE f[n]]
    OBVIOUS
  <2>4. f[m-1] \in S /\ g[f[m-1]] \in S
    BY <1>2, <2>1, <2>2
  <2>5. h \in [b .. m -> S]
    BY <1>2, <2>2, <2>3, <2>4
  <2>6. ASSUME NEW n \in b .. m PROVE h[n] = IF n = b THEN a ELSE g[h[n-1]]
    <3>1. CASE n = m
      BY <1>2, <2>1, <2>3, <3>1
    <3>2. CASE n # m
      <4>1. n \in b .. m - 1 /\ h[n] = f[n]
        BY <1>2, <2>3, <3>2
      <4>2. n # b => n - 1 \in b .. m /\ n - 1 # m /\ h[n-1] = f[n-1]
        BY <1>2, <2>3, <3>2
      <4>3. f[n] = IF n = b THEN a ELSE g[f[n-1]]
        BY <2>2, <4>1
      <4> QED BY <4>1, <4>2, <4>3
    <3> QED BY <3>1, <3>2
  <2>7. Is(h, m)
    BY <2>5, <2>6
  <2> QED BY <2>7
<1> HIDE DEF Is
<1>3. T = {}
  <2>1. T \in SUBSET (b .. N)
    OBVIOUS
  <2> HIDE DEF T
  <2> QED BY <1>1, <1>2, <2>1, AllAlong
<1>4. \E f : Is(f, N)
  BY <1>3
<1> QED BY <1>4 DEF Is

LEMMA LevelIs ==
  ASSUME NEW s, NEW list \in SUBSET Record, list \subseteq registered, NEW q, NEW unicast
  PROVE  list \subseteq Level(s, list, q, unicast) /\ Level(s, list, q, unicast) \subseteq registered
<1>1. PICK N : N = Cardinality(Record)
  OBVIOUS
<1>2. N \in Nat /\ 0 <= N
  BY <1>1, TrafficAssumption, FS_CardinalityType
<1> DEFINE D(X) == X \cup UNION {Aux[r] \cap registered : r \in
                     {x \in X : unicast /\ Refused(s, x, Full, x \in Unique, q)}}
           S == {X \in SUBSET registered : list \subseteq X}
<1>3. PICK g : g = [X \in S |-> D(X)]
  OBVIOUS
<1>4. \A X \in S : D(X) \in S
  OBVIOUS
<1>5. list \in S
  OBVIOUS
<1> HIDE DEF D, S
<1>6. PICK h \in [0 .. N -> S] : Runs(h, 0, N, list, g)
  <2>1. g \in [S -> S]
    BY <1>3, <1>4
  <2> QED BY <1>2, <1>5, <2>1, Iterates
<1>7. h = [n \in 0 .. N |-> IF n = 0 THEN list ELSE D(h[n-1])]
  <2>1. ASSUME NEW n \in 0 .. N PROVE h[n] = IF n = 0 THEN list ELSE D(h[n-1])
    <3>1. n # 0 => n - 1 \in 0 .. N /\ h[n-1] \in S
      BY <1>2, <1>6
    <3> QED BY <1>3, <1>6, <3>1 DEF Runs
  <2> QED BY <1>6, <2>1
<1> DEFINE f[n \in 0 .. N] == IF n = 0 THEN list ELSE D(f[n-1])
<1>8. f = [n \in 0 .. N |-> IF n = 0 THEN list ELSE D(f[n-1])]
  BY <1>7
<1>9. Level(s, list, q, unicast) = f[N]
  BY <1>1 DEF Level, D
<1> HIDE DEF f
<1>10. \A n \in 0 .. N : f[n] = IF n = 0 THEN list ELSE D(f[n-1])
  BY <1>8
<1> DEFINE T == {n \in 0 .. N : f[n] \notin S}
<1>11. 0 \notin T
  BY <1>2, <1>5, <1>10
<1>12. ASSUME NEW n \in 0 .. N, n # 0, n - 1 \notin T PROVE n \notin T
  <2>1. n - 1 \in 0 .. N /\ f[n-1] \in S
    BY <1>2, <1>12
  <2> QED BY <1>4, <1>10, <1>12, <2>1
<1>13. T = {}
  <2>1. T \in SUBSET (0 .. N)
    OBVIOUS
  <2> HIDE DEF T
  <2> QED BY <1>2, <1>11, <1>12, <2>1, AllAlong
<1>14. f[N] \in S
  BY <1>2, <1>13
<1> QED BY <1>9, <1>14 DEF S

LEMMA PacketsFollow ==
  ASSUME NEW s, NEW R \in SUBSET Record, registered \subseteq R, Fine(s, R), NEW j \in s.jobs,
         NEW first, first = WithAux(s, j, registered), NEW t \in Packets(s, j)
  PROVE  Fine(t, R) /\ Follows(first, t, R)
<1>1. Room \in Nat /\ 1 <= Room
  BY TrafficAssumption
<1>2. Fine(first, R)
  BY WithAuxFine
<1> DEFINE After(u) == IF u.jobs = {} THEN {u} ELSE {WithAux(u, k, registered) : k \in u.jobs}
           Good == {u \in Sched : Fine(u, R) /\ Follows(first, u, R)}
           S == SUBSET Good
           D(U) == UNION {After(u) : u \in U}
<1>3. ASSUME NEW u \in Good, NEW v \in After(u) PROVE v \in Good
  <2>1. CASE u.jobs = {}
    BY <1>3, <2>1
  <2>2. CASE u.jobs # {}
    <3>1. PICK k \in u.jobs : v = WithAux(u, k, registered)
      BY <1>3, <2>2
    <3>2. Fine(v, R) /\ Follows(u, v, R)
      BY <1>3, <3>1, WithAuxFine
    <3>3. Follows(first, v, R)
      BY <1>2, <1>3, <3>2, FollowsOn
    <3> QED BY <3>2, <3>3 DEF Fine
  <2> QED BY <2>1, <2>2
<1>4. {first} \in S
  BY <1>2, FollowsItself DEF Fine
<1> HIDE DEF After, Good
<1>5. \A U \in S : D(U) \in S
  BY <1>3
<1>6. PICK g : g = [U \in S |-> D(U)]
  OBVIOUS
<1> HIDE DEF S, D
<1>7. PICK h \in [1 .. Room -> S] : Runs(h, 1, Room, {first}, g)
  <2>1. g \in [S -> S]
    BY <1>5, <1>6
  <2> QED BY <1>1, <1>4, <2>1, Iterates
<1>8. h = [n \in 1 .. Room |-> IF n = 1 THEN {first} ELSE D(h[n-1])]
  <2>1. ASSUME NEW n \in 1 .. Room PROVE h[n] = IF n = 1 THEN {first} ELSE D(h[n-1])
    <3>1. n # 1 => n - 1 \in 1 .. Room /\ h[n-1] \in S
      BY <1>1, <1>7
    <3> QED BY <1>6, <1>7, <3>1 DEF Runs
  <2> QED BY <1>7, <2>1
<1> DEFINE f[n \in 1 .. Room] == IF n = 1 THEN {first} ELSE D(f[n-1])
<1>9. f = [n \in 1 .. Room |-> IF n = 1 THEN {first} ELSE D(f[n-1])]
  BY <1>8
<1>10. Packets(s, j) = f[Room]
  BY DEF Packets, D, After
<1> HIDE DEF f
<1>11. \A n \in 1 .. Room : f[n] = IF n = 1 THEN {first} ELSE D(f[n-1])
  BY <1>9
<1> DEFINE T == {n \in 1 .. Room : f[n] \notin S}
<1>12. 1 \notin T
  BY <1>1, <1>4, <1>11
<1>13. ASSUME NEW n \in 1 .. Room, n # 1, n - 1 \notin T PROVE n \notin T
  <2>1. n - 1 \in 1 .. Room /\ f[n-1] \in S
    BY <1>1, <1>13
  <2> QED BY <1>5, <1>11, <1>13, <2>1
<1>14. T = {}
  <2>1. T \in SUBSET (1 .. Room)
    OBVIOUS
  <2> HIDE DEF T
  <2> QED BY <1>1, <1>12, <1>13, <2>1, AllAlong
<1>15. f[Room] \in S
  BY <1>1, <1>14
<1>16. t \in Good
  BY <1>10, <1>15 DEF S
<1> QED BY <1>16 DEF Good

(* The last packets: each job goes, and there are no more of them than records.  *)
LEMMA ForceSendsAll ==
  ASSUME NEW s, NEW R \in SUBSET Record, Fine(s, R), NEW t, t = Forced(s)
  PROVE  Fine(t, R) /\ Follows(s, t, R) /\ t.jobs = {}
<1>1. PICK N : N = Cardinality(Record)
  OBVIOUS
<1>2. N \in Nat /\ 0 <= N
  BY <1>1, TrafficAssumption, FS_CardinalityType
<1> DEFINE D(u) == IF u.jobs = {} THEN u ELSE WithAux(u, CHOOSE j \in u.jobs : TRUE, {})
           S == {u \in Sched : Fine(u, R) /\ Follows(s, u, R)}
           Recs(u) == {j.rec : j \in u.jobs}
<1>3. ASSUME NEW u \in S
      PROVE  /\ D(u) \in S /\ Recs(u) \in SUBSET Record
             /\ u.jobs # {} => \E x \in Recs(u) : Recs(D(u)) = Recs(u) \ {x}
  <2>1. Recs(u) \in SUBSET Record
    BY DEF Sched, Job
  <2>2. CASE u.jobs = {}
    BY <2>1, <2>2
  <2>3. CASE u.jobs # {}
    <3>1. PICK j \in u.jobs : j = CHOOSE k \in u.jobs : TRUE
      BY <2>3
    <3>2. PICK v : v = D(u)
      OBVIOUS
    <3>3. v = WithAux(u, j, {})
      BY <2>3, <3>1, <3>2
    <3>4. Fine(v, R) /\ Follows(u, v, R) /\ v.jobs = {k \in u.jobs : k.rec # j.rec}
      <4>1. PICK P \in SUBSET R : P = {}
        OBVIOUS
      <4>2. Fine(u, R) /\ v = WithAux(u, j, P)
        BY <1>3, <3>3, <4>1
      <4>3. Fine(v, R) /\ Follows(u, v, R) /\ (P = {} => v.jobs = {k \in u.jobs : k.rec # j.rec})
        BY <4>2, WithAuxFine
      <4> QED BY <4>1, <4>3
    <3>5. Follows(s, v, R)
      BY <1>3, <3>4, FollowsOn
    <3>6. Recs(v) = Recs(u) \ {j.rec}
      BY <3>4
    <3>7. v \in S
      BY <3>4, <3>5 DEF Fine
    <3>8. j.rec \in Recs(u)
      OBVIOUS
    <3> HIDE DEF D, S, Recs
    <3> QED BY <2>1, <3>2, <3>6, <3>7, <3>8
  <2> QED BY <2>2, <2>3
<1>4. s \in S
  BY FollowsItself DEF Fine
<1> HIDE DEF D, S
<1>5. PICK g : g = [u \in S |-> D(u)]
  OBVIOUS
<1>6. PICK h \in [0 .. N -> S] : Runs(h, 0, N, s, g)
  <2>1. g \in [S -> S]
    BY <1>3, <1>5
  <2> QED BY <1>2, <1>4, <2>1, Iterates
<1>7. h = [n \in 0 .. N |-> IF n = 0 THEN s ELSE D(h[n-1])]
  <2>1. ASSUME NEW n \in 0 .. N PROVE h[n] = IF n = 0 THEN s ELSE D(h[n-1])
    <3>1. n # 0 => n - 1 \in 0 .. N /\ h[n-1] \in S
      BY <1>2, <1>6
    <3> QED BY <1>5, <1>6, <3>1 DEF Runs
  <2> QED BY <1>6, <2>1
<1> DEFINE f[n \in 0 .. N] == IF n = 0 THEN s ELSE D(f[n-1])
<1>8. f = [n \in 0 .. N |-> IF n = 0 THEN s ELSE D(f[n-1])]
  BY <1>7
<1>9. t = f[N]
  BY <1>1 DEF Forced, D
<1> HIDE DEF f
<1>10. \A n \in 0 .. N : f[n] = IF n = 0 THEN s ELSE D(f[n-1])
  BY <1>8
<1> DEFINE Few(u, n) == Cardinality(Recs(u)) + n <= N
           T == {n \in 0 .. N : ~(f[n] \in S /\ Few(f[n], n))}
<1>11. \A X \in SUBSET Record : IsFiniteSet(X) /\ Cardinality(X) \in Nat /\ Cardinality(X) <= N
  BY <1>1, TrafficAssumption, FS_Subset, FS_CardinalityType
<1>12. 0 \notin T
  <2>1. f[0] = s /\ 0 \in 0 .. N
    BY <1>2, <1>10
  <2>2. Recs(s) \in SUBSET Record
    BY <1>3, <1>4
  <2>3. Cardinality(Recs(s)) \in Nat /\ Cardinality(Recs(s)) <= N
    BY <1>11, <2>2
  <2>4. Cardinality(Recs(s)) + 0 <= N
    BY <1>2, <2>3
  <2> QED BY <1>4, <2>1, <2>4
<1>13. ASSUME NEW n \in 0 .. N, n # 0, n - 1 \notin T PROVE n \notin T
  <2>1. PICK u : u = f[n-1]
    OBVIOUS
  <2>2. n - 1 \in 0 .. N /\ u \in S /\ Cardinality(Recs(u)) + (n - 1) <= N
    BY <1>2, <1>13, <2>1
  <2>3. f[n] = D(u) /\ D(u) \in S
    BY <1>3, <1>10, <1>13, <2>1, <2>2
  <2>4. CASE u.jobs = {}
    <3>1. D(u) = u /\ Recs(u) = {}
      BY <2>4 DEF D
    <3>2. Cardinality(Recs(u)) = 0
      BY <3>1, FS_EmptySet
    <3>3. Few(u, n)
      BY <1>2, <1>13, <3>2
    <3> QED BY <2>2, <2>3, <3>1, <3>3
  <2>5. CASE u.jobs # {}
    <3>1. PICK x \in Recs(u) : Recs(D(u)) = Recs(u) \ {x}
      BY <1>3, <2>2, <2>5
    <3>2. Recs(u) \in SUBSET Record
      BY <1>3, <2>2
    <3> HIDE DEF Recs
    <3>3. IsFiniteSet(Recs(u)) /\ Cardinality(Recs(u)) \in Nat
      BY <1>11, <3>2
    <3>4. Cardinality(Recs(D(u))) = Cardinality(Recs(u)) - 1
      BY <3>1, <3>3, FS_RemoveElement
    <3>5. Few(D(u), n)
      BY <1>2, <1>13, <2>2, <3>3, <3>4
    <3> QED BY <2>3, <3>5
  <2> QED BY <2>4, <2>5
<1>14. T = {}
  <2>1. T \in SUBSET (0 .. N)
    OBVIOUS
  <2> HIDE DEF T
  <2> QED BY <1>2, <1>12, <1>13, <2>1, AllAlong
<1>15. t \in S /\ Cardinality(Recs(t)) + N <= N
  BY <1>2, <1>9, <1>14
<1>16. t.jobs = {}
  <2>1. Recs(t) \in SUBSET Record
    BY <1>3, <1>15
  <2>2. IsFiniteSet(Recs(t)) /\ Cardinality(Recs(t)) \in Nat
    BY <1>11, <2>1
  <2>3. Cardinality(Recs(t)) = 0
    BY <1>2, <1>15, <2>2
  <2>4. Recs(t) = {}
    BY <2>2, <2>3, FS_EmptySet
  <2> QED BY <2>4
<1> QED BY <1>15, <1>16 DEF S

(* What was sent between two states is true of its record, and whoever's job is  *)
(* gone without having been sent does not exist.                                 *)
LEMMA SentIs ==
  ASSUME NEW s, NEW t, NEW R, Fine(s, R), Fine(t, R), Follows(s, t, R)
  PROVE  /\ \A h : h \in SentBetween(s, t) <=> h \in t.history /\ h \notin s.history
         /\ \A h \in SentBetween(s, t) : h.ttl = (IF h.rec \in R THEN Full ELSE 0)
         /\ \A h, g \in SentBetween(s, t) : h.rec = g.rec => h = g
         /\ \A j \in s.jobs : \/ \E h \in SentBetween(s, t) : h.rec = j.rec
                              \/ \E k \in t.jobs : k.rec = j.rec /\ k.who \in {j.who, NoOne}
<1>1. \A h : h \in SentBetween(s, t) <=> h \in t.history /\ h \notin s.history
  BY DEF SentBetween, For
<1>2. \A h \in SentBetween(s, t) : h.ttl = (IF h.rec \in R THEN Full ELSE 0)
  BY <1>1 DEF Follows, Answer
<1>3. \A h, g \in SentBetween(s, t) : h.rec = g.rec => h = g
  BY <1>1 DEF Fine
<1>4. ASSUME NEW j \in s.jobs, AsDone(j) \in t.history
      PROVE  \E h \in SentBetween(s, t) : h.rec = j.rec
  <2>1. AsDone(j).rec = j.rec
    BY DEF AsDone
  <2>2. AsDone(j) \notin s.history
    BY <2>1 DEF Fine
  <2> QED BY <1>1, <1>4, <2>1, <2>2
<1> QED BY <1>1, <1>2, <1>3, <1>4 DEF Follows

LEMMA TrafficStarts == TrafficInit => TrafficInv
<1> SUFFICES ASSUME TrafficInit PROVE TrafficInv
  OBVIOUS
<1>1. sched.jobs = {} /\ sched.history = {} /\ sched.suppressed = {} /\ sched = [jobs |-> {}, history |-> {}, suppressed |-> {}]
  BY DEF TrafficInit, Nothing
<1>2. sched \in Sched
  BY <1>1 DEF Sched
<1>3. Fine(sched, Standing) /\ KnownOnce(sched)
  BY <1>1, <1>2 DEF Fine, KnownOnce
<1> QED BY <1>1, <1>3 DEF TrafficInv, TrafficInit, TrafficTypeOK, GoodbyeHeard, OwedHasJob, GoneHasJob, Standing

(* The parts of the invariant as a step finds and leaves them.                   *)
LEMMA TrafficInvIs ==
  TrafficInv <=>
    /\ announcing \in BOOLEAN /\ registered \subseteq Record /\ forsaken \subseteq Record /\ Standing \subseteq Record
    /\ registered \cap forsaken = {} /\ probes \subseteq Record /\ probed \subseteq Record
    /\ owed \subseteq Record \X Querier /\ said \in [Record -> BOOLEAN] /\ probes \cap probed = {}
    /\ Fine(sched, Standing) /\ KnownOnce(sched) /\ (announcing \/ registered = {})
    /\ GoodbyeHeard /\ OwedHasJob /\ GoneHasJob
BY DEF TrafficInv, TrafficTypeOK, Standing, Fine, Sched

LEMMA HearQueryKeeps ==
  ASSUME TrafficInv, NEW q \in Querier, NEW k, NEW known \in SUBSET Record, NEW ttl \in {Low, Full},
         NEW unicast \in BOOLEAN, HearQuery(q, k, known, ttl, unicast)
  PROVE  TrafficInv'
<1>1. PICK s1 : s1 = Suppress(sched, known, ttl, q)
  OBVIOUS
<1>2. PICK D : D = Silenced(sched, known, ttl, q)
  OBVIOUS
<1>3. PICK list : list = Listed(k, known)
  OBVIOUS
<1>4. PICK X : X = Level(s1, list, q, unicast)
  OBVIOUS
<1>5. PICK new : new = {[rec |-> r, ttl |-> ttl, who |-> q] : r \in known}
  OBVIOUS
<1>6. /\ sched \in Sched /\ registered \subseteq Standing /\ Standing \subseteq Record /\ ttl \in Ttls /\ ttl # 0 /\ q \in Posters /\ q # NoOne
      /\ Fine(sched, Standing) /\ KnownOnce(sched)
  BY TrafficInvIs, TrafficAssumption DEF Fine, Ttls, Posters, Standing
<1>7. \A j : j \in D <=> j \in sched.jobs /\ j.rec \in known /\ j.who = q /\ Serves(ttl, j.ttl)
  BY <1>2 DEF Silenced
<1>8. s1 = [sched EXCEPT !.jobs = @ \ D,
                         !.suppressed = {l \in @ : ~(l.rec \in known /\ l.who = q)} \cup new]
  BY <1>1, <1>2, <1>5 DEF Suppress
<1>9. /\ s1.jobs = sched.jobs \ D /\ s1.history = sched.history
      /\ s1.suppressed = {l \in sched.suppressed : ~(l.rec \in known /\ l.who = q)} \cup new
      /\ s1 = [jobs |-> s1.jobs, history |-> s1.history, suppressed |-> s1.suppressed]
  BY <1>6, <1>8 DEF Sched
<1>10. \A l : l \in new <=> \E r \in known : l = [rec |-> r, ttl |-> ttl, who |-> q]
  BY <1>5
<1>11. s1 \in Sched
  <2>1. new \subseteq Known
    BY <1>6, <1>10 DEF Known
  <2> QED BY <1>6, <1>9, <2>1 DEF Sched
<1>12. Fine(s1, Standing)
  BY <1>6, <1>9, <1>11 DEF Fine
<1>13. KnownOnce(s1)
  BY <1>6, <1>9, <1>10 DEF KnownOnce
<1>14. list \subseteq registered /\ list \in SUBSET Record
  BY <1>3, <1>6 DEF Listed, Matching
<1>15. list \subseteq X /\ X \subseteq registered
  BY <1>4, <1>14, LevelIs
<1>16. /\ sched' = Post(s1, X, Full, q)
       /\ owed' = (owed \ ({j.rec : j \in D} \X {q}))
                  \cup ({r \in list : ~Refused(s1, r, Full, r \in Unique, q)} \X {q})
       /\ UNCHANGED <<announcing, registered, forsaken, probes, probed, said>> /\ Standing' = Standing
  BY <1>1, <1>2, <1>3, <1>4 DEF HearQuery, Generate, Standing
<1>17. Kept(s1, sched', X, Standing, Full, q)
  <2>1. /\ X \in SUBSET Record /\ Full \in {0, Full}
        /\ \A x \in X : x \in Standing <=> Full = Full
        /\ \A x \in Record \ X : x \in Standing <=> x \in Standing
    BY <1>6, <1>15
  <2> QED BY <1>6, <1>12, <1>16, <2>1, PostFine
<1>18. Fine(sched', Standing') /\ KnownOnce(sched')
  BY <1>13, <1>16, <1>17 DEF Kept, KnownOnce
<1>19. GoodbyeHeard'
  BY <1>9, <1>16, <1>17, TrafficInvIs DEF Kept, GoodbyeHeard
<1>20. ASSUME NEW d \in owed'
       PROVE  d[1] \in Standing' /\ \E j \in sched'.jobs : j.rec = d[1] /\ j.who \in {d[2], NoOne}
  <2>1. CASE d \in owed \ ({j.rec : j \in D} \X {q})
    <3>1. d[1] \in Standing /\ d = <<d[1], d[2]>> /\ d[2] \in Querier
      BY <2>1, TrafficInvIs DEF OwedHasJob
    <3>2. PICK j \in sched.jobs : j.rec = d[1] /\ j.who \in {d[2], NoOne}
      BY <2>1, TrafficInvIs DEF OwedHasJob
    <3>3. j \notin D
      BY <1>6, <1>7, <2>1, <3>1, <3>2
    <3>4. PICK i \in sched'.jobs : i.rec = j.rec /\ i.who \in {j.who, NoOne}
      BY <1>9, <1>17, <3>3 DEF Kept
    <3> QED BY <1>16, <3>1, <3>2, <3>4
  <2>2. CASE d \in {r \in list : ~Refused(s1, r, Full, r \in Unique, q)} \X {q}
    <3>1. d[1] \in list /\ d[2] = q /\ ~Refused(s1, d[1], Full, d[1] \in Unique, q)
      BY <2>2
    <3> QED BY <1>6, <1>15, <1>16, <1>17, <3>1 DEF Kept
  <2> QED BY <1>16, <2>1, <2>2
<1>21. owed' \subseteq Record \X Querier
  BY <1>14, <1>16, TrafficInvIs
<1>22. ASSUME NEW r \in Record \ Standing', said'[r]
       PROVE  announcing' /\ \E j \in sched'.jobs : j.rec = r
  <2>1. PICK j \in sched.jobs : announcing /\ j.rec = r
    BY <1>16, <1>22, TrafficInvIs DEF GoneHasJob
  <2>2. j.ttl = 0 /\ j.ttl \in Ttls
    BY <1>6, <1>16, <1>22, <2>1 DEF Fine, AsDone, Answer, Ttls
  <2>3. j \notin D
    BY <1>6, <1>7, <2>2, NumbersKept
  <2> QED BY <1>9, <1>16, <1>17, <2>1, <2>3 DEF Kept
<1> QED BY <1>16, <1>18, <1>19, <1>20, <1>21, <1>22, TrafficInvIs DEF TrafficInv, TrafficTypeOK, OwedHasJob, GoneHasJob, Fine, Sched

LEMMA HearResponseKeeps ==
  ASSUME TrafficInv, NEW r \in Record, NEW ttl \in Ttls, NEW flush \in BOOLEAN, HearResponse(r, ttl, flush)
  PROVE  TrafficInv'
<1>1. /\ sched \in Sched /\ registered \subseteq Standing /\ Standing \subseteq Record /\ Fine(sched, Standing) /\ KnownOnce(sched)
      /\ NoOne \in Posters
  BY TrafficInvIs DEF Fine, Posters, Standing
<1>2. UNCHANGED <<announcing, registered, forsaken, probes, probed>> /\ Standing' = Standing
  BY DEF HearResponse, Standing
<1>3. CASE Defended(r, ttl, flush)
  <2>1. PICK list : list = Listed(KeyOf[r], {})
    OBVIOUS
  <2>2. PICK X : X = Level(sched, list, NoOne, FALSE)
    OBVIOUS
  <2>3. list \subseteq registered /\ list \in SUBSET Record
    BY <1>1, <2>1 DEF Listed, Matching
  <2>4. X \subseteq registered
    BY <2>2, <2>3, LevelIs
  <2>5. sched' = Post(sched, X, Full, NoOne) /\ UNCHANGED <<owed, said>>
    BY <1>3, <2>1, <2>2 DEF HearResponse, Generate
  <2>6. Kept(sched, sched', X, Standing, Full, NoOne)
    <3>1. /\ X \in SUBSET Record /\ Full \in {0, Full}
          /\ \A x \in X : x \in Standing <=> Full = Full
          /\ \A x \in Record \ X : x \in Standing <=> x \in Standing
      BY <1>1, <2>4
    <3> QED BY <1>1, <2>5, <3>1, PostFine
  <2>7. Fine(sched', Standing') /\ KnownOnce(sched')
    BY <1>1, <1>2, <2>6 DEF Kept, KnownOnce
  <2>8. GoodbyeHeard'
    BY <1>2, <2>5, <2>6, TrafficInvIs DEF Kept, GoodbyeHeard
  <2>9. OwedHasJob'
    <3>1. ASSUME NEW d \in owed
          PROVE  d[1] \in Standing' /\ \E j \in sched'.jobs : j.rec = d[1] /\ j.who \in {d[2], NoOne}
      <4>1. PICK j \in sched.jobs : d[1] \in Standing /\ j.rec = d[1] /\ j.who \in {d[2], NoOne}
        BY TrafficInvIs DEF OwedHasJob
      <4>2. PICK k \in sched'.jobs : k.rec = j.rec /\ k.who \in {j.who, NoOne}
        BY <2>6 DEF Kept
      <4> QED BY <1>2, <4>1, <4>2
    <3> QED BY <2>5, <3>1 DEF OwedHasJob
  <2>10. GoneHasJob'
    BY <1>2, <2>5, <2>6, TrafficInvIs DEF GoneHasJob, Kept
  <2> QED BY <1>2, <2>5, <2>7, <2>8, <2>9, <2>10, TrafficInvIs DEF TrafficInv, TrafficTypeOK, Fine, Sched
<1>4. CASE ~Defended(r, ttl, flush)
  <2>1. PICK D : D = Replaced(sched, r, ttl, flush)
    OBVIOUS
  <2>2. \A j : j \in D => j \in sched.jobs /\ j.rec = r /\ Serves(ttl, j.ttl)
    BY <2>1 DEF Replaced, For
  <2>3. PICK done : done = {j.rec : j \in D}
    OBVIOUS
  <2>4. /\ sched' = Incoming(sched, r, ttl, flush) /\ owed' = owed \ (done \X Querier)
        /\ said' = [x \in Record |-> IF x \in done THEN ttl > 0 ELSE said[x]]
    BY <1>4, <2>1, <2>3 DEF HearResponse
  <2>5. \A j \in D : (ttl = 0) = (j.ttl = 0)
    <3>1. \A j \in D : j.ttl \in Ttls
      BY <1>1, <2>2 DEF Sched, Job
    <3> QED BY <2>2, <3>1, NumbersKept
  <2>6. ttl \in Nat
    BY TrafficAssumption DEF Ttls
  <2>7. said' \in [Record -> BOOLEAN] /\ \A x \in Record : IF x \in done THEN said'[x] <=> ttl # 0 ELSE said'[x] = said[x]
    <3>1. CASE ttl = 0
      <4>1. (ttl > 0) = FALSE
        BY <3>1
      <4>2. said' = [x \in Record |-> IF x \in done THEN FALSE ELSE said[x]]
        BY <2>4, <4>1
      <4> QED BY <3>1, <4>2, TrafficInvIs
    <3>2. CASE ttl # 0
      <4>1. (ttl > 0) = TRUE
        BY <2>6, <3>2
      <4>2. said' = [x \in Record |-> IF x \in done THEN TRUE ELSE said[x]]
        BY <2>4, <4>1
      <4> QED BY <3>2, <4>2, TrafficInvIs
    <3> QED BY <3>1, <3>2
  <2>8. CASE For(sched.jobs, r) # {}
    <3>1. sched' = MarkDone(sched, D)
      BY <2>1, <2>4, <2>8 DEF Incoming
    <3>2. /\ Fine(sched', Standing) /\ Follows(sched, sched', Standing) /\ sched'.jobs = sched.jobs \ D
          /\ \A h : h \in sched'.history <=> h \in sched.history \/ \E j \in D : h = AsDone(j)
      BY <1>1, <2>2, <3>1, DoneFine
    <3>3. KnownOnce(sched')
      BY <1>1, <3>2 DEF Follows, KnownOnce
    <3>4. ASSUME NEW h \in sched'.history, h.ttl = 0, h.rec \notin forsaken' PROVE ~said'[h.rec]
      <4>1. h.rec \in Record
        BY <3>2 DEF Fine, Sched, Done
      <4>2. CASE h \in sched.history
        <5>1. h.rec \notin done
          BY <1>1, <2>2, <2>3, <4>2 DEF Fine
        <5> QED BY <1>2, <2>4, <3>4, <4>1, <4>2, <5>1, TrafficInvIs DEF GoodbyeHeard
      <4>3. ASSUME NEW j \in D, h = AsDone(j) PROVE ~said'[h.rec]
        <5>1. h.rec \in done /\ ttl = 0
          BY <2>3, <2>5, <3>4, <4>3 DEF AsDone
        <5> QED BY <2>7, <4>1, <5>1
      <4> QED BY <3>2, <4>2, <4>3
    <3>5. ASSUME NEW d \in owed'
          PROVE  d[1] \in Standing' /\ \E j \in sched'.jobs : j.rec = d[1] /\ j.who \in {d[2], NoOne}
      <4>1. d \in owed /\ d[2] \in Querier /\ d = <<d[1], d[2]>> /\ d[1] \notin done
        BY <2>4, TrafficInvIs
      <4>2. PICK j \in sched.jobs : d[1] \in Standing /\ j.rec = d[1] /\ j.who \in {d[2], NoOne}
        BY <4>1, TrafficInvIs DEF OwedHasJob
      <4>3. j \notin D
        BY <2>3, <4>1, <4>2
      <4> QED BY <1>2, <3>2, <4>2, <4>3
    <3>6. ASSUME NEW x \in Record \ Standing', said'[x]
          PROVE  announcing' /\ \E j \in sched'.jobs : j.rec = x
      <4>1. x \notin done
        <5>1. SUFFICES ASSUME x \in done PROVE FALSE
          OBVIOUS
        <5>2. PICK j \in D : j.rec = x
          BY <2>3, <5>1
        <5>3. ttl # 0
          BY <2>7, <3>6, <5>1
        <5>4. j.ttl = 0
          BY <1>1, <1>2, <2>2, <3>6, <5>2 DEF Fine, AsDone, Answer
        <5> QED BY <2>5, <5>2, <5>3, <5>4
      <4>2. PICK j \in sched.jobs : announcing /\ j.rec = x
        BY <1>2, <2>4, <3>6, <4>1, TrafficInvIs DEF GoneHasJob
      <4> QED BY <1>2, <2>3, <3>2, <4>1, <4>2
    <3>7. said' \in [Record -> BOOLEAN] /\ owed' \subseteq Record \X Querier
      BY <2>4, <2>7, TrafficInvIs
    <3> QED BY <1>2, <3>2, <3>3, <3>4, <3>5, <3>6, <3>7, TrafficInvIs
         DEF TrafficInv, TrafficTypeOK, GoodbyeHeard, OwedHasJob, GoneHasJob, Fine, Sched
  <2>9. CASE For(sched.jobs, r) = {}
    <3>1. PICK new : new = [rec |-> r, ttl |-> ttl, flush |-> flush]
      OBVIOUS
    <3>2. new \in Done /\ new.rec = r /\ new.ttl = ttl
      BY <3>1 DEF Done
    <3>3. sched' = [sched EXCEPT !.history = (@ \ For(@, r)) \cup {new}]
      BY <2>4, <2>9, <3>1 DEF Incoming
    <3>4. /\ sched'.jobs = sched.jobs /\ sched'.suppressed = sched.suppressed /\ sched' \in Sched
          /\ sched'.history = (sched.history \ For(sched.history, r)) \cup {new}
      BY <1>1, <3>2, <3>3 DEF Sched
    <3>5. \A h : h \in sched'.history <=> h = new \/ (h \in sched.history /\ h.rec # r)
      BY <3>2, <3>4 DEF For
    <3>6. \A j \in sched.jobs : j.rec # r
      BY <2>9 DEF For
    <3>7. Fine(sched', Standing') /\ KnownOnce(sched')
      BY <1>1, <1>2, <3>2, <3>4, <3>5, <3>6 DEF Fine, KnownOnce
    <3>8. done = {} /\ owed' = owed /\ said' = said
      <4>1. D = {}
        BY <2>2, <3>6
      <4>2. done = {}
        BY <2>3, <4>1
      <4> QED BY <2>4, <4>2, TrafficInvIs
    <3>9. ttl = 0 /\ r \notin forsaken => ~said[r]
      <4>1. ttl = 0 /\ r \notin forsaken => r \notin Standing
        BY <1>4 DEF Defended, Standing
      <4> QED BY <3>6, <4>1, TrafficInvIs DEF GoneHasJob
    <3>10. GoodbyeHeard'
      BY <1>2, <3>2, <3>5, <3>8, <3>9, TrafficInvIs DEF GoodbyeHeard
    <3>11. OwedHasJob' /\ GoneHasJob'
      BY <1>2, <3>4, <3>8, TrafficInvIs DEF OwedHasJob, GoneHasJob
    <3> QED BY <1>2, <3>7, <3>8, <3>10, <3>11, TrafficInvIs DEF TrafficInv, TrafficTypeOK, Fine, Sched
  <2> QED BY <2>8, <2>9
<1> QED BY <1>3, <1>4

LEMMA JobElapsesKeeps ==
  ASSUME TrafficInv, NEW r \in Record, JobElapses(r)
  PROVE  TrafficInv'
<1>1. /\ registered \subseteq Standing /\ Standing \subseteq Record /\ Fine(sched, Standing) /\ KnownOnce(sched)
  BY TrafficInvIs DEF Standing
<1>2. PICK j \in For(sched.jobs, r) : \E t \in Packets(sched, j) :
        /\ sched' = t
        /\ owed' = owed \ ({h.rec : h \in SentBetween(sched, t)} \X Querier)
        /\ said' = [x \in Record |-> IF \E h \in SentBetween(sched, t) : h.rec = x
                                     THEN \E h \in For(SentBetween(sched, t), x) : h.ttl > 0
                                     ELSE said[x]]
  BY DEF JobElapses
<1>3. PICK t \in Packets(sched, j) :
        /\ sched' = t
        /\ owed' = owed \ ({h.rec : h \in SentBetween(sched, t)} \X Querier)
        /\ said' = [x \in Record |-> IF \E h \in SentBetween(sched, t) : h.rec = x
                                     THEN \E h \in For(SentBetween(sched, t), x) : h.ttl > 0
                                     ELSE said[x]]
        /\ UNCHANGED <<announcing, registered, forsaken, probes, probed>> /\ Standing' = Standing
  BY <1>2 DEF JobElapses, Standing
<1>4. PICK sent : sent = SentBetween(sched, t)
  OBVIOUS
<1>5. Fine(t, Standing) /\ Follows(sched, t, Standing)
  <2>1. j \in sched.jobs
    BY DEF For
  <2>2. PICK first : first = WithAux(sched, j, registered)
    OBVIOUS
  <2>3. Fine(first, Standing) /\ Follows(sched, first, Standing)
    BY <1>1, <2>1, <2>2, WithAuxFine
  <2>4. Fine(t, Standing) /\ Follows(first, t, Standing)
    BY <1>1, <2>1, <2>2, PacketsFollow
  <2> QED BY <1>1, <2>3, <2>4, FollowsOn
<1>6. /\ \A h : h \in sent <=> h \in t.history /\ h \notin sched.history
      /\ \A h \in sent : h.ttl = (IF h.rec \in Standing THEN Full ELSE 0)
      /\ \A h, g \in sent : h.rec = g.rec => h = g
      /\ \A i \in sched.jobs : \/ \E h \in sent : h.rec = i.rec
                               \/ \E k \in t.jobs : k.rec = i.rec /\ k.who \in {i.who, NoOne}
  BY <1>1, <1>4, <1>5, SentIs
<1>7. /\ owed' = owed \ ({h.rec : h \in sent} \X Querier)
      /\ said' = [x \in Record |-> IF \E h \in sent : h.rec = x
                                   THEN \E h \in For(sent, x) : h.ttl > 0 ELSE said[x]]
  BY <1>3, <1>4
<1>8. Fine(sched', Standing') /\ KnownOnce(sched')
  BY <1>1, <1>3, <1>5 DEF Follows, KnownOnce
<1>9. ASSUME NEW h \in sched'.history, h.ttl = 0, h.rec \notin forsaken' PROVE ~said'[h.rec]
  <2>1. h.rec \in Record
    BY <1>8, <1>9 DEF Fine, Sched, Done
  <2>2. CASE h \in sent
    <3>1. \A g \in For(sent, h.rec) : g = h
      BY <1>6, <2>2 DEF For
    <3> QED BY <1>7, <1>9, <2>1, <2>2, <3>1
  <2>3. CASE h \notin sent
    <3>1. h \in sched.history
      BY <1>3, <1>6, <1>9, <2>3
    <3>2. \A g \in sent : g.rec # h.rec
      BY <1>5, <1>3, <1>6, <1>9, <2>3 DEF Fine
    <3> QED BY <1>3, <1>7, <1>9, <2>1, <3>1, <3>2, TrafficInvIs DEF GoodbyeHeard
  <2> QED BY <2>2, <2>3
<1>10. ASSUME NEW d \in owed'
      PROVE  d[1] \in Standing' /\ \E k \in sched'.jobs : k.rec = d[1] /\ k.who \in {d[2], NoOne}
  <2>1. d \in owed /\ \A h \in sent : h.rec # d[1]
    BY <1>7, TrafficInvIs
  <2>2. PICK i \in sched.jobs : d[1] \in Standing /\ i.rec = d[1] /\ i.who \in {d[2], NoOne}
    BY <2>1, TrafficInvIs DEF OwedHasJob
  <2>3. PICK k \in t.jobs : k.rec = i.rec /\ k.who \in {i.who, NoOne}
    BY <1>6, <2>1, <2>2
  <2> QED BY <1>3, <2>2, <2>3
<1>11. ASSUME NEW x \in Record \ Standing', said'[x]
       PROVE  announcing' /\ \E k \in sched'.jobs : k.rec = x
  <2>1. \A h \in sent : h.rec # x
    <3>1. SUFFICES ASSUME NEW g \in sent, g.rec = x PROVE FALSE
      OBVIOUS
    <3>2. PICK h \in For(sent, x) : h.ttl > 0
      BY <1>7, <1>11, <3>1
    <3>3. h \in sent /\ h.rec = x
      BY DEF For
    <3> QED BY <1>3, <1>6, <1>11, <3>2, <3>3
  <2>2. PICK i \in sched.jobs : announcing /\ i.rec = x
    BY <1>3, <1>7, <1>11, <2>1, TrafficInvIs DEF GoneHasJob
  <2> QED BY <1>3, <1>6, <2>1, <2>2
<1>12. said' \in [Record -> BOOLEAN] /\ owed' \subseteq Record \X Querier
  BY <1>7, TrafficInvIs
<1> QED BY <1>3, <1>8, <1>9, <1>10, <1>11, <1>12, TrafficInvIs
     DEF TrafficInv, TrafficTypeOK, GoodbyeHeard, OwedHasJob, GoneHasJob, Fine, Sched

LEMMA PublishingKeeps ==
  ASSUME TrafficInv, NEW r \in Record, Announce(r) \/ Withdraw(r)
  PROVE  TrafficInv'
<1>1. /\ registered \subseteq Record /\ Standing \subseteq Record /\ Fine(sched, Standing) /\ KnownOnce(sched) /\ sched \in Sched
      /\ NoOne \in Posters /\ Full \in Nat \ {0}
  BY TrafficInvIs, TrafficAssumption DEF Fine, Posters, Standing
<1>2. CASE Announce(r)
  <2>1. PICK X : X = {r} \cup (IF r \in Unique THEN {x \in registered' : KeyOf[x] = KeyOf[r]} ELSE {})
    OBVIOUS
  <2>2. /\ announcing /\ registered' = registered \cup {r} /\ sched' = Post(sched, X, Full, NoOne)
        /\ forsaken' = forsaken \ {r} /\ UNCHANGED <<announcing, probes, probed, owed, said>>
    BY <1>2, <2>1 DEF Announce
  <2>3. /\ X \in SUBSET Record /\ Full \in {0, Full} /\ X \subseteq Standing' /\ r \in X
        /\ \A x \in X : x \in Standing' <=> Full = Full
        /\ \A x \in Record \ X : x \in Standing' <=> x \in Standing
        /\ Standing' = Standing \cup {r}
    BY <1>1, <2>1, <2>2 DEF Standing
  <2>4. Kept(sched, sched', X, Standing', Full, NoOne)
    BY <1>1, <2>2, <2>3, PostFine
  <2>5. Fine(sched', Standing') /\ KnownOnce(sched')
    BY <1>1, <2>4 DEF Kept, KnownOnce
  <2>6. ASSUME NEW h \in sched'.history, h.ttl = 0, h.rec \notin forsaken' PROVE ~said'[h.rec]
    <3>1. h \in sched.history /\ (h.rec \in X => Refused(sched, h.rec, Full, h.rec \in Unique, NoOne))
      BY <2>4 DEF Kept
    <3>2. CASE h.rec \in X
      <4>1. SentLately(sched, h.rec, Full, h.rec \in Unique)
        BY <1>1, <3>1, <3>2, NobodyKnows DEF Refused
      <4>2. \A g \in sched.history : g.rec = h.rec => g = h
        BY <1>1, <3>1 DEF Fine
      <4>3. Serves(h.ttl, Full)
        BY <4>1, <4>2 DEF SentLately, For
      <4> QED BY <1>1, <2>6, <4>3, NumbersKept DEF Serves
    <3>3. CASE h.rec \notin X
      BY <2>2, <2>3, <2>6, <3>1, <3>3, TrafficInvIs DEF GoodbyeHeard
    <3> QED BY <3>2, <3>3
  <2>7. ASSUME NEW d \in owed'
        PROVE  d[1] \in Standing' /\ \E j \in sched'.jobs : j.rec = d[1] /\ j.who \in {d[2], NoOne}
    <3>1. PICK j \in sched.jobs : d[1] \in Standing /\ j.rec = d[1] /\ j.who \in {d[2], NoOne}
      BY <2>2, TrafficInvIs DEF OwedHasJob
    <3>2. PICK k \in sched'.jobs : k.rec = j.rec /\ k.who \in {j.who, NoOne}
      BY <2>4 DEF Kept
    <3> QED BY <2>3, <3>1, <3>2
  <2>8. GoneHasJob'
    BY <2>2, <2>3, <2>4, TrafficInvIs DEF GoneHasJob, Kept
  <2>9. registered' \subseteq Record /\ forsaken' \subseteq Record /\ registered' \cap forsaken' = {}
    BY <1>1, <2>2, TrafficInvIs
  <2> QED BY <2>2, <2>5, <2>6, <2>7, <2>8, <2>9, TrafficInvIs DEF TrafficInv, TrafficTypeOK, GoodbyeHeard, OwedHasJob, Fine, Sched
<1>3. CASE Withdraw(r)
  <2>1. /\ r \in registered /\ registered' = registered \ {r} /\ sched' = Post(sched, {r}, 0, NoOne)
        /\ owed' = owed \ ({r} \X Querier) /\ UNCHANGED <<announcing, forsaken, probes, probed, said>>
        /\ Standing' = Standing \ {r} /\ r \in Standing
    BY <1>3, TrafficInvIs DEF Withdraw, GoodbyeTo, Standing
  <2>2. /\ {r} \in SUBSET Record /\ 0 \in {0, Full}
        /\ \A x \in {r} : x \in Standing' <=> 0 = Full
        /\ \A x \in Record \ {r} : x \in Standing' <=> x \in Standing
    BY <1>1, <2>1
  <2>3. Kept(sched, sched', {r}, Standing', 0, NoOne)
    BY <1>1, <2>1, <2>2, PostFine
  <2>4. Fine(sched', Standing') /\ KnownOnce(sched')
    BY <1>1, <2>3 DEF Kept, KnownOnce
  <2>5. GoodbyeHeard'
    BY <2>1, <2>3, TrafficInvIs DEF Kept, GoodbyeHeard
  <2>6. ASSUME NEW d \in owed'
        PROVE  d[1] \in Standing' /\ \E j \in sched'.jobs : j.rec = d[1] /\ j.who \in {d[2], NoOne}
    <3>1. PICK j \in sched.jobs : d[1] \in Standing /\ j.rec = d[1] /\ j.who \in {d[2], NoOne}
      BY <2>1, TrafficInvIs DEF OwedHasJob
    <3>2. PICK k \in sched'.jobs : k.rec = j.rec /\ k.who \in {j.who, NoOne}
      BY <2>3 DEF Kept
    <3>3. d[1] # r
      BY <2>1, TrafficInvIs
    <3> QED BY <2>1, <3>1, <3>2, <3>3
  <2>7. ASSUME NEW x \in Record \ Standing', said'[x]
        PROVE  announcing' /\ \E j \in sched'.jobs : j.rec = x
    <3>1. CASE x = r
      <4>1. said[r] /\ announcing
        BY <2>1, <2>7, <3>1, TrafficInvIs
      <4>2. ~SentLately(sched, r, 0, r \in Unique)
        <5>1. \A h \in sched.history : h.rec = r => h.ttl \in Ttls /\ h.ttl # 0
          BY <1>1, <2>1, <4>1, TrafficInvIs DEF GoodbyeHeard, Sched, Done
        <5> QED BY <5>1, NumbersKept DEF SentLately, For
      <4>3. ~Refused(sched, r, 0, r \in Unique, NoOne)
        BY <1>1, <4>2, NobodyKnows DEF Refused
      <4> QED BY <2>1, <2>3, <3>1, <4>1, <4>3 DEF Kept
    <3>2. CASE x # r
      <4>1. said[x] /\ x \in Record \ Standing
        BY <2>1, <2>7, <3>2
      <4>2. PICK j \in sched.jobs : announcing /\ j.rec = x
        BY <4>1, TrafficInvIs DEF GoneHasJob
      <4>3. PICK k \in sched'.jobs : k.rec = j.rec
        BY <2>3 DEF Kept
      <4> QED BY <2>1, <4>2, <4>3
    <3> QED BY <3>1, <3>2
  <2>8. registered' \subseteq Record /\ registered' \cap forsaken' = {}
    BY <1>1, <2>1, TrafficInvIs
  <2> QED BY <2>1, <2>4, <2>5, <2>6, <2>7, <2>8, TrafficInvIs DEF TrafficInv, TrafficTypeOK, OwedHasJob, GoneHasJob, Fine, Sched
<1> QED BY <1>2, <1>3

(* What a conflict takes stands as it did: nothing is posted, and nothing is     *)
(* expected of it.                                                               *)
LEMMA ConflictKeeps ==
  ASSUME TrafficInv, NEW R \in SUBSET registered, Conflict(R)
  PROVE  TrafficInv'
<1>1. /\ registered' = registered \ R /\ forsaken' = forsaken \cup R
      /\ UNCHANGED <<announcing, sched, probes, probed, owed, said>> /\ Standing' = Standing
  BY DEF Conflict, Standing
<1>2. /\ registered' \subseteq Record /\ forsaken' \subseteq Record /\ registered' \cap forsaken' = {}
      /\ announcing' \/ registered' = {}
  BY <1>1, TrafficInvIs
<1>3. GoodbyeHeard'
  BY <1>1, TrafficInvIs DEF GoodbyeHeard
<1>4. OwedHasJob' /\ GoneHasJob'
  BY <1>1, TrafficInvIs DEF OwedHasJob, GoneHasJob
<1>5. Fine(sched', Standing') /\ KnownOnce(sched')
  BY <1>1, TrafficInvIs
<1> QED BY <1>1, <1>2, <1>3, <1>4, <1>5, TrafficInvIs DEF TrafficInv, TrafficTypeOK, Fine, Sched

LEMMA InterfaceKeeps ==
  ASSUME TrafficInv, InterfaceComes \/ InterfaceGoes \/ InterfaceFree
  PROVE  TrafficInv'
<1>1. /\ registered \subseteq Record /\ Standing \subseteq Record /\ Fine(sched, Standing) /\ KnownOnce(sched) /\ sched \in Sched
      /\ NoOne \in Posters /\ Full \in Nat \ {0} /\ said \in [Record -> BOOLEAN]
  BY TrafficInvIs, TrafficAssumption DEF Fine, Posters
<1>2. CASE InterfaceComes
  <2>1. /\ announcing' /\ said' = [r \in Record |-> FALSE]
        /\ UNCHANGED <<registered, forsaken, sched, probes, probed, owed>>
        /\ Standing' = Standing
    BY <1>2 DEF InterfaceComes, Standing
  <2>2. Fine(sched', Standing') /\ KnownOnce(sched') /\ sched' \in Sched
    BY <1>1, <2>1
  <2>3. \A x \in Record : ~said'[x]
    BY <2>1
  <2>4. GoodbyeHeard'
    BY <2>2, <2>3 DEF GoodbyeHeard, Sched, Done
  <2>5. OwedHasJob' /\ GoneHasJob'
    BY <2>1, <2>3, TrafficInvIs DEF OwedHasJob, GoneHasJob
  <2> QED BY <2>1, <2>2, <2>4, <2>5, TrafficInvIs DEF TrafficInv, TrafficTypeOK, Sched
<1>3. ASSUME Cleared, said' \in [Record -> BOOLEAN], \A r \in Record \ forsaken : ~said'[r] PROVE TrafficInv'
  <2>1. sched' = [jobs |-> {}, history |-> {}, suppressed |-> {}]
    BY <1>3 DEF Cleared, Nothing
  <2>2. /\ sched'.jobs = {} /\ sched'.history = {} /\ sched'.suppressed = {} /\ sched' \in Sched
    BY <2>1 DEF Sched
  <2>3. Fine(sched', Standing') /\ KnownOnce(sched')
    BY <2>2 DEF Fine, KnownOnce
  <2> QED BY <1>3, <2>2, <2>3, TrafficInvIs DEF Standing, Cleared, TrafficInv, TrafficTypeOK, GoodbyeHeard, OwedHasJob, GoneHasJob
<1>4. CASE InterfaceGoes
  BY <1>3, <1>4 DEF InterfaceGoes
<1>5. CASE InterfaceFree
  <2>1. PICK s1 : s1 = Post(sched, registered, 0, NoOne)
    OBVIOUS
  <2>2. PICK t : t = Forced(s1)
    OBVIOUS
  <2>3. PICK sent : sent = SentBetween(s1, t)
    OBVIOUS
  <2>4. /\ Cleared
        /\ said' = [r \in Record |-> IF For(sent, r) = {} THEN said[r] ELSE \E h \in For(sent, r) : h.ttl > 0]
    BY <1>5, <2>1, <2>2, <2>3 DEF InterfaceFree, GoodbyeTo
  <2>5. Kept(sched, s1, registered, forsaken, 0, NoOne)
    <3>1. /\ registered \in SUBSET Record /\ 0 \in {0, Full}
          /\ \A x \in registered : x \in forsaken <=> 0 = Full
          /\ \A x \in Record \ registered : x \in forsaken <=> x \in Standing
      BY <1>1, TrafficInvIs DEF Standing
    <3> QED BY <1>1, <2>1, <3>1, PostFine
  <2>6. Fine(s1, forsaken) /\ forsaken \in SUBSET Record
    BY <2>5, TrafficInvIs DEF Kept
  <2>7. Fine(t, forsaken) /\ Follows(s1, t, forsaken) /\ t.jobs = {}
    BY <2>2, <2>6, ForceSendsAll
  <2>8. /\ \A h \in sent : h.rec \notin forsaken => h.ttl = 0
        /\ \A j \in s1.jobs : \E h \in sent : h.rec = j.rec
    BY <2>3, <2>6, <2>7, SentIs
  <2>9. ASSUME NEW r \in Record \ forsaken, said[r] PROVE For(sent, r) # {}
    <3>1. \E j \in s1.jobs : j.rec = r
      <4>1. CASE r \in registered
        <5>1. \A h \in sched.history : h.rec = r => h.ttl \in Ttls /\ h.ttl # 0
          BY <1>1, <2>9, TrafficInvIs DEF GoodbyeHeard, Sched, Done
        <5>2. ~SentLately(sched, r, 0, r \in Unique)
          BY <5>1, NumbersKept DEF SentLately, For
        <5>3. ~Refused(sched, r, 0, r \in Unique, NoOne)
          BY <1>1, <5>2, NobodyKnows DEF Refused
        <5> QED BY <2>5, <4>1, <5>3 DEF Kept
      <4>2. CASE r \notin registered
        BY <2>5, <2>9, <4>2, TrafficInvIs DEF GoneHasJob, Kept, Standing
      <4> QED BY <4>1, <4>2
    <3> QED BY <2>8, <3>1 DEF For
  <2>10. \A r \in Record \ forsaken : \A h \in For(sent, r) : ~(h.ttl > 0)
    BY <2>8 DEF For
  <2>11. ASSUME NEW r \in Record \ forsaken PROVE said'[r] = FALSE
    <3>1. CASE For(sent, r) = {}
      BY <1>1, <2>4, <2>9, <3>1
    <3>2. CASE For(sent, r) # {}
      BY <2>4, <2>10, <3>2
    <3> QED BY <3>1, <3>2
  <2>12. said' \in [Record -> BOOLEAN]
    BY <1>1, <2>4
  <2> QED BY <1>3, <2>4, <2>11, <2>12
<1> QED BY <1>2, <1>4, <1>5

LEMMA TimesKeep ==
  ASSUME TrafficInv, NEW r \in Record,
         HistoryElapses(r) \/ ProbeElapses(r) \/ ProbedElapses(r) \/ PostProbe(r)
  PROVE  TrafficInv'
<1>1. /\ Fine(sched, Standing) /\ KnownOnce(sched) /\ sched \in Sched /\ probes \cap probed = {}
      /\ probes \subseteq Record /\ probed \subseteq Record /\ Unique \subseteq Record
  BY TrafficInvIs, TrafficAssumption DEF Fine
<1>2. CASE HistoryElapses(r)
  <2>1. /\ sched'.jobs = sched.jobs /\ sched'.suppressed = sched.suppressed
        /\ sched'.history \subseteq sched.history /\ sched' \in Sched
    BY <1>1, <1>2 DEF HistoryElapses, Sched
  <2>2. UNCHANGED <<announcing, registered, forsaken, probes, probed, owed, said>> /\ Standing' = Standing
    BY <1>2 DEF HistoryElapses, Standing
  <2>3. Fine(sched', Standing') /\ KnownOnce(sched')
    BY <1>1, <2>1, <2>2 DEF Fine, KnownOnce
  <2> QED BY <2>1, <2>2, <2>3, TrafficInvIs DEF TrafficInv, TrafficTypeOK, GoodbyeHeard, OwedHasJob, GoneHasJob, Sched
<1>3. CASE ProbeElapses(r) \/ ProbedElapses(r) \/ PostProbe(r)
  <2>1. UNCHANGED <<announcing, registered, forsaken, sched, owed, said>> /\ Standing' = Standing
    BY <1>3 DEF ProbeElapses, ProbedElapses, PostProbe, Standing
  <2>2. probes' \cap probed' = {} /\ probes' \subseteq Record /\ probed' \subseteq Record
    <3>1. CASE ProbeElapses(r)
      <4>1. PICK X \in SUBSET probes : probes' = probes \ X /\ probed' = probed \cup X
        BY <3>1 DEF ProbeElapses, Chosen
      <4> QED BY <1>1, <4>1
    <3>2. CASE ProbedElapses(r) \/ PostProbe(r)
      BY <1>1, <3>2 DEF ProbedElapses, PostProbe
    <3> QED BY <1>3, <3>1, <3>2
  <2> QED BY <2>1, <2>2, TrafficInvIs
       DEF TrafficInv, TrafficTypeOK, GoodbyeHeard, OwedHasJob, GoneHasJob, Fine, Sched, KnownOnce
<1> QED BY <1>2, <1>3

LEMMA SuppressedKeeps ==
  ASSUME TrafficInv, NEW r \in Record, NEW q \in Querier, SuppressedElapses(r, q)
  PROVE  TrafficInv'
<1>1. Fine(sched, Standing) /\ KnownOnce(sched) /\ sched \in Sched
  BY TrafficInvIs DEF Fine
<1>2. /\ sched'.jobs = sched.jobs /\ sched'.suppressed \subseteq sched.suppressed
      /\ sched'.history = sched.history /\ sched' \in Sched
  BY <1>1 DEF SuppressedElapses, Sched
<1>3. UNCHANGED <<announcing, registered, forsaken, probes, probed, owed, said>> /\ Standing' = Standing
  BY DEF SuppressedElapses, Standing
<1>4. Fine(sched', Standing') /\ KnownOnce(sched')
  BY <1>1, <1>2, <1>3 DEF Fine, KnownOnce
<1> QED BY <1>2, <1>3, <1>4, TrafficInvIs DEF TrafficInv, TrafficTypeOK, GoodbyeHeard, OwedHasJob, GoneHasJob, Sched

LEMMA TrafficGoes == TrafficInv /\ [TrafficNext]_trafficVars => TrafficInv'
<1> SUFFICES ASSUME TrafficInv, [TrafficNext]_trafficVars PROVE TrafficInv'
  OBVIOUS
<1>1. ASSUME NEW q \in Querier, NEW k \in {KeyOf[r] : r \in Record},
             NEW known \in SUBSET {r \in Record : KeyOf[r] = k}, NEW ttl \in {Low, Full},
             NEW unicast \in BOOLEAN, HearQuery(q, k, known, ttl, unicast)
      PROVE  TrafficInv'
  <2>1. known \in SUBSET Record
    OBVIOUS
  <2> QED BY <1>1, <2>1, HearQueryKeeps
<1>2. ASSUME NEW r \in Record, NEW ttl \in Ttls, NEW flush \in BOOLEAN, HearResponse(r, ttl, flush)
      PROVE  TrafficInv'
  BY <1>2, HearResponseKeeps
<1>3. ASSUME NEW r \in Record, JobElapses(r) PROVE TrafficInv'
  BY <1>3, JobElapsesKeeps
<1>4. ASSUME NEW r \in Record, HistoryElapses(r) \/ ProbeElapses(r) \/ ProbedElapses(r) \/ PostProbe(r)
      PROVE  TrafficInv'
  BY <1>4, TimesKeep
<1>5. ASSUME NEW r \in Record, NEW q \in Querier, SuppressedElapses(r, q) PROVE TrafficInv'
  BY <1>5, SuppressedKeeps
<1>6. ASSUME NEW r \in Record, Announce(r) \/ Withdraw(r) PROVE TrafficInv'
  BY <1>6, PublishingKeeps
<1>7. CASE InterfaceComes \/ InterfaceGoes \/ InterfaceFree
  BY <1>7, InterfaceKeeps
<1>9. ASSUME NEW R \in SUBSET registered, Conflict(R) PROVE TrafficInv'
  BY <1>9, ConflictKeeps
<1>8. CASE UNCHANGED trafficVars
  BY <1>8, TrafficInvIs
  DEF trafficVars, Standing, TrafficInv, TrafficTypeOK, GoodbyeHeard, OwedHasJob, GoneHasJob, Fine, Sched, KnownOnce
<1> QED BY <1>1, <1>2, <1>3, <1>4, <1>5, <1>6, <1>7, <1>8, <1>9 DEF TrafficNext

LEMMA AtMostOne ==
  ASSUME NEW X, \A x, y \in X : x = y
  PROVE  IsFiniteSet(X) /\ Cardinality(X) \in {0, 1} /\ (X = {} => Cardinality(X) = 0)
<1>1. CASE X = {}
  BY <1>1, FS_EmptySet
<1>2. CASE X # {}
  <2>1. PICK x \in X : X = {x}
    BY <1>2
  <2> QED BY <1>2, <2>1, FS_Singleton
<1> QED BY <1>1, <1>2

LEMMA TrafficIsKept == TrafficInv => SchedulesKept /\ GoodbyeComes
<1> SUFFICES ASSUME TrafficInv PROVE SchedulesKept /\ GoodbyeComes
  OBVIOUS
<1>1. /\ Fine(sched, Standing) /\ KnownOnce(sched) /\ probes \cap probed = {} /\ Standing \subseteq Record
      /\ OwedHasJob /\ GoneHasJob /\ TrafficTypeOK
  BY TrafficInvIs DEF TrafficInv
<1>2. \A j \in sched.jobs : j.ttl = (IF j.rec \in Standing THEN Full ELSE 0)
  BY <1>1 DEF Fine, AsDone, Answer
<1>3. ASSUME NEW r \in Record
      PROVE  Cardinality(For(sched.jobs, r)) + Cardinality(For(sched.history, r)) <= 1
  <2>1. /\ \A x, y \in For(sched.jobs, r) : x = y
        /\ \A x, y \in For(sched.history, r) : x = y
        /\ For(sched.jobs, r) = {} \/ For(sched.history, r) = {}
    BY <1>1 DEF Fine, For
  <2>2. /\ Cardinality(For(sched.jobs, r)) \in {0, 1}
        /\ For(sched.jobs, r) = {} => Cardinality(For(sched.jobs, r)) = 0
    BY <2>1, AtMostOne
  <2>3. /\ Cardinality(For(sched.history, r)) \in {0, 1}
        /\ For(sched.history, r) = {} => Cardinality(For(sched.history, r)) = 0
    BY <2>1, AtMostOne
  <2> QED BY <2>1, <2>2, <2>3
<1>4. ASSUME NEW r \in Record, NEW q \in Querier
      PROVE  Cardinality({k \in For(sched.suppressed, r) : k.who = q}) <= 1
  <2>1. PICK X : X = {k \in For(sched.suppressed, r) : k.who = q}
    OBVIOUS
  <2>2. \A x, y \in X : x = y
    BY <1>1, <2>1 DEF KnownOnce, For
  <2>3. Cardinality(X) \in {0, 1}
    BY <2>2, AtMostOne
  <2> QED BY <2>1, <2>3
<1>5. OneJobEach
  BY <1>1, <1>3, <1>4 DEF OneJobEach
<1>6. ASSUME NEW d \in owed PROVE \E j \in For(sched.jobs, d[1]) : j.ttl > 0 /\ j.who \in {d[2], NoOne}
  <2>1. PICK j \in sched.jobs : d[1] \in Standing /\ j.rec = d[1] /\ j.who \in {d[2], NoOne}
    BY <1>1 DEF OwedHasJob
  <2>2. j.ttl > 0
    BY <1>2, <2>1, NumbersKept
  <2> QED BY <2>1, <2>2 DEF For
<1>7. ASSUME NEW r \in Record \ Standing, said[r]
      PROVE  announcing /\ \E j \in For(sched.jobs, r) : j.ttl = 0
  BY <1>1, <1>2, <1>7 DEF GoneHasJob, For
<1> QED BY <1>1, <1>5, <1>6, <1>7 DEF SchedulesKept, OwedIsScheduled, GoodbyeComes, Standing

(* The lists of the schedulers hold each record once, and an answer for everybody *)
(* who is owed one.                                                              *)
THEOREM SchedulesStayKept == TrafficSpec => []SchedulesKept
<1> QED BY TrafficStarts, TrafficGoes, TrafficIsKept, PTL DEF TrafficSpec

(* A record that is withdrawn, and believed in, has its goodbye scheduled: no    *)
(* answer, query or packet swallows it, and the server does not end before it.   *)
(* What a conflict takes gets none, until it is announced again.                 *)
THEOREM GoodbyeAlwaysComes == TrafficSpec => []GoodbyeComes
<1> QED BY TrafficStarts, TrafficGoes, TrafficIsKept, PTL DEF TrafficSpec

(* A record that is sent brings what it refers to.                               *)
THEOREM AuxAlwaysAccompanies == TrafficSpec => AuxAccompanies
<1> DEFINE Step == \A r \in Record : JobElapses(r) => \A x \in Aux[r] \cap registered :
                     \/ For(sched'.jobs, x) \cup For(sched'.history, x) # {}
                     \/ \E j \in For(sched.jobs, r) : KnownTo(sched, x, Full, j.who)
<1>1. ASSUME TrafficInv, NEW r \in Record, JobElapses(r), NEW x \in Aux[r] \cap registered
      PROVE  \/ For(sched'.jobs, x) \cup For(sched'.history, x) # {}
             \/ \E j \in For(sched.jobs, r) : KnownTo(sched, x, Full, j.who)
  <2>1. registered \subseteq Standing /\ Standing \subseteq Record /\ Fine(sched, Standing)
    BY <1>1, TrafficInvIs DEF Standing
  <2>2. PICK j \in For(sched.jobs, r) : \E t \in Packets(sched, j) : sched' = t
    BY <1>1 DEF JobElapses
  <2>3. PICK first : first = WithAux(sched, j, registered)
    OBVIOUS
  <2>4. j \in sched.jobs /\ j.rec = r
    BY DEF For
  <2>5. Follows(first, sched', Standing)
    BY <2>1, <2>2, <2>3, <2>4, PacketsFollow
  <2>6. Present(first, x) \/ KnownTo(sched, x, Full, j.who)
    BY <1>1, <2>1, <2>3, <2>4, WithAuxFine
  <2>7. x \in Record
    BY <1>1, <2>1
  <2>8. Present(sched', x) \/ KnownTo(sched, x, Full, j.who)
    BY <2>5, <2>6, <2>7 DEF Follows
  <2> QED BY <2>8 DEF Present, For
<1>2. TrafficInv => Step
  BY <1>1
<1>3. TrafficInv => [Step]_trafficVars
  BY <1>2
<1>4. TrafficSpec => [][Step]_trafficVars
  <2> HIDE DEF Step
  <2> QED BY <1>3, TrafficStarts, TrafficGoes, PTL DEF TrafficSpec
<1> QED BY <1>4 DEF AuxAccompanies, Step
===============================================================================
