--------------------------- MODULE AvahiServer_proofs ---------------------------
(***************************************************************************)
(* Proofs about AvahiServer, for any number of interfaces, addresses, host *)
(* names and events.                                                       *)
(*                                                                         *)
(* The inductive invariant is Upright.  Of each group it says (Sound) that *)
(* an announcer works for a live record on an interface that announces,    *)
(* that a unique record is announced only once the group is established,   *)
(* that n_probing covers the announcers that probe, that the records are   *)
(* live exactly while the group is committed; and (Driven) that a group    *)
(* which registers and does not wait for its timer has a probe left.  Of   *)
(* the host it says that the published addresses are exactly those wanted  *)
(* (Exact), and that the count of pending registrations is positive while  *)
(* the server registers (Counts).                                          *)
(*                                                                         *)
(* These do not hold between the calls that an event is made of: while     *)
(* records are added, a callback of one group may change the state of the  *)
(* server and with it what is wanted of all others.  Each operator has a   *)
(* lemma that says what holds when it is called and what when it returns;  *)
(* Nearly, Filled, Fillable, Elsewhere, Advanced, Joined and Reviewed name *)
(* such intermediate states and what may have changed in between.          *)
(*                                                                         *)
(* What listeners hold needs more (Shown): every announcer works for a     *)
(* live record of a committed group (Linked), none waits for a group that  *)
(* is established (Waits), none is missing (Manned), what is announced in  *)
(* full has been heard (Told), and what is heard, and not stale since a    *)
(* conflict, is served, or older than the present data (Taken).  Shown     *)
(* does hold after every call, for the interfaces and groups that it       *)
(* names, so an event keeps it call by call.                               *)
(***************************************************************************)
EXTENDS AvahiServer, FiniteSetTheorems, WellFoundedInduction, TLAPS

AnnType == {NoAnnouncer} \union [st : AnnouncerState \ {"none"}, n : Nat]
Counter == Int
AvahiState ==
    [live : SUBSET Entry, ver : [Entry -> Version], ann : [Pair -> AnnType],
     state : [Group -> GroupState], n_probing : [Group -> Int], timer : [Group -> BOOLEAN],
     recent : [Group -> BOOLEAN], announcing : [Iface -> BOOLEAN], flags_ok : [Iface -> BOOLEAN],
     present : SUBSET Address, list_complete : BOOLEAN, server : ServerState, pending : Counter,
     hostName : HostName, published : BOOLEAN, ready : BOOLEAN, told : Seq(ServerState),
     events : 0 .. MaxEvents, heard : [Iface -> SUBSET (Entry \X Version)],
     stale : [Iface -> SUBSET (Entry \X Version)]]

PairsOf(g) == {p \in Pair : Of(p[1]) = g}
Probes(s, g) == {p \in PairsOf(g) : s.ann[p].st = "PROBING"}

\* An announcer works for a live record, on an interface that announces.
Founded(s, g) == \A p \in PairsOf(g) : s.ann[p] # NoAnnouncer =>
    p[1] \in s.live /\ Match(p) /\ s.announcing[p[2]]
ServedLate(s, g) == \A p \in PairsOf(g) :
    IsUnique(p[1]) /\ s.ann[p].st \in {"ANNOUNCING", "ESTABLISHED"} => s.state[g] = "ESTABLISHED"
Bounded(s, g) == \A p \in PairsOf(g) :
    s.ann[p].n <= Iterations /\ (s.ann[p].st = "ANNOUNCING" => s.ann[p].n < Iterations)
Covered(s, g) == s.n_probing[g] >= Cardinality(Probes(s, g))
Sound(s, g) ==
    /\ Founded(s, g) /\ ServedLate(s, g) /\ Bounded(s, g) /\ Covered(s, g)
    /\ \A e \in Entries(g) : e \in s.live <=> Committed(s, e)
    /\ s.timer[g] => s.state[g] = "REGISTERING"
Driven(s, g) == s.state[g] = "REGISTERING" /\ ~s.timer[g] => s.n_probing[g] > 0

SameGroup(s, t, g) ==
    /\ t.state[g] = s.state[g] /\ t.n_probing[g] = s.n_probing[g] /\ t.timer[g] = s.timer[g]
    /\ \A e \in Entries(g) : e \in t.live <=> e \in s.live
    /\ \A p \in PairsOf(g) : t.ann[p] = s.ann[p]

SameWorld(s, t) ==
    /\ t.present = s.present /\ t.list_complete = s.list_complete /\ t.flags_ok = s.flags_ok
    /\ t.announcing = s.announcing /\ t.events = s.events /\ t.ver["srv"] = s.ver["srv"]
SameHost(s, t) == t.server = s.server /\ t.pending = s.pending
Emptied(t, g) ==
    t.state[g] \notin {"REGISTERING", "ESTABLISHED"} /\ \A e \in Entries(g) : e \notin t.live
\* What an operation on one group leaves alone.
OnlyGroup(s, t, g) ==
    /\ SameWorld(s, t) /\ SameHost(s, t)
    /\ \A h \in Group : h # g => SameGroup(s, t, h)

\* What holds wherever a callback may come.
Good(s) ==
    /\ s \in AvahiState
    /\ \A a \in Address : a \in s.live => a \in s.present
    /\ \A g \in Group : Sound(s, g) /\ Driven(s, g)

-------------------------------------------------------------------------------
(* Names of entries and groups, and what is finite.                           *)

LEMMA Names ==
  /\ \A g \in Group : \A e \in Entries(g) : e \in Entry /\ Of(e) = g
  /\ \A e \in Entry : Of(e) \in Group /\ e \in Entries(Of(e))
  /\ \A a \in Address : a \in Entry /\ a \in Group /\ Of(a) = a /\ Entries(a) = {a} /\ a # "svc"
  /\ Entries("svc") = {"srv", "ptr"} /\ "svc" \in Group /\ Of("srv") = "svc" /\ Of("ptr") = "svc"
  /\ \A p \in Pair : p[1] \in Entry /\ p[2] \in Iface /\ p = <<p[1], p[2]>>
  /\ \A e \in Entry, i \in Iface : <<e, i>> \in Pair
  /\ \A g \in Group : PairsOf(g) \subseteq Pair /\ PairsOf(g) = Entries(g) \X Iface
BY AvahiAssumption DEF Group, Entry, Of, Entries, Pair, PairsOf

LEMMA FinitePairs == IsFiniteSet(Pair) /\ IsFiniteSet(Entry) /\ IsFiniteSet(Address)
<1>1. IsFiniteSet(Address)
  <2>1. Addresses \in [1 .. Len(Addresses) -> Address] /\ Len(Addresses) \in Nat
    BY AvahiAssumption
  <2>2. \A a \in Address : \E k \in 1 .. Len(Addresses) : Addresses[k] = a
    BY <2>1 DEF Address, Range
  <2>3. Addresses \in Surjection(1 .. Len(Addresses), Address)
    BY <2>1, <2>2 DEF Surjection
  <2> QED BY <2>1, <2>3, FS_Interval, FS_Surjection
<1>2. IsFiniteSet({"srv", "ptr"})
  <2>1. {"srv", "ptr"} = {"srv"} \cup {"ptr"}
    OBVIOUS
  <2>2. IsFiniteSet({"srv"})
    BY FS_Singleton
  <2> QED BY <2>1, <2>2, FS_AddElement
<1>3. IsFiniteSet(Entry)
  BY <1>1, <1>2, FS_Union DEF Entry
<1> QED BY <1>1, <1>3, AvahiAssumption, FS_Product DEF Pair

LEMMA SubsetCounts ==
  ASSUME NEW P \in SUBSET Pair
  PROVE  IsFiniteSet(P) /\ Cardinality(P) \in Nat
BY FinitePairs, FS_Subset, FS_CardinalityType

LEMMA CountedIs ==
  ASSUME NEW s \in AvahiState, NEW P \in SUBSET Pair, NEW sign \in {1, -1}
  PROVE  /\ Counted(s, P, sign) \in [Group -> Int]
         /\ \A g \in Group : /\ Cardinality({p \in P : Of(p[1]) = g}) \in Nat
                             /\ Counted(s, P, sign)[g]
                                  = s.n_probing[g] + sign * Cardinality({p \in P : Of(p[1]) = g})
<1>1. ASSUME NEW g \in Group
      PROVE  Cardinality({p \in P : Of(p[1]) = g}) \in Nat
  BY SubsetCounts, {p \in P : Of(p[1]) = g} \in SUBSET Pair
<1>2. \A g \in Group : s.n_probing[g] \in Int
  BY DEF AvahiState
<1> QED BY <1>1, <1>2 DEF Counted

-------------------------------------------------------------------------------
(* One group: what leaves it sound.                                           *)

LEMMA AnnIs ==
  /\ \A x \in AnnType : x.st \in AnnouncerState /\ x.n \in Nat /\ (x.st = "none" <=> x = NoAnnouncer)
  /\ NoAnnouncer.st = "none" /\ NoAnnouncer.n = 0
  /\ \A st \in AnnouncerState \ {"none"}, n \in Nat :
        /\ [st |-> st, n |-> n] \in AnnType /\ [st |-> st, n |-> n] # NoAnnouncer
        /\ [st |-> st, n |-> n].st = st /\ [st |-> st, n |-> n].n = n
  /\ \A s \in AvahiState, p \in Pair : s.ann[p] \in AnnType
BY DEF AnnType, NoAnnouncer, AnnouncerState, AvahiState

(* The fields that the operators write together: the record stays one of its type. *)
WithAnn(s, ann) == [s EXCEPT !.ann = ann]
LEMMA AnnSet ==
  ASSUME NEW s \in AvahiState, NEW ann \in [Pair -> AnnType]
  PROVE  /\ WithAnn(s, ann) \in AvahiState
         /\ WithAnn(s, ann).ann = ann
BY DEF AvahiState, WithAnn

WithCount(s, n) == [s EXCEPT !.n_probing = n]
LEMMA CountSet ==
  ASSUME NEW s \in AvahiState, NEW n \in [Group -> Int]
  PROVE  /\ WithCount(s, n) \in AvahiState
         /\ WithCount(s, n).n_probing = n
BY DEF AvahiState, WithCount

WithAnnouncers(s, ann, n) == [s EXCEPT !.ann = ann, !.n_probing = n]
LEMMA AnnouncersSet ==
  ASSUME NEW s \in AvahiState, NEW ann \in [Pair -> AnnType], NEW n \in [Group -> Int]
  PROVE  /\ WithAnnouncers(s, ann, n) \in AvahiState
         /\ WithAnnouncers(s, ann, n).ann = ann /\ WithAnnouncers(s, ann, n).n_probing = n
BY DEF AvahiState, WithAnnouncers

WithState(s, st, tm) == [s EXCEPT !.state = st, !.timer = tm]
LEMMA StateSet ==
  ASSUME NEW s \in AvahiState, NEW st \in [Group -> GroupState], NEW tm \in [Group -> BOOLEAN]
  PROVE  /\ WithState(s, st, tm) \in AvahiState
         /\ WithState(s, st, tm).state = st /\ WithState(s, st, tm).timer = tm
BY DEF AvahiState, WithState

WithGroup(s, n, st, tm, rc) == [s EXCEPT !.n_probing = n, !.state = st, !.timer = tm, !.recent = rc]
LEMMA GroupSet ==
  ASSUME NEW s \in AvahiState, NEW n \in [Group -> Int], NEW st \in [Group -> GroupState],
         NEW tm \in [Group -> BOOLEAN], NEW rc \in [Group -> BOOLEAN]
  PROVE  /\ WithGroup(s, n, st, tm, rc) \in AvahiState
         /\ WithGroup(s, n, st, tm, rc).n_probing = n /\ WithGroup(s, n, st, tm, rc).state = st
         /\ WithGroup(s, n, st, tm, rc).timer = tm /\ WithGroup(s, n, st, tm, rc).recent = rc
BY DEF AvahiState, WithGroup

WithEntry(s, live, ver) == [s EXCEPT !.live = live, !.ver = ver]
LEMMA EntrySet ==
  ASSUME NEW s \in AvahiState, NEW live \in SUBSET Entry, NEW ver \in [Entry -> Version]
  PROVE  /\ WithEntry(s, live, ver) \in AvahiState
         /\ WithEntry(s, live, ver).live = live /\ WithEntry(s, live, ver).ver = ver
BY DEF AvahiState, WithEntry

WithLink(s, x, heard, stale) ==
    [s EXCEPT !.announcing = x, !.heard = heard, !.stale = stale]
LEMMA LinkSet ==
  ASSUME NEW s \in AvahiState, NEW x \in [Iface -> BOOLEAN],
         NEW heard \in [Iface -> SUBSET (Entry \X Version)], NEW stale \in [Iface -> SUBSET (Entry \X Version)]
  PROVE  /\ WithLink(s, x, heard, stale) \in AvahiState
         /\ WithLink(s, x, heard, stale).announcing = x
         /\ WithLink(s, x, heard, stale).heard = heard
BY DEF AvahiState, WithLink

LEMMA SameKeeps ==
  ASSUME NEW s, NEW t, NEW g \in Group, SameGroup(s, t, g), t.announcing = s.announcing
  PROVE  (Sound(s, g) => Sound(t, g)) /\ (Driven(s, g) => Driven(t, g))
<1>1. \A p \in PairsOf(g) : t.ann[p] = s.ann[p] /\ (p[1] \in t.live <=> p[1] \in s.live)
  BY Names DEF SameGroup, PairsOf
<1>2. Probes(t, g) = Probes(s, g)
  BY <1>1 DEF Probes
<1>3. \A e \in Entries(g) : Committed(t, e) <=> Committed(s, e)
  BY Names DEF SameGroup, Committed
<1>4. Founded(s, g) => Founded(t, g)
  BY <1>1 DEF Founded
<1>5. ServedLate(s, g) => ServedLate(t, g)
  BY <1>1 DEF ServedLate, SameGroup
<1>6. Bounded(s, g) => Bounded(t, g)
  BY <1>1 DEF Bounded
<1>7. Covered(s, g) => Covered(t, g)
  BY <1>2 DEF Covered, SameGroup
<1> QED BY <1>3, <1>4, <1>5, <1>6, <1>7 DEF Sound, Driven, SameGroup

LEMMA SameIsTransitive ==
  ASSUME NEW s, NEW t, NEW u, NEW g, SameGroup(s, t, g), SameGroup(t, u, g)
  PROVE  SameGroup(s, u, g)
BY DEF SameGroup

(* Fewer announcers, and the rest of the group as it was. *)
LEMMA FewerKeeps ==
  ASSUME NEW s \in AvahiState, NEW t \in AvahiState, NEW g \in Group, Sound(s, g), Driven(s, g),
         t.state = s.state, t.timer = s.timer, t.n_probing = s.n_probing,
         \A e \in Entries(g) : e \in t.live <=> e \in s.live,
         \A p \in PairsOf(g) : /\ t.ann[p] = s.ann[p] \/ t.ann[p] = NoAnnouncer
                               /\ t.ann[p] # NoAnnouncer => t.announcing[p[2]] = s.announcing[p[2]]
  PROVE  Sound(t, g) /\ Driven(t, g)
<1>1. Probes(t, g) \subseteq Probes(s, g) /\ Probes(s, g) \in SUBSET Pair
  BY AnnIs DEF Probes, PairsOf
<1>2. Cardinality(Probes(t, g)) <= Cardinality(Probes(s, g))
  BY <1>1, SubsetCounts, FS_Subset
<1>3. Cardinality(Probes(t, g)) \in Nat /\ Cardinality(Probes(s, g)) \in Nat /\ s.n_probing[g] \in Int
  BY <1>1, SubsetCounts DEF AvahiState
<1>4. Covered(t, g)
  BY <1>2, <1>3 DEF Sound, Covered
<1>5. \A e \in Entries(g) : Committed(t, e) <=> Committed(s, e)
  BY DEF Committed
<1>6. Founded(t, g)
  BY Names DEF Sound, Founded, PairsOf
<1>7. ServedLate(t, g)
  BY AnnIs DEF Sound, ServedLate
<1>8. Bounded(t, g)
  BY AnnIs, AvahiAssumption DEF Sound, Bounded
<1> QED BY <1>4, <1>5, <1>6, <1>7, <1>8 DEF Sound, Driven

LEMMA RemoveKeeps ==
  ASSUME NEW s \in AvahiState, NEW P \in SUBSET Pair, NEW t, t = RemoveAnnouncers(s, P)
  PROVE  /\ t \in AvahiState
         /\ \A p \in Pair : t.ann[p] = IF p \in P THEN NoAnnouncer ELSE s.ann[p]
         /\ \E ann : t = [s EXCEPT !.ann = ann]
         /\ \A g \in Group : Sound(s, g) /\ Driven(s, g) => Sound(t, g) /\ Driven(t, g)
<1>1. PICK ann : ann = [p \in Pair |-> IF p \in P THEN NoAnnouncer ELSE s.ann[p]]
  OBVIOUS
<1>2. ann \in [Pair -> AnnType]
  BY <1>1, AnnIs DEF AnnType
<1>3. t = [s EXCEPT !.ann = ann]
  BY <1>1 DEF RemoveAnnouncers
<1>4. t \in AvahiState /\ t.ann = ann
  <2>1. t = WithAnn(s, ann)
    BY <1>3 DEF WithAnn
  <2> QED BY <1>2, <2>1, AnnSet
<1>5. t.state = s.state /\ t.timer = s.timer /\ t.n_probing = s.n_probing /\ t.live = s.live
      /\ t.announcing = s.announcing
  BY <1>3 DEF AvahiState
<1>6. \A p \in Pair : t.ann[p] = IF p \in P THEN NoAnnouncer ELSE s.ann[p]
  BY <1>1, <1>4
<1>7. ASSUME NEW g \in Group, Sound(s, g), Driven(s, g) PROVE Sound(t, g) /\ Driven(t, g)
  BY <1>4, <1>5, <1>6, <1>7, FewerKeeps, Names
<1> QED BY <1>3, <1>4, <1>6, <1>7

-------------------------------------------------------------------------------
(* announce.c: new announcers.                                                *)

LEMMA InitialIs ==
  ASSUME NEW s \in AvahiState, NEW p \in Pair
  PROVE  /\ Initial(s, p[1]) \in AnnType \ {NoAnnouncer} /\ Initial(s, p[1]).n = 1
         /\ Initial(s, p[1]).st \in {"PROBING", "WAITING", "ANNOUNCING"}
         /\ Initial(s, p[1]).st = "PROBING" <=> IsUnique(p[1])
BY AnnIs DEF Initial, AnnouncerState

(* Announcers join a group: each record of it that probes was counted. *)
LEMMA JoinKeeps ==
  ASSUME NEW s \in AvahiState, NEW t \in AvahiState, NEW g \in Group, Sound(s, g),
         t.state = s.state, t.timer = s.timer, t.live = s.live, t.announcing = s.announcing,
         NEW new \in SUBSET PairsOf(g),
         \A p \in PairsOf(g) : t.ann[p] = IF p \in new THEN Initial(s, p[1]) ELSE s.ann[p],
         \A p \in new : s.ann[p].st # "PROBING" /\ p[1] \in s.live /\ Match(p)
                        /\ s.announcing[p[2]],
         t.n_probing[g] = s.n_probing[g] + Cardinality({p \in new : IsUnique(p[1])})
  PROVE  Sound(t, g) /\ (Driven(s, g) => Driven(t, g))
<1> DEFINE more == {p \in new : IsUnique(p[1])}
<1>1. PairsOf(g) \in SUBSET Pair /\ new \in SUBSET Pair /\ more \in SUBSET Pair
  BY DEF PairsOf
<1>2. \A p \in new : /\ Initial(s, p[1]).n = 1
                     /\ Initial(s, p[1]).st \in {"PROBING", "WAITING", "ANNOUNCING"}
                     /\ (Initial(s, p[1]).st = "PROBING" <=> IsUnique(p[1]))
  BY <1>1, InitialIs
<1>3. Probes(t, g) = Probes(s, g) \cup more /\ Probes(s, g) \cap more = {}
  BY <1>2 DEF Probes
<1>4. Cardinality(Probes(t, g)) = Cardinality(Probes(s, g)) + Cardinality(more)
  <2>1. IsFiniteSet(Probes(s, g)) /\ IsFiniteSet(more)
    BY <1>1, SubsetCounts, Probes(s, g) \in SUBSET Pair DEF Probes
  <2>2. Cardinality(Probes(s, g)) \in Nat /\ Cardinality(more) \in Nat
    BY <1>1, SubsetCounts, Probes(s, g) \in SUBSET Pair DEF Probes
  <2>3. Cardinality(Probes(s, g) \cap more) = 0
    BY <1>3, FS_EmptySet
  <2> HIDE DEF more
  <2>4. Cardinality(Probes(s, g) \cup more)
          = Cardinality(Probes(s, g)) + Cardinality(more) - Cardinality(Probes(s, g) \cap more)
    BY <2>1, FS_Union
  <2> QED BY <1>3, <2>2, <2>3, <2>4
<1>5. /\ Cardinality(Probes(s, g)) \in Nat /\ Cardinality(more) \in Nat
      /\ s.n_probing[g] \in Int /\ t.n_probing[g] \in Int
  BY <1>1, SubsetCounts, Probes(s, g) \in SUBSET Pair DEF Probes, AvahiState
<1>6. Covered(t, g)
  BY <1>4, <1>5 DEF Sound, Covered
<1>7. \A e \in Entries(g) : Committed(t, e) <=> Committed(s, e)
  BY DEF Committed
<1>8. Founded(t, g)
  BY DEF Sound, Founded
<1>9. ServedLate(t, g)
  BY <1>2 DEF Sound, ServedLate
<1>10. Bounded(t, g)
  BY <1>2, AvahiAssumption DEF Sound, Bounded
<1>11. Driven(s, g) => Driven(t, g)
  BY <1>5 DEF Driven
<1> QED BY <1>6, <1>7, <1>8, <1>9, <1>10, <1>11 DEF Sound

LEMMA NewKeeps ==
  ASSUME NEW s \in AvahiState, NEW P \in SUBSET Pair, NEW t, t = NewAnnouncers(s, P)
  PROVE  /\ t \in AvahiState
         /\ SameWorld(s, t) /\ SameHost(s, t)
         /\ t.live = s.live /\ t.state = s.state /\ t.timer = s.timer
         /\ \A g \in Group : Sound(s, g) => Sound(t, g) /\ (Driven(s, g) => Driven(t, g))
         /\ \A g \in Group : P \cap PairsOf(g) = {} => SameGroup(s, t, g)
<1> DEFINE new == {p \in P : /\ Match(p) /\ s.announcing[p[2]] /\ p[1] \in s.live
                             /\ Committed(s, p[1]) /\ s.ann[p] = NoAnnouncer}
           more == {p \in new : IsUnique(p[1])}
<1>1. PICK ann : ann = [p \in Pair |-> IF p \in new THEN Initial(s, p[1]) ELSE s.ann[p]]
  OBVIOUS
<1>2. PICK n : n = Counted(s, more, 1)
  OBVIOUS
<1>3. t = [s EXCEPT !.ann = ann, !.n_probing = n]
  BY <1>1, <1>2 DEF NewAnnouncers
<1>4. new \in SUBSET Pair /\ more \in SUBSET Pair
  OBVIOUS
<1>5. ann \in [Pair -> AnnType]
  BY <1>1, AnnIs, InitialIs
<1>6. /\ n \in [Group -> Int]
      /\ \A g \in Group : /\ Cardinality({p \in more : Of(p[1]) = g}) \in Nat
                          /\ n[g] = s.n_probing[g] + 1 * Cardinality({p \in more : Of(p[1]) = g})
  BY <1>2, <1>4, CountedIs
<1>7. t \in AvahiState /\ t.ann = ann /\ t.n_probing = n
  <2>1. t = WithAnnouncers(s, ann, n)
    BY <1>3 DEF WithAnnouncers
  <2> QED BY <1>5, <1>6, <2>1, AnnouncersSet
<1>8. /\ t.state = s.state /\ t.timer = s.timer /\ t.live = s.live /\ t.announcing = s.announcing
      /\ SameWorld(s, t) /\ SameHost(s, t)
  BY <1>3 DEF AvahiState, SameWorld, SameHost
<1>9. \A g \in Group : s.n_probing[g] \in Int
  BY DEF AvahiState
<1>10. ASSUME NEW g \in Group, Sound(s, g)
       PROVE  Sound(t, g) /\ (Driven(s, g) => Driven(t, g))
  <2> DEFINE here == {p \in new : Of(p[1]) = g}
  <2>1. here \in SUBSET PairsOf(g)
    BY <1>4 DEF PairsOf
  <2>2. \A p \in PairsOf(g) : t.ann[p] = IF p \in here THEN Initial(s, p[1]) ELSE s.ann[p]
    BY <1>1, <1>7 DEF PairsOf
  <2>3. {p \in here : IsUnique(p[1])} = {p \in more : Of(p[1]) = g}
    OBVIOUS
  <2>4. t.n_probing[g] = s.n_probing[g] + Cardinality({p \in here : IsUnique(p[1])})
    BY <1>6, <1>7, <1>9, <2>3
  <2>5. \A p \in here : s.ann[p].st # "PROBING" /\ p[1] \in s.live /\ Match(p) /\ s.announcing[p[2]]
    BY AnnIs
  <2> HIDE DEF here
  <2> QED BY <1>7, <1>8, <1>10, <2>1, <2>2, <2>4, <2>5, JoinKeeps
<1>11. ASSUME NEW g \in Group, P \cap PairsOf(g) = {} PROVE SameGroup(s, t, g)
  <2>1. {p \in more : Of(p[1]) = g} = {} /\ \A p \in PairsOf(g) : p \notin new
    BY <1>4, <1>11 DEF PairsOf
  <2>2. n[g] = s.n_probing[g]
    BY <1>6, <1>9, <2>1, FS_EmptySet
  <2> QED BY <1>1, <1>7, <1>8, <2>1, <2>2 DEF SameGroup, PairsOf
<1> QED BY <1>7, <1>8, <1>10, <1>11

-------------------------------------------------------------------------------
(* entry.c: entries killed, groups entered, reset and freed.                  *)

Killed(s, t, g) ==
    /\ t \in AvahiState /\ OnlyGroup(s, t, g)
    /\ t.state = s.state /\ t.timer = s.timer /\ t.n_probing = s.n_probing
    /\ \A p \in PairsOf(g) : t.ann[p] = NoAnnouncer
    /\ \A e \in Entries(g) : e \notin t.live

LEMMA KillIs ==
  ASSUME NEW s \in AvahiState, NEW g \in Group, Founded(s, g), NEW t,
         \/ t = Kill(s, Entries(g) \intersect s.live, TRUE)
         \/ t = Kill(s, Entries(g) \intersect s.live, FALSE)
  PROVE  Killed(s, t, g)
<1> DEFINE E == Entries(g) \intersect s.live
           P == E \X Iface
<1>1. PICK u : /\ u = Goodbye(s, P) \/ u = s
               /\ t = [RemoveAnnouncers(u, P) EXCEPT !.live = @ \ E]
  BY DEF Kill
<1>2. PICK heard \in [Iface -> SUBSET (Entry \X Version)], stale \in [Iface -> SUBSET (Entry \X Version)] :
        u = [s EXCEPT !.heard = heard, !.stale = stale]
  <2>1. CASE u = Goodbye(s, P)
    <3> DEFINE said == {p \in P : s.announcing[p[2]] /\ Match(p) /\ Registered(s, p)}
               h == [i \in Iface |-> s.heard[i] \ {<<p[1], s.ver[p[1]]>> : p \in {q \in said : q[2] = i}}]
               k == [i \in Iface |-> s.stale[i] \ {<<p[1], s.ver[p[1]]>> : p \in {q \in said : q[2] = i}}]
    <3>1. h \in [Iface -> SUBSET (Entry \X Version)] /\ k \in [Iface -> SUBSET (Entry \X Version)]
      BY DEF AvahiState
    <3>2. u = [s EXCEPT !.heard = h, !.stale = k]
      BY <1>1, <2>1 DEF Goodbye
    <3> QED BY <3>1, <3>2
  <2>2. CASE u = s
    <3>1. /\ s.heard \in [Iface -> SUBSET (Entry \X Version)] /\ s.stale \in [Iface -> SUBSET (Entry \X Version)]
          /\ s = [s EXCEPT !.heard = s.heard, !.stale = s.stale]
      BY DEF AvahiState
    <3> QED BY <1>1, <2>2, <3>1
  <2> QED BY <1>1, <2>1, <2>2
<1>3. u \in AvahiState
  BY <1>2 DEF AvahiState
<1>4. P \in SUBSET Pair
  BY Names
<1>5. PICK v : v = RemoveAnnouncers(u, P)
  OBVIOUS
<1> HIDE DEF P
<1>6. /\ v \in AvahiState /\ \A p \in Pair : v.ann[p] = IF p \in P THEN NoAnnouncer ELSE u.ann[p]
      /\ \E ann : v = [u EXCEPT !.ann = ann]
  BY <1>3, <1>4, <1>5, RemoveKeeps
<1>12. PICK ann : v = [u EXCEPT !.ann = ann]
  BY <1>6
<1>13. /\ v.live = s.live /\ v.state = s.state /\ v.timer = s.timer /\ v.n_probing = s.n_probing
       /\ SameWorld(s, v) /\ SameHost(s, v) /\ u.ann = s.ann
  BY <1>2, <1>12 DEF AvahiState, SameWorld, SameHost
<1>7. t = [v EXCEPT !.live = v.live \ E]
  BY <1>1, <1>5
<1>8. t \in AvahiState /\ t.live = s.live \ E /\ t.ann = v.ann
  BY <1>6, <1>7, <1>13 DEF AvahiState
<1>9. /\ t.state = s.state /\ t.timer = s.timer /\ t.n_probing = s.n_probing
      /\ SameWorld(s, t) /\ SameHost(s, t) /\ u.ann = s.ann
  BY <1>6, <1>7, <1>13 DEF AvahiState, SameWorld, SameHost
<1>10. \A p \in PairsOf(g) : t.ann[p] = NoAnnouncer
  <2>1. ASSUME NEW p \in PairsOf(g), s.ann[p] # NoAnnouncer PROVE p \in P
    BY <2>1, Names DEF Founded, P
  <2> QED BY <1>6, <1>8, <1>9, <2>1, Names
<1>11. ASSUME NEW h \in Group, h # g PROVE SameGroup(s, t, h)
  <2>1. \A p \in PairsOf(h) : p \in Pair /\ p \notin P
    BY <1>11, Names DEF P
  <2>2. \A e \in Entries(h) : e \notin E
    BY <1>11, Names
  <2> QED BY <1>6, <1>8, <1>9, <2>1, <2>2 DEF SameGroup
<1> QED BY <1>8, <1>9, <1>10, <1>11 DEF OnlyGroup, Killed

(* A group without announcers and live records *)
LEMMA EmptyIsSound ==
  ASSUME NEW t \in AvahiState, NEW g \in Group, Emptied(t, g), t.n_probing[g] = 0,
         t.timer[g] = FALSE, \A p \in PairsOf(g) : t.ann[p] = NoAnnouncer
  PROVE  Sound(t, g) /\ Driven(t, g)
<1>1. Probes(t, g) = {}
  BY AnnIs DEF Probes
<1>2. Covered(t, g)
  BY <1>1, FS_EmptySet DEF Covered
<1>3. Founded(t, g) /\ ServedLate(t, g) /\ Bounded(t, g)
  BY AnnIs, AvahiAssumption DEF Founded, ServedLate, Bounded
<1>4. \A e \in Entries(g) : ~Committed(t, e)
  BY Names DEF Committed, Emptied
<1> QED BY <1>2, <1>3, <1>4 DEF Sound, Driven, Emptied

LEMMA EnteredIs ==
  ASSUME NEW s \in AvahiState, NEW g \in Group, NEW st \in GroupState, NEW t, t = Entered(s, g, st)
  PROVE  /\ t \in AvahiState /\ OnlyGroup(s, t, g) /\ t.state[g] = st
         /\ t.timer[g] => s.timer[g] /\ s.state[g] # "REGISTERING"
         /\ s.timer[g] /\ s.state[g] # "REGISTERING" => t.timer[g]
         /\ t.n_probing = s.n_probing /\ t.ann = s.ann /\ t.live = s.live
<1>1. PICK sts : sts = [s.state EXCEPT ![g] = st]
  OBVIOUS
<1>10. PICK tms : tms = [s.timer EXCEPT ![g] = s.timer[g] /\ s.state[g] # "REGISTERING"]
  OBVIOUS
<1>2. sts \in [Group -> GroupState]
  BY <1>1 DEF AvahiState
<1>3. tms \in [Group -> BOOLEAN]
  BY <1>10 DEF AvahiState
<1>11. t = WithState(s, sts, tms)
  BY <1>1, <1>10 DEF Entered, WithState
<1>4. t \in AvahiState /\ t.state = sts /\ t.timer = tms
  BY <1>2, <1>3, <1>11, StateSet
<1>8. s.state \in [Group -> GroupState] /\ s.timer \in [Group -> BOOLEAN]
  BY DEF AvahiState
<1>9. t.state[g] = st
  BY <1>1, <1>4, <1>8
<1>5. /\ t.n_probing = s.n_probing /\ t.ann = s.ann /\ t.live = s.live
      /\ SameWorld(s, t) /\ SameHost(s, t)
  BY <1>11 DEF WithState, AvahiState, SameWorld, SameHost
<1>6. /\ t.timer[g] => s.timer[g] /\ s.state[g] # "REGISTERING"
      /\ s.timer[g] /\ s.state[g] # "REGISTERING" => t.timer[g]
  BY <1>4, <1>8, <1>10
<1>7. \A h \in Group : h # g => t.state[h] = s.state[h] /\ t.timer[h] = s.timer[h]
  BY <1>1, <1>4, <1>8, <1>10
<1> QED BY <1>4, <1>5, <1>6, <1>7, <1>9 DEF OnlyGroup, SameGroup

LEMMA ResetIs ==
  ASSUME NEW s \in AvahiState, NEW g \in Group, Sound(s, g), NEW t, t = Reset(s, g)
  PROVE  t \in AvahiState /\ OnlyGroup(s, t, g) /\ Emptied(t, g) /\ Sound(t, g) /\ Driven(t, g)
<1>1. PICK u : u = Kill(s, Entries(g) \intersect s.live, TRUE)
  OBVIOUS
<1>2. /\ u \in AvahiState /\ OnlyGroup(s, u, g)
      /\ u.state = s.state /\ u.timer = s.timer /\ u.n_probing = s.n_probing
      /\ \A p \in PairsOf(g) : u.ann[p] = NoAnnouncer
      /\ \A e \in Entries(g) : e \notin u.live
  <2>1. Founded(s, g)
    BY DEF Sound
  <2>2. Killed(s, u, g)
    BY <1>1, <2>1, KillIs, Zenon
  <2> QED BY <2>2 DEF Killed
<1>3. PICK v : v = [u EXCEPT !.n_probing[g] = 0]
  OBVIOUS
<1>4. /\ v \in AvahiState /\ v.n_probing[g] = 0 /\ v.state = s.state /\ v.timer = s.timer
      /\ v.ann = u.ann /\ v.live = u.live /\ OnlyGroup(u, v, g)
  <2>1. v = [u EXCEPT !.n_probing = [u.n_probing EXCEPT ![g] = 0]]
    BY <1>3
  <2>2. [u.n_probing EXCEPT ![g] = 0] \in [Group -> Int]
    BY <1>2 DEF AvahiState
  <2>3. v \in AvahiState /\ v.n_probing = [u.n_probing EXCEPT ![g] = 0]
    BY <1>2, <2>1, <2>2 DEF AvahiState
  <2>4. v.state = u.state /\ v.timer = u.timer /\ v.ann = u.ann /\ v.live = u.live
        /\ SameWorld(u, v) /\ SameHost(u, v)
    BY <1>2, <2>1 DEF AvahiState, SameWorld, SameHost
  <2>5. \A h \in Group : v.n_probing[h] = IF h = g THEN 0 ELSE u.n_probing[h]
    BY <1>2, <2>3 DEF AvahiState
  <2> QED BY <1>2, <2>3, <2>4, <2>5 DEF OnlyGroup, SameGroup
<1>5. t = IF v.state[g] = "UNCOMMITED" THEN v ELSE Entered(v, g, "UNCOMMITED")
  BY <1>1, <1>3 DEF Reset, ChangeState
<1>6. OnlyGroup(s, v, g)
  BY <1>2, <1>4, SameIsTransitive DEF OnlyGroup, SameWorld, SameHost
<1>7. s.timer[g] \in BOOLEAN
  BY DEF AvahiState
<1>8. CASE v.state[g] = "UNCOMMITED"
  <2>1. v.timer[g] = FALSE
    BY <1>4, <1>7, <1>8 DEF Sound
  <2>2. Emptied(v, g)
    BY <1>2, <1>4, <1>8 DEF Emptied
  <2> QED BY <1>2, <1>4, <1>5, <1>6, <1>8, <2>1, <2>2, EmptyIsSound
<1>9. CASE v.state[g] # "UNCOMMITED"
  <2>1. /\ t \in AvahiState /\ OnlyGroup(v, t, g) /\ t.state[g] = "UNCOMMITED"
        /\ t.timer[g] => v.timer[g] /\ v.state[g] # "REGISTERING"
        /\ t.n_probing = v.n_probing /\ t.ann = v.ann /\ t.live = v.live
    <3>1. t = Entered(v, g, "UNCOMMITED") /\ "UNCOMMITED" \in GroupState
      BY <1>5, <1>9 DEF GroupState
    <3> QED BY <1>4, <3>1, EnteredIs
  <2>2. t.timer[g] = FALSE
    BY <1>4, <1>7, <2>1 DEF Sound, AvahiState
  <2>3. Emptied(t, g)
    BY <1>2, <1>4, <2>1 DEF Emptied
  <2>4. OnlyGroup(s, t, g)
    BY <1>6, <2>1, SameIsTransitive DEF OnlyGroup, SameWorld, SameHost
  <2> QED BY <1>2, <1>4, <2>1, <2>2, <2>3, <2>4, EmptyIsSound
<1> QED BY <1>8, <1>9

LEMMA FreeIs ==
  ASSUME NEW s \in AvahiState, NEW g \in Group, Sound(s, g), NEW t, t = FreeGroup(s, g)
  PROVE  t \in AvahiState /\ OnlyGroup(s, t, g) /\ Emptied(t, g) /\ Sound(t, g) /\ Driven(t, g)
<1>1. PICK u : u = Kill(s, Entries(g) \intersect s.live, TRUE)
  OBVIOUS
<1>2. /\ u \in AvahiState /\ OnlyGroup(s, u, g)
      /\ \A p \in PairsOf(g) : u.ann[p] = NoAnnouncer
      /\ \A e \in Entries(g) : e \notin u.live
  <2>1. Founded(s, g)
    BY DEF Sound
  <2>2. Killed(s, u, g)
    BY <1>1, <2>1, KillIs, Zenon
  <2> QED BY <2>2 DEF Killed
<1>3. t = [u EXCEPT !.n_probing[g] = 0, !.state[g] = "UNCOMMITED",
                    !.timer[g] = FALSE, !.recent[g] = FALSE]
  BY <1>1 DEF FreeGroup
<1>4. /\ t \in AvahiState /\ t.n_probing[g] = 0 /\ t.state[g] = "UNCOMMITED" /\ t.timer[g] = FALSE
      /\ t.ann = u.ann /\ t.live = u.live /\ OnlyGroup(u, t, g)
  <2> DEFINE n == [u.n_probing EXCEPT ![g] = 0]
             st == [u.state EXCEPT ![g] = "UNCOMMITED"]
             tm == [u.timer EXCEPT ![g] = FALSE]
             rc == [u.recent EXCEPT ![g] = FALSE]
  <2>1. t = [u EXCEPT !.n_probing = n, !.state = st, !.timer = tm, !.recent = rc]
    BY <1>3
  <2>2. /\ n \in [Group -> Int] /\ st \in [Group -> GroupState] /\ tm \in [Group -> BOOLEAN]
        /\ rc \in [Group -> BOOLEAN] /\ n[g] = 0 /\ st[g] = "UNCOMMITED" /\ tm[g] = FALSE
        /\ \A h \in Group \ {g} : /\ n[h] = u.n_probing[h] /\ st[h] = u.state[h]
                                  /\ tm[h] = u.timer[h]
    BY <1>2 DEF AvahiState, GroupState
  <2> HIDE DEF n, st, tm, rc
  <2>3. t \in AvahiState /\ t.n_probing = n /\ t.state = st /\ t.timer = tm
    <3>1. t = WithGroup(u, n, st, tm, rc)
      BY <2>1 DEF WithGroup
    <3> QED BY <1>2, <2>2, <3>1, GroupSet
  <2>4. t.ann = u.ann /\ t.live = u.live /\ SameWorld(u, t) /\ SameHost(u, t)
    BY <1>2, <2>1 DEF AvahiState, SameWorld, SameHost
  <2> QED BY <2>2, <2>3, <2>4 DEF OnlyGroup, SameGroup
<1>6. OnlyGroup(s, t, g)
  BY <1>2, <1>4, SameIsTransitive DEF OnlyGroup, SameWorld, SameHost
<1>7. Emptied(t, g)
  BY <1>2, <1>4 DEF Emptied
<1> QED BY <1>2, <1>4, <1>6, <1>7, EmptyIsSound

-------------------------------------------------------------------------------
(* Loops along lists, as recursive functions.                                 *)

(* Loops.  That the function of Along is defined, and what holds of its values, *)
(* is shown by the least number for which it would fail.                        *)
LEMMA Least ==
  ASSUME NEW T \in SUBSET Nat, T # {}
  PROVE  \E n \in T : \A m \in T : n <= m
<1>1. IsWellFoundedOn(OpToRel(<, Nat), Nat)
  BY NatLessThanWellFounded
<1>2. \A m, n \in Nat : m < n => <<m, n>> \in OpToRel(<, Nat)
  BY DEF OpToRel
<1> HIDE DEF OpToRel
<1>3. \A R : IsWellFoundedOn(R, Nat) => \E n \in T : \A m \in T : ~ (<<m, n>> \in R)
  BY WFMin, Zenon
<1>4. PICK n \in T : \A m \in T : ~ (<<m, n>> \in OpToRel(<, Nat))
  BY <1>1, <1>3, Zenon
<1>5. \A m \in T : m \in Nat /\ n \in Nat
  OBVIOUS
<1>6. \A m \in T : ~ (m < n)
  BY <1>2, <1>4, <1>5, Zenon
<1> QED BY <1>5, <1>6

LEMMA AllAlong ==
  ASSUME NEW b \in Nat, NEW N \in Nat, b <= N, NEW T \in SUBSET (b .. N), b \notin T,
         \A n \in b .. N : n # b /\ n - 1 \notin T => n \notin T
  PROVE  T = {}
<1>1. SUFFICES ASSUME T # {} PROVE FALSE
  OBVIOUS
<1>2. T \in SUBSET Nat
  OBVIOUS
<1>3. PICK n \in T : \A m \in T : n <= m
  BY <1>1, <1>2, Least
<1>4. n \in b .. N /\ n # b /\ n - 1 \in b .. N /\ n - 1 \notin T
  BY <1>3
<1> QED BY <1>4

Runs(f, N, a, g) == \A n \in 0 .. N : f[n] = IF n = 0 THEN a ELSE g[n][f[n-1]]
LEMMA Loops ==
  ASSUME NEW N \in Nat, NEW S, NEW a \in S, NEW g \in [1 .. N -> [S -> S]]
  PROVE  \E f \in [0 .. N -> S] : Runs(f, N, a, g)
<1> USE DEF Runs
<1> DEFINE Is(f, m) == f \in [0 .. m -> S] /\ Runs(f, m, a, g)
           T == {m \in 0 .. N : ~\E f : Is(f, m)}
<1>1. 0 \notin T
  <2>1. 0 .. 0 = {0}
    OBVIOUS
  <2>2. PICK f : f = [n \in 0 .. 0 |-> a]
    OBVIOUS
  <2>3. Is(f, 0)
    BY <2>1, <2>2
  <2> QED BY <2>3
<1>2. ASSUME NEW m \in 0 .. N, m # 0, m - 1 \notin T PROVE m \notin T
  <2>1. m - 1 \in 0 .. N /\ m \in 1 .. N
    BY <1>2
  <2>2. PICK f : Is(f, m - 1)
    BY <1>2, <2>1
  <2>3. PICK h : h = [n \in 0 .. m |-> IF n = m THEN g[m][f[m-1]] ELSE f[n]]
    OBVIOUS
  <2>4. f[m-1] \in S /\ g[m][f[m-1]] \in S
    BY <1>2, <2>1, <2>2
  <2>5. h \in [0 .. m -> S]
    BY <1>2, <2>2, <2>3, <2>4
  <2>6. ASSUME NEW n \in 0 .. m PROVE h[n] = IF n = 0 THEN a ELSE g[n][h[n-1]]
    <3>1. CASE n = m
      <4>1. h[n] = g[m][f[m-1]] /\ m - 1 \in 0 .. m /\ h[m-1] = f[m-1]
        BY <1>2, <2>1, <2>3, <3>1
      <4> QED BY <1>2, <3>1, <4>1
    <3>2. CASE n # m
      <4>1. n \in 0 .. m - 1 /\ h[n] = f[n]
        BY <1>2, <2>3, <3>2
      <4>2. n # 0 => n - 1 \in 0 .. m /\ n - 1 # m /\ h[n-1] = f[n-1]
        BY <1>2, <2>3, <3>2
      <4>3. f[n] = IF n = 0 THEN a ELSE g[n][f[n-1]]
        BY <2>2, <4>1
      <4> QED BY <4>1, <4>2, <4>3
    <3> QED BY <3>1, <3>2
  <2>7. Is(h, m)
    BY <2>5, <2>6
  <2> QED BY <2>7
<1> HIDE DEF Is
<1>3. T = {}
  <2>1. T \in SUBSET (0 .. N) /\ 0 \in Nat /\ 0 <= N
    OBVIOUS
  <2> HIDE DEF T
  <2> QED BY <1>1, <1>2, <2>1, AllAlong
<1>4. \E f : Is(f, N)
  <2>1. N \in 0 .. N
    OBVIOUS
  <2> QED BY <1>3, <2>1, Zenon
<1> QED BY <1>4 DEF Is

(* What holds at the end of a loop. *)
LEMMA LoopEnds ==
  ASSUME NEW N \in Nat, NEW Q, NEW f, f[0] \in Q[0],
         \A n \in 1 .. N : f[n-1] \in Q[n-1] => f[n] \in Q[n]
  PROVE  f[N] \in Q[N]
<1> DEFINE T == {n \in 0 .. N : f[n] \notin Q[n]}
<1>1. T \in SUBSET (0 .. N) /\ 0 \in Nat /\ 0 <= N /\ 0 \notin T
  OBVIOUS
<1>2. ASSUME NEW n \in 0 .. N, n # 0, n - 1 \notin T PROVE n \notin T
  <2>1. n \in 1 .. N /\ n - 1 \in 0 .. N
    BY <1>2
  <2> QED BY <1>2, <2>1
<1>3. N \in 0 .. N
  OBVIOUS
<1> HIDE DEF T
<1>4. T = {}
  BY <1>1, <1>2, AllAlong
<1> QED BY <1>3, <1>4 DEF T

LEMMA ListIs ==
  ASSUME NEW S, IsFiniteSet(S), NEW seq, seq = SetToSeq(S)
  PROVE  /\ Len(seq) \in Nat /\ seq \in [1 .. Len(seq) -> S]
         /\ \A i, j \in 1 .. Len(seq) : seq[i] = seq[j] => i = j
<1>1. PICK n : n = Cardinality(S)
  OBVIOUS
<1>2. n \in Nat /\ ExistsBijection(1 .. n, S)
  BY <1>1, FS_CardinalityType
<1>3. PICK f \in [1 .. n -> S] : IsInjective(f)
  BY <1>2 DEF ExistsBijection, Bijection, Injection
<1>4. seq \in [1 .. n -> S] /\ IsInjective(seq)
  BY <1>1, <1>3 DEF SetToSeq
<1>5. Len(seq) = n
  BY <1>2, <1>4
<1> QED BY <1>2, <1>4, <1>5 DEF IsInjective

-------------------------------------------------------------------------------
(* announce.c: one announcement.                                              *)

\* Nothing changes but what the listeners hold.
OnlyHeard(s, t) ==
  \E heard, stale \in [Iface -> SUBSET (Entry \X Version)] : t = [s EXCEPT !.heard = heard, !.stale = stale]

LEMMA SendIs ==
  ASSUME NEW s \in AvahiState, NEW p \in Pair, NEW t, t = Send(s, p)
  PROVE  OnlyHeard(s, t)
<1>1. PICK rrset : rrset = {f \in SameKey(s, p[1]) : Registered(s, <<f, p[2]>>)}
  OBVIOUS
<1>2. PICK h : h = IF IsUnique(p[1])
                   THEN {x \in s.heard[p[2]] : Key(x[1], x[2]) # Key(p[1], s.ver[p[1]])}
                          \union {<<f, s.ver[f]>> : f \in rrset}
                   ELSE s.heard[p[2]] \union {<<p[1], s.ver[p[1]]>>}
  OBVIOUS
<1>20. PICK k : k = IF IsUnique(p[1])
                   THEN {x \in s.stale[p[2]] : Key(x[1], x[2]) # Key(p[1], s.ver[p[1]])}
                   ELSE s.stale[p[2]] \ {<<p[1], s.ver[p[1]]>>}
  OBVIOUS
<1>3. t = [s EXCEPT !.heard = [s.heard EXCEPT ![p[2]] = h], !.stale = [s.stale EXCEPT ![p[2]] = k]]
  BY <1>1, <1>2, <1>20 DEF Send
<1>4. rrset \subseteq Entry
  BY <1>1 DEF SameKey, AvahiState
<1>5. /\ s.heard[p[2]] \subseteq Entry \X Version /\ p[1] \in Entry
      /\ \A f \in Entry : s.ver[f] \in Version
  BY Names DEF AvahiState
<1>6. h \subseteq Entry \X Version
  <2>1. CASE IsUnique(p[1])
    BY <1>2, <1>4, <1>5, <2>1
  <2>2. CASE ~IsUnique(p[1])
    BY <1>2, <1>5, <2>2
  <2> QED BY <2>1, <2>2
<1>7. [s.heard EXCEPT ![p[2]] = h] \in [Iface -> SUBSET (Entry \X Version)]
  BY <1>6 DEF AvahiState
<1>8. [s.stale EXCEPT ![p[2]] = k] \in [Iface -> SUBSET (Entry \X Version)]
  <2>1. s.stale[p[2]] \subseteq Entry \X Version
    BY Names DEF AvahiState
  <2>2. k \subseteq Entry \X Version
    BY <1>20, <2>1
  <2> QED BY <2>2 DEF AvahiState
<1> QED BY <1>3, <1>7, <1>8 DEF OnlyHeard

\* What an announcement changes.
Announced(s, t, p) ==
    /\ t \in AvahiState /\ SameWorld(s, t) /\ SameHost(s, t)
    /\ t.state = s.state /\ t.timer = s.timer /\ t.n_probing = s.n_probing /\ t.live = s.live
    /\ \A q \in Pair : q # p => t.ann[q] = s.ann[q]
    /\ t.ann[p] # NoAnnouncer
    /\ t.ann[p].st \in {"ANNOUNCING", "ESTABLISHED"}
    /\ s.ann[p].n < Iterations =>
          t.ann[p].n <= Iterations /\ (t.ann[p].st = "ANNOUNCING" => t.ann[p].n < Iterations)

LEMMA AnnounceIs ==
  ASSUME NEW s \in AvahiState, NEW p \in Pair,
         NEW t, t = NextAnnouncement(s, p)
  PROVE  Announced(s, t, p)
<1>1. PICK u : u = Send(s, p)
  OBVIOUS
<1>20. OnlyHeard(s, u)
  BY <1>1, SendIs
<1>2. PICK heard \in [Iface -> SUBSET (Entry \X Version)], stale \in [Iface -> SUBSET (Entry \X Version)] :
        u = [s EXCEPT !.heard = heard, !.stale = stale]
  BY <1>20 DEF OnlyHeard
<1>3. u \in AvahiState /\ u.ann = s.ann
  BY <1>2 DEF AvahiState
<1>7. s.ann[p].n \in Nat /\ s.ann \in [Pair -> AnnType]
  BY AnnIs DEF AvahiState, AnnType
<1>4. PICK n \in Nat : n = s.ann[p].n + 1
  BY <1>7
<1>8. PICK a : a = [st |-> IF n >= Iterations THEN "ESTABLISHED" ELSE "ANNOUNCING", n |-> n]
  OBVIOUS
<1>5. PICK ann : ann = [s.ann EXCEPT ![p] = a]
  OBVIOUS
<1>6. t = [u EXCEPT !.ann = ann]
  BY <1>1, <1>3, <1>4, <1>5, <1>8 DEF NextAnnouncement
<1>9. a.n = s.ann[p].n + 1 /\ a.st = IF a.n >= Iterations THEN "ESTABLISHED" ELSE "ANNOUNCING"
  BY <1>4, <1>8
<1>10. a \in AnnType /\ a # NoAnnouncer
  BY <1>8, AnnIs DEF AnnouncerState
<1>11. ann \in [Pair -> AnnType] /\ ann[p] = a /\ \A q \in Pair : q # p => ann[q] = s.ann[q]
  BY <1>5, <1>7, <1>10
<1>12. t \in AvahiState /\ t.ann = ann
  <2>1. t = WithAnn(u, ann)
    BY <1>6 DEF WithAnn
  <2> QED BY <1>3, <1>11, <2>1, AnnSet
<1>13. /\ SameWorld(s, t) /\ SameHost(s, t)
       /\ t.state = s.state /\ t.timer = s.timer /\ t.n_probing = s.n_probing /\ t.live = s.live
  BY <1>2, <1>6 DEF AvahiState, SameWorld, SameHost
<1>14. t.ann[p].st \in {"ANNOUNCING", "ESTABLISHED"}
  BY <1>9, <1>11, <1>12
<1>15. s.ann[p].n < Iterations =>
          t.ann[p].n <= Iterations /\ (t.ann[p].st = "ANNOUNCING" => t.ann[p].n < Iterations)
  BY <1>7, <1>9, <1>11, <1>12, AvahiAssumption
<1> QED BY <1>10, <1>11, <1>12, <1>13, <1>14, <1>15 DEF Announced

LEMMA AnnounceKeeps ==
  ASSUME NEW s \in AvahiState, NEW g \in Group, NEW p \in PairsOf(g), Sound(s, g),
         s.ann[p].st = "ANNOUNCING", NEW t, Announced(s, t, p)
  PROVE  /\ OnlyGroup(s, t, g) /\ Sound(t, g) /\ (Driven(s, g) => Driven(t, g))
         /\ t.live = s.live /\ t.state = s.state
<1>1. p \in Pair /\ t \in AvahiState
  BY Names DEF Announced
<1>2. t.ann[p].st \in {"ANNOUNCING", "ESTABLISHED"} /\ t.ann[p] # NoAnnouncer
  BY DEF Announced
<1>3. \A q \in Pair : q # p => t.ann[q] = s.ann[q]
  BY DEF Announced
<1>4. Probes(t, g) = Probes(s, g)
  BY <1>2, <1>3, Names DEF Probes
<1>5. /\ t.state = s.state /\ t.timer = s.timer /\ t.n_probing = s.n_probing /\ t.live = s.live
      /\ SameWorld(s, t) /\ SameHost(s, t) /\ t.announcing = s.announcing
  BY DEF Announced, SameWorld
<1>6. \A e \in Entries(g) : Committed(t, e) <=> Committed(s, e)
  BY <1>5 DEF Committed
<1>7. s.ann[p] # NoAnnouncer
  BY AnnIs
<1>8. Founded(t, g)
  BY <1>3, <1>5, <1>7, Names DEF Sound, Founded
<1>9. ServedLate(t, g)
  BY <1>2, <1>3, <1>5, Names DEF Sound, ServedLate
<1>10. Bounded(t, g)
  BY <1>3, Names DEF Sound, Bounded, Announced
<1>11. Covered(t, g)
  BY <1>4, <1>5 DEF Sound, Covered
<1>12. Sound(t, g) /\ (Driven(s, g) => Driven(t, g))
  BY <1>5, <1>6, <1>8, <1>9, <1>10, <1>11 DEF Sound, Driven
<1>13. ASSUME NEW h \in Group, h # g PROVE SameGroup(s, t, h)
  BY <1>3, <1>5, <1>13, Names DEF SameGroup, PairsOf
<1> QED BY <1>5, <1>12, <1>13 DEF OnlyGroup

-------------------------------------------------------------------------------
(* Those that wait begin.                                                     *)

\* What an operation on a group does that neither ends it nor takes its records.
Kept(s, t, g) ==
    /\ t \in AvahiState /\ OnlyGroup(s, t, g) /\ Sound(t, g) /\ Driven(t, g)
    /\ t.live = s.live /\ t.state = s.state

Starts(t, ready, g) == \A p \in ready :
    p \in PairsOf(g) /\ t.ann[p].st = "ANNOUNCING" /\ t.ann[p].n < Iterations

LEMMA BeginIs ==
  ASSUME NEW s \in AvahiState, NEW g \in Group, Sound(s, g), s.state[g] = "ESTABLISHED",
         NEW ready, ready = {p \in Pair : Of(p[1]) = g /\ s.ann[p].st = "WAITING"},
         NEW n \in {0, 1},
         NEW t, t = [s EXCEPT !.ann = [p \in Pair |->
                        IF p \in ready THEN [st |-> "ANNOUNCING", n |-> n] ELSE s.ann[p]]]
  PROVE  Kept(s, t, g) /\ Starts(t, ready, g)
<1>1. PICK ann : ann = [p \in Pair |-> IF p \in ready THEN [st |-> "ANNOUNCING", n |-> n] ELSE s.ann[p]]
  OBVIOUS
<1>2. [st |-> "ANNOUNCING", n |-> n] \in AnnType \ {NoAnnouncer}
  BY AnnIs DEF AnnouncerState
<1>3. ann \in [Pair -> AnnType]
  BY <1>1, <1>2, AnnIs
<1>4. t \in AvahiState /\ t.ann = ann
  <2>1. t = WithAnn(s, ann)
    BY <1>1 DEF WithAnn
  <2> QED BY <1>3, <2>1, AnnSet
<1>5. /\ t.state = s.state /\ t.timer = s.timer /\ t.n_probing = s.n_probing /\ t.live = s.live
      /\ SameWorld(s, t) /\ SameHost(s, t) /\ t.announcing = s.announcing
  BY <1>1 DEF AvahiState, SameWorld, SameHost
<1>6. /\ \A p \in PairsOf(g) : t.ann[p] = IF p \in ready THEN [st |-> "ANNOUNCING", n |-> n] ELSE s.ann[p]
      /\ \A p \in ready : p \in PairsOf(g) /\ s.ann[p].st = "WAITING" /\ s.ann[p] # NoAnnouncer
  BY <1>1, <1>4, AnnIs DEF PairsOf
<1>7. Probes(t, g) = Probes(s, g)
  BY <1>6 DEF Probes
<1>8. \A e \in Entries(g) : Committed(t, e) <=> Committed(s, e)
  BY <1>5 DEF Committed
<1>9. Founded(t, g)
  BY <1>5, <1>6 DEF Sound, Founded
<1>10. ServedLate(t, g)
  BY <1>5 DEF ServedLate
<1>11. Bounded(t, g)
  BY <1>6, AvahiAssumption DEF Sound, Bounded
<1>12. Covered(t, g)
  BY <1>5, <1>7 DEF Sound, Covered
<1>13. Sound(t, g) /\ Driven(t, g)
  BY <1>5, <1>8, <1>9, <1>10, <1>11, <1>12 DEF Sound, Driven
<1>14. ASSUME NEW h \in Group, h # g PROVE SameGroup(s, t, h)
  BY <1>1, <1>4, <1>5, <1>6, <1>14, Names DEF SameGroup, PairsOf
<1> QED BY <1>4, <1>5, <1>6, <1>13, <1>14, AvahiAssumption DEF Kept, OnlyGroup, Starts

LEMMA KeptIsTransitive ==
  ASSUME NEW s, NEW t, NEW u, NEW g, Kept(s, t, g), Kept(t, u, g)
  PROVE  Kept(s, u, g)
BY SameIsTransitive DEF Kept, OnlyGroup, SameWorld, SameHost

LEMMA BegunIs ==
  ASSUME NEW s \in AvahiState, NEW g \in Group, Sound(s, g), s.state[g] = "ESTABLISHED",
         NEW t, t = Begun(s, g, TRUE) \/ t = Begun(s, g, FALSE)
  PROVE  Kept(s, t, g)
<1>1. PICK ready : ready = {p \in Pair : Of(p[1]) = g /\ s.ann[p].st = "WAITING"}
  OBVIOUS
<1>2. CASE t = Begun(s, g, FALSE)
  <2>1. t = [s EXCEPT !.ann = [p \in Pair |->
                IF p \in ready THEN [st |-> "ANNOUNCING", n |-> 0] ELSE s.ann[p]]]
    BY <1>1, <1>2 DEF Begun
  <2>2. 0 \in {0, 1}
    OBVIOUS
  <2>3. Kept(s, t, g) /\ Starts(t, ready, g)
    BY <1>1, <2>1, <2>2, BeginIs
  <2> QED BY <2>3
<1>3. CASE t = Begun(s, g, TRUE)
  <2>1. PICK u : u = [s EXCEPT !.ann = [p \in Pair |->
                IF p \in ready THEN [st |-> "ANNOUNCING", n |-> 1] ELSE s.ann[p]]]
    OBVIOUS
  <2>2. /\ Kept(s, u, g)
        /\ \A p \in ready : p \in PairsOf(g) /\ u.ann[p].st = "ANNOUNCING" /\ u.ann[p].n < Iterations
    <3>1. 1 \in {0, 1}
      OBVIOUS
    <3>2. Kept(s, u, g) /\ Starts(u, ready, g)
      BY <1>1, <2>1, <3>1, BeginIs, Zenon
    <3> QED BY <3>2 DEF Starts
  <2>3. PICK seq : seq = SetToSeq(ready)
    OBVIOUS
  <2>4. t = Along(u, seq, NextAnnouncement)
    BY <1>1, <1>3, <2>1, <2>3 DEF Begun
  <2>5. /\ Len(seq) \in Nat /\ seq \in [1 .. Len(seq) -> ready]
        /\ \A i, j \in 1 .. Len(seq) : seq[i] = seq[j] => i = j
    <3>1. IsFiniteSet(ready)
      BY <1>1, SubsetCounts
    <3> QED BY <2>3, <3>1, ListIs
  <2>6. PICK N \in Nat : N = Len(seq)
    BY <2>5
  <2>7. u \in AvahiState /\ ready \subseteq Pair
    BY <1>1, <2>2 DEF Kept
  <2>8. \A v \in AvahiState, n \in 1 .. N : /\ seq[n] \in ready
                                            /\ Announced(v, NextAnnouncement(v, seq[n]), seq[n])
                                            /\ NextAnnouncement(v, seq[n]) \in AvahiState
    BY <2>5, <2>6, <2>7, AnnounceIs DEF Announced
  <2>9. PICK g1 : g1 = [n \in 1 .. N |-> [v \in AvahiState |-> NextAnnouncement(v, seq[n])]]
    OBVIOUS
  <2>10. PICK h \in [0 .. N -> AvahiState] : Runs(h, N, u, g1)
    <3>1. g1 \in [1 .. N -> [AvahiState -> AvahiState]]
      BY <2>8, <2>9
    <3> QED BY <2>7, <3>1, Loops
  <2>11. h = [n \in 0 .. N |-> IF n = 0 THEN u ELSE NextAnnouncement(h[n-1], seq[n])]
    <3>1. ASSUME NEW n \in 0 .. N PROVE h[n] = IF n = 0 THEN u ELSE NextAnnouncement(h[n-1], seq[n])
      <4>1. n # 0 => n \in 1 .. N /\ n - 1 \in 0 .. N /\ h[n-1] \in AvahiState
        BY <2>10
      <4> QED BY <2>9, <2>10, <4>1 DEF Runs
    <3> QED BY <2>10, <3>1
  <2> DEFINE f[n \in 0 .. N] == IF n = 0 THEN u ELSE NextAnnouncement(f[n-1], seq[n])
  <2>12. f = [n \in 0 .. N |-> IF n = 0 THEN u ELSE NextAnnouncement(f[n-1], seq[n])]
    BY <2>11
  <2>13. t = f[N]
    BY <2>4, <2>6 DEF Along
  <2> HIDE DEF f
  <2>14. \A n \in 0 .. N : f[n] = IF n = 0 THEN u ELSE NextAnnouncement(f[n-1], seq[n])
    BY <2>12
  <2> DEFINE Fine(n) == /\ Kept(s, f[n], g)
                        /\ \A k \in n + 1 .. N : /\ f[n].ann[seq[k]].st = "ANNOUNCING"
                                                 /\ f[n].ann[seq[k]].n < Iterations
             T == {n \in 0 .. N : ~Fine(n)}
  <2>15. Fine(0)
    BY <2>2, <2>5, <2>6, <2>14
  <2>16. ASSUME NEW n \in 0 .. N, n # 0, Fine(n - 1) PROVE Fine(n)
    <3>1. n \in 1 .. N /\ n - 1 \in 0 .. N /\ n \in (n - 1) + 1 .. N
      BY <2>16
    <3>2. PICK v : v = f[n-1]
      OBVIOUS
    <3>3. /\ v \in AvahiState /\ Kept(s, v, g) /\ Sound(v, g) /\ seq[n] \in PairsOf(g)
          /\ v.ann[seq[n]].st = "ANNOUNCING"
      BY <2>2, <2>8, <2>16, <3>1, <3>2 DEF Kept
    <3>4. f[n] = NextAnnouncement(v, seq[n])
      BY <2>14, <2>16, <3>2
    <3>5. Announced(v, f[n], seq[n])
      BY <2>8, <3>1, <3>3, <3>4
    <3>6. /\ OnlyGroup(v, f[n], g) /\ Sound(f[n], g) /\ (Driven(v, g) => Driven(f[n], g))
          /\ f[n].live = v.live /\ f[n].state = v.state
      BY <3>3, <3>5, AnnounceKeeps
    <3>7. Kept(v, f[n], g)
      BY <3>3, <3>5, <3>6 DEF Kept, Announced
    <3>8. Kept(s, f[n], g)
      BY <3>3, <3>7, KeptIsTransitive
    <3>9. ASSUME NEW k \in n + 1 .. N
          PROVE  f[n].ann[seq[k]].st = "ANNOUNCING" /\ f[n].ann[seq[k]].n < Iterations
      <4>1. k \in 1 .. N /\ k # n /\ k \in (n - 1) + 1 .. N
        BY <2>16, <3>9
      <4>2. seq[k] # seq[n] /\ seq[k] \in Pair
        BY <2>5, <2>6, <2>7, <3>1, <4>1
      <4>3. f[n].ann[seq[k]] = v.ann[seq[k]]
        BY <3>5, <4>2 DEF Announced
      <4> QED BY <2>16, <3>2, <4>1, <4>3
    <3> QED BY <3>8, <3>9
  <2> HIDE DEF Fine
  <2>17. T = {}
    <3>1. T \in SUBSET (0 .. N) /\ 0 \in Nat /\ 0 <= N /\ 0 \notin T
      BY <2>15
    <3>2. \A n \in 0 .. N : n # 0 /\ n - 1 \notin T => n \notin T
      BY <2>16
    <3> HIDE DEF T
    <3> QED BY <3>1, <3>2, AllAlong
  <2>18. Fine(N)
    BY <2>17
  <2> QED BY <2>13, <2>18 DEF Fine
<1> QED BY <1>2, <1>3

-------------------------------------------------------------------------------
(* A group registers and is established, where its callback changes nothing.  *)

\* What an operation does that keeps one group going.
Going(s, t, g) ==
    /\ t \in AvahiState /\ OnlyGroup(s, t, g) /\ Sound(t, g) /\ Driven(t, g)
    /\ t.live = s.live

\* A group whose records are all live, before its registration begins.
Filled(s, g) ==
    /\ s \in AvahiState
    /\ Founded(s, g) /\ ServedLate(s, g) /\ Bounded(s, g) /\ Covered(s, g)
    /\ \A e \in Entries(g) : e \in s.live
    /\ s.timer[g] = FALSE /\ s.state[g] # "ESTABLISHED"

LEMMA GoingIsTransitive ==
  ASSUME NEW s, NEW t, NEW u, NEW g, Going(s, t, g), Going(t, u, g)
  PROVE  Going(s, u, g)
BY SameIsTransitive DEF Going, OnlyGroup, SameWorld, SameHost

LEMMA OnlyIsTransitive ==
  ASSUME NEW s, NEW t, NEW u, NEW g, OnlyGroup(s, t, g), OnlyGroup(t, u, g)
  PROVE  OnlyGroup(s, u, g)
BY SameIsTransitive DEF OnlyGroup, SameWorld, SameHost

LEMMA EstablishedIs ==
  ASSUME NEW s \in AvahiState, NEW g \in Group, Sound(s, g), s.state[g] = "REGISTERING",
         NEW t, t = Entered(s, g, "ESTABLISHED")
  PROVE  Going(s, t, g) /\ t.state[g] = "ESTABLISHED" /\ t.ann = s.ann
<1>1. /\ t \in AvahiState /\ OnlyGroup(s, t, g) /\ t.state[g] = "ESTABLISHED"
      /\ t.timer[g] => s.timer[g] /\ s.state[g] # "REGISTERING"
      /\ t.n_probing = s.n_probing /\ t.ann = s.ann /\ t.live = s.live
  <2>1. "ESTABLISHED" \in GroupState
    BY DEF GroupState
  <2> QED BY <2>1, EnteredIs
<1>2. Probes(t, g) = Probes(s, g)
  BY <1>1 DEF Probes
<1>3. Founded(t, g) /\ ServedLate(t, g) /\ Bounded(t, g) /\ Covered(t, g)
  BY <1>1, <1>2 DEF Sound, Founded, ServedLate, Bounded, Covered, OnlyGroup, SameWorld
<1>4. \A e \in Entries(g) : Committed(t, e) <=> Committed(s, e)
  BY <1>1, Names DEF Committed
<1>5. Sound(t, g) /\ Driven(t, g)
  BY <1>1, <1>3, <1>4 DEF Sound, Driven
<1> QED BY <1>1, <1>5 DEF Going

LEMMA RegisteringIs ==
  ASSUME NEW s, NEW g \in Group, Filled(s, g),
         NEW t, IF s.state[g] = "REGISTERING" THEN t = s ELSE t = Entered(s, g, "REGISTERING")
  PROVE  /\ t \in AvahiState /\ OnlyGroup(s, t, g) /\ Sound(t, g) /\ t.live = s.live
         /\ t.state[g] = "REGISTERING" /\ t.timer[g] = FALSE
<1>1. /\ t \in AvahiState /\ OnlyGroup(s, t, g) /\ t.state[g] = "REGISTERING"
      /\ t.timer[g] => s.timer[g]
      /\ t.n_probing = s.n_probing /\ t.ann = s.ann /\ t.live = s.live
  <2>1. "REGISTERING" \in GroupState /\ s \in AvahiState
    BY DEF GroupState, Filled
  <2>2. CASE s.state[g] = "REGISTERING"
    BY <2>1, <2>2 DEF OnlyGroup, SameWorld, SameHost, SameGroup
  <2>3. CASE s.state[g] # "REGISTERING"
    BY <2>1, <2>3, EnteredIs
  <2> QED BY <2>2, <2>3
<1>2. t.timer[g] = FALSE
  BY <1>1 DEF Filled, AvahiState
<1>3. Probes(t, g) = Probes(s, g)
  BY <1>1 DEF Probes
<1>4. Founded(t, g) /\ ServedLate(t, g) /\ Bounded(t, g) /\ Covered(t, g)
  BY <1>1, <1>3 DEF Filled, Founded, ServedLate, Bounded, Covered, OnlyGroup, SameWorld
<1>5. \A e \in Entries(g) : Committed(t, e) /\ e \in t.live
  BY <1>1, Names DEF Committed, Filled
<1> QED BY <1>1, <1>2, <1>4, <1>5 DEF Sound

(* A registration that has to wait a while has a timer. *)
LEMMA WaitingIs ==
  ASSUME NEW s, NEW g \in Group, Filled(s, g), s.state[g] # "REGISTERING",
         NEW t, t = Entered([s EXCEPT !.timer[g] = TRUE], g, "REGISTERING")
  PROVE  Going(s, t, g)
<1>1. PICK u : u = [s EXCEPT !.timer = [s.timer EXCEPT ![g] = TRUE]]
  OBVIOUS
<1>2. /\ u \in AvahiState /\ u.timer[g] /\ u.state = s.state /\ u.n_probing = s.n_probing
      /\ u.ann = s.ann /\ u.live = s.live /\ OnlyGroup(s, u, g)
  <2>1. s \in AvahiState
    BY DEF Filled
  <2>2. [s.timer EXCEPT ![g] = TRUE] \in [Group -> BOOLEAN]
    BY <2>1 DEF AvahiState
  <2>3. u \in AvahiState
    BY <1>1, <2>1, <2>2 DEF AvahiState
  <2>4. /\ u.timer[g] /\ u.state = s.state /\ u.n_probing = s.n_probing
        /\ u.ann = s.ann /\ u.live = s.live /\ SameWorld(s, u) /\ SameHost(s, u)
        /\ \A h \in Group : h # g => u.timer[h] = s.timer[h]
    BY <1>1, <2>1 DEF AvahiState, SameWorld, SameHost
  <2> QED BY <2>3, <2>4 DEF OnlyGroup, SameGroup
<1>3. /\ t \in AvahiState /\ OnlyGroup(u, t, g) /\ t.state[g] = "REGISTERING" /\ t.timer[g]
      /\ t.n_probing = s.n_probing /\ t.ann = s.ann /\ t.live = s.live
  <2>1. "REGISTERING" \in GroupState /\ t = Entered(u, g, "REGISTERING")
    BY <1>1 DEF GroupState
  <2> QED BY <1>2, <2>1, EnteredIs
<1>4. OnlyGroup(s, t, g)
  BY <1>2, <1>3, OnlyIsTransitive
<1>5. Probes(t, g) = Probes(s, g)
  BY <1>3 DEF Probes
<1>6. Founded(t, g) /\ ServedLate(t, g) /\ Bounded(t, g) /\ Covered(t, g)
  BY <1>3, <1>4, <1>5 DEF Filled, Founded, ServedLate, Bounded, Covered, OnlyGroup, SameWorld
<1>7. \A e \in Entries(g) : Committed(t, e) /\ e \in t.live
  BY <1>3, Names DEF Committed, Filled
<1> QED BY <1>3, <1>4, <1>6, <1>7 DEF Sound, Driven, Going

LEMMA CheckProbedAlone ==
  ASSUME NEW s \in AvahiState, NEW g \in Group, Sound(s, g),
         NEW t, t = CheckProbed(s, g, TRUE, Ignore) \/ t = CheckProbed(s, g, FALSE, Ignore)
  PROVE  Going(s, t, g)
<1>1. CASE s.state[g] # "REGISTERING" \/ s.n_probing[g] > 0
  <2>1. t = s
    BY <1>1 DEF CheckProbed
  <2> QED BY <1>1, <2>1 DEF Going, OnlyGroup, SameWorld, SameHost, SameGroup, Driven
<1>2. CASE ~(s.state[g] # "REGISTERING" \/ s.n_probing[g] > 0)
  <2>1. PICK u : u = Entered(s, g, "ESTABLISHED")
    OBVIOUS
  <2>2. t = Begun(u, g, TRUE) \/ t = Begun(u, g, FALSE)
    BY <1>2, <2>1 DEF CheckProbed, ChangeState, Ignore
  <2>3. Going(s, u, g) /\ u.state[g] = "ESTABLISHED"
    BY <1>2, <2>1, EstablishedIs
  <2>4. Kept(u, t, g)
    BY <2>2, <2>3, BegunIs DEF Going
  <2>5. Going(u, t, g)
    BY <2>4 DEF Kept, Going
  <2> QED BY <2>3, <2>5, GoingIsTransitive
<1> QED BY <1>1, <1>2

LEMMA CommitRealAlone ==
  ASSUME NEW s, NEW g \in Group, Filled(s, g), NEW t, t = CommitReal(s, g, Ignore)
  PROVE  Going(s, t, g)
<1>1. PICK r : r = [s EXCEPT !.recent = [s.recent EXCEPT ![g] = TRUE]]
  OBVIOUS
<1>2. s \in AvahiState
  BY DEF Filled
<1>3. r \in AvahiState
  <2>1. [s.recent EXCEPT ![g] = TRUE] \in [Group -> BOOLEAN]
    BY <1>2 DEF AvahiState
  <2> QED BY <1>1, <1>2, <2>1 DEF AvahiState
<1>4. /\ r.state = s.state /\ r.timer = s.timer /\ r.n_probing = s.n_probing /\ r.ann = s.ann
      /\ r.live = s.live /\ SameWorld(s, r) /\ SameHost(s, r)
  BY <1>1, <1>2 DEF AvahiState, SameWorld, SameHost
<1>5. Filled(r, g) /\ OnlyGroup(s, r, g)
  BY <1>3, <1>4 DEF Filled, Founded, ServedLate, Bounded, Covered, Probes, OnlyGroup, SameGroup, SameWorld
<1>6. PICK u : u = IF r.state[g] = "REGISTERING" THEN r ELSE Entered(r, g, "REGISTERING")
  OBVIOUS
<1>7. u \in AvahiState /\ OnlyGroup(r, u, g) /\ Sound(u, g) /\ u.live = r.live
  BY <1>5, <1>6, RegisteringIs
<1>8. PICK v : v = NewAnnouncers(u, Entries(g) \X Iface)
  OBVIOUS
<1>9. t = CheckProbed(v, g, FALSE, Ignore)
  BY <1>1, <1>6, <1>8 DEF CommitReal, ChangeState, Ignore
<1>10. /\ v \in AvahiState /\ SameWorld(u, v) /\ SameHost(u, v) /\ v.live = u.live
       /\ Sound(v, g) /\ \A h \in Group : h # g => SameGroup(u, v, h)
  <2>1. PICK P : P = Entries(g) \X Iface
    OBVIOUS
  <2>2. P \in SUBSET Pair /\ \A h \in Group : h # g => P \cap PairsOf(h) = {}
    BY <2>1, Names
  <2>3. v = NewAnnouncers(u, P)
    BY <1>8, <2>1
  <2> QED BY <1>7, <2>2, <2>3, NewKeeps
<1>12. OnlyGroup(s, v, g)
  BY <1>5, <1>7, <1>10, OnlyIsTransitive DEF OnlyGroup
<1>13. Going(v, t, g)
  BY <1>9, <1>10, CheckProbedAlone
<1> QED BY <1>4, <1>7, <1>10, <1>12, <1>13, OnlyIsTransitive DEF Going

-------------------------------------------------------------------------------
(* One address is published, while the server is in a state that lasts.       *)

\* Good, but for one group that is in the middle of an operation.
Nearly(s, g) ==
    /\ s \in AvahiState
    /\ \A a \in Address \ {g} : a \in s.live => a \in s.present
    /\ \A h \in Group \ {g} : Sound(s, h) /\ Driven(s, h)

LEMMA GoodIsNearly == ASSUME NEW s, Good(s), NEW g PROVE Nearly(s, g)
BY DEF Good, Nearly

LEMMA NearlyStep ==
  ASSUME NEW s, NEW g \in Group, Nearly(s, g), NEW t \in AvahiState, OnlyGroup(s, t, g)
  PROVE  Nearly(t, g)
<1>1. ASSUME NEW h \in Group, h # g PROVE Sound(t, h) /\ Driven(t, h)
  BY <1>1, SameKeeps DEF Nearly, OnlyGroup, SameWorld
<1>2. ASSUME NEW a \in Address, a # g, a \in t.live PROVE a \in t.present
  BY <1>2, Names DEF Nearly, OnlyGroup, SameWorld, SameGroup
<1> QED BY <1>1, <1>2 DEF Nearly

LEMMA GoodStep ==
  ASSUME NEW s, NEW g \in Group, Nearly(s, g), NEW t \in AvahiState, OnlyGroup(s, t, g),
         Sound(t, g), Driven(t, g), g \in Address /\ g \in t.live => g \in t.present
  PROVE  Good(t)
BY NearlyStep DEF Good, Nearly

\* Whether an address is wanted depends on the interfaces, and the server
\* only as far as it publishes at all.
Publishes(s) == s.server \in {"RUNNING", "REGISTERING"}
LEMMA WantedSame ==
  ASSUME NEW s, NEW t, NEW a \in Address, SameWorld(s, t), Publishes(t) <=> Publishes(s)
  PROVE  Wanted(t, a) <=> Wanted(s, a)
BY DEF Wanted, AddressRelevant, Relevant, SameWorld, Publishes

LEMMA AddIs ==
  ASSUME NEW s \in AvahiState, NEW a \in Address, Sound(s, a), a \notin s.live,
         NEW t, t = AddAddress(s, a)
  PROVE  /\ Filled(t, a) /\ OnlyGroup(s, t, a) /\ t.live = s.live \cup {a}
         /\ t.state[a] \in {"UNCOMMITED", "COLLISION"}
<1>2. a \in Entry /\ a \in Group /\ Entries(a) = {a} /\ a # "srv" /\ Of(a) = a
  BY Names, AvahiAssumption
<1>3. PICK ver \in [Entry -> Version] : ver = [s.ver EXCEPT ![a] = s.hostName]
  BY DEF AvahiState, Version
<1>13. PICK live \in SUBSET Entry : live = s.live \cup {a}
  BY <1>2 DEF AvahiState
<1>1. t = [s EXCEPT !.live = live, !.ver = ver]
  BY <1>3, <1>13 DEF AddAddress, AddRecords, AvahiState
<1>4. t \in AvahiState /\ t.live = live /\ t.ver = ver
  <2>1. t = WithEntry(s, live, ver)
    BY <1>1 DEF WithEntry
  <2> QED BY <2>1, EntrySet
<1>15. t.ver["srv"] = s.ver["srv"]
  BY <1>2, <1>3, <1>4, Names DEF AvahiState
<1>5. /\ t.live = s.live \cup {a} /\ t.state = s.state /\ t.timer = s.timer /\ t.ann = s.ann
      /\ t.n_probing = s.n_probing /\ SameHost(s, t)
  BY <1>1, <1>13 DEF AvahiState, SameHost
<1>6. SameWorld(s, t)
  BY <1>1, <1>15 DEF AvahiState, SameWorld
<1>7. s.state[a] \in {"UNCOMMITED", "COLLISION"}
  BY <1>2 DEF Sound, Committed, AvahiState, GroupState
<1>8. s.timer[a] = FALSE
  BY <1>2, <1>7 DEF Sound, AvahiState
<1>9. Probes(t, a) = Probes(s, a)
  BY <1>5 DEF Probes
<1>10. Founded(t, a) /\ ServedLate(t, a) /\ Bounded(t, a) /\ Covered(t, a)
  BY <1>5, <1>6, <1>9 DEF Sound, Founded, ServedLate, Bounded, Covered, SameWorld
<1>11. Filled(t, a)
  BY <1>2, <1>4, <1>5, <1>7, <1>8, <1>10 DEF Filled
<1>12. ASSUME NEW h \in Group, h # a PROVE SameGroup(s, t, h)
  BY <1>5, <1>12, Names DEF SameGroup
<1> QED BY <1>5, <1>6, <1>7, <1>11, <1>12 DEF OnlyGroup

LEMMA CommitAlone ==
  ASSUME NEW s, NEW g \in Group, Filled(s, g), s.state[g] \in {"UNCOMMITED", "COLLISION"},
         NEW t, t = Commit(s, g, Ignore)
  PROVE  Going(s, t, g)
<1>1. Commits(s, g)
  BY Names, g \in Address \/ g = "svc" DEF Filled, Commits, Group
<1>2. CASE s.recent[g]
  <2>1. t = Entered([s EXCEPT !.timer[g] = TRUE], g, "REGISTERING")
    <3>1. [s EXCEPT !.timer[g] = TRUE].state = s.state
      BY DEF Filled, AvahiState
    <3> QED BY <1>1, <1>2, <3>1 DEF Commit, ChangeState, Ignore
  <2> QED BY <2>1, WaitingIs
<1>3. CASE ~s.recent[g]
  <2>1. t = CommitReal(s, g, Ignore)
    BY <1>1, <1>3 DEF Commit
  <2> QED BY <2>1, CommitRealAlone
<1> QED BY <1>2, <1>3

\* One address is published, or not any more, and nothing else happens.
Placed(s, t, a) ==
    /\ Good(t) /\ OnlyGroup(s, t, a) /\ (a \in t.live <=> Wanted(s, a))
    /\ a \in s.live /\ Wanted(s, a) => t = s

LEMMA PlaceAlone ==
  ASSUME NEW s, Good(s), NEW a \in Address, NEW t, t = UpdateAddress(s, a, FALSE, Ignore, Same)
  PROVE  Placed(s, t, a)
<1>1. s \in AvahiState /\ Sound(s, a) /\ a \in Group /\ Entries(a) = {a} /\ (a \in s.live => a \in s.present)
  BY Names DEF Good
<1>2. CASE Wanted(s, a) /\ a \in s.live
  BY <1>2, Names DEF UpdateAddress, Placed, OnlyGroup, SameWorld, SameHost, SameGroup
<1>3. CASE Wanted(s, a) /\ a \notin s.live
  <2>1. PICK u : u = AddAddress(s, a)
    OBVIOUS
  <2>2. t = Commit(u, a, Ignore)
    BY <1>3, <2>1 DEF UpdateAddress
  <2>3. /\ Filled(u, a) /\ OnlyGroup(s, u, a) /\ u.live = s.live \cup {a}
        /\ u.state[a] \in {"UNCOMMITED", "COLLISION"}
    BY <1>1, <1>3, <2>1, AddIs
  <2>4. Going(u, t, a)
    BY <1>1, <2>2, <2>3, CommitAlone
  <2>5. OnlyGroup(s, t, a)
    BY <2>3, <2>4, OnlyIsTransitive DEF Going
  <2>6. a \in t.live /\ t.present = s.present /\ a \in s.present
    BY <1>3, <2>3, <2>4, <2>5 DEF Going, OnlyGroup, SameWorld, Wanted
  <2>7. Good(t)
    BY <1>1, <2>4, <2>5, <2>6, GoodStep, GoodIsNearly DEF Going
  <2> QED BY <1>3, <2>5, <2>6, <2>7 DEF Placed
<1>4. CASE ~Wanted(s, a) /\ a \notin s.live
  <2>1. t = s
    BY <1>4 DEF UpdateAddress
  <2> QED BY <1>4, <2>1 DEF Placed, OnlyGroup, SameWorld, SameHost, SameGroup
<1>5. CASE ~Wanted(s, a) /\ a \in s.live
  <2>1. t = Reset(s, a)
    BY <1>1, <1>5 DEF UpdateAddress, Same
  <2>2. t \in AvahiState /\ OnlyGroup(s, t, a) /\ Emptied(t, a) /\ Sound(t, a) /\ Driven(t, a)
    BY <1>1, <2>1, ResetIs
  <2>3. a \notin t.live
    BY <1>1, <2>2 DEF Emptied
  <2>4. Good(t)
    BY <1>1, <2>2, <2>3, GoodStep, GoodIsNearly
  <2> QED BY <1>5, <2>2, <2>3, <2>4 DEF Placed
<1> QED BY <1>2, <1>3, <1>4, <1>5

-------------------------------------------------------------------------------
(* All addresses are.                                                         *)

\* What bringing the addresses up to date does to the rest.
Settling(s, t) ==
    /\ Good(t) /\ SameWorld(s, t) /\ SameHost(s, t) /\ SameGroup(s, t, "svc")
    /\ \A a \in Address : a \in s.live /\ Wanted(s, a) => SameGroup(s, t, a)
\* Exactly the wanted addresses are published.
Exact(s) == \A a \in Address : a \in s.live <=> Wanted(s, a)

LEMMA SettleStep ==
  ASSUME NEW s, NEW v, Settling(s, v), NEW a \in Address, NEW t, Placed(v, t, a)
  PROVE  /\ Settling(s, t) /\ (a \in t.live <=> Wanted(s, a))
         /\ \A b \in Address : (b \in v.live <=> Wanted(s, b)) => (b \in t.live <=> Wanted(s, b))
<1>1. /\ Good(t) /\ OnlyGroup(v, t, a) /\ (a \in t.live <=> Wanted(v, a))
      /\ a \in v.live /\ Wanted(v, a) => t = v
  BY DEF Placed
<1>2. \A b \in Address : Wanted(v, b) <=> Wanted(s, b)
  BY WantedSame DEF Settling, SameHost, Publishes
<1>3. SameWorld(s, t) /\ SameHost(s, t)
  BY <1>1 DEF Settling, OnlyGroup, SameWorld, SameHost
<1>4. SameGroup(s, t, "svc")
  <2>1. "svc" \in Group /\ "svc" # a
    BY Names
  <2> QED BY <1>1, <2>1, SameIsTransitive DEF Settling, OnlyGroup
<1>5. ASSUME NEW b \in Address, b \in s.live, Wanted(s, b) PROVE SameGroup(s, t, b)
  <2>1. SameGroup(s, v, b) /\ b \in Group
    BY <1>5, Names DEF Settling
  <2>2. CASE b # a
    BY <1>1, <2>1, <2>2, SameIsTransitive DEF OnlyGroup
  <2>3. CASE b = a
    <3>1. a \in v.live
      BY <1>5, <2>1, <2>3, Names DEF SameGroup
    <3> QED BY <1>1, <1>2, <1>5, <2>1, <2>3, <3>1
  <2> QED BY <2>2, <2>3
<1>6. ASSUME NEW b \in Address, b # a PROVE b \in t.live <=> b \in v.live
  BY <1>1, <1>6, Names DEF OnlyGroup, SameGroup
<1> QED BY <1>1, <1>2, <1>3, <1>4, <1>5, <1>6 DEF Settling

Place(s, a) == UpdateAddress(s, a, FALSE, Ignore, Same)
Settle(s) == UpdateSettled(s, FALSE)

SettledTo(s, v, n) == \A k \in 1 .. n : Addresses[k] \in v.live <=> Wanted(s, Addresses[k])

LEMMA SettledIs ==
  ASSUME NEW s, Good(s), NEW t, t = Settle(s)
  PROVE  Settling(s, t) /\ Exact(t)
<1> DEFINE S == {v \in AvahiState : Good(v)}
           f[n \in 0 .. Len(Addresses)] == IF n = 0 THEN s ELSE Place(f[n-1], Addresses[n])
<1>1. t = f[Len(Addresses)]
  BY DEF Settle, UpdateSettled, Along, Place
<1>2. PICK N \in Nat : N = Len(Addresses)
  BY AvahiAssumption
<1>3. t = f[N] /\ \A n \in 1 .. N : Addresses[n] \in Address
  BY <1>1, <1>2, AvahiAssumption
<1>4. \A v \in S, n \in 1 .. N :
        Placed(v, Place(v, Addresses[n]), Addresses[n]) /\ Place(v, Addresses[n]) \in S
  <2> TAKE v \in S, n \in 1 .. N
  <2>1. PICK u : u = Place(v, Addresses[n])
    OBVIOUS
  <2>2. Placed(v, u, Addresses[n])
    <3>1. v \in AvahiState /\ Good(v) /\ Addresses[n] \in Address
      BY <1>3
    <3> QED BY <2>1, <3>1, PlaceAlone DEF Place
  <2> QED BY <2>1, <2>2 DEF Placed, Good
<1>5. PICK h \in [0 .. N -> S] : h = [n \in 0 .. N |-> IF n = 0 THEN s ELSE Place(h[n-1], Addresses[n])]
  <2>1. PICK g : g = [n \in 1 .. N |-> [v \in S |-> Place(v, Addresses[n])]]
    OBVIOUS
  <2>2. g \in [1 .. N -> [S -> S]] /\ s \in S
    BY <1>4, <2>1 DEF Good
  <2> HIDE DEF S
  <2>3. PICK h \in [0 .. N -> S] : Runs(h, N, s, g)
    BY <2>2, Loops
  <2>4. ASSUME NEW n \in 0 .. N
        PROVE  h[n] = IF n = 0 THEN s ELSE Place(h[n-1], Addresses[n])
    <3>1. n # 0 => n \in 1 .. N /\ n - 1 \in 0 .. N /\ h[n-1] \in S
      BY <2>3
    <3> QED BY <2>1, <2>3, <3>1 DEF Runs
  <2> QED BY <2>3, <2>4
<1>6. f = [n \in 0 .. N |-> IF n = 0 THEN s ELSE Place(f[n-1], Addresses[n])]
  BY <1>2, <1>5
<1> HIDE DEF f
<1>7. f[0] = s /\ \A n \in 1 .. N : f[n] = Place(f[n-1], Addresses[n])
  BY <1>6
<1>8. PICK Q : Q = [n \in 0 .. N |-> {v \in S : Settling(s, v) /\ SettledTo(s, v, n)}]
  OBVIOUS
<1>9. f[0] \in Q[0]
  <2>1. s \in S
    BY DEF Good
  <2>2. Settling(s, s)
    BY DEF Settling, SameWorld, SameHost, SameGroup
  <2>3. SettledTo(s, s, 0)
    BY DEF SettledTo
  <2> QED BY <1>7, <1>8, <2>1, <2>2, <2>3
<1>10. ASSUME NEW n \in 1 .. N, f[n-1] \in Q[n-1] PROVE f[n] \in Q[n]
  <2>1. PICK v : v = f[n-1]
    OBVIOUS
  <2>2. v \in S /\ Settling(s, v) /\ \A k \in 1 .. n - 1 : Addresses[k] \in v.live <=> Wanted(s, Addresses[k])
    BY <1>8, <1>10, <2>1 DEF SettledTo
  <2>3. f[n] \in S /\ Placed(v, f[n], Addresses[n])
    BY <1>4, <1>7, <2>1, <2>2
  <2>4. \A k \in 1 .. n : Addresses[k] \in f[n].live <=> Wanted(s, Addresses[k])
    BY <1>3, <2>2, <2>3, SettleStep
  <2>5. Settling(s, f[n])
    BY <1>3, <2>2, <2>3, SettleStep
  <2> HIDE DEF S
  <2>6. Q[n] = {u \in S : Settling(s, u) /\ SettledTo(s, u, n)}
    BY <1>8
  <2> QED BY <2>3, <2>4, <2>5, <2>6 DEF SettledTo
<1>11. f[N] \in Q[N]
  BY <1>9, <1>10, LoopEnds
<1>12. Settling(s, t) /\ \A k \in 1 .. N : Addresses[k] \in t.live <=> Wanted(s, Addresses[k])
  BY <1>3, <1>8, <1>11 DEF SettledTo
<1>13. \A a \in Address : Wanted(t, a) <=> Wanted(s, a)
  BY <1>12, WantedSame DEF Settling, SameHost, Publishes
<1>14. \A a \in Address : \E k \in 1 .. N : Addresses[k] = a
  BY <1>2, AvahiAssumption DEF Address, Range
<1> QED BY <1>12, <1>13, <1>14 DEF Exact

-------------------------------------------------------------------------------
(* The state of the server, and its count of pending registrations.           *)

\* What an operation on the host's records leaves as it was.
Elsewhere(s, t) == Good(t) /\ SameWorld(s, t) /\ SameGroup(s, t, "svc")
SameAddresses(s, t) == \A a \in Address : a \in t.live <=> a \in s.live
Steady(s, t) == \A a \in Address : a \in s.live /\ Wanted(s, a) => SameGroup(s, t, a)
HostKept(s, t) == SameHost(s, t) /\ SameAddresses(s, t)
\* One pending registration less: after the last one the server runs.
Reached(s, t) ==
    IF t.pending = 0 THEN t.server = "RUNNING" /\ Exact(t)
    ELSE t.server = "REGISTERING" /\ SameAddresses(s, t)
HostLess(s, t) == s.server = "REGISTERING" /\ t.pending = s.pending - 1 /\ Reached(s, t)

\* Only the server has changed.
OnlyServer(s, t) ==
    Good(t) /\ SameWorld(s, t) /\ (\A g \in Group : SameGroup(s, t, g)) /\ t.live = s.live

LEMMA ServerIs ==
  ASSUME NEW s, Good(s), NEW st \in ServerState, NEW t, t = [s EXCEPT !.server = st]
  PROVE  OnlyServer(s, t) /\ t.server = st /\ t.pending = s.pending
<1>1. s \in AvahiState
  BY DEF Good
<1>2. t \in AvahiState
  BY <1>1 DEF AvahiState
<1>3. /\ t.state = s.state /\ t.timer = s.timer /\ t.n_probing = s.n_probing /\ t.live = s.live
      /\ t.ann = s.ann /\ SameWorld(s, t) /\ t.server = st /\ t.pending = s.pending
  BY <1>1 DEF AvahiState, SameWorld
<1>4. \A g \in Group : SameGroup(s, t, g)
  BY <1>3 DEF SameGroup
<1>5. Good(t)
  BY <1>2, <1>3, <1>4, SameKeeps DEF Good, SameWorld
<1> QED BY <1>3, <1>4, <1>5 DEF OnlyServer

LEMMA PendingIs ==
  ASSUME NEW s, Good(s), NEW n \in Counter, NEW t, t = [s EXCEPT !.pending = n]
  PROVE  OnlyServer(s, t) /\ t.server = s.server /\ t.pending = n
<1>1. s \in AvahiState
  BY DEF Good
<1>2. t \in AvahiState
  BY <1>1 DEF AvahiState
<1>3. /\ t.state = s.state /\ t.timer = s.timer /\ t.n_probing = s.n_probing /\ t.live = s.live
      /\ t.ann = s.ann /\ SameWorld(s, t) /\ t.server = s.server /\ t.pending = n
  BY <1>1 DEF AvahiState, SameWorld
<1>4. \A g \in Group : SameGroup(s, t, g)
  BY <1>3 DEF SameGroup
<1>5. Good(t)
  BY <1>2, <1>3, <1>4, SameKeeps DEF Good, SameWorld
<1> QED BY <1>3, <1>4, <1>5 DEF OnlyServer

LEMMA TellIs ==
  ASSUME NEW s, Good(s), NEW st \in ServerState, NEW t, t = [s EXCEPT !.told = Append(@, st)]
  PROVE  /\ Good(t) /\ SameWorld(s, t) /\ SameHost(s, t) /\ t.live = s.live
         /\ \A g \in Group : SameGroup(s, t, g)
<1>1. s \in AvahiState /\ s.told \in Seq(ServerState)
  BY DEF Good, AvahiState
<1>8. \A q \in Seq(ServerState) : Append(q, st) \in Seq(ServerState)
  OBVIOUS
<1>2. PICK told \in Seq(ServerState) : told = Append(s.told, st)
  BY <1>1, <1>8
<1>3. t = [s EXCEPT !.told = told]
  BY <1>2
<1>4. t \in AvahiState
  BY <1>1, <1>3 DEF AvahiState
<1>5. /\ t.state = s.state /\ t.timer = s.timer /\ t.n_probing = s.n_probing /\ t.live = s.live
      /\ t.ann = s.ann /\ SameWorld(s, t) /\ SameHost(s, t)
  BY <1>1, <1>3 DEF AvahiState, SameWorld, SameHost
<1>6. \A g \in Group : SameGroup(s, t, g)
  BY <1>5 DEF SameGroup
<1>7. Good(t)
  BY <1>4, <1>5, <1>6, SameKeeps DEF Good, SameWorld
<1> QED BY <1>5, <1>6, <1>7

LEMMA ExactSame ==
  ASSUME NEW s, NEW t, SameWorld(s, t), SameHost(s, t), SameAddresses(s, t), Exact(s)
  PROVE  Exact(t)
BY WantedSame DEF Exact, SameAddresses, SameHost, Publishes

\* The server enters a state in which nothing registers any more.
Turned(s, t, st) ==
    /\ Elsewhere(s, t) /\ t.pending = s.pending /\ t.server = st /\ Exact(t)
    /\ s.server = "REGISTERING" /\ st = "RUNNING" => Steady(s, t)

LEMMA TurnedIs ==
  ASSUME NEW s, Good(s), NEW st \in {"RUNNING", "COLLISION"}, s.server # st,
         NEW t, t = SetSettled(s, st)
  PROVE  Turned(s, t, st)
<1>1. st \in ServerState
  BY DEF ServerState
<1>3. PICK r : r = [s EXCEPT !.server = st]
  OBVIOUS
<1>4. /\ Good(r) /\ SameWorld(s, r) /\ r.server = st /\ r.pending = s.pending /\ r.live = s.live
      /\ \A g \in Group : SameGroup(s, r, g)
  BY <1>1, <1>3, ServerIs DEF OnlyServer
<1>5. PICK u : u = Settle(r)
  OBVIOUS
<1>6. t = [u EXCEPT !.told = Append(@, st)]
  BY <1>3, <1>5 DEF SetSettled, Settle
<1>7. Settling(r, u) /\ Exact(u)
  BY <1>4, <1>5, SettledIs
<1>8. /\ Good(t) /\ SameWorld(u, t) /\ SameHost(u, t) /\ t.live = u.live
      /\ \A g \in Group : SameGroup(u, t, g)
  BY <1>1, <1>6, <1>7, TellIs DEF Settling
<1>9. SameWorld(s, t) /\ t.pending = s.pending /\ t.server = st
  BY <1>4, <1>7, <1>8 DEF Settling, SameWorld, SameHost
<1>10. SameGroup(s, t, "svc")
  <2>1. SameGroup(s, r, "svc") /\ SameGroup(r, u, "svc") /\ SameGroup(u, t, "svc")
    BY <1>4, <1>7, <1>8, Names DEF Settling
  <2> QED BY <2>1, SameIsTransitive
<1>11. Exact(t)
  BY <1>7, <1>8, ExactSame DEF SameAddresses
<1>12. ASSUME s.server = "REGISTERING", st = "RUNNING" PROVE Steady(s, t)
  <2> SUFFICES ASSUME NEW a \in Address, a \in s.live, Wanted(s, a) PROVE SameGroup(s, t, a)
    BY DEF Steady
  <2>1. a \in Group /\ a \in r.live /\ Wanted(r, a)
    BY <1>4, <1>12, Names, WantedSame DEF Publishes
  <2>2. SameGroup(s, r, a) /\ SameGroup(r, u, a) /\ SameGroup(u, t, a)
    BY <1>4, <1>7, <1>8, <2>1 DEF Settling
  <2> QED BY <2>2, SameIsTransitive
<1> QED BY <1>8, <1>9, <1>10, <1>11, <1>12 DEF Turned, Elsewhere

Lessened(s, t) == Elsewhere(s, t) /\ HostLess(s, t) /\ Steady(s, t)

LEMMA DecreaseIs ==
  ASSUME NEW s, Good(s), s.server = "REGISTERING", NEW t, t = DecreasePending(s)
  PROVE  Lessened(s, t)
<1>1. s \in AvahiState /\ s.pending \in Int /\ s.server \in ServerState
  BY DEF Good, AvahiState, Counter
<1>2. PICK n \in Counter : n = s.pending - 1
  BY <1>1 DEF Counter
<1>3. PICK r : r = [s EXCEPT !.pending = n]
  OBVIOUS
<1>4. /\ Good(r) /\ SameWorld(s, r) /\ r.server = s.server /\ r.pending = s.pending - 1
      /\ r.live = s.live /\ \A g \in Group : SameGroup(s, r, g)
  BY <1>2, <1>3, PendingIs DEF OnlyServer
<1>5. t = IF r.pending = 0 THEN SetSettled(r, "RUNNING") ELSE r
  BY <1>2, <1>3 DEF DecreasePending
<1>6. CASE r.pending # 0
  <2>1. t = r
    BY <1>5, <1>6
  <2>2. Elsewhere(s, t) /\ Steady(s, t) /\ SameAddresses(s, t)
    BY <1>4, <2>1, Names DEF Elsewhere, Steady, SameAddresses
  <2> QED BY <1>4, <1>6, <2>1, <2>2 DEF Lessened, HostLess, Reached
<1>7. CASE r.pending = 0
  <2>1. Turned(r, t, "RUNNING")
    BY <1>4, <1>5, <1>7, TurnedIs
  <2>2. Good(t) /\ SameWorld(s, t) /\ t.pending = 0 /\ t.server = "RUNNING" /\ Exact(t)
    BY <1>4, <1>7, <2>1 DEF Turned, Elsewhere, SameWorld
  <2>3. SameGroup(s, t, "svc")
    <3>1. SameGroup(s, r, "svc") /\ SameGroup(r, t, "svc")
      BY <1>4, <2>1, Names DEF Turned, Elsewhere
    <3> QED BY <3>1, SameIsTransitive
  <2>4. Steady(s, t)
    <3> SUFFICES ASSUME NEW a \in Address, a \in s.live, Wanted(s, a) PROVE SameGroup(s, t, a)
      BY DEF Steady
    <3>1. a \in Group /\ a \in r.live /\ Wanted(r, a) /\ SameGroup(s, r, a)
      BY <1>4, Names, WantedSame DEF Publishes
    <3>2. SameGroup(r, t, a)
      BY <1>4, <2>1, <3>1 DEF Turned, Steady
    <3> QED BY <3>1, <3>2, SameIsTransitive
  <2> QED BY <1>4, <1>7, <2>2, <2>3, <2>4 DEF Lessened, Elsewhere, HostLess, Reached
<1> QED BY <1>6, <1>7

LEMMA HostEstablished ==
  ASSUME NEW s, Good(s), NEW g, NEW t, t = HostRegistered(s, g, "ESTABLISHED")
  PROVE  t = s \/ Lessened(s, t)
BY DecreaseIs DEF HostRegistered

-------------------------------------------------------------------------------
(* A group of the host is established: the callback may let the server run.   *)

\* A group of the host is one step further; the host may be done with it.
Advanced(s, t) == Elsewhere(s, t) /\ (HostKept(s, t) \/ HostLess(s, t))

LEMMA GoingOn ==
  ASSUME NEW s, NEW t, NEW g \in Address, Nearly(s, g), g \in s.live, Wanted(s, g), Going(s, t, g)
  PROVE  /\ Good(t) /\ Elsewhere(s, t) /\ HostKept(s, t) /\ g \in t.live /\ Wanted(t, g)
<1>1. g \in Group /\ "svc" \in Group /\ g # "svc"
  BY Names
<1>2. /\ t \in AvahiState /\ SameWorld(s, t) /\ SameHost(s, t) /\ Sound(t, g) /\ Driven(t, g)
      /\ t.live = s.live /\ OnlyGroup(s, t, g) /\ SameGroup(s, t, "svc")
  BY <1>1 DEF Going, OnlyGroup
<1>3. Wanted(t, g) /\ g \in t.present
  BY <1>2, WantedSame DEF SameHost, Publishes, Wanted
<1>4. Good(t)
  BY <1>1, <1>2, <1>3, GoodStep
<1> QED BY <1>2, <1>3, <1>4 DEF Elsewhere, HostKept, SameAddresses

LEMMA KeptThenLess ==
  ASSUME NEW s, NEW t, NEW u, Elsewhere(s, t), HostKept(s, t), Advanced(t, u)
  PROVE  Advanced(s, u)
<1>1. SameGroup(s, u, "svc")
  BY SameIsTransitive DEF Advanced, Elsewhere
<1>2. Elsewhere(s, u)
  BY <1>1 DEF Advanced, Elsewhere, SameWorld
<1>3. HostKept(t, u) => HostKept(s, u)
  BY DEF HostKept, SameHost, SameAddresses
<1>4. HostLess(t, u) => HostLess(s, u)
  BY DEF HostLess, HostKept, SameHost, SameAddresses, Reached
<1> QED BY <1>2, <1>3, <1>4 DEF Advanced

LEMMA LessThenKept ==
  ASSUME NEW s, NEW t, NEW u, Elsewhere(s, t), HostLess(s, t), Elsewhere(t, u), HostKept(t, u)
  PROVE  Elsewhere(s, u) /\ HostLess(s, u)
<1>1. SameGroup(s, u, "svc")
  BY SameIsTransitive DEF Elsewhere
<1>2. Elsewhere(s, u)
  BY <1>1 DEF Elsewhere, SameWorld
<1>3. Exact(t) => Exact(u)
  BY ExactSame DEF Elsewhere, HostKept
<1>4. HostLess(s, u)
  BY <1>3 DEF HostLess, HostKept, SameHost, SameAddresses, Reached
<1> QED BY <1>2, <1>4

LEMMA CheckProbedHost ==
  ASSUME NEW s, NEW g \in Address, Nearly(s, g), Sound(s, g), g \in s.live, Wanted(s, g),
         NEW t, \/ t = CheckProbed(s, g, TRUE, HostRegistered)
                \/ t = CheckProbed(s, g, FALSE, HostRegistered)
  PROVE  Advanced(s, t)
<1>1. g \in Group /\ s \in AvahiState
  BY Names DEF Nearly
<1>2. CASE s.state[g] # "REGISTERING" \/ s.n_probing[g] > 0
  <2>1. t = s
    BY <1>2 DEF CheckProbed
  <2>2. Going(s, s, g)
    BY <1>1, <1>2 DEF Going, OnlyGroup, SameWorld, SameHost, SameGroup, Driven
  <2> QED BY <2>1, <2>2, GoingOn DEF Advanced
<1>3. CASE ~(s.state[g] # "REGISTERING" \/ s.n_probing[g] > 0)
  <2>1. PICK u : u = Entered(s, g, "ESTABLISHED")
    OBVIOUS
  <2>2. PICK v : v = HostRegistered(u, g, "ESTABLISHED")
    OBVIOUS
  <2>3. t = Begun(v, g, TRUE) \/ t = Begun(v, g, FALSE)
    BY <1>3, <2>1, <2>2 DEF CheckProbed, ChangeState
  <2>4. Going(s, u, g) /\ u.state[g] = "ESTABLISHED"
    BY <1>1, <1>3, <2>1, EstablishedIs
  <2>5. /\ Good(u) /\ Elsewhere(s, u) /\ HostKept(s, u) /\ g \in u.live /\ Wanted(u, g)
    BY <2>4, GoingOn
  <2>6. v = u \/ Lessened(u, v)
    BY <2>2, <2>5, HostEstablished
  <2>7. Good(v) /\ SameGroup(u, v, g)
    <3>1. CASE v = u
      BY <2>5, <3>1 DEF SameGroup
    <3>2. CASE Lessened(u, v)
      BY <2>5, <3>2 DEF Lessened, Elsewhere, Steady
    <3> QED BY <2>6, <3>1, <3>2
  <2>8. v \in AvahiState /\ Sound(v, g) /\ v.state[g] = "ESTABLISHED" /\ g \in v.live
    BY <1>1, <2>4, <2>5, <2>7, Names DEF Good, SameGroup
  <2>9. Kept(v, t, g)
    BY <1>1, <2>3, <2>8, BegunIs
  <2>10. Going(v, t, g)
    BY <2>9 DEF Kept, Going
  <2>11. Nearly(v, g) /\ Wanted(v, g)
    <3>1. CASE v = u
      BY <2>5, <3>1, GoodIsNearly
    <3>2. CASE Lessened(u, v)
      <4>1. SameWorld(u, v) /\ Publishes(u) /\ Publishes(v)
        BY <3>2 DEF Lessened, Elsewhere, HostLess, Reached, Publishes
      <4> QED BY <2>5, <2>7, <4>1, WantedSame, GoodIsNearly
    <3> QED BY <2>6, <3>1, <3>2
  <2>12. Elsewhere(v, t) /\ HostKept(v, t)
    BY <2>8, <2>10, <2>11, GoingOn
  <2>13. CASE v = u
    BY <2>5, <2>12, <2>13, KeptThenLess DEF Advanced
  <2>14. CASE Lessened(u, v)
    <3>1. Advanced(u, t)
      BY <2>12, <2>14, LessThenKept DEF Lessened, Advanced
    <3> QED BY <2>5, <3>1, KeptThenLess
  <2> QED BY <2>6, <2>13, <2>14
<1> QED BY <1>2, <1>3

-------------------------------------------------------------------------------
(* A group of the host begins to register.                                    *)

\* A registration more: counted, and taken off again when it is done at once.
HostMore(s, t) ==
    /\ s.server = "REGISTERING" /\ t.pending \in {s.pending, s.pending + 1}
    /\ s.pending \in Nat => Reached(s, t)
Joined(s, t) == Elsewhere(s, t) /\ (HostKept(s, t) \/ HostMore(s, t))

LEMMA RaisedIs ==
  ASSUME NEW s \in AvahiState, NEW t, t = [s EXCEPT !.pending = @ + 1]
  PROVE  /\ t \in AvahiState /\ SameWorld(s, t) /\ t.server = s.server
         /\ t.pending = s.pending + 1 /\ s.pending \in Int /\ t.live = s.live
         /\ \A g \in Group : SameGroup(s, t, g)
<1>1. PICK n \in Counter : n = s.pending + 1
  BY DEF AvahiState, Counter
<1>2. t = [s EXCEPT !.pending = n] /\ s.pending \in Int
  BY <1>1 DEF AvahiState, Counter
<1>3. t \in AvahiState
  BY <1>2 DEF AvahiState
<1>4. /\ t.state = s.state /\ t.timer = s.timer /\ t.n_probing = s.n_probing /\ t.live = s.live
      /\ t.ann = s.ann /\ SameWorld(s, t) /\ t.server = s.server /\ t.pending = n
  BY <1>2 DEF AvahiState, SameWorld
<1>5. \A g \in Group : SameGroup(s, t, g)
  BY <1>4 DEF SameGroup
<1> QED BY <1>1, <1>2, <1>3, <1>4, <1>5

LEMMA RecentIs ==
  ASSUME NEW s, NEW g \in Group, Filled(s, g), NEW t, t = [s EXCEPT !.recent[g] = TRUE]
  PROVE  Filled(t, g) /\ OnlyGroup(s, t, g) /\ t.state = s.state /\ t.live = s.live
<1>1. PICK r : r = [s.recent EXCEPT ![g] = TRUE]
  OBVIOUS
<1>2. s \in AvahiState
  BY DEF Filled
<1>3. r \in [Group -> BOOLEAN] /\ t = [s EXCEPT !.recent = r]
  BY <1>1, <1>2 DEF AvahiState
<1>4. t \in AvahiState
  BY <1>2, <1>3 DEF AvahiState
<1>5. /\ t.state = s.state /\ t.timer = s.timer /\ t.n_probing = s.n_probing /\ t.ann = s.ann
      /\ t.live = s.live /\ SameWorld(s, t) /\ SameHost(s, t)
  BY <1>2, <1>3 DEF AvahiState, SameWorld, SameHost
<1>6. Filled(t, g) /\ OnlyGroup(s, t, g)
  BY <1>4, <1>5
     DEF Filled, Founded, ServedLate, Bounded, Covered, Probes, OnlyGroup, SameGroup, SameWorld
<1> QED BY <1>5, <1>6

\* A registration has begun, and is counted if the host waits for it.
Registers(s, t, g) ==
    /\ t \in AvahiState /\ SameWorld(s, t) /\ Nearly(t, g) /\ Sound(t, g) /\ t.live = s.live
    /\ SameGroup(s, t, "svc") /\ t.server = s.server
    /\ IF s.server = "REGISTERING" /\ s.state[g] # "REGISTERING"
       THEN t.pending = s.pending + 1 /\ s.pending \in Int ELSE t.pending = s.pending

LEMMA RegistersIs ==
  ASSUME NEW s, NEW g \in Address, Nearly(s, g), Filled(s, g), NEW t,
         t = ChangeState([s EXCEPT !.recent[g] = TRUE], g, "REGISTERING", HostRegistered)
  PROVE  Registers(s, t, g)
<1>1. PICK r : r = [s EXCEPT !.recent[g] = TRUE]
  OBVIOUS
<1>2. g \in Group /\ "svc" \in Group /\ g # "svc"
  BY Names
<1>3. Filled(r, g) /\ OnlyGroup(s, r, g) /\ r.state = s.state /\ r.live = s.live
  BY <1>1, <1>2, RecentIs
<1>4. PICK u : u = IF r.state[g] = "REGISTERING" THEN r ELSE Entered(r, g, "REGISTERING")
  OBVIOUS
<1>5. u \in AvahiState /\ OnlyGroup(r, u, g) /\ Sound(u, g) /\ u.live = r.live
  BY <1>2, <1>3, <1>4, RegisteringIs
<1>6. OnlyGroup(s, u, g)
  BY <1>3, <1>5, OnlyIsTransitive
<1>7. SameGroup(s, u, "svc") /\ SameWorld(s, u) /\ SameHost(s, u) /\ Nearly(u, g)
  BY <1>2, <1>5, <1>6, NearlyStep DEF OnlyGroup
<1>8. t = IF r.state[g] = "REGISTERING" THEN r ELSE HostRegistered(u, g, "REGISTERING")
  BY <1>1, <1>4 DEF ChangeState
<1>9. CASE ~(s.server = "REGISTERING" /\ s.state[g] # "REGISTERING")
  <2>1. t = u
    BY <1>3, <1>4, <1>7, <1>8, <1>9 DEF HostRegistered, SameHost
  <2> QED BY <1>3, <1>5, <1>7, <1>9, <2>1 DEF Registers, SameHost
<1>10. CASE s.server = "REGISTERING" /\ s.state[g] # "REGISTERING"
  <2>1. t = [u EXCEPT !.pending = @ + 1]
    BY <1>3, <1>7, <1>8, <1>10 DEF HostRegistered, SameHost
  <2>2. /\ t \in AvahiState /\ SameWorld(u, t) /\ t.server = u.server
        /\ t.pending = u.pending + 1 /\ u.pending \in Int /\ t.live = u.live
        /\ \A h \in Group : SameGroup(u, t, h)
    BY <1>5, <2>1, RaisedIs
  <2>3. Sound(t, g) /\ \A h \in Group \ {g} : Sound(t, h) /\ Driven(t, h)
    BY <1>2, <1>5, <1>7, <2>2, SameKeeps DEF Nearly, SameWorld
  <2>4. Nearly(t, g)
    BY <1>7, <2>2, <2>3 DEF Nearly, SameWorld
  <2>5. SameGroup(s, t, "svc")
    BY <1>2, <1>7, <2>2, SameIsTransitive
  <2>6. SameWorld(s, t)
    BY <1>7, <2>2 DEF SameWorld
  <2> QED BY <1>3, <1>5, <1>7, <1>10, <2>2, <2>3, <2>4, <2>5, <2>6 DEF Registers, SameHost
<1> QED BY <1>9, <1>10

LEMMA CommitRealHost ==
  ASSUME NEW s, NEW g \in Address, Nearly(s, g), Filled(s, g), Wanted(s, g),
         NEW t, t = CommitReal(s, g, HostRegistered)
  PROVE  IF s.state[g] = "REGISTERING" THEN Advanced(s, t) ELSE Joined(s, t)
<1>1. PICK w : w = ChangeState([s EXCEPT !.recent[g] = TRUE], g, "REGISTERING", HostRegistered)
  OBVIOUS
<1>2. Registers(s, w, g)
  BY <1>1, RegistersIs
<1>3. PICK v : v = NewAnnouncers(w, Entries(g) \X Iface)
  OBVIOUS
<1>4. t = CheckProbed(v, g, FALSE, HostRegistered)
  BY <1>1, <1>3 DEF CommitReal
<1>5. g \in Group /\ "svc" \in Group /\ g # "svc" /\ g \in Entries(g)
  BY Names
<1>6. /\ v \in AvahiState /\ SameWorld(w, v) /\ SameHost(w, v) /\ v.live = w.live
      /\ Sound(v, g) /\ \A h \in Group : h # g => SameGroup(w, v, h)
  <2>1. PICK P : P = Entries(g) \X Iface
    OBVIOUS
  <2>2. P \in SUBSET Pair /\ \A h \in Group : h # g => P \cap PairsOf(h) = {}
    BY <1>5, <2>1, Names
  <2>3. v = NewAnnouncers(w, P)
    BY <1>3, <2>1
  <2> QED BY <1>2, <1>5, <2>2, <2>3, NewKeeps DEF Registers
<1>7. Nearly(v, g)
  BY <1>2, <1>5, <1>6, NearlyStep DEF Registers, OnlyGroup
<1>8. SameWorld(s, v) /\ v.server = s.server /\ v.live = s.live /\ v.pending = w.pending
  BY <1>2, <1>6 DEF Registers, SameWorld, SameHost
<1>9. Wanted(v, g) /\ g \in v.live
  BY <1>5, <1>8, WantedSame DEF Publishes, Filled
<1>10. Advanced(v, t)
  BY <1>4, <1>6, <1>7, <1>9, CheckProbedHost
<1>11. SameGroup(s, v, "svc")
  BY <1>2, <1>5, <1>6, SameIsTransitive DEF Registers
<1>12. Elsewhere(s, t)
  <2>1. SameGroup(s, t, "svc") /\ SameWorld(s, t)
    BY <1>8, <1>10, <1>11, SameIsTransitive DEF Advanced, Elsewhere, SameWorld
  <2> QED BY <1>10, <2>1 DEF Advanced, Elsewhere
<1>13. CASE ~(s.server = "REGISTERING" /\ s.state[g] # "REGISTERING")
  <2>1. v.pending = s.pending
    BY <1>2, <1>8, <1>13 DEF Registers
  <2>2. HostKept(v, t) => HostKept(s, t)
    BY <1>8, <2>1 DEF HostKept, SameHost, SameAddresses
  <2>3. HostLess(v, t) => HostLess(s, t)
    BY <1>8, <2>1 DEF HostLess, Reached, SameAddresses
  <2>4. HostLess(v, t) => s.state[g] = "REGISTERING"
    BY <1>8, <1>13 DEF HostLess
  <2> QED BY <1>10, <1>12, <2>2, <2>3, <2>4 DEF Advanced, Joined
<1>14. CASE s.server = "REGISTERING" /\ s.state[g] # "REGISTERING"
  <2>1. v.pending = s.pending + 1 /\ s.pending \in Int
    BY <1>2, <1>8, <1>14 DEF Registers
  <2>2. HostKept(v, t) => HostMore(s, t)
    BY <1>8, <1>14, <2>1 DEF HostKept, HostMore, SameHost, SameAddresses, Reached
  <2>3. HostLess(v, t) => HostMore(s, t)
    BY <1>8, <1>14, <2>1 DEF HostLess, HostMore, Reached, SameAddresses
  <2> QED BY <1>10, <1>12, <1>14, <2>2, <2>3 DEF Advanced, Joined
<1> QED BY <1>13, <1>14

LEMMA CommitHost ==
  ASSUME NEW s, NEW g \in Address, Nearly(s, g), Filled(s, g), Wanted(s, g),
         s.state[g] \in {"UNCOMMITED", "COLLISION"}, NEW t, t = Commit(s, g, HostRegistered)
  PROVE  Joined(s, t)
<1>1. Commits(s, g) /\ g \in Group /\ g \in s.live
  BY Names DEF Filled, Commits
<1>2. CASE ~s.recent[g]
  <2>1. t = CommitReal(s, g, HostRegistered)
    BY <1>1, <1>2 DEF Commit
  <2> QED BY <2>1, CommitRealHost
<1>3. CASE s.recent[g]
  <2>1. PICK u : u = Entered([s EXCEPT !.timer[g] = TRUE], g, "REGISTERING")
    OBVIOUS
  <2>2. t = HostRegistered(u, g, "REGISTERING")
    <3>1. [s EXCEPT !.timer[g] = TRUE].state = s.state
      BY DEF Filled, AvahiState
    <3> QED BY <1>1, <1>3, <2>1, <3>1 DEF Commit, ChangeState
  <2>3. Going(s, u, g)
    BY <1>1, <2>1, WaitingIs
  <2>4. Good(u) /\ Elsewhere(s, u) /\ HostKept(s, u)
    BY <1>1, <2>3, GoingOn
  <2>5. CASE u.server # "REGISTERING"
    BY <2>2, <2>4, <2>5 DEF HostRegistered, Joined
  <2>6. CASE u.server = "REGISTERING"
    <3>1. t = [u EXCEPT !.pending = @ + 1]
      BY <2>2, <2>6 DEF HostRegistered
    <3>2. /\ t \in AvahiState /\ SameWorld(u, t) /\ t.server = u.server
          /\ t.pending = u.pending + 1 /\ u.pending \in Int /\ t.live = u.live
          /\ \A h \in Group : SameGroup(u, t, h)
      BY <2>4, <3>1, RaisedIs DEF Good
    <3>3. Good(t)
      BY <2>4, <3>2, SameKeeps DEF Good, SameWorld
    <3>4. SameGroup(s, t, "svc") /\ SameWorld(s, t)
      BY <2>4, <3>2, SameIsTransitive, Names DEF Elsewhere, SameWorld
    <3>5. HostMore(s, t)
      BY <2>4, <2>6, <3>2 DEF HostMore, HostKept, SameHost, SameAddresses, Reached
    <3> QED BY <3>3, <3>4, <3>5 DEF Joined, Elsewhere
  <2> QED BY <2>5, <2>6
<1> QED BY <1>2, <1>3

-------------------------------------------------------------------------------
(* One address is published or taken back, in whatever state the server is.   *)

WantedOnly(s, a) == a \in s.live => Wanted(s, a)
WantedAll(s, a) == Wanted(s, a) => a \in s.live
\* The count of pending registrations, when no registration is being added ...
Counts(s) == s.pending \in Nat /\ (s.server = "REGISTERING" => s.pending > 0)
\* ... and while they are.
Fillable(s) == s.pending \in Nat /\ \A a \in Address : WantedOnly(s, a)

\* What any operation on a group of the host does to all the others.
Onward(s, t) ==
    /\ Elsewhere(s, t) /\ (SameAddresses(s, t) \/ Exact(t))
    /\ t.server = s.server \/ (s.server = "REGISTERING" /\ t.server = "RUNNING")

LEMMA ExactIs ==
  ASSUME NEW s
  PROVE  Exact(s) <=> \A a \in Address : WantedOnly(s, a) /\ WantedAll(s, a)
BY DEF Exact, WantedOnly, WantedAll

LEMMA OnwardWanted ==
  ASSUME NEW s, NEW t, Onward(s, t), NEW a \in Address
  PROVE  /\ Wanted(t, a) <=> Wanted(s, a)
         /\ WantedOnly(s, a) => WantedOnly(t, a)
         /\ WantedAll(s, a) => WantedAll(t, a)
<1>1. Wanted(t, a) <=> Wanted(s, a)
  BY WantedSame DEF Onward, Elsewhere, Publishes
<1> QED BY <1>1 DEF Onward, SameAddresses, Exact, WantedOnly, WantedAll

LEMMA AdvancedIs ==
  ASSUME NEW s, NEW t, Advanced(s, t)
  PROVE  Onward(s, t) /\ (Counts(s) => Counts(t))
<1>1. CASE HostKept(s, t)
  BY <1>1 DEF Advanced, HostKept, SameHost, Onward, Counts
<1>2. CASE HostLess(s, t)
  <2>1. Counts(s) => Counts(t)
    BY <1>2 DEF HostLess, Reached, Counts
  <2> QED BY <1>2, <2>1 DEF Advanced, HostLess, Reached, Onward
<1> QED BY <1>1, <1>2 DEF Advanced

LEMMA JoinedIs ==
  ASSUME NEW s, NEW t, Joined(s, t), s.pending \in Nat
  PROVE  /\ Onward(s, t) /\ (Counts(s) => Counts(t)) /\ t.pending \in Nat /\ t.pending >= s.pending
<1>1. CASE HostKept(s, t)
  BY <1>1 DEF Joined, HostKept, SameHost, Onward, Counts
<1>2. CASE HostMore(s, t)
  BY <1>2 DEF Joined, HostMore, Reached, Onward, Counts
<1> QED BY <1>1, <1>2 DEF Joined

\* One address is brought up to date.
Updated(s, t, a) ==
    /\ Elsewhere(s, t)
    /\ t.server = s.server \/ (s.server = "REGISTERING" /\ t.server = "RUNNING")
    /\ \A b \in Address \ {a} :
          (WantedOnly(s, b) => WantedOnly(t, b)) /\ (WantedAll(s, b) => WantedAll(t, b))
    /\ Counts(s) => Counts(t)

LEMMA KeptUpdated ==
  ASSUME NEW s, Good(s), NEW a
  PROVE  Updated(s, s, a)
BY DEF Updated, Elsewhere, SameWorld, SameGroup

LEMMA JoinUpdated ==
  ASSUME NEW s, Good(s), s.pending \in Nat, NEW a \in Address, a \notin s.live, Wanted(s, a),
         NEW t, t = Commit(AddAddress(s, a), a, HostRegistered)
  PROVE  Updated(s, t, a) /\ a \in t.live /\ Wanted(t, a) /\ t.pending \in Nat /\ t.pending >= s.pending
<1>1. PICK w : w = AddAddress(s, a)
  OBVIOUS
<1>2. s \in AvahiState /\ a \in Group /\ "svc" \in Group /\ a # "svc" /\ Sound(s, a)
  BY Names DEF Good
<1>3. /\ Filled(w, a) /\ OnlyGroup(s, w, a) /\ w.live = s.live \cup {a}
      /\ w.state[a] \in {"UNCOMMITED", "COLLISION"}
  BY <1>1, <1>2, AddIs
<1>4. /\ Nearly(w, a) /\ SameWorld(s, w) /\ SameHost(s, w) /\ SameGroup(s, w, "svc")
  BY <1>2, <1>3, GoodIsNearly, NearlyStep DEF OnlyGroup, Filled
<1>5. \A b \in Address : Wanted(w, b) <=> Wanted(s, b)
  BY <1>4, WantedSame DEF SameHost, Publishes
<1>6. Joined(w, t)
  BY <1>1, <1>3, <1>4, <1>5, CommitHost
<1>7. /\ Onward(w, t) /\ (Counts(w) => Counts(t)) /\ t.pending \in Nat /\ t.pending >= w.pending
  BY <1>4, <1>6, JoinedIs DEF SameHost
<1>8. Elsewhere(s, t)
  BY <1>4, <1>7, SameIsTransitive DEF Onward, Elsewhere, SameWorld
<1>9. \A b \in Address : /\ (WantedOnly(w, b) => WantedOnly(t, b)) /\ (WantedAll(w, b) => WantedAll(t, b))
                         /\ (Wanted(t, b) <=> Wanted(w, b))
  BY <1>7, OnwardWanted
<1>10. \A b \in Address \ {a} :
          (WantedOnly(s, b) => WantedOnly(t, b)) /\ (WantedAll(s, b) => WantedAll(t, b))
  BY <1>3, <1>5, <1>9 DEF WantedOnly, WantedAll
<1>11. a \in t.live /\ Wanted(t, a)
  BY <1>3, <1>5, <1>9 DEF WantedAll
<1>12. /\ Counts(s) => Counts(t)
       /\ t.server = s.server \/ (s.server = "REGISTERING" /\ t.server = "RUNNING")
       /\ t.pending >= s.pending
  BY <1>4, <1>7 DEF Counts, SameHost, Onward
<1> QED BY <1>7, <1>8, <1>10, <1>11, <1>12 DEF Updated

LEMMA ResetUpdated ==
  ASSUME NEW s, Good(s), Counts(s), NEW a \in Address, NEW t,
         t = Reset(IF WasPending(s, a) THEN DecreasePending(s) ELSE s, a)
  PROVE  Updated(s, t, a) /\ a \notin t.live /\ (Wanted(t, a) <=> Wanted(s, a))
<1>1. PICK v : v = IF WasPending(s, a) THEN DecreasePending(s) ELSE s
  OBVIOUS
<1>2. Onward(s, v) /\ Counts(v)
  <2>1. CASE WasPending(s, a)
    <3>1. Lessened(s, v)
      BY <1>1, <2>1, DecreaseIs DEF WasPending
    <3> QED BY <3>1, AdvancedIs DEF Lessened, Advanced
  <2>2. CASE ~WasPending(s, a)
    BY <1>1, <2>2 DEF Onward, Elsewhere, SameWorld, SameGroup, SameAddresses
  <2> QED BY <2>1, <2>2
<1>3. /\ Good(v) /\ v \in AvahiState /\ Sound(v, a) /\ a \in Group /\ Entries(a) = {a}
      /\ "svc" \in Group /\ a # "svc"
  BY <1>2, Names DEF Onward, Elsewhere, Good
<1>4. t \in AvahiState /\ OnlyGroup(v, t, a) /\ Emptied(t, a) /\ Sound(t, a) /\ Driven(t, a)
  BY <1>1, <1>3, ResetIs
<1>5. a \notin t.live
  BY <1>3, <1>4 DEF Emptied
<1>6. Good(t)
  BY <1>3, <1>4, <1>5, GoodStep, GoodIsNearly
<1>7. SameWorld(v, t) /\ SameHost(v, t) /\ SameGroup(v, t, "svc")
  BY <1>3, <1>4 DEF OnlyGroup
<1>8. Elsewhere(s, t)
  BY <1>2, <1>6, <1>7, SameIsTransitive DEF Onward, Elsewhere, SameWorld
<1>9. \A b \in Address : Wanted(t, b) <=> Wanted(v, b)
  BY <1>7, WantedSame DEF SameHost, Publishes
<1>10. \A b \in Address \ {a} : b \in t.live <=> b \in v.live
  BY <1>4, Names DEF OnlyGroup, SameGroup
<1>11. \A b \in Address : /\ (WantedOnly(s, b) => WantedOnly(v, b)) /\ (WantedAll(s, b) => WantedAll(v, b))
                          /\ (Wanted(v, b) <=> Wanted(s, b))
  BY <1>2, OnwardWanted
<1>12. \A b \in Address \ {a} :
          (WantedOnly(s, b) => WantedOnly(t, b)) /\ (WantedAll(s, b) => WantedAll(t, b))
  BY <1>9, <1>10, <1>11 DEF WantedOnly, WantedAll
<1>13. /\ Counts(t)
       /\ t.server = s.server \/ (s.server = "REGISTERING" /\ t.server = "RUNNING")
  BY <1>2, <1>7 DEF Counts, SameHost, Onward
<1> QED BY <1>5, <1>8, <1>9, <1>11, <1>12, <1>13 DEF Updated

PlaceHost(s, a) == UpdateAddress(s, a, FALSE, HostRegistered, DecreasePending)
TakeHost(s, a) == UpdateAddress(s, a, TRUE, HostRegistered, DecreasePending)

LEMMA PlaceHostIs ==
  ASSUME NEW s, Good(s), Counts(s) \/ Fillable(s), NEW a \in Address, NEW t, t = PlaceHost(s, a)
  PROVE  /\ Updated(s, t, a) /\ WantedOnly(t, a) /\ WantedAll(t, a)
         /\ Fillable(s) => Fillable(t) /\ t.pending >= s.pending
<1>1. s.pending \in Nat /\ (a \in s.live => a \in s.present)
  BY DEF Counts, Fillable, Good
<1>2. CASE Wanted(s, a) /\ a \in s.live
  <2>1. t = s
    BY <1>2 DEF PlaceHost, UpdateAddress
  <2> QED BY <1>1, <1>2, <2>1, KeptUpdated DEF WantedOnly, WantedAll
<1>3. CASE Wanted(s, a) /\ a \notin s.live
  <2>1. t = Commit(AddAddress(s, a), a, HostRegistered)
    BY <1>3 DEF PlaceHost, UpdateAddress
  <2>2. /\ Updated(s, t, a) /\ a \in t.live /\ Wanted(t, a)
        /\ t.pending \in Nat /\ t.pending >= s.pending
    BY <1>1, <1>3, <2>1, JoinUpdated
  <2> QED BY <2>2 DEF WantedOnly, WantedAll, Fillable, Updated
<1>4. CASE ~Wanted(s, a) /\ a \notin s.live
  <2>1. t = s
    BY <1>4 DEF PlaceHost, UpdateAddress
  <2> QED BY <1>1, <1>4, <2>1, KeptUpdated DEF WantedOnly, WantedAll
<1>5. CASE ~Wanted(s, a) /\ a \in s.live
  <2>1. t = Reset(IF WasPending(s, a) THEN DecreasePending(s) ELSE s, a)
    BY <1>1, <1>5 DEF PlaceHost, UpdateAddress
  <2>2. ~Fillable(s)
    BY <1>5 DEF Fillable, WantedOnly
  <2>3. Updated(s, t, a) /\ a \notin t.live /\ (Wanted(t, a) <=> Wanted(s, a))
    BY <2>1, <2>2, ResetUpdated
  <2> QED BY <1>5, <2>2, <2>3 DEF WantedOnly, WantedAll
<1> QED BY <1>2, <1>3, <1>4, <1>5

LEMMA TakeHostIs ==
  ASSUME NEW s, Good(s), Counts(s), NEW a \in Address, NEW t, t = TakeHost(s, a)
  PROVE  Updated(s, t, a) /\ a \notin t.live
<1>1. a \in s.live => a \in s.present
  BY DEF Good
<1>2. CASE a \notin s.live
  <2>1. t = s
    BY <1>2 DEF TakeHost, UpdateAddress
  <2> QED BY <1>2, <2>1, KeptUpdated
<1>3. CASE a \in s.live
  <2>1. t = Reset(IF WasPending(s, a) THEN DecreasePending(s) ELSE s, a)
    BY <1>1, <1>3 DEF TakeHost, UpdateAddress
  <2> QED BY <2>1, ResetUpdated
<1> QED BY <1>2, <1>3

-------------------------------------------------------------------------------
(* Those of an interface, or all, are.                                        *)

\* Many addresses are brought up to date; those of A may be missing after it.
Reviewed(s, t, A) ==
    /\ Elsewhere(s, t)
    /\ t.server = s.server \/ (s.server = "REGISTERING" /\ t.server = "RUNNING")
    /\ \A b \in Address : WantedOnly(s, b) => WantedOnly(t, b)
    /\ \A b \in Address \ A : WantedAll(s, b) => WantedAll(t, b)
    /\ Counts(s) => Counts(t)

LEMMA ReviewedKeeps ==
  ASSUME NEW s, Good(s), NEW A
  PROVE  Reviewed(s, s, A)
BY DEF Reviewed, Elsewhere, SameWorld, SameGroup

LEMMA ReviewedIsTransitive ==
  ASSUME NEW A, NEW s, NEW t, NEW u, Reviewed(s, t, A), Reviewed(t, u, A)
  PROVE  Reviewed(s, u, A)
<1>1. SameGroup(s, u, "svc")
  BY SameIsTransitive DEF Reviewed, Elsewhere
<1>2. Elsewhere(s, u)
  BY <1>1 DEF Reviewed, Elsewhere, SameWorld
<1> QED BY <1>2 DEF Reviewed

PlaceOne(s, a, A) == IF a \in A THEN PlaceHost(s, a) ELSE s
PlaceThese(s, A) == UpdateAddresses(s, A, FALSE)
TakeOne(s, a, A) == IF a \in A THEN TakeHost(s, a) ELSE s
TakeThese(s, A) == UpdateAddresses(s, A, TRUE)

LEMMA PlaceOneIs ==
  ASSUME NEW s, Good(s), Counts(s) \/ Fillable(s), NEW A, NEW a \in Address, NEW t, t = PlaceOne(s, a, A)
  PROVE  /\ Reviewed(s, t, {}) /\ (a \in A => WantedOnly(t, a) /\ WantedAll(t, a))
         /\ Fillable(s) => Fillable(t) /\ t.pending >= s.pending
<1>1. CASE a \notin A
  <2>1. t = s
    BY <1>1 DEF PlaceOne
  <2>2. Fillable(s) => t.pending >= s.pending
    BY <2>1 DEF Fillable
  <2> QED BY <1>1, <2>1, <2>2, ReviewedKeeps
<1>2. CASE a \in A
  <2>1. t = PlaceHost(s, a)
    BY <1>2 DEF PlaceOne
  <2>2. /\ Updated(s, t, a) /\ WantedOnly(t, a) /\ WantedAll(t, a)
        /\ Fillable(s) => Fillable(t) /\ t.pending >= s.pending
    BY <2>1, PlaceHostIs
  <2> QED BY <2>2 DEF Updated, Reviewed
<1> QED BY <1>1, <1>2

LEMMA TakeOneIs ==
  ASSUME NEW s, Good(s), Counts(s), NEW A, NEW a \in Address, NEW t, t = TakeOne(s, a, A)
  PROVE  Reviewed(s, t, A)
<1>1. CASE a \notin A
  BY <1>1, ReviewedKeeps DEF TakeOne
<1>2. CASE a \in A
  <2>1. Updated(s, t, a) /\ a \notin t.live
    BY <1>2, TakeHostIs DEF TakeOne
  <2> QED BY <1>2, <2>1 DEF Updated, Reviewed, WantedOnly
<1> QED BY <1>1, <1>2

(* The loops over all addresses. *)
LEMMA PlaceTheseIs ==
  ASSUME NEW s, Good(s), Counts(s) \/ Fillable(s), NEW A, NEW t, t = PlaceThese(s, A)
  PROVE  /\ Reviewed(s, t, {}) /\ \A a \in Address \cap A : WantedOnly(t, a) /\ WantedAll(t, a)
         /\ Fillable(s) => Fillable(t) /\ t.pending >= s.pending
<1> DEFINE S == {v \in AvahiState : Good(v) /\ (Counts(v) \/ Fillable(v))}
           f[n \in 0 .. Len(Addresses)] == IF n = 0 THEN s ELSE PlaceOne(f[n-1], Addresses[n], A)
<1>1. t = f[Len(Addresses)]
  BY DEF PlaceThese, UpdateAddresses, Along, PlaceOne, PlaceHost
<1>2. PICK N \in Nat : N = Len(Addresses)
  BY AvahiAssumption
<1>3. t = f[N] /\ \A n \in 1 .. N : Addresses[n] \in Address
  BY <1>1, <1>2, AvahiAssumption
<1>4. \A v \in S, n \in 1 .. N : PlaceOne(v, Addresses[n], A) \in S
  <2> TAKE v \in S, n \in 1 .. N
  <2>1. PICK u : u = PlaceOne(v, Addresses[n], A)
    OBVIOUS
  <2>2. /\ Reviewed(v, u, {}) /\ (Fillable(v) => Fillable(u))
    BY <1>3, <2>1, PlaceOneIs
  <2> QED BY <2>1, <2>2 DEF Reviewed, Elsewhere, Good
<1>5. PICK h \in [0 .. N -> S] : h = [n \in 0 .. N |-> IF n = 0 THEN s ELSE PlaceOne(h[n-1], Addresses[n], A)]
  <2>1. PICK g : g = [n \in 1 .. N |-> [v \in S |-> PlaceOne(v, Addresses[n], A)]]
    OBVIOUS
  <2>2. g \in [1 .. N -> [S -> S]] /\ s \in S
    BY <1>4, <2>1 DEF Good
  <2> HIDE DEF S
  <2>3. PICK h \in [0 .. N -> S] : Runs(h, N, s, g)
    BY <2>2, Loops
  <2>4. ASSUME NEW n \in 0 .. N
        PROVE  h[n] = IF n = 0 THEN s ELSE PlaceOne(h[n-1], Addresses[n], A)
    <3>1. n # 0 => n \in 1 .. N /\ n - 1 \in 0 .. N /\ h[n-1] \in S
      BY <2>3
    <3> QED BY <2>1, <2>3, <3>1 DEF Runs
  <2> QED BY <2>3, <2>4
<1>6. f = [n \in 0 .. N |-> IF n = 0 THEN s ELSE PlaceOne(f[n-1], Addresses[n], A)]
  BY <1>2, <1>5
<1> HIDE DEF f
<1>7. f[0] = s /\ \A n \in 1 .. N : f[n] = PlaceOne(f[n-1], Addresses[n], A)
  BY <1>6
<1>8. PICK Q : Q = [n \in 0 .. N |-> {v \in S :
          /\ Reviewed(s, v, {}) /\ (Fillable(s) => Fillable(v) /\ v.pending >= s.pending)
          /\ \A k \in 1 .. n : Addresses[k] \in A => WantedOnly(v, Addresses[k]) /\ WantedAll(v, Addresses[k])}]
  OBVIOUS
<1>9. f[0] \in Q[0]
  <2>1. s \in S /\ Reviewed(s, s, {})
    BY ReviewedKeeps DEF Good
  <2>2. Fillable(s) => s.pending >= s.pending
    BY DEF Fillable
  <2> QED BY <1>7, <1>8, <2>1, <2>2
<1>10. ASSUME NEW n \in 1 .. N, f[n-1] \in Q[n-1] PROVE f[n] \in Q[n]
  <2>1. PICK v : v = f[n-1]
    OBVIOUS
  <2>2. PICK u : u = f[n]
    OBVIOUS
  <2>3. /\ v \in S /\ Reviewed(s, v, {}) /\ (Fillable(s) => Fillable(v) /\ v.pending >= s.pending)
        /\ \A k \in 1 .. n - 1 : Addresses[k] \in A => WantedOnly(v, Addresses[k]) /\ WantedAll(v, Addresses[k])
    BY <1>8, <1>10, <2>1
  <2>4. u = PlaceOne(v, Addresses[n], A) /\ Addresses[n] \in Address /\ u \in S
    BY <1>3, <1>4, <1>7, <2>1, <2>2, <2>3
  <2>5. /\ Reviewed(v, u, {}) /\ (Addresses[n] \in A => WantedOnly(u, Addresses[n]) /\ WantedAll(u, Addresses[n]))
        /\ Fillable(v) => Fillable(u) /\ u.pending >= v.pending
    BY <2>3, <2>4, PlaceOneIs
  <2>6. Reviewed(s, u, {})
    BY <2>3, <2>5, ReviewedIsTransitive
  <2>7. Fillable(s) => Fillable(u) /\ u.pending >= s.pending
    BY <2>3, <2>5 DEF Fillable
  <2>8. \A k \in 1 .. n : Addresses[k] \in A => WantedOnly(u, Addresses[k]) /\ WantedAll(u, Addresses[k])
    BY <1>3, <2>3, <2>5 DEF Reviewed
  <2>9. Q[n] = {w \in S :
          /\ Reviewed(s, w, {}) /\ (Fillable(s) => Fillable(w) /\ w.pending >= s.pending)
          /\ \A k \in 1 .. n : Addresses[k] \in A => WantedOnly(w, Addresses[k]) /\ WantedAll(w, Addresses[k])}
    BY <1>8
  <2> HIDE DEF S
  <2> QED BY <2>2, <2>4, <2>6, <2>7, <2>8, <2>9
<1>11. f[N] \in Q[N]
  BY <1>9, <1>10, LoopEnds
<1>12. /\ Reviewed(s, t, {}) /\ (Fillable(s) => Fillable(t) /\ t.pending >= s.pending)
       /\ \A k \in 1 .. N : Addresses[k] \in A => WantedOnly(t, Addresses[k]) /\ WantedAll(t, Addresses[k])
  BY <1>3, <1>8, <1>11
<1>13. \A a \in Address : \E k \in 1 .. N : Addresses[k] = a
  BY <1>2, AvahiAssumption DEF Address, Range
<1> QED BY <1>12, <1>13

LEMMA TakeTheseIs ==
  ASSUME NEW s, Good(s), Counts(s), NEW A, NEW t, t = TakeThese(s, A)
  PROVE  Reviewed(s, t, A)
<1> DEFINE S == {v \in AvahiState : Good(v) /\ (Counts(v))}
           f[n \in 0 .. Len(Addresses)] == IF n = 0 THEN s ELSE TakeOne(f[n-1], Addresses[n], A)
<1>1. t = f[Len(Addresses)]
  BY DEF TakeThese, UpdateAddresses, Along, TakeOne, TakeHost
<1>2. PICK N \in Nat : N = Len(Addresses)
  BY AvahiAssumption
<1>3. t = f[N] /\ \A n \in 1 .. N : Addresses[n] \in Address
  BY <1>1, <1>2, AvahiAssumption
<1>4. \A v \in S, n \in 1 .. N : TakeOne(v, Addresses[n], A) \in S
  <2> TAKE v \in S, n \in 1 .. N
  <2>1. PICK u : u = TakeOne(v, Addresses[n], A)
    OBVIOUS
  <2>2. Reviewed(v, u, A)
    BY <1>3, <2>1, TakeOneIs
  <2> QED BY <2>1, <2>2 DEF Reviewed, Elsewhere, Good
<1>5. PICK h \in [0 .. N -> S] : h = [n \in 0 .. N |-> IF n = 0 THEN s ELSE TakeOne(h[n-1], Addresses[n], A)]
  <2>1. PICK g : g = [n \in 1 .. N |-> [v \in S |-> TakeOne(v, Addresses[n], A)]]
    OBVIOUS
  <2>2. g \in [1 .. N -> [S -> S]] /\ s \in S
    BY <1>4, <2>1 DEF Good
  <2> HIDE DEF S
  <2>3. PICK h \in [0 .. N -> S] : Runs(h, N, s, g)
    BY <2>2, Loops
  <2>4. ASSUME NEW n \in 0 .. N
        PROVE  h[n] = IF n = 0 THEN s ELSE TakeOne(h[n-1], Addresses[n], A)
    <3>1. n # 0 => n \in 1 .. N /\ n - 1 \in 0 .. N /\ h[n-1] \in S
      BY <2>3
    <3> QED BY <2>1, <2>3, <3>1 DEF Runs
  <2> QED BY <2>3, <2>4
<1>6. f = [n \in 0 .. N |-> IF n = 0 THEN s ELSE TakeOne(f[n-1], Addresses[n], A)]
  BY <1>2, <1>5
<1> HIDE DEF f
<1>7. f[0] = s /\ \A n \in 1 .. N : f[n] = TakeOne(f[n-1], Addresses[n], A)
  BY <1>6
<1>8. PICK Q : Q = [n \in 0 .. N |-> {v \in S : Reviewed(s, v, A)}]
  OBVIOUS
<1>9. f[0] \in Q[0]
  <2>1. s \in S /\ Reviewed(s, s, A)
    BY ReviewedKeeps DEF Good
  <2> QED BY <1>7, <1>8, <2>1
<1>10. ASSUME NEW n \in 1 .. N, f[n-1] \in Q[n-1] PROVE f[n] \in Q[n]
  <2>1. PICK v : v = f[n-1]
    OBVIOUS
  <2>2. PICK u : u = f[n]
    OBVIOUS
  <2>3. v \in S /\ Reviewed(s, v, A)
    BY <1>8, <1>10, <2>1
  <2>4. u = TakeOne(v, Addresses[n], A) /\ Addresses[n] \in Address /\ u \in S
    BY <1>3, <1>4, <1>7, <2>1, <2>2, <2>3
  <2>5. Reviewed(v, u, A)
    BY <2>3, <2>4, TakeOneIs
  <2>6. Reviewed(s, u, A)
    BY <2>3, <2>5, ReviewedIsTransitive
  <2>9. Q[n] = {w \in S : Reviewed(s, w, A)}
    BY <1>8
  <2> HIDE DEF S
  <2> QED BY <2>2, <2>4, <2>6, <2>9
<1>11. f[N] \in Q[N]
  BY <1>9, <1>10, LoopEnds
<1> QED BY <1>3, <1>8, <1>11

-------------------------------------------------------------------------------
(* The host withdraws its records, and registers them.                        *)

(* The server: what the invariant says of the host's records *)
Whole(s) == Good(s) /\ Exact(s) /\ Counts(s)

LEMMA WantedServer ==
  ASSUME NEW s, NEW t, OnlyServer(s, t), Publishes(s) => Publishes(t), NEW a \in Address, WantedOnly(s, a)
  PROVE  WantedOnly(t, a)
BY DEF OnlyServer, WantedOnly, Wanted, AddressRelevant, Relevant, SameWorld, Publishes

LEMMA WholeSame ==
  ASSUME NEW s, Whole(s), NEW t, Good(t), SameWorld(s, t), SameHost(s, t), SameAddresses(s, t)
  PROVE  Whole(t)
BY ExactSame DEF Whole, Counts, SameHost

\* The host's records are withdrawn: what is live is wanted, and nothing counted.
Withdrawn(s, t) ==
    /\ Elsewhere(s, t) /\ Fillable(t) /\ t.pending = 0
    /\ t.server = s.server \/ (s.server = "REGISTERING" /\ t.server = "RUNNING")

LEMMA WithdrawHostIs ==
  ASSUME NEW s, Good(s), Counts(s), \A a \in Address : WantedOnly(s, a), NEW t, t = WithdrawHost(s)
  PROVE  Withdrawn(s, t)
<1>1. PICK u : u = TakeThese(s, Address)
  OBVIOUS
<1>2. PICK n \in Counter : n = 0
  BY DEF Counter
<1>3. t = [u EXCEPT !.pending = n]
  BY <1>1, <1>2 DEF WithdrawHost, UpdateAll, TakeThese
<1>4. Reviewed(s, u, Address)
  BY <1>1, TakeTheseIs
<1>5. OnlyServer(u, t) /\ t.server = u.server /\ t.pending = 0
  BY <1>2, <1>3, <1>4, PendingIs DEF Reviewed, Elsewhere
<1>6. \A a \in Address : WantedOnly(t, a)
  <2> SUFFICES ASSUME NEW a \in Address PROVE WantedOnly(t, a)
    OBVIOUS
  <2>1. WantedOnly(u, a)
    BY <1>4 DEF Reviewed
  <2> QED BY <1>5, <2>1, WantedServer DEF Publishes
<1>7. Elsewhere(s, t)
  <2>1. SameGroup(u, t, "svc")
    BY <1>5, Names DEF OnlyServer
  <2> QED BY <1>4, <1>5, <2>1, SameIsTransitive DEF Reviewed, Elsewhere, OnlyServer, SameWorld
<1> QED BY <1>4, <1>5, <1>6, <1>7 DEF Withdrawn, Fillable, Reviewed

\* The host registers its records again.
Restarted(s, t) == Elsewhere(s, t) /\ Whole(t) /\ Publishes(t)

LEMMA FilledHost ==
  ASSUME NEW s, Good(s), Fillable(s), s.pending > 0, Publishes(s), Exact(s),
         NEW t, t = DecreasePending(s)
  PROVE  Restarted(s, t)
<1>1. CASE s.server = "REGISTERING"
  <2>1. Lessened(s, t)
    BY <1>1, DecreaseIs
  <2>2. Exact(t)
    <3>1. CASE t.pending = 0
      BY <2>1, <3>1 DEF Lessened, HostLess, Reached
    <3>2. CASE t.pending # 0
      <4>1. SameWorld(s, t) /\ SameAddresses(s, t) /\ t.server = s.server
        BY <2>1, <3>2 DEF Lessened, HostLess, Reached, Elsewhere
      <4> QED BY <4>1, WantedSame DEF Exact, SameAddresses, Publishes
    <3> QED BY <3>1, <3>2
  <2>3. Counts(t) /\ Publishes(t)
    BY <2>1 DEF Lessened, HostLess, Reached, Counts, Fillable, Publishes
  <2> QED BY <2>1, <2>2, <2>3 DEF Restarted, Lessened, Elsewhere, Whole
<1>2. CASE s.server # "REGISTERING"
  <2>1. s.server = "RUNNING"
    BY <1>2 DEF Publishes
  <2>2. PICK n \in Counter : n = s.pending - 1
    BY DEF Fillable, Counter
  <2>3. PICK r : r = [s EXCEPT !.pending = n]
    OBVIOUS
  <2>4. OnlyServer(s, r) /\ r.server = s.server /\ r.pending = n
    BY <2>3, PendingIs
  <2>5. t = r
    BY <2>1, <2>2, <2>3, <2>4 DEF DecreasePending, SetSettled
  <2>6. Exact(t)
    BY <2>4, <2>5, WantedSame DEF Exact, OnlyServer, Publishes
  <2>7. Counts(t) /\ Publishes(t)
    BY <1>2, <2>1, <2>2, <2>4, <2>5 DEF Counts, Fillable, Publishes
  <2> QED BY <2>4, <2>5, <2>6, <2>7, Names DEF Restarted, Whole, Elsewhere, OnlyServer
<1> QED BY <1>1, <1>2

\* The server has entered REGISTERING, perhaps to leave it at once.
Entering(s, t) == Elsewhere(s, t) /\ Fillable(t) /\ Publishes(t)

LEMMA EnteringIs ==
  ASSUME NEW s, Good(s), Fillable(s), NEW t,
         t = IF s.server = "REGISTERING" THEN s
             ELSE LET u == UpdateAll([s EXCEPT !.server = "REGISTERING"], FALSE)
                  IN  [u EXCEPT !.told = Append(@, "REGISTERING")]
  PROVE  Entering(s, t)
<1>1. CASE s.server = "REGISTERING"
  BY <1>1 DEF Entering, Elsewhere, SameWorld, SameGroup, Publishes
<1>2. CASE s.server # "REGISTERING"
  <2>0. PICK st \in ServerState : st = "REGISTERING"
    BY DEF ServerState
  <2>1. PICK r : r = [s EXCEPT !.server = st]
    OBVIOUS
  <2>2. PICK u : u = PlaceThese(r, Address)
    OBVIOUS
  <2>3. t = [u EXCEPT !.told = Append(@, st)]
    BY <1>2, <2>0, <2>1, <2>2 DEF UpdateAll, PlaceThese
  <2>4. OnlyServer(s, r) /\ r.server = st /\ r.pending = s.pending
    BY <2>1, ServerIs
  <2>5. Good(r) /\ Fillable(r)
    BY <2>0, <2>4, WantedServer DEF Fillable, Publishes, OnlyServer
  <2>6. Reviewed(r, u, {}) /\ Fillable(u)
    BY <2>2, <2>5, PlaceTheseIs
  <2>7. /\ Good(t) /\ SameWorld(u, t) /\ SameHost(u, t) /\ t.live = u.live
        /\ \A g \in Group : SameGroup(u, t, g)
    BY <2>3, <2>6, TellIs DEF Reviewed, Elsewhere
  <2>8. \A a \in Address : WantedOnly(t, a)
    BY <2>6, <2>7, WantedSame DEF Fillable, WantedOnly, SameHost, Publishes
  <2>9. Fillable(t) /\ Publishes(t)
    BY <2>0, <2>4, <2>6, <2>7, <2>8 DEF Fillable, Publishes, SameHost, Reviewed
  <2>10. SameGroup(s, t, "svc")
    <3>1. SameGroup(s, r, "svc") /\ SameGroup(r, u, "svc") /\ SameGroup(u, t, "svc")
      BY <2>4, <2>6, <2>7, Names DEF OnlyServer, Reviewed, Elsewhere
    <3> QED BY <3>1, SameIsTransitive
  <2>11. SameWorld(s, t)
    BY <2>4, <2>6, <2>7 DEF OnlyServer, Reviewed, Elsewhere, SameWorld
  <2> QED BY <2>7, <2>9, <2>10, <2>11 DEF Entering, Elsewhere
<1> QED BY <1>1, <1>2

LEMMA ElsewhereIsTransitive ==
  ASSUME NEW s, NEW t, NEW u, Elsewhere(s, t), Elsewhere(t, u)
  PROVE  Elsewhere(s, u)
<1>1. SameGroup(s, u, "svc")
  BY SameIsTransitive DEF Elsewhere
<1> QED BY <1>1 DEF Elsewhere, SameWorld

LEMMA RegisterStuffIs ==
  ASSUME NEW s, Good(s), Fillable(s), NEW t, t = RegisterStuff(s)
  PROVE  Restarted(s, t)
<1>1. PICK e : e = IF s.server = "REGISTERING" THEN s
                   ELSE LET u == UpdateAll([s EXCEPT !.server = "REGISTERING"], FALSE)
                        IN  [u EXCEPT !.told = Append(@, "REGISTERING")]
  OBVIOUS
<1>2. Entering(s, e)
  BY <1>1, EnteringIs
<1>3. PICK y : y = [e EXCEPT !.pending = @ + 1]
  OBVIOUS
<1>4. PICK z : z = PlaceThese(y, Address)
  OBVIOUS
<1>5. t = DecreasePending(z)
  BY <1>1, <1>3, <1>4 DEF RegisterStuff, UpdateAll, PlaceThese
<1>6. /\ y \in AvahiState /\ SameWorld(e, y) /\ y.server = e.server
      /\ y.pending = e.pending + 1 /\ y.live = e.live
      /\ \A g \in Group : SameGroup(e, y, g)
  BY <1>2, <1>3, RaisedIs DEF Entering, Elsewhere, Good
<1>7. Good(y)
  BY <1>2, <1>6, SameKeeps DEF Entering, Elsewhere, Good, SameWorld
<1>8. Elsewhere(e, y)
  BY <1>6, <1>7, Names DEF Elsewhere
<1>9. Fillable(y) /\ y.pending > 0
  <2>1. OnlyServer(e, y) /\ (Publishes(e) => Publishes(y))
    BY <1>6, <1>7 DEF OnlyServer, Publishes
  <2> QED BY <1>2, <1>6, <2>1, WantedServer DEF Fillable, Entering
<1>10. /\ Reviewed(y, z, {}) /\ (\A a \in Address : WantedOnly(z, a) /\ WantedAll(z, a))
       /\ Fillable(z) /\ z.pending >= y.pending
  BY <1>4, <1>7, <1>9, PlaceTheseIs
<1>11. Exact(z) /\ z.pending > 0 /\ Publishes(z)
  BY <1>2, <1>6, <1>9, <1>10, ExactIs DEF Fillable, Reviewed, Entering, Publishes
<1>12. Restarted(z, t)
  BY <1>5, <1>10, <1>11, FilledHost DEF Reviewed, Elsewhere
<1>13. Elsewhere(s, t)
  BY <1>2, <1>8, <1>10, <1>12, ElsewhereIsTransitive DEF Entering, Reviewed, Restarted
<1> QED BY <1>12, <1>13 DEF Restarted

-------------------------------------------------------------------------------
(* Steps of one group, and collisions.                                        *)

(* One group of a whole state changes, and publishes the addresses it did. *)
LEMMA GroupStep ==
  ASSUME NEW s, Whole(s), NEW g \in Group, NEW t \in AvahiState, OnlyGroup(s, t, g),
         Sound(t, g), Driven(t, g), SameAddresses(s, t)
  PROVE  Whole(t) /\ SameWorld(s, t)
<1>1. g \in Address /\ g \in t.live => g \in t.present
  BY DEF Whole, Good, OnlyGroup, SameWorld, SameAddresses
<1>2. Good(t)
  BY <1>1, GoodStep, GoodIsNearly DEF Whole
<1> QED BY <1>2, WholeSame DEF OnlyGroup

LEMMA ServiceStep ==
  ASSUME NEW s, Whole(s), NEW t \in AvahiState, OnlyGroup(s, t, "svc"), Sound(t, "svc"), Driven(t, "svc")
  PROVE  Whole(t) /\ SameWorld(s, t)
<1>1. SameAddresses(s, t) /\ "svc" \in Group
  BY Names DEF OnlyGroup, SameGroup, SameAddresses
<1> QED BY <1>1, GroupStep

\* Nothing of what the invariant speaks of changes.
Quietly(s, t) ==
    /\ t \in AvahiState /\ SameHost(s, t) /\ t.live = s.live /\ t.announcing = s.announcing
    /\ t.present = s.present /\ t.list_complete = s.list_complete /\ t.flags_ok = s.flags_ok
    /\ t.state = s.state /\ t.timer = s.timer /\ t.n_probing = s.n_probing /\ t.ann = s.ann

LEMMA QuietlyIs ==
  ASSUME NEW s, Whole(s), NEW t, Quietly(s, t)
  PROVE  Whole(t)
<1>1. \A g \in Group : SameGroup(s, t, g)
  BY DEF Quietly, SameGroup
<1>2. Good(t)
  BY <1>1, SameKeeps DEF Whole, Good, Quietly
<1>3. \A a \in Address : Wanted(t, a) <=> Wanted(s, a)
  BY DEF Quietly, SameHost, Wanted, AddressRelevant, Relevant
<1>4. Exact(t)
  BY <1>3 DEF Whole, Exact, Quietly
<1> QED BY <1>2, <1>4 DEF Whole, Counts, Quietly, SameHost

(* A group is taken back without goodbyes. *)
Cleared(s, g) ==
    LET t == Kill(s, Entries(g) \intersect s.live, FALSE)
    IN  [t EXCEPT !.n_probing[g] = 0,
                  !.heard = [i \in Iface |-> {x \in @[i] : Of(x[1]) # g}],
                  !.stale = [i \in Iface |-> @[i] \union {x \in s.heard[i] : Of(x[1]) = g}]]

LEMMA ClearedIs ==
  ASSUME NEW s, Whole(s), NEW g \in Group, NEW t, t = Entered(Cleared(s, g), g, "COLLISION")
  PROVE  /\ t \in AvahiState /\ OnlyGroup(s, t, g) /\ Emptied(t, g) /\ Sound(t, g) /\ Driven(t, g)
         /\ Cleared(s, g).state = s.state
<1>1. PICK u : u = Kill(s, Entries(g) \intersect s.live, FALSE)
  OBVIOUS
<1>2. s \in AvahiState /\ Sound(s, g)
  BY DEF Whole, Good
<1>3. Killed(s, u, g)
  <2>1. Founded(s, g)
    BY <1>2 DEF Sound
  <2> QED BY <1>1, <1>2, <2>1, KillIs, Zenon
<1>4. PICK n : n = [u.n_probing EXCEPT ![g] = 0]
  OBVIOUS
<1>5. PICK heard : heard = [i \in Iface |-> {x \in u.heard[i] : Of(x[1]) # g}]
  OBVIOUS
<1>20. PICK stale : stale = [i \in Iface |-> u.stale[i] \union {x \in s.heard[i] : Of(x[1]) = g}]
  OBVIOUS
<1>6. n \in [Group -> Int] /\ n[g] = 0 /\ \A h \in Group : h # g => n[h] = u.n_probing[h]
  BY <1>3, <1>4 DEF Killed, AvahiState
<1>7. heard \in [Iface -> SUBSET (Entry \X Version)] /\ stale \in [Iface -> SUBSET (Entry \X Version)]
  BY <1>2, <1>3, <1>5, <1>20 DEF Killed, AvahiState
<1>8. PICK v : v = [u EXCEPT !.n_probing = n, !.heard = heard, !.stale = stale]
  OBVIOUS
<1>9. v \in AvahiState
  BY <1>3, <1>6, <1>7, <1>8 DEF Killed, AvahiState
<1>10. /\ v.state = u.state /\ v.timer = u.timer /\ v.ann = u.ann /\ v.live = u.live
       /\ SameWorld(u, v) /\ SameHost(u, v) /\ v.n_probing = n
  BY <1>3, <1>8 DEF Killed, AvahiState, SameWorld, SameHost
<1>11. OnlyGroup(s, v, g)
  <2>1. OnlyGroup(u, v, g)
    BY <1>6, <1>10 DEF OnlyGroup, SameGroup
  <2> QED BY <1>3, <2>1, OnlyIsTransitive DEF Killed
<1>12. /\ t \in AvahiState /\ OnlyGroup(v, t, g) /\ t.state[g] = "COLLISION"
       /\ t.timer[g] => v.timer[g] /\ v.state[g] # "REGISTERING"
       /\ t.n_probing = v.n_probing /\ t.ann = v.ann /\ t.live = v.live
  <2>1. t = Entered(v, g, "COLLISION") /\ "COLLISION" \in GroupState
    BY <1>1, <1>4, <1>5, <1>8, <1>20 DEF Cleared, GroupState
  <2> QED BY <1>9, <2>1, EnteredIs
<1>13. t.timer[g] = FALSE
  BY <1>2, <1>3, <1>10, <1>12 DEF Sound, Killed, AvahiState
<1>14. Emptied(t, g)
  BY <1>3, <1>10, <1>12 DEF Killed, Emptied
<1>15. \A p \in PairsOf(g) : t.ann[p] = NoAnnouncer
  BY <1>3, <1>10, <1>12 DEF Killed
<1>16. OnlyGroup(s, t, g)
  BY <1>11, <1>12, OnlyIsTransitive
<1>17. Cleared(s, g).state = s.state
  BY <1>1, <1>3, <1>4, <1>5, <1>8, <1>10, <1>20 DEF Cleared, Killed
<1> QED BY <1>6, <1>10, <1>12, <1>13, <1>14, <1>15, <1>16, <1>17, EmptyIsSound

LEMMA CollidedHost ==
  ASSUME NEW s, Whole(s), NEW a \in Address, a \in s.live, NEW u, Good(u), OnlyGroup(s, u, a), a \notin u.live,
         NEW t, t = Callback(u, a, "COLLISION")
  PROVE  Whole(t) /\ SameWorld(s, t)
<1>1. a # "svc" /\ SameWorld(s, u) /\ SameHost(s, u)
  BY Names DEF OnlyGroup
<1>2. Counts(u) /\ Publishes(u)
  BY <1>1 DEF Whole, Counts, SameHost, Exact, Wanted, Publishes
<1>3. \A b \in Address : WantedOnly(u, b)
  <2> SUFFICES ASSUME NEW b \in Address, b \in u.live PROVE Wanted(u, b)
    BY DEF WantedOnly
  <2>1. b \in s.live
    BY Names DEF OnlyGroup, SameGroup
  <2> QED BY <1>1, <2>1, WantedSame DEF Whole, Exact, SameHost, Publishes
<1>4. PICK w : w = WithdrawHost(u)
  OBVIOUS
<1>5. Withdrawn(u, w)
  BY <1>2, <1>3, <1>4, WithdrawHostIs
<1>6. t = SetSettled(w, "COLLISION")
  BY <1>1, <1>2, <1>4 DEF Callback, Publishes
<1>7. Turned(w, t, "COLLISION")
  <2>1. w.server # "COLLISION" /\ Good(w)
    BY <1>2, <1>5 DEF Withdrawn, Publishes, Elsewhere
  <2> QED BY <1>6, <2>1, TurnedIs
<1>8. Whole(t)
  BY <1>5, <1>7 DEF Turned, Withdrawn, Elsewhere, Whole, Counts
<1> QED BY <1>1, <1>5, <1>7, <1>8 DEF Turned, Withdrawn, Elsewhere, SameWorld

LEMMA CollidedService ==
  ASSUME NEW s, Whole(s), NEW u \in AvahiState, OnlyGroup(s, u, "svc"), Sound(u, "svc"), Driven(u, "svc"),
         NEW t, t = Callback(u, "svc", "COLLISION")
  PROVE  Whole(t) /\ SameWorld(s, t)
<1>1. PICK v : v = FreeGroup(u, "svc")
  OBVIOUS
<1>2. /\ v \in AvahiState /\ OnlyGroup(u, v, "svc") /\ Sound(v, "svc") /\ Driven(v, "svc")
  BY <1>1, Names, FreeIs
<1>3. OnlyGroup(s, v, "svc")
  BY <1>2, OnlyIsTransitive
<1>4. Whole(v) /\ SameWorld(s, v)
  BY <1>2, <1>3, ServiceStep
<1>5. t = [v EXCEPT !.published = FALSE]
  BY <1>1 DEF Callback
<1>6. Quietly(v, t) /\ SameWorld(v, t)
  <2>1. t \in AvahiState
    BY <1>2, <1>5 DEF AvahiState
  <2> QED BY <1>2, <1>5, <2>1 DEF AvahiState, Quietly, SameWorld, SameHost
<1> QED BY <1>4, <1>6, QuietlyIs DEF SameWorld

LEMMA WithdrawEntryIs ==
  ASSUME NEW s, Whole(s), NEW e \in Entry, NEW t, t = WithdrawEntry(s, e)
  PROVE  Whole(t) /\ SameWorld(s, t)
<1>1. CASE e \notin s.live
  BY <1>1 DEF WithdrawEntry, SameWorld
<1>2. CASE e \in s.live
  <2>1. PICK g : g = Of(e)
    OBVIOUS
  <2>2. g \in Group /\ e \in Entries(g) /\ s \in AvahiState /\ Sound(s, g)
    BY <2>1, Names DEF Whole, Good
  <2>3. s.state[g] # "COLLISION"
    BY <1>2, <2>2, Names DEF Sound, Committed
  <2>4. PICK u : u = Entered(Cleared(s, g), g, "COLLISION")
    OBVIOUS
  <2>5. u \in AvahiState /\ OnlyGroup(s, u, g) /\ Emptied(u, g) /\ Sound(u, g) /\ Driven(u, g)
    BY <2>2, <2>4, ClearedIs
  <2>6. t = Callback(u, g, "COLLISION")
    <3>1. t = ChangeState(Cleared(s, g), g, "COLLISION", Callback)
      BY <1>2, <2>1 DEF WithdrawEntry, Cleared
    <3>2. Cleared(s, g).state = s.state
      BY <2>2, <2>4, ClearedIs
    <3> QED BY <2>3, <2>4, <3>1, <3>2 DEF ChangeState
  <2>7. CASE g \in Address
    <3>1. g = e /\ e \notin u.live
      BY <2>2, <2>5, <2>7, Names DEF Emptied
    <3>2. Good(u)
      BY <2>2, <2>5, <3>1, GoodStep, GoodIsNearly DEF Whole
    <3> QED BY <1>2, <2>5, <2>6, <2>7, <3>1, <3>2, CollidedHost
  <2>8. CASE g = "svc"
    BY <2>5, <2>6, <2>8, CollidedService
  <2> QED BY <2>2, <2>7, <2>8 DEF Group
<1> QED BY <1>1, <1>2

-------------------------------------------------------------------------------
(* A whole name is withdrawn; an interface becomes relevant, or ceases to be. *)

LEMMA WithdrawRrsetIs ==
  ASSUME NEW s, Whole(s), NEW e \in Entry, NEW t, t = WithdrawRrset(s, e)
  PROVE  Whole(t) /\ SameWorld(s, t)
<1> DEFINE S == {v \in AvahiState : Whole(v)}
<1>1. PICK seq : seq = SetToSeq(SameKey(s, e))
  OBVIOUS
<1>2. PICK N \in Nat : N = Len(seq) /\ \A n \in 1 .. N : seq[n] \in Entry
  <2>1. SameKey(s, e) \subseteq Entry
    BY DEF SameKey, Whole, Good, AvahiState
  <2>2. IsFiniteSet(SameKey(s, e))
    BY <2>1, FinitePairs, FS_Subset
  <2>3. Len(seq) \in Nat /\ seq \in [1 .. Len(seq) -> SameKey(s, e)]
    BY <1>1, <2>2, ListIs
  <2> QED BY <2>1, <2>3
<1> DEFINE f[n \in 0 .. Len(seq)] == IF n = 0 THEN s ELSE WithdrawEntry(f[n-1], seq[n])
<1>3. t = f[Len(seq)]
  BY <1>1 DEF WithdrawRrset, Along
<1>4. \A v \in S, n \in 1 .. N : WithdrawEntry(v, seq[n]) \in S
  BY <1>2, WithdrawEntryIs DEF Whole, Good
<1>5. PICK h \in [0 .. N -> S] : h = [n \in 0 .. N |-> IF n = 0 THEN s ELSE WithdrawEntry(h[n-1], seq[n])]
  <2>1. PICK g : g = [n \in 1 .. N |-> [v \in S |-> WithdrawEntry(v, seq[n])]]
    OBVIOUS
  <2>2. g \in [1 .. N -> [S -> S]] /\ s \in S
    BY <1>4, <2>1 DEF Whole, Good
  <2> HIDE DEF S
  <2>3. PICK h \in [0 .. N -> S] : Runs(h, N, s, g)
    BY <2>2, Loops
  <2>4. ASSUME NEW n \in 0 .. N
        PROVE  h[n] = IF n = 0 THEN s ELSE WithdrawEntry(h[n-1], seq[n])
    <3>1. n # 0 => n \in 1 .. N /\ n - 1 \in 0 .. N /\ h[n-1] \in S
      BY <2>3
    <3> QED BY <2>1, <2>3, <3>1 DEF Runs
  <2> QED BY <2>3, <2>4
<1>6. f = [n \in 0 .. N |-> IF n = 0 THEN s ELSE WithdrawEntry(f[n-1], seq[n])]
  BY <1>2, <1>5
<1>7. t = f[N]
  BY <1>2, <1>3
<1> HIDE DEF f
<1>8. f[0] = s /\ \A n \in 1 .. N : f[n] = WithdrawEntry(f[n-1], seq[n])
  BY <1>6
<1>9. PICK Q : Q = [n \in 0 .. N |-> {v \in S : SameWorld(s, v)}]
  OBVIOUS
<1>10. f[0] \in Q[0]
  BY <1>8, <1>9 DEF Whole, Good, SameWorld
<1>11. ASSUME NEW n \in 1 .. N, f[n-1] \in Q[n-1] PROVE f[n] \in Q[n]
  <2>1. PICK v : v = f[n-1]
    OBVIOUS
  <2>2. v \in S /\ SameWorld(s, v)
    BY <1>9, <1>11, <2>1
  <2>3. f[n] \in S /\ SameWorld(v, f[n])
    BY <1>2, <1>4, <1>8, <2>1, <2>2, WithdrawEntryIs
  <2>4. Q[n] = {w \in S : SameWorld(s, w)}
    BY <1>9
  <2> HIDE DEF S
  <2> QED BY <2>2, <2>3, <2>4 DEF SameWorld
<1>12. f[N] \in Q[N]
  BY <1>10, <1>11, LoopEnds
<1> QED BY <1>7, <1>9, <1>12

\* The interfaces and the records stay, whatever is announced of them.
Relevance(s, t) ==
    /\ Good(t) /\ SameHost(s, t) /\ t.live = s.live /\ t.present = s.present
    /\ t.list_complete = s.list_complete /\ t.flags_ok = s.flags_ok
    /\ t.events = s.events /\ t.ver["srv"] = s.ver["srv"]

LEMMA RelevanceIsTransitive ==
  ASSUME NEW s, NEW t, NEW u, Relevance(s, t), Relevance(t, u)
  PROVE  Relevance(s, u)
BY DEF Relevance, SameHost

LEMMA RelevanceWanted ==
  ASSUME NEW s, NEW t, Relevance(s, t), NEW a \in Address
  PROVE  /\ Wanted(t, a) <=> Wanted(s, a)
         /\ (WantedOnly(t, a) <=> WantedOnly(s, a)) /\ (WantedAll(t, a) <=> WantedAll(s, a))
BY DEF Relevance, SameHost, Wanted, AddressRelevant, Relevant, WantedOnly, WantedAll

LEMMA AnnouncesIs ==
  ASSUME NEW s, Good(s), NEW i \in Iface, NEW joins \in BOOLEAN, NEW t, t = Announces(s, i, joins)
  PROVE  Relevance(s, t)
<1>1. CASE ~joins
  BY <1>1 DEF Announces, Relevance, SameHost
<1>2. CASE joins
  <2>1. PICK x : x = [s.announcing EXCEPT ![i] = TRUE]
    OBVIOUS
  <2>2. PICK u : u = [s EXCEPT !.announcing = x]
    OBVIOUS
  <2>3. PICK P : P = Entry \X {i}
    OBVIOUS
  <2>4. P \in SUBSET Pair /\ t = NewAnnouncers(u, P)
    BY <1>2, <2>1, <2>2, <2>3 DEF Announces, Pair
  <2>5. s \in AvahiState /\ x \in [Iface -> BOOLEAN] /\ \A j \in Iface : s.announcing[j] => x[j]
    BY <2>1 DEF Good, AvahiState
  <2>6. u \in AvahiState
    BY <2>2, <2>5 DEF AvahiState
  <2>7. /\ u.state = s.state /\ u.timer = s.timer /\ u.n_probing = s.n_probing /\ u.live = s.live
        /\ u.ann = s.ann /\ SameHost(s, u) /\ u.present = s.present
        /\ u.list_complete = s.list_complete /\ u.flags_ok = s.flags_ok
        /\ u.events = s.events /\ u.ver["srv"] = s.ver["srv"] /\ u.announcing = x
    BY <2>2, <2>5 DEF AvahiState, SameHost
  <2>8. ASSUME NEW g \in Group PROVE Sound(u, g) /\ Driven(u, g)
    <3>1. Sound(s, g) /\ Driven(s, g)
      BY DEF Good
    <3>2. Founded(u, g)
      BY <2>5, <2>7, <3>1, Names DEF Sound, Founded
    <3>3. ServedLate(u, g) /\ Bounded(u, g) /\ Covered(u, g)
      BY <2>7, <3>1 DEF Sound, ServedLate, Bounded, Covered, Probes
    <3>4. \A e \in Entries(g) : Committed(u, e) <=> Committed(s, e)
      BY <2>7 DEF Committed
    <3> QED BY <2>7, <3>1, <3>2, <3>3, <3>4 DEF Sound, Driven
  <2>9. /\ t \in AvahiState /\ SameWorld(u, t) /\ SameHost(u, t) /\ t.live = u.live
        /\ \A g \in Group : Sound(t, g) /\ Driven(t, g)
    BY <2>4, <2>6, <2>8, NewKeeps
  <2>10. Good(t)
    BY <2>7, <2>9 DEF Good, SameWorld
  <2> QED BY <2>7, <2>9, <2>10 DEF Relevance, SameWorld, SameHost
<1> QED BY <1>1, <1>2

LEMMA LeavesIs ==
  ASSUME NEW s, Good(s), NEW i \in Iface, NEW t, t = Leaves(s, i)
  PROVE  Relevance(s, t)
<1>1. PICK P : P = Entry \X {i}
  OBVIOUS
<1>2. PICK u : u = RemoveAnnouncers(s, P)
  OBVIOUS
<1>3. P \in SUBSET Pair /\ s \in AvahiState /\ \A e \in Entry : <<e, i>> \in P
  BY <1>1 DEF Pair, Good
<1>4. /\ u \in AvahiState /\ \A p \in Pair : u.ann[p] = IF p \in P THEN NoAnnouncer ELSE s.ann[p]
      /\ \E ann : u = [s EXCEPT !.ann = ann]
      /\ \A g \in Group : Sound(u, g) /\ Driven(u, g)
  BY <1>2, <1>3, RemoveKeeps DEF Good
<1>5. PICK x : x = [u.announcing EXCEPT ![i] = FALSE]
  OBVIOUS
<1>6. PICK heard : heard = [u.heard EXCEPT ![i] = {}]
  OBVIOUS
<1>20. PICK stale : stale = [u.stale EXCEPT ![i] = {}]
  OBVIOUS
<1>7. /\ x \in [Iface -> BOOLEAN] /\ \A j \in Iface : j # i => x[j] = u.announcing[j]
      /\ heard \in [Iface -> SUBSET (Entry \X Version)] /\ stale \in [Iface -> SUBSET (Entry \X Version)]
  BY <1>4, <1>5, <1>6, <1>20 DEF AvahiState
<1>8. t = [u EXCEPT !.announcing = x, !.heard = heard, !.stale = stale]
  BY <1>1, <1>2, <1>5, <1>6, <1>20 DEF Leaves
<1>9. t \in AvahiState
  <2>1. t = WithLink(u, x, heard, stale)
    BY <1>8 DEF WithLink
  <2> QED BY <1>4, <1>7, <2>1, LinkSet
<1>10. /\ t.state = u.state /\ t.timer = u.timer /\ t.n_probing = u.n_probing /\ t.live = u.live
       /\ t.ann = u.ann /\ SameHost(u, t) /\ t.present = u.present
       /\ t.list_complete = u.list_complete /\ t.flags_ok = u.flags_ok
       /\ t.events = u.events /\ t.ver = u.ver /\ t.announcing = x
  BY <1>4, <1>8 DEF AvahiState, SameHost
<1>11. /\ u.live = s.live /\ SameHost(s, u) /\ u.present = s.present
       /\ u.list_complete = s.list_complete /\ u.flags_ok = s.flags_ok
       /\ u.events = s.events /\ u.ver = s.ver
  <2>1. PICK ann : u = [s EXCEPT !.ann = ann]
    BY <1>4
  <2> QED BY <1>3, <2>1 DEF AvahiState, SameHost
<1>12. ASSUME NEW g \in Group PROVE Sound(t, g) /\ Driven(t, g)
  <2>1. Sound(u, g) /\ Driven(u, g)
    BY <1>4
  <2>2. ASSUME NEW p \in PairsOf(g), t.ann[p] # NoAnnouncer PROVE t.announcing[p[2]]
    <3>1. p \in Pair /\ p[1] \in Entry /\ p[2] \in Iface /\ p = <<p[1], p[2]>>
      BY Names
    <3>2. p[2] # i
      BY <1>3, <1>4, <1>10, <2>2, <3>1
    <3> QED BY <1>7, <1>10, <2>1, <2>2, <3>1, <3>2 DEF Sound, Founded
  <2>3. Founded(t, g)
    BY <1>10, <2>1, <2>2 DEF Sound, Founded
  <2>4. ServedLate(t, g) /\ Bounded(t, g) /\ Covered(t, g)
    BY <1>10, <2>1 DEF Sound, ServedLate, Bounded, Covered, Probes
  <2>5. \A e \in Entries(g) : Committed(t, e) <=> Committed(u, e)
    BY <1>10 DEF Committed
  <2> QED BY <1>10, <2>1, <2>3, <2>4, <2>5 DEF Sound, Driven
<1>13. Good(t)
  BY <1>9, <1>10, <1>11, <1>12 DEF Good
<1> QED BY <1>10, <1>11, <1>13 DEF Relevance, SameHost

LEMMA CheckRelevantIs ==
  ASSUME NEW s, Good(s), NEW i \in Iface, NEW joins \in BOOLEAN, NEW t, t = CheckRelevant(s, i, joins)
  PROVE  Relevance(s, t)
BY AnnouncesIs, LeavesIs DEF CheckRelevant, Relevance, SameHost

-------------------------------------------------------------------------------
(* Entries that return to their initial state, or are announced anew.         *)

(* One announcer starts over. *)
LEMMA CountedNone ==
  ASSUME NEW s \in AvahiState, NEW P, P = {}
  PROVE  Counted(s, P, -1) = s.n_probing
<1>1. \A g \in Group : {p \in P : Of(p[1]) = g} = {}
  OBVIOUS
<1>2. P \in SUBSET Pair /\ -1 \in {1, -1}
  OBVIOUS
<1>3. \A g \in Group : Counted(s, P, -1)[g] = s.n_probing[g]
  <2> TAKE g \in Group
  <2>1. Counted(s, P, -1)[g] = s.n_probing[g] + (-1) * Cardinality({p \in P : Of(p[1]) = g})
    BY <1>2, CountedIs
  <2>2. Cardinality({p \in P : Of(p[1]) = g}) = 0
    BY <1>1, FS_EmptySet
  <2>3. s.n_probing[g] \in Int
    BY DEF AvahiState
  <2> QED BY <2>1, <2>2, <2>3
<1>4. Counted(s, P, -1) \in [Group -> Int] /\ s.n_probing \in [Group -> Int]
  BY <1>2, CountedIs DEF AvahiState
<1> QED BY <1>3, <1>4

LEMMA ReturnIs ==
  ASSUME NEW s, Whole(s), NEW p \in Pair, s.ann[p].st # "PROBING", NEW t, t = ReturnToInitial(s, p)
  PROVE  Whole(t) /\ SameWorld(s, t)
<1>1. CASE s.ann[p] = NoAnnouncer
  BY <1>1 DEF ReturnToInitial, SameWorld
<1>2. CASE s.ann[p] # NoAnnouncer
  <2>1. PICK g : g = Of(p[1])
    OBVIOUS
  <2>2. g \in Group /\ p \in PairsOf(g) /\ s \in AvahiState /\ Sound(s, g) /\ Driven(s, g)
    BY <2>1, Names DEF PairsOf, Whole, Good
  <2>3. PICK u : u = [s EXCEPT !.n_probing = Counted(s, {q \in {p} : s.ann[q].st = "PROBING"}, -1)]
    OBVIOUS
  <2>4. u = s
    <3>1. {q \in {p} : s.ann[q].st = "PROBING"} = {}
      OBVIOUS
    <3>2. u = [s EXCEPT !.n_probing = s.n_probing]
      BY <2>2, <2>3, <3>1, CountedNone
    <3> QED BY <2>2, <3>2 DEF AvahiState
  <2>5. PICK more : more = {q \in {p} : IsUnique(q[1])}
    OBVIOUS
  <2>6. PICK n : n = Counted(s, more, 1)
    OBVIOUS
  <2>7. PICK ann : ann = [s.ann EXCEPT ![p] = Initial(s, p[1])]
    OBVIOUS
  <2>8. t = [s EXCEPT !.ann = ann, !.n_probing = n]
    BY <1>2, <2>3, <2>4, <2>5, <2>6, <2>7 DEF ReturnToInitial
  <2>9. /\ ann \in [Pair -> AnnType]
        /\ \A q \in Pair : ann[q] = IF q = p THEN Initial(s, p[1]) ELSE s.ann[q]
    BY <2>2, <2>7, InitialIs DEF AvahiState, AnnType
  <2>10. /\ n \in [Group -> Int]
         /\ \A h \in Group : n[h] = s.n_probing[h] + 1 * Cardinality({q \in more : Of(q[1]) = h})
    <3>1. more \in SUBSET Pair /\ 1 \in {1, -1}
      BY <2>5
    <3> QED BY <2>2, <2>6, <3>1, CountedIs
  <2>11. t \in AvahiState /\ t.ann = ann /\ t.n_probing = n
    <3>1. t = WithAnnouncers(s, ann, n)
      BY <2>8 DEF WithAnnouncers
    <3> QED BY <2>2, <2>9, <2>10, <3>1, AnnouncersSet
  <2>12. /\ t.state = s.state /\ t.timer = s.timer /\ t.live = s.live /\ t.announcing = s.announcing
         /\ SameWorld(s, t) /\ SameHost(s, t)
    BY <2>2, <2>8 DEF AvahiState, SameWorld, SameHost
  <2>13. \A h \in Group : s.n_probing[h] \in Int
    BY <2>2 DEF AvahiState
  <2>14. Sound(t, g) /\ Driven(t, g)
    <3>1. PICK new : new = {p}
      OBVIOUS
    <3>2. new \in SUBSET PairsOf(g) /\ more = {q \in new : IsUnique(q[1])}
      BY <2>2, <2>5, <3>1
    <3>3. \A q \in PairsOf(g) : t.ann[q] = IF q \in new THEN Initial(s, q[1]) ELSE s.ann[q]
      BY <2>9, <2>11, <3>1 DEF PairsOf
    <3>4. \A q \in new : s.ann[q].st # "PROBING" /\ q[1] \in s.live /\ Match(q) /\ s.announcing[q[2]]
      BY <1>2, <2>2, <3>1 DEF Sound, Founded
    <3>5. t.n_probing[g] = s.n_probing[g] + Cardinality({q \in new : IsUnique(q[1])})
      <4>1. {q \in more : Of(q[1]) = g} = {q \in new : IsUnique(q[1])}
        BY <2>1, <2>5, <3>1
      <4>2. Cardinality({q \in new : IsUnique(q[1])}) \in Nat
        <5>1. {q \in new : IsUnique(q[1])} \in SUBSET Pair
          BY <3>2 DEF PairsOf
        <5> QED BY <5>1, SubsetCounts
      <4> QED BY <2>2, <2>10, <2>11, <2>13, <4>1, <4>2
    <3> QED BY <2>2, <2>11, <2>12, <3>2, <3>3, <3>4, <3>5, JoinKeeps
  <2>15. ASSUME NEW h \in Group, h # g PROVE SameGroup(s, t, h)
    <3>1. {q \in more : Of(q[1]) = h} = {}
      BY <2>1, <2>5, <2>15
    <3>2. t.n_probing[h] = s.n_probing[h]
      BY <2>10, <2>11, <2>13, <3>1, FS_EmptySet
    <3>3. \A q \in PairsOf(h) : q \in Pair /\ q # p
      BY <2>1, <2>15 DEF PairsOf
    <3> QED BY <2>9, <2>11, <2>12, <3>2, <3>3 DEF SameGroup
  <2>16. OnlyGroup(s, t, g) /\ SameAddresses(s, t)
    BY <2>12, <2>15 DEF OnlyGroup, SameAddresses
  <2> QED BY <2>2, <2>11, <2>14, <2>16, GroupStep
<1> QED BY <1>1, <1>2

(* A record is announced again, and probed for again where it was not done. *)
LEMMA ReannouncedIs ==
  ASSUME NEW s, NEW g \in Group, NEW p \in PairsOf(g), s \in AvahiState, Sound(s, g)
  PROVE  /\ Reannounced(s, p) \in AnnType
         /\ Reannounced(s, p) = NoAnnouncer <=> s.ann[p] = NoAnnouncer
         /\ s.ann[p].st = "PROBING" => Reannounced(s, p).st = "PROBING"
         /\ Reannounced(s, p).n <= Iterations
         /\ Reannounced(s, p).st = "ANNOUNCING" => Reannounced(s, p).n < Iterations
         /\ IsUnique(p[1]) /\ Reannounced(s, p).st \in {"ANNOUNCING", "ESTABLISHED"} => s.state[g] = "ESTABLISHED"
<1>1. PICK a : a = s.ann[p]
  OBVIOUS
<1>2. p \in Pair /\ Of(p[1]) = g /\ a \in AnnType /\ a.n <= Iterations
      /\ (a.st = "ANNOUNCING" => a.n < Iterations)
      /\ (IsUnique(p[1]) /\ a.st \in {"ANNOUNCING", "ESTABLISHED"} => s.state[g] = "ESTABLISHED")
  BY <1>1, AnnIs DEF PairsOf, Sound, Bounded, ServedLate
<1>3. PICK r : r = Reannounced(s, p)
  OBVIOUS
<1>4. CASE a = NoAnnouncer \/ s.state[g] \in {"UNCOMMITED", "COLLISION"}
  <2>1. r = a
    BY <1>1, <1>2, <1>3, <1>4 DEF Reannounced
  <2> QED BY <1>1, <1>2, <1>3, <2>1
<1>5. CASE ~(a = NoAnnouncer \/ s.state[g] \in {"UNCOMMITED", "COLLISION"})
  <2>1. PICK st : st = IF Probing(s, p) THEN "PROBING" ELSE IF a.st = "WAITING" THEN "WAITING" ELSE "ANNOUNCING"
    OBVIOUS
  <2>2. r = [st |-> st, n |-> 1]
    BY <1>1, <1>2, <1>3, <1>5, <2>1 DEF Reannounced
  <2>3. st \in AnnouncerState \ {"none"}
    BY <2>1 DEF AnnouncerState
  <2>4. r \in AnnType /\ r # NoAnnouncer /\ r.st = st /\ r.n = 1
    BY <2>2, <2>3, AnnIs
  <2>5. a.st = "PROBING" => st = "PROBING"
    BY <1>1, <2>1 DEF Probing
  <2>6. st # "ESTABLISHED" /\ (st = "ANNOUNCING" => a.st \in {"ANNOUNCING", "ESTABLISHED"})
    BY <1>1, <1>2, <1>5, <2>1, AnnIs DEF Probing, AnnouncerState
  <2> QED BY <1>1, <1>2, <1>3, <1>5, <2>4, <2>5, <2>6, AvahiAssumption
<1> QED BY <1>4, <1>5

LEMMA ReannounceIs ==
  ASSUME NEW s, Whole(s), NEW e \in Entry, NEW t, t = Reannounce(s, e)
  PROVE  Whole(t) /\ SameWorld(s, t)
<1>1. PICK g : g = Of(e)
  OBVIOUS
<1>2. g \in Group /\ s \in AvahiState /\ Sound(s, g) /\ Driven(s, g)
  BY <1>1, Names DEF Whole, Good
<1>3. PICK P : P = {p \in {e} \X Iface : Match(p)}
  OBVIOUS
<1>4. P \in SUBSET PairsOf(g)
  BY <1>1, <1>3, Names DEF PairsOf
<1>5. PICK was : was = {p \in P : s.ann[p].st = "PROBING"}
  OBVIOUS
<1>6. PICK is : is = {p \in P : Reannounced(s, p).st = "PROBING"}
  OBVIOUS
<1>7. was \in SUBSET Pair /\ is \in SUBSET Pair /\ was \subseteq is /\ P \in SUBSET Pair
  BY <1>2, <1>4, <1>5, <1>6, ReannouncedIs, Names
<1>8. PICK m : m = Counted(s, was, -1)
  OBVIOUS
<1>9. PICK u : u = [s EXCEPT !.n_probing = m]
  OBVIOUS
<1>10. PICK n : n = Counted(u, is, 1)
  OBVIOUS
<1>11. PICK ann : ann = [p \in Pair |-> IF p \in P THEN Reannounced(s, p) ELSE s.ann[p]]
  OBVIOUS
<1>12. t = [s EXCEPT !.ann = ann, !.n_probing = n]
  BY <1>3, <1>5, <1>6, <1>8, <1>9, <1>10, <1>11 DEF Reannounce
<1>13. /\ m \in [Group -> Int]
       /\ \A h \in Group : /\ Cardinality({p \in was : Of(p[1]) = h}) \in Nat
                           /\ m[h] = s.n_probing[h] + (-1) * Cardinality({p \in was : Of(p[1]) = h})
  <2>1. -1 \in {1, -1}
    OBVIOUS
  <2> QED BY <1>2, <1>7, <1>8, <2>1, CountedIs
<1>14. u \in AvahiState /\ u.n_probing = m
  <2>1. u = WithCount(s, m)
    BY <1>9 DEF WithCount
  <2> QED BY <1>2, <1>13, <2>1, CountSet
<1>15. /\ n \in [Group -> Int]
       /\ \A h \in Group : /\ Cardinality({p \in is : Of(p[1]) = h}) \in Nat
                           /\ n[h] = m[h] + 1 * Cardinality({p \in is : Of(p[1]) = h})
  <2>1. 1 \in {1, -1}
    OBVIOUS
  <2> QED BY <1>7, <1>10, <1>14, <2>1, CountedIs
<1>16. ann \in [Pair -> AnnType]
  BY <1>2, <1>4, <1>11, ReannouncedIs, AnnIs
<1>17. t \in AvahiState /\ t.ann = ann /\ t.n_probing = n
  <2>1. t = WithAnnouncers(s, ann, n)
    BY <1>12 DEF WithAnnouncers
  <2> QED BY <1>2, <1>15, <1>16, <2>1, AnnouncersSet
<1>18. /\ t.state = s.state /\ t.timer = s.timer /\ t.live = s.live /\ t.announcing = s.announcing
       /\ SameWorld(s, t) /\ SameHost(s, t)
  BY <1>2, <1>12 DEF AvahiState, SameWorld, SameHost
<1>19. \A h \in Group : s.n_probing[h] \in Int
  BY <1>2 DEF AvahiState
<1>20. {p \in was : Of(p[1]) = g} = was /\ {p \in is : Of(p[1]) = g} = is
  BY <1>4, <1>5, <1>6 DEF PairsOf
<1>21. /\ Cardinality(was) \in Nat /\ Cardinality(is) \in Nat /\ IsFiniteSet(is)
       /\ t.n_probing[g] = s.n_probing[g] - Cardinality(was) + Cardinality(is)
       /\ Cardinality(was) <= Cardinality(is)
  <2>1. Cardinality(was) \in Nat /\ Cardinality(is) \in Nat /\ IsFiniteSet(is)
    BY <1>7, SubsetCounts
  <2>2. Cardinality(was) <= Cardinality(is)
    BY <1>7, <2>1, FS_Subset
  <2> QED BY <1>2, <1>13, <1>15, <1>17, <1>19, <1>20, <2>1, <2>2
<1>22. \A p \in PairsOf(g) : t.ann[p] = IF p \in P THEN Reannounced(s, p) ELSE s.ann[p]
  BY <1>11, <1>17 DEF PairsOf
<1>23. Probes(t, g) = Probes(s, g) \cup is /\ Probes(s, g) \cap is = was
  <2>1. \A p \in P : p \in Probes(s, g) <=> p \in was
    BY <1>4, <1>5 DEF Probes
  <2>2. \A p \in PairsOf(g) \ P : p \in Probes(t, g) <=> p \in Probes(s, g)
    BY <1>22 DEF Probes
  <2>3. \A p \in P : p \in Probes(t, g) <=> p \in is
    BY <1>4, <1>6, <1>22 DEF Probes
  <2>4. Probes(s, g) \subseteq PairsOf(g) /\ Probes(t, g) \subseteq PairsOf(g)
    BY DEF Probes
  <2> QED BY <1>4, <1>5, <1>6, <1>7, <2>1, <2>2, <2>3, <2>4
<1>24. Covered(t, g)
  <2>1. Probes(s, g) \in SUBSET Pair
    BY DEF Probes, PairsOf
  <2>2. IsFiniteSet(Probes(s, g)) /\ Cardinality(Probes(s, g)) \in Nat
    BY <2>1, SubsetCounts
  <2>3. Cardinality(Probes(s, g) \cup is)
          = Cardinality(Probes(s, g)) + Cardinality(is) - Cardinality(Probes(s, g) \cap is)
    BY <1>21, <2>2, FS_Union
  <2>4. s.n_probing[g] >= Cardinality(Probes(s, g)) /\ s.n_probing[g] \in Int
    BY <1>2, <1>19 DEF Sound, Covered
  <2>5. Cardinality(Probes(t, g)) = Cardinality(Probes(s, g)) + Cardinality(is) - Cardinality(was)
    BY <1>23, <2>3
  <2> QED BY <1>21, <2>2, <2>4, <2>5 DEF Covered
<1>25. Driven(t, g)
  BY <1>2, <1>18, <1>19, <1>21 DEF Driven
<1>26. Founded(t, g)
  BY <1>2, <1>18, <1>22, ReannouncedIs DEF Sound, Founded
<1>27. ServedLate(t, g)
  BY <1>2, <1>18, <1>22, ReannouncedIs DEF Sound, ServedLate
<1>28. Bounded(t, g)
  BY <1>2, <1>18, <1>22, ReannouncedIs DEF Sound, Bounded
<1>29. \A f \in Entries(g) : Committed(t, f) <=> Committed(s, f)
  BY <1>18 DEF Committed
<1>30. Sound(t, g)
  BY <1>2, <1>18, <1>24, <1>26, <1>27, <1>28, <1>29 DEF Sound
<1>31. ASSUME NEW h \in Group, h # g PROVE SameGroup(s, t, h)
  <2>1. {p \in was : Of(p[1]) = h} = {} /\ {p \in is : Of(p[1]) = h} = {}
    BY <1>4, <1>5, <1>6, <1>31 DEF PairsOf
  <2>2. t.n_probing[h] = s.n_probing[h]
    BY <1>13, <1>15, <1>17, <1>19, <2>1, FS_EmptySet
  <2>3. \A p \in PairsOf(h) : p \in Pair /\ p \notin P
    BY <1>4, <1>31 DEF PairsOf
  <2> QED BY <1>11, <1>17, <1>18, <2>2, <2>3 DEF SameGroup
<1>32. OnlyGroup(s, t, g) /\ SameAddresses(s, t)
  BY <1>18, <1>31 DEF OnlyGroup, SameAddresses
<1> QED BY <1>2, <1>17, <1>25, <1>30, <1>32, GroupStep

-------------------------------------------------------------------------------
(* Addresses that go.                                                         *)

(* Addresses of one interface come and go; those of the others stay as they were. *)
Beyond(s, t, i) ==
    /\ Good(t) /\ Counts(t) /\ SameGroup(s, t, "svc")
    /\ t.list_complete = s.list_complete /\ t.flags_ok = s.flags_ok
    /\ t.announcing = s.announcing /\ t.events = s.events /\ t.ver["srv"] = s.ver["srv"]
    /\ \A b \in Address : On[b] # i =>
          (WantedOnly(s, b) => WantedOnly(t, b)) /\ (WantedAll(s, b) => WantedAll(t, b))
    /\ t.present \subseteq s.present

LEMMA BeyondIsTransitive ==
  ASSUME NEW i, NEW s, NEW t, NEW u, Beyond(s, t, i), Beyond(t, u, i)
  PROVE  Beyond(s, u, i)
<1>1. SameGroup(s, u, "svc")
  BY SameIsTransitive DEF Beyond
<1> QED BY <1>1 DEF Beyond

LEMMA ReviewedBeyond ==
  ASSUME NEW i, NEW A, \A b \in Address : b \in A => On[b] = i,
         NEW s, Counts(s), NEW t, Reviewed(s, t, A)
  PROVE  Beyond(s, t, i)
BY DEF Reviewed, Elsewhere, SameWorld, Beyond

LEMMA FreeAddressIs ==
  ASSUME NEW s, Good(s), Counts(s), NEW a \in Address, NEW t, t = FreeAddress(s, a)
  PROVE  Beyond(s, t, On[a]) /\ a \notin t.present
<1>1. PICK v : v = TakeHost(s, a)
  OBVIOUS
<1>2. Updated(s, v, a) /\ a \notin v.live
  BY <1>1, TakeHostIs
<1>3. PICK present : present = v.present \ {a}
  OBVIOUS
<1>4. PICK w : w = [v EXCEPT !.present = present]
  OBVIOUS
<1>5. t = FreeGroup(w, a)
  BY <1>1, <1>3, <1>4 DEF FreeAddress, TakeHost
<1>6. Good(v) /\ v \in AvahiState /\ present \subseteq Address
  BY <1>2, <1>3 DEF Updated, Elsewhere, Good, AvahiState
<1>7. w \in AvahiState
  BY <1>4, <1>6 DEF AvahiState
<1>8. /\ w.state = v.state /\ w.timer = v.timer /\ w.n_probing = v.n_probing /\ w.live = v.live
      /\ w.ann = v.ann /\ SameHost(v, w) /\ w.present = present
      /\ w.list_complete = v.list_complete /\ w.flags_ok = v.flags_ok
      /\ w.announcing = v.announcing /\ w.events = v.events /\ w.ver = v.ver
  BY <1>4, <1>6 DEF AvahiState, SameHost
<1>9. \A g \in Group : SameGroup(v, w, g)
  BY <1>8 DEF SameGroup
<1>10. Good(w)
  BY <1>2, <1>3, <1>6, <1>7, <1>8, <1>9, SameKeeps DEF Good
<1>11. ASSUME NEW b \in Address, On[b] # On[a]
       PROVE  (Wanted(w, b) <=> Wanted(v, b)) /\ (b \in w.live <=> b \in v.live)
  <2>1. (b \in w.present <=> b \in v.present) /\ (Relevant(w, On[b]) <=> Relevant(v, On[b]))
    BY <1>3, <1>8, <1>11 DEF Relevant
  <2>2. AddressRelevant(w, b) <=> AddressRelevant(v, b)
    BY <1>3, <1>8, <1>11 DEF AddressRelevant
  <2> QED BY <1>8, <2>1, <2>2 DEF Wanted, SameHost
<1>12. a \in Group /\ Sound(w, a) /\ "svc" \in Group /\ a # "svc" /\ Entries(a) = {a}
  BY <1>10, Names DEF Good
<1>13. t \in AvahiState /\ OnlyGroup(w, t, a) /\ Emptied(t, a) /\ Sound(t, a) /\ Driven(t, a)
  BY <1>5, <1>7, <1>12, FreeIs
<1>14. a \notin t.live /\ SameWorld(w, t) /\ SameHost(w, t) /\ SameGroup(w, t, "svc")
  BY <1>12, <1>13 DEF Emptied, OnlyGroup
<1>15. Good(t)
  BY <1>10, <1>12, <1>13, <1>14, GoodStep, GoodIsNearly
<1>16. ASSUME NEW b \in Address, On[b] # On[a]
       PROVE  (Wanted(t, b) <=> Wanted(w, b)) /\ (b \in t.live <=> b \in w.live)
  <2>1. b # a /\ b \in Group /\ b \in Entries(b)
    BY <1>16, Names
  <2>2. SameGroup(w, t, b)
    BY <1>13, <2>1 DEF OnlyGroup
  <2> QED BY <1>14, <2>1, <2>2, WantedSame DEF SameGroup, SameHost, Publishes
<1>17. \A b \in Address : On[b] # On[a] =>
          (WantedOnly(s, b) => WantedOnly(t, b)) /\ (WantedAll(s, b) => WantedAll(t, b))
  <2> TAKE b \in Address
  <2>1. CASE On[b] = On[a]
    BY <2>1
  <2>2. CASE On[b] # On[a]
    <3>1. (WantedOnly(s, b) => WantedOnly(v, b)) /\ (WantedAll(s, b) => WantedAll(v, b))
      BY <1>2, <2>2 DEF Updated
    <3> QED BY <1>11, <1>16, <2>2, <3>1 DEF WantedOnly, WantedAll
  <2> QED BY <2>1, <2>2
<1>18. Counts(t)
  BY <1>2, <1>8, <1>14 DEF Updated, Counts, SameHost
<1>19. SameGroup(s, t, "svc")
  <2>1. SameGroup(s, v, "svc") /\ SameGroup(v, w, "svc")
    BY <1>2, <1>9, <1>12 DEF Updated, Elsewhere
  <2> QED BY <1>14, <2>1, SameIsTransitive
<1>20. /\ t.list_complete = s.list_complete /\ t.flags_ok = s.flags_ok
       /\ t.announcing = s.announcing /\ t.events = s.events /\ t.ver["srv"] = s.ver["srv"]
       /\ t.present \subseteq s.present /\ a \notin t.present
  BY <1>2, <1>3, <1>8, <1>14 DEF Updated, Elsewhere, SameWorld
<1> QED BY <1>15, <1>17, <1>18, <1>19, <1>20 DEF Beyond

FreeOne(s, a, mine) == IF a \in mine THEN FreeAddress(s, a) ELSE s

LEMMA BeyondKeeps ==
  ASSUME NEW s, Good(s), Counts(s), NEW i
  PROVE  Beyond(s, s, i)
BY DEF Beyond, SameGroup

LEMMA FreeOneIs ==
  ASSUME NEW s, Good(s), Counts(s), NEW i, NEW mine, \A b \in mine : On[b] = i,
         NEW a \in Address, NEW t, t = FreeOne(s, a, mine)
  PROVE  Beyond(s, t, i) /\ (a \in mine => a \notin t.present)
BY FreeAddressIs, BeyondKeeps DEF FreeOne

LEMMA FreeTheseIs ==
  ASSUME NEW s, Good(s), Counts(s), NEW i, NEW mine, \A b \in mine : On[b] = i,
         NEW t, t = FreeAddresses(s, mine)
  PROVE  Beyond(s, t, i) /\ \A a \in Address : a \in mine => a \notin t.present
<1> DEFINE S == {v \in AvahiState : Good(v) /\ Counts(v)}
           f[n \in 0 .. Len(Addresses)] == IF n = 0 THEN s ELSE FreeOne(f[n-1], Addresses[n], mine)
<1>1. t = f[Len(Addresses)]
  BY DEF FreeAddresses, Along, FreeOne
<1>2. PICK N \in Nat : N = Len(Addresses)
  BY AvahiAssumption
<1>3. t = f[N] /\ \A n \in 1 .. N : Addresses[n] \in Address
  BY <1>1, <1>2, AvahiAssumption
<1>4. \A v \in S, n \in 1 .. N : FreeOne(v, Addresses[n], mine) \in S
  <2> TAKE v \in S, n \in 1 .. N
  <2>1. PICK u : u = FreeOne(v, Addresses[n], mine)
    OBVIOUS
  <2>2. Beyond(v, u, i)
    BY <1>3, <2>1, FreeOneIs
  <2> QED BY <2>1, <2>2 DEF Beyond, Good
<1>5. PICK h \in [0 .. N -> S] : h = [n \in 0 .. N |-> IF n = 0 THEN s ELSE FreeOne(h[n-1], Addresses[n], mine)]
  <2>1. PICK g : g = [n \in 1 .. N |-> [v \in S |-> FreeOne(v, Addresses[n], mine)]]
    OBVIOUS
  <2>2. g \in [1 .. N -> [S -> S]] /\ s \in S
    BY <1>4, <2>1 DEF Good
  <2> HIDE DEF S
  <2>3. PICK h \in [0 .. N -> S] : Runs(h, N, s, g)
    BY <2>2, Loops
  <2>4. ASSUME NEW n \in 0 .. N
        PROVE  h[n] = IF n = 0 THEN s ELSE FreeOne(h[n-1], Addresses[n], mine)
    <3>1. n # 0 => n \in 1 .. N /\ n - 1 \in 0 .. N /\ h[n-1] \in S
      BY <2>3
    <3> QED BY <2>1, <2>3, <3>1 DEF Runs
  <2> QED BY <2>3, <2>4
<1>6. f = [n \in 0 .. N |-> IF n = 0 THEN s ELSE FreeOne(f[n-1], Addresses[n], mine)]
  BY <1>2, <1>5
<1> HIDE DEF f
<1>7. f[0] = s /\ \A n \in 1 .. N : f[n] = FreeOne(f[n-1], Addresses[n], mine)
  BY <1>6
<1>8. PICK Q : Q = [n \in 0 .. N |-> {v \in S : Beyond(s, v, i) /\ \A k \in 1 .. n :
                        Addresses[k] \in mine => Addresses[k] \notin v.present}]
  OBVIOUS
<1>9. f[0] \in Q[0]
  <2>1. s \in S /\ Beyond(s, s, i)
    BY BeyondKeeps DEF Good
  <2> QED BY <1>7, <1>8, <2>1
<1>10. ASSUME NEW n \in 1 .. N, f[n-1] \in Q[n-1] PROVE f[n] \in Q[n]
  <2>1. PICK v : v = f[n-1]
    OBVIOUS
  <2>2. PICK u : u = f[n]
    OBVIOUS
  <2>3. /\ v \in S /\ Beyond(s, v, i)
        /\ \A k \in 1 .. n - 1 : Addresses[k] \in mine => Addresses[k] \notin v.present
    BY <1>8, <1>10, <2>1
  <2>4. u = FreeOne(v, Addresses[n], mine) /\ Addresses[n] \in Address /\ u \in S
    BY <1>3, <1>4, <1>7, <2>1, <2>2, <2>3
  <2>5. Beyond(v, u, i) /\ (Addresses[n] \in mine => Addresses[n] \notin u.present)
    BY <2>3, <2>4, FreeOneIs
  <2>6. Beyond(s, u, i)
    BY <2>3, <2>5, BeyondIsTransitive
  <2>7. \A k \in 1 .. n : Addresses[k] \in mine => Addresses[k] \notin u.present
    BY <2>3, <2>5 DEF Beyond
  <2>8. Q[n] = {w \in S : Beyond(s, w, i) /\ \A k \in 1 .. n :
                        Addresses[k] \in mine => Addresses[k] \notin w.present}
    BY <1>8
  <2> HIDE DEF S
  <2> QED BY <2>2, <2>4, <2>6, <2>7, <2>8
<1>11. f[N] \in Q[N]
  BY <1>9, <1>10, LoopEnds
<1>12. Beyond(s, t, i) /\ \A k \in 1 .. N : Addresses[k] \in mine => Addresses[k] \notin t.present
  BY <1>3, <1>8, <1>11
<1>13. \A a \in Address : \E k \in 1 .. N : Addresses[k] = a
  BY <1>2, AvahiAssumption DEF Address, Range
<1> QED BY <1>12, <1>13

-------------------------------------------------------------------------------
(* The events: the record is upright after each.                              *)

\* The invariant: of the state of the server, and of the application's data.
Upright(s) == Whole(s) /\ s.ver["srv"] \in 0 .. s.events

LEMMA UprightSame ==
  ASSUME NEW s, Upright(s), NEW t, Whole(t), SameWorld(s, t)
  PROVE  Upright(t)
BY DEF Upright, SameWorld

SameRest(s, t) == Quietly(s, t) /\ t.ver = s.ver /\ t.published = s.published /\ t.hostName = s.hostName

LEMMA ToldIs ==
  ASSUME NEW s, Upright(s), NEW t, t = [s EXCEPT !.told = <<>>]
  PROVE  Upright(t) /\ SameRest(s, t) /\ t.events = s.events
<1>1. s \in AvahiState /\ <<>> \in Seq(ServerState)
  BY DEF Upright, Whole, Good
<1>2. t \in AvahiState
  BY <1>1 DEF AvahiState
<1>3. SameRest(s, t) /\ t.events = s.events
  BY <1>1, <1>2 DEF AvahiState, SameRest, Quietly, SameHost
<1> QED BY <1>3, QuietlyIs DEF Upright, SameRest

LEMMA NowIs ==
  ASSUME Upright(avahi)
  PROVE  Upright(Now) /\ SameRest(avahi, Now) /\ Now.events = avahi.events
BY ToldIs DEF Now

LEMMA HappensIs ==
  ASSUME Upright(avahi), MayHappen
  PROVE  Upright(Happens) /\ SameRest(avahi, Happens) /\ Happens.events = avahi.events + 1
<1>1. Upright(Now) /\ SameRest(avahi, Now) /\ Now.events = avahi.events
  BY NowIs
<1>2. Now \in AvahiState
  BY <1>1 DEF Upright, Whole, Good
<1>3. PICK n \in 0 .. MaxEvents : n = avahi.events + 1
  BY <1>1, <1>2, AvahiAssumption DEF AvahiState, MayHappen
<1>4. PICK t : t = [Now EXCEPT !.events = n]
  OBVIOUS
<1>5. Happens = t
  BY <1>1, <1>3, <1>4 DEF Happens
<1>6. t \in AvahiState
  BY <1>2, <1>4 DEF AvahiState
<1>7. SameRest(Now, t) /\ t.events = n
  BY <1>2, <1>4, <1>6 DEF AvahiState, SameRest, Quietly, SameHost
<1>8. Whole(t)
  BY <1>1, <1>7, QuietlyIs DEF SameRest, Upright
<1>9. Upright(t)
  BY <1>1, <1>3, <1>7, <1>8, <1>2 DEF Upright, SameRest, AvahiState
<1>10. SameRest(avahi, t)
  BY <1>1, <1>7 DEF SameRest, Quietly, SameHost
<1> QED BY <1>3, <1>5, <1>7, <1>9, <1>10

LEMMA DoesIs ==
  ASSUME NEW s, Upright(s), Does(s)
  PROVE  Upright(avahi')
<1>1. PICK ready \in BOOLEAN : avahi' = [s EXCEPT !.ready = ready]
  BY DEF Does
<1>2. s \in AvahiState
  BY DEF Upright, Whole, Good
<1>3. PICK t : t = avahi'
  OBVIOUS
<1>4. t \in AvahiState
  BY <1>1, <1>2, <1>3 DEF AvahiState
<1>5. Quietly(s, t) /\ t.ver = s.ver /\ t.events = s.events
  BY <1>1, <1>2, <1>3, <1>4 DEF AvahiState, Quietly, SameHost
<1> QED BY <1>3, <1>5, QuietlyIs DEF Upright

LEMMA ServerNewKeeps ==
  ASSUME Upright(avahi), ServerNew
  PROVE  Upright(avahi')
<1>1. PICK s : s = Now
  OBVIOUS
<1>2. Upright(s) /\ Good(s) /\ Fillable(s)
  BY <1>1, NowIs, ExactIs DEF Upright, Whole, Fillable, Counts
<1>3. PICK t : t = RegisterStuff(s)
  OBVIOUS
<1>4. Restarted(s, t)
  BY <1>2, <1>3, RegisterStuffIs
<1>5. Upright(t)
  BY <1>2, <1>4, UprightSame DEF Restarted, Elsewhere
<1> QED BY <1>1, <1>3, <1>5, DoesIs DEF ServerNew

LEMMA SetHostNameKeeps ==
  ASSUME Upright(avahi), MayHappen, NEW h \in HostName, SetHostName(h)
  PROVE  Upright(avahi')
<1>1. PICK s : s = Happens
  OBVIOUS
<1>2. Upright(s)
  BY <1>1, HappensIs
<1>3. PICK w : w = WithdrawHost(s)
  OBVIOUS
<1>4. Withdrawn(s, w)
  BY <1>2, <1>3, WithdrawHostIs, ExactIs DEF Upright, Whole
<1>5. PICK u : u = [w EXCEPT !.hostName = h]
  OBVIOUS
<1>6. w \in AvahiState
  BY <1>4 DEF Withdrawn, Elsewhere, Good
<1>7. u \in AvahiState
  BY <1>5, <1>6 DEF AvahiState
<1>8. Quietly(w, u) /\ SameWorld(w, u)
  BY <1>5, <1>6, <1>7 DEF AvahiState, Quietly, SameHost, SameWorld
<1>9. Good(u)
  <2>1. \A g \in Group : SameGroup(w, u, g)
    BY <1>8 DEF Quietly, SameGroup
  <2> QED BY <1>4, <1>8, <2>1, SameKeeps DEF Good, Quietly, Withdrawn, Elsewhere
<1>10. Fillable(u)
  BY <1>4, <1>8, WantedSame DEF Withdrawn, Fillable, WantedOnly, Quietly, SameHost, Publishes
<1>11. PICK t : t = RegisterStuff(u)
  OBVIOUS
<1>12. Restarted(u, t)
  BY <1>9, <1>10, <1>11, RegisterStuffIs
<1>13. Upright(t)
  BY <1>2, <1>4, <1>8, <1>12 DEF Upright, Withdrawn, Restarted, Elsewhere, SameWorld
<1> QED BY <1>1, <1>3, <1>5, <1>11, <1>13, DoesIs DEF SetHostName

(* What is on one interface has changed: it is looked at, and brought up to date. *)
LEMMA RefreshIs ==
  ASSUME NEW s, Good(s), Counts(s), s.ver["srv"] \in 0 .. s.events, NEW i \in Iface,
         \A b \in Address : On[b] # i => WantedOnly(s, b) /\ WantedAll(s, b),
         NEW joins \in BOOLEAN, NEW u, u = CheckRelevant(s, i, joins),
         NEW t, t = UpdateInterface(u, i, FALSE)
  PROVE  Upright(t)
<1>1. Relevance(s, u)
  BY CheckRelevantIs
<1>2. Good(u) /\ Counts(u) /\ u.ver["srv"] \in 0 .. u.events
  BY <1>1 DEF Relevance, Counts, SameHost
<1>3. PICK A : A = {a \in Address : On[a] = i}
  OBVIOUS
<1>4. t = PlaceThese(u, A)
  BY <1>3 DEF UpdateInterface, PlaceThese
<1>5. Reviewed(u, t, {}) /\ \A a \in Address \cap A : WantedOnly(t, a) /\ WantedAll(t, a)
  BY <1>2, <1>4, PlaceTheseIs
<1>6. \A b \in Address : WantedOnly(t, b) /\ WantedAll(t, b)
  <2> TAKE b \in Address
  <2>1. CASE On[b] = i
    BY <1>3, <1>5, <2>1
  <2>2. CASE On[b] # i
    BY <1>1, <1>5, <2>2, RelevanceWanted DEF Reviewed
  <2> QED BY <2>1, <2>2
<1>7. Whole(t)
  BY <1>2, <1>5, <1>6, ExactIs DEF Whole, Reviewed, Elsewhere
<1> QED BY <1>2, <1>5, <1>7 DEF Upright, Reviewed, Elsewhere, SameWorld

LEMMA NewLinkKeeps ==
  ASSUME Upright(avahi), MayHappen, NEW i \in Iface, NEW ok \in BOOLEAN, NEW joins \in BOOLEAN,
         NewLink(i, ok, joins)
  PROVE  Upright(avahi')
<1>1. PICK s : s = Happens
  OBVIOUS
<1>2. Upright(s) /\ s \in AvahiState
  BY <1>1, HappensIs DEF Upright, Whole, Good
<1>3. PICK x : x = [s.flags_ok EXCEPT ![i] = ok]
  OBVIOUS
<1>4. x \in [Iface -> BOOLEAN] /\ \A j \in Iface : j # i => x[j] = s.flags_ok[j]
  BY <1>2, <1>3 DEF AvahiState
<1>5. PICK v : v = [s EXCEPT !.flags_ok = x]
  OBVIOUS
<1>6. v \in AvahiState
  BY <1>2, <1>4, <1>5 DEF AvahiState
<1>7. /\ v.state = s.state /\ v.timer = s.timer /\ v.n_probing = s.n_probing /\ v.live = s.live
      /\ v.ann = s.ann /\ SameHost(s, v) /\ v.present = s.present
      /\ v.list_complete = s.list_complete /\ v.flags_ok = x
      /\ v.announcing = s.announcing /\ v.events = s.events /\ v.ver = s.ver
  BY <1>2, <1>5 DEF AvahiState, SameHost
<1>8. Good(v)
  <2>1. \A g \in Group : SameGroup(s, v, g)
    BY <1>7 DEF SameGroup
  <2> QED BY <1>2, <1>6, <1>7, <2>1, SameKeeps DEF Upright, Whole, Good
<1>9. ASSUME NEW b \in Address, On[b] # i PROVE WantedOnly(v, b) /\ WantedAll(v, b)
  <2>1. On[b] \in Iface
    BY AvahiAssumption
  <2>2. Wanted(v, b) <=> Wanted(s, b)
    BY <1>4, <1>7, <1>9, <2>1 DEF Wanted, AddressRelevant, Relevant, SameHost
  <2> QED BY <1>2, <1>7, <2>2 DEF Upright, Whole, Exact, WantedOnly, WantedAll
<1>10. Counts(v) /\ v.ver["srv"] \in 0 .. v.events
  BY <1>2, <1>7 DEF Upright, Whole, Counts, SameHost
<1>11. PICK u : u = CheckRelevant(v, i, joins)
  OBVIOUS
<1>12. PICK t : t = UpdateInterface(u, i, FALSE)
  OBVIOUS
<1>13. Upright(t)
  BY <1>8, <1>9, <1>10, <1>11, <1>12, RefreshIs
<1> QED BY <1>1, <1>3, <1>5, <1>11, <1>12, <1>13, DoesIs DEF NewLink

-------------------------------------------------------------------------------
(* Addresses and links that come and go.                                      *)

LEMMA NewAddrKeeps ==
  ASSUME Upright(avahi), MayHappen, NEW a \in Address, NEW joins \in BOOLEAN, NewAddr(a, joins)
  PROVE  Upright(avahi')
<1>1. PICK s : s = Happens
  OBVIOUS
<1>2. Upright(s) /\ s \in AvahiState
  BY <1>1, HappensIs DEF Upright, Whole, Good
<1>3. PICK present : present = s.present \cup {a}
  OBVIOUS
<1>4. present \in SUBSET Address
  BY <1>2, <1>3 DEF AvahiState
<1>5. PICK v : v = [s EXCEPT !.present = present]
  OBVIOUS
<1>6. v \in AvahiState
  BY <1>2, <1>4, <1>5 DEF AvahiState
<1>7. /\ v.state = s.state /\ v.timer = s.timer /\ v.n_probing = s.n_probing /\ v.live = s.live
      /\ v.ann = s.ann /\ SameHost(s, v) /\ v.present = present
      /\ v.list_complete = s.list_complete /\ v.flags_ok = s.flags_ok
      /\ v.announcing = s.announcing /\ v.events = s.events /\ v.ver = s.ver
  BY <1>2, <1>5 DEF AvahiState, SameHost
<1>8. Good(v)
  <2>1. \A g \in Group : SameGroup(s, v, g)
    BY <1>7 DEF SameGroup
  <2> QED BY <1>2, <1>3, <1>6, <1>7, <2>1, SameKeeps DEF Upright, Whole, Good
<1>9. ASSUME NEW b \in Address, On[b] # On[a] PROVE WantedOnly(v, b) /\ WantedAll(v, b)
  <2>1. (b \in v.present <=> b \in s.present) /\ (Relevant(v, On[b]) <=> Relevant(s, On[b]))
    BY <1>3, <1>7, <1>9 DEF Relevant
  <2>2. AddressRelevant(v, b) <=> AddressRelevant(s, b)
    BY <1>3, <1>7, <1>9 DEF AddressRelevant
  <2>3. Wanted(v, b) <=> Wanted(s, b)
    BY <1>7, <2>1, <2>2 DEF Wanted, SameHost
  <2> QED BY <1>2, <1>7, <2>3 DEF Upright, Whole, Exact, WantedOnly, WantedAll
<1>10. Counts(v) /\ v.ver["srv"] \in 0 .. v.events /\ On[a] \in Iface
  BY <1>2, <1>7, AvahiAssumption DEF Upright, Whole, Counts, SameHost
<1>11. PICK u : u = CheckRelevant(v, On[a], joins)
  OBVIOUS
<1>12. PICK t : t = UpdateInterface(u, On[a], FALSE)
  OBVIOUS
<1>13. Upright(t)
  BY <1>8, <1>9, <1>10, <1>11, <1>12, RefreshIs
<1> QED BY <1>1, <1>3, <1>5, <1>11, <1>12, <1>13, DoesIs DEF NewAddr

LEMMA DelAddrKeeps ==
  ASSUME Upright(avahi), MayHappen, NEW a \in Address, NEW joins \in BOOLEAN, DelAddr(a, joins)
  PROVE  Upright(avahi')
<1>1. PICK s : s = Happens
  OBVIOUS
<1>2. Upright(s) /\ Good(s) /\ Counts(s)
  BY <1>1, HappensIs DEF Upright, Whole
<1>3. PICK v : v = FreeAddress(s, a)
  OBVIOUS
<1>4. Beyond(s, v, On[a])
  BY <1>2, <1>3, FreeAddressIs
<1>5. \A b \in Address : WantedOnly(s, b) /\ WantedAll(s, b)
  BY <1>2, ExactIs DEF Upright, Whole
<1>6. Good(v) /\ Counts(v) /\ v.ver["srv"] \in 0 .. v.events /\ On[a] \in Iface
  BY <1>2, <1>4, AvahiAssumption DEF Beyond, Upright
<1>7. \A b \in Address : On[b] # On[a] => WantedOnly(v, b) /\ WantedAll(v, b)
  BY <1>4, <1>5 DEF Beyond
<1>8. PICK u : u = CheckRelevant(v, On[a], joins)
  OBVIOUS
<1>9. PICK t : t = UpdateInterface(u, On[a], FALSE)
  OBVIOUS
<1>10. Upright(t)
  BY <1>6, <1>7, <1>8, <1>9, RefreshIs
<1> QED BY <1>1, <1>3, <1>8, <1>9, <1>10, DoesIs DEF DelAddr

(* A link that goes takes its announcers with it, before and after its addresses. *)
LEMMA DelLinkKeeps ==
  ASSUME Upright(avahi), MayHappen, NEW i \in Iface, DelLink(i)
  PROVE  Upright(avahi')
<1>1. PICK s : s = Happens
  OBVIOUS
<1>2. Upright(s) /\ Good(s) /\ Counts(s) /\ s.present = avahi.present
  BY <1>1, HappensIs DEF Upright, Whole, SameRest, Quietly
<1>3. PICK A : A = {a \in Address : On[a] = i}
  OBVIOUS
<1>4. PICK mine : mine = {a \in avahi.present : On[a] = i}
  OBVIOUS
<1>5. PICK t : t = TakeThese(s, A)
  OBVIOUS
<1>6. PICK P : P = Entry \X {i}
  OBVIOUS
<1>7. PICK r : r = RemoveAnnouncers(t, P)
  OBVIOUS
<1>8. PICK u : u = TakeThese(r, A)
  OBVIOUS
<1>9. PICK w : w = FreeAddresses(u, mine)
  OBVIOUS
<1>10. PICK z : z = [w EXCEPT !.flags_ok[i] = FALSE, !.announcing[i] = FALSE,
                              !.heard[i] = {}, !.stale[i] = {}]
  OBVIOUS
<1>11. Does(z)
  <2>1. /\ t = UpdateInterface(Happens, i, TRUE)
        /\ r = RemoveAnnouncers(t, Entry \X {i})
        /\ u = UpdateInterface(r, i, TRUE)
    BY <1>1, <1>3, <1>5, <1>6, <1>7, <1>8 DEF UpdateInterface, TakeThese
  <2> QED BY <1>4, <1>9, <1>10, <2>1, Zenon DEF DelLink
<1>12. Beyond(s, t, i)
  BY <1>2, <1>3, <1>5, TakeTheseIs, ReviewedBeyond
<1>13. /\ r \in AvahiState /\ \A p \in Pair : r.ann[p] = IF p \in P THEN NoAnnouncer ELSE t.ann[p]
       /\ \E ann : r = [t EXCEPT !.ann = ann]
       /\ \A g \in Group : Sound(r, g) /\ Driven(r, g)
  <2>1. P \in SUBSET Pair /\ t \in AvahiState
    BY <1>6, <1>12 DEF Pair, Beyond, Good
  <2> QED BY <1>7, <1>12, <2>1, RemoveKeeps DEF Beyond, Good
<1>14. /\ r.live = t.live /\ SameHost(t, r) /\ SameWorld(t, r) /\ r.ver = t.ver
  <2>1. PICK ann : r = [t EXCEPT !.ann = ann]
    BY <1>13
  <2>2. t \in AvahiState
    BY <1>12 DEF Beyond, Good
  <2> QED BY <2>1, <2>2 DEF AvahiState, SameHost, SameWorld
<1>15. Good(r) /\ Counts(r)
  BY <1>12, <1>13, <1>14 DEF Beyond, Good, Counts, SameHost, SameWorld
<1>16. Beyond(r, w, i) /\ \A a \in Address : a \in mine => a \notin w.present
  <2>1. Beyond(r, u, i)
    BY <1>3, <1>8, <1>15, TakeTheseIs, ReviewedBeyond
  <2>2. Good(u) /\ Counts(u) /\ \A b \in mine : On[b] = i
    BY <1>4, <2>1 DEF Beyond
  <2>3. Beyond(u, w, i) /\ \A a \in Address : a \in mine => a \notin w.present
    BY <1>9, <2>2, FreeTheseIs
  <2> QED BY <2>1, <2>3, BeyondIsTransitive
<1>17. ASSUME NEW b \in Address, On[b] # i PROVE WantedOnly(w, b) /\ WantedAll(w, b)
  <2>1. WantedOnly(t, b) /\ WantedAll(t, b)
    BY <1>2, <1>12, <1>17, ExactIs DEF Beyond, Upright, Whole
  <2>2. WantedOnly(r, b) /\ WantedAll(r, b)
    BY <1>14, <2>1, WantedSame DEF WantedOnly, WantedAll, SameHost, Publishes
  <2> QED BY <1>16, <1>17, <2>2 DEF Beyond
<1>18. ASSUME NEW b \in Address, On[b] = i PROVE b \notin w.present /\ b \notin w.live
  BY <1>2, <1>4, <1>12, <1>14, <1>16, <1>18 DEF Beyond, SameWorld, Good
<1>19. w \in AvahiState
  BY <1>16 DEF Beyond, Good
<1>20. ASSUME NEW p \in Pair, p[2] = i PROVE w.ann[p] = NoAnnouncer
  <2>1. p[1] \in Entry /\ p = <<p[1], i>> /\ Of(p[1]) \in Group /\ p \in PairsOf(Of(p[1]))
        /\ p[1] \in Entries(Of(p[1]))
    BY <1>20, Names DEF PairsOf
  <2>2. Founded(w, Of(p[1]))
    BY <1>16, <2>1 DEF Beyond, Good, Sound
  <2>3. CASE p[1] \in Address
    <3>1. w.ann[p] # NoAnnouncer => p[1] \in w.live /\ On[p[1]] = i
      BY <1>20, <2>1, <2>2, <2>3 DEF Founded, Match
    <3> QED BY <1>18, <2>3, <3>1
  <2>4. CASE p[1] \notin Address
    <3>1. Of(p[1]) = "svc"
      BY <2>4 DEF Of
    <3>2. w.ann[p] = r.ann[p]
      BY <1>16, <2>1, <3>1 DEF Beyond, SameGroup
    <3>3. p \in P
      BY <1>6, <2>1
    <3> QED BY <1>13, <3>2, <3>3
  <2> QED BY <2>3, <2>4
<1>21. PICK flags : flags = [w.flags_ok EXCEPT ![i] = FALSE]
  OBVIOUS
<1>22. PICK announcing : announcing = [w.announcing EXCEPT ![i] = FALSE]
  OBVIOUS
<1>23. PICK heard : heard = [w.heard EXCEPT ![i] = {}]
  OBVIOUS
<1>40. PICK stale : stale = [w.stale EXCEPT ![i] = {}]
  OBVIOUS
<1>24. z = [w EXCEPT !.flags_ok = flags, !.announcing = announcing, !.heard = heard, !.stale = stale]
  BY <1>10, <1>21, <1>22, <1>23, <1>40
<1>25. /\ flags \in [Iface -> BOOLEAN] /\ announcing \in [Iface -> BOOLEAN]
       /\ heard \in [Iface -> SUBSET (Entry \X Version)] /\ stale \in [Iface -> SUBSET (Entry \X Version)]
       /\ \A j \in Iface : j # i => flags[j] = w.flags_ok[j] /\ announcing[j] = w.announcing[j]
  BY <1>19, <1>21, <1>22, <1>23, <1>40 DEF AvahiState
<1>26. z \in AvahiState
  BY <1>19, <1>24, <1>25 DEF AvahiState
<1>27. /\ z.state = w.state /\ z.timer = w.timer /\ z.n_probing = w.n_probing /\ z.live = w.live
       /\ z.ann = w.ann /\ SameHost(w, z) /\ z.present = w.present
       /\ z.list_complete = w.list_complete /\ z.flags_ok = flags
       /\ z.announcing = announcing /\ z.events = w.events /\ z.ver = w.ver
  BY <1>19, <1>24 DEF AvahiState, SameHost
<1>28. ASSUME NEW g \in Group PROVE Sound(z, g) /\ Driven(z, g)
  <2>1. Sound(w, g) /\ Driven(w, g)
    BY <1>16 DEF Beyond, Good
  <2>2. ASSUME NEW p \in PairsOf(g), z.ann[p] # NoAnnouncer PROVE z.announcing[p[2]]
    <3>1. p \in Pair /\ p[2] \in Iface
      BY Names
    <3>2. p[2] # i
      BY <1>20, <1>27, <2>2, <3>1
    <3> QED BY <1>25, <1>27, <2>1, <2>2, <3>1, <3>2 DEF Sound, Founded
  <2>3. Founded(z, g)
    BY <1>27, <2>1, <2>2 DEF Sound, Founded
  <2>4. ServedLate(z, g) /\ Bounded(z, g) /\ Covered(z, g)
    BY <1>27, <2>1 DEF Sound, ServedLate, Bounded, Covered, Probes
  <2>5. \A e \in Entries(g) : Committed(z, e) <=> Committed(w, e)
    BY <1>27 DEF Committed
  <2> QED BY <1>27, <2>1, <2>3, <2>4, <2>5 DEF Sound, Driven
<1>29. Good(z)
  BY <1>16, <1>26, <1>27, <1>28 DEF Beyond, Good
<1>30. \A b \in Address : WantedOnly(z, b) /\ WantedAll(z, b)
  <2> TAKE b \in Address
  <2>1. CASE On[b] = i
    BY <1>18, <1>27, <2>1 DEF WantedOnly, WantedAll, Wanted
  <2>2. CASE On[b] # i
    <3>1. On[b] \in Iface
      BY AvahiAssumption
    <3>2. Wanted(z, b) <=> Wanted(w, b)
      BY <1>25, <1>27, <2>2, <3>1 DEF Wanted, AddressRelevant, Relevant, SameHost
    <3> QED BY <1>17, <1>27, <2>2, <3>2 DEF WantedOnly, WantedAll
  <2> QED BY <2>1, <2>2
<1>31. Whole(z)
  BY <1>16, <1>27, <1>29, <1>30, ExactIs DEF Whole, Beyond, Counts, SameHost
<1>32. Upright(z)
  BY <1>2, <1>12, <1>14, <1>16, <1>27, <1>31 DEF Upright, Beyond, SameWorld
<1> QED BY <1>11, <1>32, DoesIs

LEMMA ListCompleteKeeps ==
  ASSUME Upright(avahi), NEW joins \in [Iface -> BOOLEAN], ListComplete(joins)
  PROVE  Upright(avahi')
<1>1. PICK n0 : n0 = Now
  OBVIOUS
<1>2. Upright(n0) /\ n0 \in AvahiState
  BY <1>1, NowIs DEF Upright, Whole, Good
<1>3. PICK s : s = [n0 EXCEPT !.list_complete = TRUE]
  OBVIOUS
<1>4. s \in AvahiState
  BY <1>2, <1>3 DEF AvahiState
<1>5. /\ s.state = n0.state /\ s.timer = n0.timer /\ s.n_probing = n0.n_probing /\ s.live = n0.live
      /\ s.ann = n0.ann /\ SameHost(n0, s) /\ s.present = n0.present /\ s.flags_ok = n0.flags_ok
      /\ s.announcing = n0.announcing /\ s.events = n0.events /\ s.ver = n0.ver
  BY <1>2, <1>3 DEF AvahiState, SameHost
<1>6. Good(s)
  <2>1. \A g \in Group : SameGroup(n0, s, g)
    BY <1>5 DEF SameGroup
  <2> QED BY <1>2, <1>4, <1>5, <2>1, SameKeeps DEF Upright, Whole, Good
<1>7. Counts(s) /\ s.ver["srv"] \in 0 .. s.events
  BY <1>2, <1>5 DEF Upright, Whole, Counts, SameHost
<1>8. PICK seq : seq = SetToSeq(Iface)
  OBVIOUS
<1>9. PICK N \in Nat : N = Len(seq) /\ \A n \in 1 .. N : seq[n] \in Iface
  <2>1. Len(seq) \in Nat /\ seq \in [1 .. Len(seq) -> Iface]
    BY <1>8, AvahiAssumption, ListIs
  <2> QED BY <2>1
<1> DEFINE S == {v \in AvahiState : Good(v)}
           Check(v, i) == CheckRelevant(v, i, joins[i])
           f[n \in 0 .. Len(seq)] == IF n = 0 THEN s ELSE Check(f[n-1], seq[n])
<1>10. PICK t : t = Along(s, seq, Check)
  OBVIOUS
<1>11. t = f[N]
  BY <1>9, <1>10 DEF Along
<1>12. PICK y : y = PlaceThese(t, Address)
  OBVIOUS
<1>13. Does(y)
  BY <1>1, <1>3, <1>8, <1>10, <1>12 DEF ListComplete, UpdateAll, PlaceThese
<1>14. \A v \in S, n \in 1 .. N : Relevance(v, Check(v, seq[n])) /\ Check(v, seq[n]) \in S
  BY <1>9, CheckRelevantIs DEF Relevance, Good
<1> HIDE DEF Check
<1>15. PICK h \in [0 .. N -> S] : h = [n \in 0 .. N |-> IF n = 0 THEN s ELSE Check(h[n-1], seq[n])]
  <2>1. PICK g : g = [n \in 1 .. N |-> [v \in S |-> Check(v, seq[n])]]
    OBVIOUS
  <2>2. g \in [1 .. N -> [S -> S]] /\ s \in S
    BY <1>4, <1>6, <1>14, <2>1
  <2> HIDE DEF S
  <2>3. PICK h \in [0 .. N -> S] : Runs(h, N, s, g)
    BY <2>2, Loops
  <2>4. ASSUME NEW n \in 0 .. N
        PROVE  h[n] = IF n = 0 THEN s ELSE Check(h[n-1], seq[n])
    <3>1. n # 0 => n \in 1 .. N /\ n - 1 \in 0 .. N /\ h[n-1] \in S
      BY <2>3
    <3> QED BY <2>1, <2>3, <3>1 DEF Runs
  <2> QED BY <2>3, <2>4
<1>16. f = [n \in 0 .. N |-> IF n = 0 THEN s ELSE Check(f[n-1], seq[n])]
  BY <1>9, <1>15
<1> HIDE DEF f
<1>17. f[0] = s /\ \A n \in 1 .. N : f[n] = Check(f[n-1], seq[n])
  BY <1>16
<1>18. PICK Q : Q = [n \in 0 .. N |-> {v \in S : Relevance(s, v)}]
  OBVIOUS
<1>19. f[0] \in Q[0]
  BY <1>4, <1>6, <1>17, <1>18 DEF Relevance, SameHost
<1>20. ASSUME NEW n \in 1 .. N, f[n-1] \in Q[n-1] PROVE f[n] \in Q[n]
  <2>1. PICK v : v = f[n-1]
    OBVIOUS
  <2>2. v \in S /\ Relevance(s, v)
    BY <1>18, <1>20, <2>1
  <2>3. f[n] \in S /\ Relevance(v, f[n])
    BY <1>14, <1>17, <2>1, <2>2
  <2>4. Relevance(s, f[n])
    BY <2>2, <2>3, RelevanceIsTransitive
  <2>5. Q[n] = {w \in S : Relevance(s, w)}
    BY <1>18
  <2> HIDE DEF S
  <2> QED BY <2>3, <2>4, <2>5
<1>21. f[N] \in Q[N]
  BY <1>19, <1>20, LoopEnds
<1>22. Relevance(s, t)
  BY <1>11, <1>18, <1>21
<1>23. Good(t) /\ Counts(t) /\ t.ver["srv"] \in 0 .. t.events
  BY <1>7, <1>22 DEF Relevance, Counts, SameHost
<1>24. Reviewed(t, y, {}) /\ \A a \in Address : WantedOnly(y, a) /\ WantedAll(y, a)
  BY <1>12, <1>23, PlaceTheseIs
<1>25. Upright(y)
  BY <1>23, <1>24, ExactIs DEF Upright, Whole, Reviewed, Elsewhere, SameWorld
<1> QED BY <1>13, <1>25, DoesIs

-------------------------------------------------------------------------------
(* Timers: one announcer.                                                     *)

\* Whom a group tells that it registers, or is registered.
LEMMA ServiceIgnores ==
  ASSUME NEW s, NEW now
  PROVE  /\ CheckProbed(s, "svc", now, Callback) = CheckProbed(s, "svc", now, Ignore)
         /\ CommitReal(s, "svc", Callback) = CommitReal(s, "svc", Ignore)
         /\ Commit(s, "svc", Callback) = Commit(s, "svc", Ignore)
<1>1. ASSUME NEW u, NEW st \in {"REGISTERING", "ESTABLISHED"}
      PROVE  ChangeState(u, "svc", st, Callback) = ChangeState(u, "svc", st, Ignore)
  BY <1>1 DEF ChangeState, Callback, Ignore
<1>2. ASSUME NEW u, NEW b PROVE CheckProbed(u, "svc", b, Callback) = CheckProbed(u, "svc", b, Ignore)
  <2>1. ChangeState(u, "svc", "ESTABLISHED", Callback) = ChangeState(u, "svc", "ESTABLISHED", Ignore)
    BY <1>1
  <2> QED BY <2>1, Zenon DEF CheckProbed
<1>3. CommitReal(s, "svc", Callback) = CommitReal(s, "svc", Ignore)
  <2>1. ChangeState([s EXCEPT !.recent["svc"] = TRUE], "svc", "REGISTERING", Callback)
          = ChangeState([s EXCEPT !.recent["svc"] = TRUE], "svc", "REGISTERING", Ignore)
    BY <1>1
  <2> QED BY <1>2, <2>1, Zenon DEF CommitReal
<1>4. Commit(s, "svc", Callback) = Commit(s, "svc", Ignore)
  <2>1. ChangeState([s EXCEPT !.timer["svc"] = TRUE], "svc", "REGISTERING", Callback)
          = ChangeState([s EXCEPT !.timer["svc"] = TRUE], "svc", "REGISTERING", Ignore)
    BY <1>1
  <2> QED BY <1>3, <2>1, Zenon DEF Commit
<1> QED BY <1>2, <1>3, <1>4

LEMMA HostHears ==
  ASSUME NEW s, NEW g \in Address, NEW now
  PROVE  /\ CheckProbed(s, g, now, Callback) = CheckProbed(s, g, now, HostRegistered)
         /\ CommitReal(s, g, Callback) = CommitReal(s, g, HostRegistered)
<1>1. ASSUME NEW u, NEW st \in {"REGISTERING", "ESTABLISHED"}
      PROVE  ChangeState(u, g, st, Callback) = ChangeState(u, g, st, HostRegistered)
  <2>1. g # "svc"
    BY Names
  <2> QED BY <1>1, <2>1 DEF ChangeState, Callback
<1>2. ASSUME NEW u, NEW b PROVE CheckProbed(u, g, b, Callback) = CheckProbed(u, g, b, HostRegistered)
  <2>1. ChangeState(u, g, "ESTABLISHED", Callback) = ChangeState(u, g, "ESTABLISHED", HostRegistered)
    BY <1>1
  <2> QED BY <2>1, Zenon DEF CheckProbed
<1>3. CommitReal(s, g, Callback) = CommitReal(s, g, HostRegistered)
  <2>1. ChangeState([s EXCEPT !.recent[g] = TRUE], g, "REGISTERING", Callback)
          = ChangeState([s EXCEPT !.recent[g] = TRUE], g, "REGISTERING", HostRegistered)
    BY <1>1
  <2> QED BY <1>2, <2>1, Zenon DEF CommitReal
<1> QED BY <1>2, <1>3

\* What a timer of one announcer changes.
Ticked(s, t, g, p, x) ==
    /\ t \in AvahiState /\ OnlyGroup(s, t, g)
    /\ t.live = s.live /\ t.state = s.state /\ t.timer = s.timer
    /\ t.ann[p] = x /\ \A q \in PairsOf(g) : q # p => t.ann[q] = s.ann[q]

Ticks(s, g, p, x, n) ==
    [s EXCEPT !.ann = [s.ann EXCEPT ![p] = x], !.n_probing = [s.n_probing EXCEPT ![g] = n]]

LEMMA TickIs ==
  ASSUME NEW s \in AvahiState, NEW g \in Group, NEW p \in PairsOf(g), NEW x \in AnnType, NEW n \in Int,
         NEW t, t = Ticks(s, g, p, x, n)
  PROVE  Ticked(s, t, g, p, x) /\ t.n_probing[g] = n
<1> PICK ann : ann = [s.ann EXCEPT ![p] = x]
  OBVIOUS
<1> PICK count : count = [s.n_probing EXCEPT ![g] = n]
  OBVIOUS
<1>0. t = [s EXCEPT !.ann = ann, !.n_probing = count]
  BY DEF Ticks
<1>1. p \in Pair /\ Of(p[1]) = g
  BY DEF PairsOf
<1>2. ann \in [Pair -> AnnType] /\ ann[p] = x /\ \A q \in Pair : q # p => ann[q] = s.ann[q]
  BY <1>1 DEF AvahiState, AnnType
<1>3. count \in [Group -> Int] /\ count[g] = n /\ \A h \in Group : h # g => count[h] = s.n_probing[h]
  BY DEF AvahiState
<1>4. t \in AvahiState
  <2>1. t = WithAnnouncers(s, ann, count)
    BY <1>0 DEF WithAnnouncers
  <2> QED BY <1>2, <1>3, <2>1, AnnouncersSet
<1>5. /\ t.live = s.live /\ t.state = s.state /\ t.timer = s.timer /\ t.ann = ann
      /\ t.n_probing = count /\ SameWorld(s, t) /\ SameHost(s, t)
  BY <1>0, <1>4 DEF AvahiState, SameWorld, SameHost
<1>6. ASSUME NEW h \in Group, h # g PROVE SameGroup(s, t, h)
  <2>1. \A q \in PairsOf(h) : q # p /\ q \in Pair
    BY <1>1, <1>6 DEF PairsOf
  <2> QED BY <1>2, <1>3, <1>5, <1>6, <2>1 DEF SameGroup
<1>7. \A q \in PairsOf(g) : q \in Pair
  BY DEF PairsOf
<1> QED BY <1>2, <1>3, <1>4, <1>5, <1>6, <1>7 DEF Ticked, OnlyGroup

\* One more probe is sent.
LEMMA ProbesOn ==
  ASSUME NEW s \in AvahiState, NEW g \in Group, NEW p \in PairsOf(g), Sound(s, g), Driven(s, g),
         s.ann[p].st = "PROBING", NEW x \in AnnType, x.st = "PROBING", x.n <= Iterations,
         NEW t, Ticked(s, t, g, p, x), t.n_probing[g] = s.n_probing[g]
  PROVE  Sound(t, g) /\ Driven(t, g)
<1>1. x # NoAnnouncer /\ s.ann[p] # NoAnnouncer
  BY AnnIs
<1>2. t.announcing = s.announcing
  BY DEF Ticked, OnlyGroup, SameWorld
<1>3. Founded(t, g)
  BY <1>1, <1>2 DEF Sound, Founded, Ticked
<1>4. ServedLate(t, g) /\ Bounded(t, g)
  BY DEF Sound, ServedLate, Bounded, Ticked
<1>5. Probes(t, g) = Probes(s, g)
  BY DEF Probes, Ticked
<1>6. Covered(t, g)
  BY <1>5 DEF Sound, Covered
<1>7. \A e \in Entries(g) : Committed(t, e) <=> Committed(s, e)
  BY DEF Committed, Ticked
<1> QED BY <1>3, <1>4, <1>6, <1>7 DEF Sound, Driven, Ticked

\* The last probe has gone unanswered.
LEMMA ProbeEnds ==
  ASSUME NEW s \in AvahiState, NEW g \in Group, NEW p \in PairsOf(g), Sound(s, g),
         s.ann[p].st = "PROBING",
         NEW x \in AnnType, x # NoAnnouncer, x.st # "PROBING", x.n <= Iterations,
         x.st \in {"ANNOUNCING", "ESTABLISHED"} => s.state[g] = "ESTABLISHED" /\ x.n < Iterations,
         NEW t, Ticked(s, t, g, p, x), t.n_probing[g] = s.n_probing[g] - 1
  PROVE  Sound(t, g)
<1>1. s.ann[p] # NoAnnouncer
  BY AnnIs
<1>2. t.announcing = s.announcing
  BY DEF Ticked, OnlyGroup, SameWorld
<1>3. Founded(t, g)
  BY <1>1, <1>2 DEF Sound, Founded, Ticked
<1>4. ServedLate(t, g) /\ Bounded(t, g)
  BY DEF Sound, ServedLate, Bounded, Ticked
<1>5. Probes(t, g) = Probes(s, g) \ {p} /\ p \in Probes(s, g)
  BY DEF Probes, Ticked
<1>6. Covered(t, g)
  <2>1. Probes(s, g) \in SUBSET Pair
    BY DEF Probes, PairsOf
  <2>2. IsFiniteSet(Probes(s, g)) /\ Cardinality(Probes(s, g)) \in Nat
    BY <2>1, SubsetCounts
  <2>3. Cardinality(Probes(t, g)) = Cardinality(Probes(s, g)) - 1
    BY <1>5, <2>2, FS_RemoveElement
  <2>4. s.n_probing[g] \in Int
    BY DEF AvahiState
  <2> QED BY <2>2, <2>3, <2>4 DEF Sound, Covered
<1>7. \A e \in Entries(g) : Committed(t, e) <=> Committed(s, e)
  BY DEF Committed, Ticked
<1> QED BY <1>3, <1>4, <1>6, <1>7 DEF Sound, Ticked

\* A group is registering, or it is established, while an announcer works for it.
LEMMA WorkedFor ==
  ASSUME NEW s \in AvahiState, NEW g \in Group, NEW p \in PairsOf(g), Sound(s, g), s.ann[p].st # "none"
  PROVE  p[1] \in s.live /\ p[1] \in Entries(g) /\ s.state[g] \in {"REGISTERING", "ESTABLISHED"}
<1>1. p \in Pair /\ p[1] \in Entry /\ Of(p[1]) = g
  BY Names DEF PairsOf
<1>2. p[1] \in Entries(g) /\ s.ann[p] # NoAnnouncer
  BY <1>1, AnnIs DEF Entries
<1>3. p[1] \in s.live
  BY <1>2 DEF Sound, Founded
<1> QED BY <1>1, <1>2, <1>3 DEF Sound, Committed

-------------------------------------------------------------------------------
(* The last probe of a group.                                                 *)

LEMMA AddressesSame ==
  ASSUME NEW s, NEW t, t.live = s.live
  PROVE  SameAddresses(s, t)
BY DEF SameAddresses

\* What remains to be done once a probe that went unanswered was the last.
LEMMA LastProbe ==
  ASSUME NEW s, Whole(s), NEW g \in Group, NEW u, Sound(u, g), u \in AvahiState, OnlyGroup(s, u, g),
         u.live = s.live, \E e \in Entries(g) : e \in u.live,
         NEW t, t = CheckProbed(u, g, TRUE, Callback)
  PROVE  Whole(t) /\ SameWorld(s, t)
<1>1. CASE g = "svc"
  <2>1. t = CheckProbed(u, g, TRUE, Ignore)
    BY <1>1, ServiceIgnores, Zenon
  <2>2. Going(u, t, g)
    BY <2>1, CheckProbedAlone
  <2>3. OnlyGroup(s, t, g)
    BY <2>2, OnlyIsTransitive DEF Going
  <2> QED BY <1>1, <2>2, <2>3, ServiceStep DEF Going
<1>2. CASE g \in Address
  <2>1. t = CheckProbed(u, g, TRUE, HostRegistered)
    BY <1>2, HostHears, Zenon
  <2>2. g \in u.live /\ SameWorld(s, u) /\ SameHost(s, u)
    BY <1>2, Names DEF OnlyGroup
  <2>3. Wanted(s, g)
    BY <1>2, <2>2 DEF Whole, Exact
  <2>4. Wanted(u, g)
    BY <1>2, <2>2, <2>3, WantedSame DEF SameHost, Publishes
  <2>5. Nearly(u, g)
    BY GoodIsNearly, NearlyStep DEF Whole
  <2>6. Advanced(u, t)
    BY <1>2, <2>1, <2>2, <2>4, <2>5, CheckProbedHost
  <2>7. Onward(u, t) /\ Counts(t)
    <3>1. Counts(u)
      BY <2>2 DEF Whole, Counts, SameHost
    <3> QED BY <2>6, <3>1, AdvancedIs
  <2>8. Exact(u)
    BY <2>2, AddressesSame, ExactSame DEF Whole
  <2>9. Exact(t)
    BY <2>7, <2>8, OnwardWanted, ExactIs
  <2> QED BY <2>2, <2>7, <2>9 DEF Whole, Onward, Elsewhere, SameWorld
<1> QED BY <1>1, <1>2 DEF Group

LEMMA ElapseKeeps ==
  ASSUME Upright(avahi), NEW p \in Pair, Elapse(p)
  PROVE  Upright(avahi')
<1>1. PICK s : s = Now
  OBVIOUS
<1>2. PICK g : g = Of(p[1])
  OBVIOUS
<1>3. g \in Group /\ p \in PairsOf(g)
  BY <1>2, Names DEF PairsOf
<1>4. Upright(s) /\ Whole(s) /\ s \in AvahiState /\ Sound(s, g) /\ Driven(s, g)
  BY <1>1, <1>3, NowIs DEF Upright, Whole, Good
<1>5. s.ann = avahi.ann /\ s.state = avahi.state
  BY <1>1, NowIs DEF SameRest, Quietly
<1>6. PICK a : a = s.ann[p]
  OBVIOUS
<1>7. a \in AnnType /\ a.n \in Nat /\ a.st \in AnnouncerState
  BY <1>4, <1>6, AnnIs
<1>8. CASE a.st = "ANNOUNCING"
  <2>1. PICK t : t = NextAnnouncement(s, p)
    OBVIOUS
  <2>2. Does(t)
    BY <1>1, <1>5, <1>6, <1>8, <2>1 DEF Elapse
  <2>3. Announced(s, t, p)
    BY <1>4, <2>1, AnnounceIs
  <2>4. OnlyGroup(s, t, g) /\ Sound(t, g) /\ Driven(t, g) /\ t.live = s.live
    BY <1>3, <1>4, <1>6, <1>8, <2>3, AnnounceKeeps
  <2>5. Whole(t) /\ SameWorld(s, t)
    BY <1>3, <1>4, <2>3, <2>4, GroupStep, AddressesSame DEF Announced
  <2> QED BY <1>4, <2>2, <2>5, UprightSame, DoesIs
<1>9. CASE a.st = "PROBING" /\ a.n < Iterations
  <2>1. PICK x : x = [st |-> "PROBING", n |-> a.n + 1]
    OBVIOUS
  <2>2. x \in AnnType /\ x.st = "PROBING" /\ x.n <= Iterations
    BY <1>7, <1>9, <2>1, AnnIs, AvahiAssumption DEF AnnouncerState
  <2>3. PICK t : t = [s EXCEPT !.ann[p].n = @ + 1]
    OBVIOUS
  <2>4. Does(t)
    <3>1. avahi.ann[p].st = "PROBING" /\ avahi.ann[p].n < Iterations /\ ~(avahi.ann[p].n >= Iterations)
      BY <1>5, <1>6, <1>7, <1>9, AvahiAssumption
    <3>2. "PROBING" # "ANNOUNCING"
      OBVIOUS
    <3> QED BY <1>1, <2>3, <3>1, <3>2, Zenon DEF Elapse
  <2>5. [a EXCEPT !.n = @ + 1] = x
    <3>1. a = [st |-> "PROBING", n |-> a.n]
      BY <1>7, <1>9 DEF AnnType, NoAnnouncer
    <3> QED BY <2>1, <3>1
  <2>6. PICK ann : ann = [s.ann EXCEPT ![p] = x]
    OBVIOUS
  <2>7. t = [s EXCEPT !.ann = ann]
    BY <1>6, <2>3, <2>5, <2>6
  <2>8. PICK n : n = s.n_probing[g] /\ n \in Int
    BY <1>3, <1>4 DEF AvahiState
  <2>9. PICK count : count = [s.n_probing EXCEPT ![g] = n]
    OBVIOUS
  <2>10. count = s.n_probing
    BY <1>3, <1>4, <2>8, <2>9 DEF AvahiState
  <2>11. t = [s EXCEPT !.ann = ann, !.n_probing = count]
    BY <1>4, <2>7, <2>10 DEF AvahiState
  <2>12. Ticked(s, t, g, p, x) /\ t.n_probing[g] = n
    <3>1. t = Ticks(s, g, p, x, n)
      BY <2>6, <2>9, <2>11 DEF Ticks
    <3> QED BY <1>3, <1>4, <2>2, <2>8, <3>1, TickIs
  <2>13. Sound(t, g) /\ Driven(t, g)
    BY <1>3, <1>4, <1>6, <1>9, <2>2, <2>8, <2>12, ProbesOn
  <2>14. Whole(t) /\ SameWorld(s, t)
    BY <1>3, <1>4, <2>12, <2>13, GroupStep, AddressesSame DEF Ticked
  <2> QED BY <1>4, <2>4, <2>14, UprightSame, DoesIs
<1>10. CASE a.st = "PROBING" /\ a.n >= Iterations
  <2>1. a.n <= Iterations /\ Iterations \in Nat /\ 1 < Iterations /\ a.n = Iterations
    BY <1>3, <1>4, <1>6, <1>7, <1>10, AvahiAssumption DEF Sound, Bounded
  <2>2. PICK n \in Int : n = s.n_probing[g] - 1
    BY <1>3, <1>4 DEF AvahiState
  <2>3. PICK count : count = [s.n_probing EXCEPT ![g] = n]
    OBVIOUS
  <2>4. PICK d : d = [s EXCEPT !.n_probing[g] = @ - 1]
    OBVIOUS
  <2>5. d = [s EXCEPT !.n_probing = count]
    BY <2>2, <2>3, <2>4
  <2>6. s.ann[p].st # "none"
    BY <1>6, <1>10
  <2>7. p[1] \in s.live /\ p[1] \in Entries(g) /\ s.state[g] \in {"REGISTERING", "ESTABLISHED"}
    BY <1>3, <1>4, <2>6, WorkedFor
  <2>8. CASE s.state[g] = "REGISTERING"
    <3>1. PICK x : x = [st |-> "WAITING", n |-> a.n]
      OBVIOUS
    <3>2. x \in AnnType /\ x # NoAnnouncer /\ x.st = "WAITING" /\ x.n <= Iterations
      BY <1>7, <2>1, <3>1, AnnIs DEF AnnouncerState
    <3>3. PICK u : u = [d EXCEPT !.ann[p].st = "WAITING"]
      OBVIOUS
    <3>4. PICK t : t = CheckProbed(u, g, TRUE, Callback)
      OBVIOUS
    <3>5. Does(t)
      <4>1. avahi.state[g] = "REGISTERING" /\ avahi.ann[p].st = "PROBING"
            /\ ~(avahi.ann[p].n < Iterations)
        BY <1>5, <1>6, <1>7, <1>10, <2>1, <2>8
      <4>2. "PROBING" # "ANNOUNCING"
        OBVIOUS
      <4> QED BY <1>1, <1>2, <2>4, <3>3, <3>4, <4>1, <4>2, Zenon DEF Elapse
    <3>6. [a EXCEPT !.st = "WAITING"] = x
      <4>1. a = [st |-> "PROBING", n |-> a.n]
        BY <1>7, <1>10 DEF AnnType, NoAnnouncer
      <4> QED BY <3>1, <4>1
    <3>7. PICK ann : ann = [s.ann EXCEPT ![p] = x]
      OBVIOUS
    <3>8. u = [s EXCEPT !.ann = ann, !.n_probing = count]
      <4>1. d.ann = s.ann
        BY <1>4, <2>5 DEF AvahiState
      <4>2. u = [d EXCEPT !.ann = ann]
        BY <1>6, <3>3, <3>6, <3>7, <4>1
      <4> QED BY <1>4, <2>5, <4>2 DEF AvahiState
    <3>9. Ticked(s, u, g, p, x) /\ u.n_probing[g] = n
      <4>1. u = Ticks(s, g, p, x, n)
        BY <2>3, <3>7, <3>8 DEF Ticks
      <4> QED BY <1>3, <1>4, <2>2, <3>2, <4>1, TickIs
    <3>10. Sound(u, g)
      BY <1>3, <1>4, <1>6, <1>10, <2>2, <3>2, <3>9, ProbeEnds
    <3>11. Whole(t) /\ SameWorld(s, t)
      BY <1>3, <1>4, <2>7, <3>4, <3>9, <3>10, LastProbe DEF Ticked
    <3> QED BY <1>4, <3>5, <3>11, UprightSame, DoesIs
  <2>9. CASE s.state[g] = "ESTABLISHED"
    <3>1. PICK x : x = [st |-> "ANNOUNCING", n |-> 1]
      OBVIOUS
    <3>2. x \in AnnType /\ x # NoAnnouncer /\ x.st = "ANNOUNCING" /\ x.n < Iterations /\ x.n <= Iterations
      BY <2>1, <3>1, AnnIs DEF AnnouncerState
    <3>3. PICK u : u = [d EXCEPT !.ann[p] = x]
      OBVIOUS
    <3>4. PICK t : t = NextAnnouncement(u, p)
      OBVIOUS
    <3>5. Does(t)
      <4>1. avahi.state[g] # "REGISTERING" /\ avahi.ann[p].st = "PROBING"
            /\ ~(avahi.ann[p].n < Iterations)
        BY <1>5, <1>6, <1>7, <1>10, <2>1, <2>9
      <4>2. "PROBING" # "ANNOUNCING"
        OBVIOUS
      <4> QED BY <1>1, <1>2, <2>4, <3>1, <3>3, <3>4, <4>1, <4>2, Zenon DEF Elapse
    <3>6. PICK ann : ann = [s.ann EXCEPT ![p] = x]
      OBVIOUS
    <3>7. u = [s EXCEPT !.ann = ann, !.n_probing = count]
      <4>1. d.ann = s.ann
        BY <1>4, <2>5 DEF AvahiState
      <4>2. u = [d EXCEPT !.ann = ann]
        BY <3>3, <3>6, <4>1
      <4> QED BY <1>4, <2>5, <4>2 DEF AvahiState
    <3>8. Ticked(s, u, g, p, x) /\ u.n_probing[g] = n
      <4>1. u = Ticks(s, g, p, x, n)
        BY <2>3, <3>6, <3>7 DEF Ticks
      <4> QED BY <1>3, <1>4, <2>2, <3>2, <4>1, TickIs
    <3>9. Sound(u, g) /\ Driven(u, g)
      BY <1>3, <1>4, <1>6, <1>10, <2>2, <2>9, <3>2, <3>8, ProbeEnds DEF Driven, Ticked
    <3>10. Announced(u, t, p) /\ u.ann[p].st = "ANNOUNCING"
      BY <3>2, <3>4, <3>8, AnnounceIs DEF Ticked
    <3>11. OnlyGroup(u, t, g) /\ Sound(t, g) /\ Driven(t, g) /\ t.live = u.live
      BY <1>3, <3>8, <3>9, <3>10, AnnounceKeeps DEF Ticked
    <3>12. OnlyGroup(s, t, g) /\ t.live = s.live /\ t \in AvahiState
      BY <3>8, <3>10, <3>11, OnlyIsTransitive DEF Ticked, Announced
    <3>13. Whole(t) /\ SameWorld(s, t)
      BY <1>3, <1>4, <3>11, <3>12, GroupStep, AddressesSame
    <3> QED BY <1>4, <3>5, <3>13, UprightSame, DoesIs
  <2> QED BY <2>7, <2>8, <2>9
<1>11. a.st = "ANNOUNCING" \/ a.st = "PROBING"
  BY <1>5, <1>6 DEF Elapse
<1> QED BY <1>7, <1>8, <1>9, <1>10, <1>11, AvahiAssumption

-------------------------------------------------------------------------------
(* Timers of groups; other hosts.                                             *)

\* What no counter, record or announcer takes part in.
LEMMA QuietStep ==
  ASSUME NEW s, Upright(s), NEW t, Quietly(s, t), t.ver["srv"] \in 0 .. t.events, Does(t)
  PROVE  Upright(avahi')
<1>1. Upright(t)
  BY QuietlyIs DEF Upright
<1> QED BY <1>1, DoesIs

LEMMA HoldoffElapsesKeeps ==
  ASSUME Upright(avahi), NEW g \in Group, HoldoffElapses(g)
  PROVE  Upright(avahi')
<1>1. PICK s : s = Now
  OBVIOUS
<1>2. Upright(s) /\ Whole(s) /\ Good(s) /\ s \in AvahiState /\ Sound(s, g) /\ s.timer = avahi.timer
  BY <1>1, NowIs DEF Upright, Whole, Good, SameRest, Quietly
<1>3. PICK timer : timer = [s.timer EXCEPT ![g] = FALSE]
  OBVIOUS
<1>4. PICK u : u = [s EXCEPT !.timer = timer]
  OBVIOUS
<1>5. PICK t : t = CommitReal(u, g, Callback)
  OBVIOUS
<1>6. Does(t)
  <2>1. u = [s EXCEPT !.timer[g] = FALSE]
    BY <1>3, <1>4
  <2> QED BY <1>1, <1>5, <2>1 DEF HoldoffElapses
<1>7. s.timer[g] /\ s.state[g] = "REGISTERING"
  BY <1>2 DEF HoldoffElapses, Sound
<1>8. /\ timer \in [Group -> BOOLEAN] /\ timer[g] = FALSE
      /\ \A h \in Group : h # g => timer[h] = s.timer[h]
  BY <1>2, <1>3 DEF AvahiState
<1>9. u \in AvahiState
  BY <1>2, <1>4, <1>8 DEF AvahiState
<1>10. /\ u.timer = timer /\ u.state = s.state /\ u.n_probing = s.n_probing /\ u.ann = s.ann
       /\ u.live = s.live /\ u.announcing = s.announcing /\ SameWorld(s, u) /\ SameHost(s, u)
  BY <1>2, <1>4 DEF AvahiState, SameWorld, SameHost
<1>11. OnlyGroup(s, u, g)
  <2>1. ASSUME NEW h \in Group, h # g PROVE SameGroup(s, u, h)
    BY <1>8, <1>10, <2>1 DEF SameGroup
  <2> QED BY <1>10, <2>1 DEF OnlyGroup
<1>12. Filled(u, g)
  <2>1. Founded(u, g) /\ ServedLate(u, g) /\ Bounded(u, g) /\ Covered(u, g)
    BY <1>2, <1>10 DEF Sound, Founded, ServedLate, Bounded, Covered, Probes
  <2>2. \A e \in Entries(g) : e \in u.live
    BY <1>2, <1>7, <1>10, Names DEF Sound, Committed
  <2> QED BY <1>7, <1>8, <1>9, <1>10, <2>1, <2>2 DEF Filled
<1>13. CASE g = "svc"
  <2>1. t = CommitReal(u, g, Ignore)
    BY <1>5, <1>13, ServiceIgnores
  <2>2. Going(u, t, g)
    BY <1>12, <2>1, CommitRealAlone
  <2>3. OnlyGroup(s, t, g)
    BY <1>11, <2>2, OnlyIsTransitive DEF Going
  <2>4. Whole(t) /\ SameWorld(s, t)
    BY <1>2, <1>13, <2>2, <2>3, ServiceStep DEF Going
  <2> QED BY <1>2, <1>6, <2>4, UprightSame, DoesIs
<1>14. CASE g \in Address
  <2>1. t = CommitReal(u, g, HostRegistered)
    BY <1>5, <1>14, HostHears
  <2>2. Nearly(u, g)
    BY <1>2, <1>9, <1>11, GoodIsNearly, NearlyStep
  <2>3. Wanted(u, g)
    <3>1. g \in s.live
      BY <1>10, <1>12, <1>14, Names DEF Filled
    <3>2. Wanted(s, g)
      BY <1>2, <1>14, <3>1 DEF Whole, Exact
    <3> QED BY <1>10, <1>14, <3>2, WantedSame DEF SameHost, Publishes
  <2>4. Advanced(u, t)
    BY <1>7, <1>10, <1>12, <1>14, <2>1, <2>2, <2>3, CommitRealHost
  <2>5. Counts(u) /\ Exact(u)
    <3>1. Counts(u)
      BY <1>2, <1>10 DEF Whole, Counts, SameHost
    <3> QED BY <1>2, <1>10, <3>1, AddressesSame, ExactSame DEF Whole
  <2>6. Onward(u, t) /\ Counts(t)
    BY <2>4, <2>5, AdvancedIs
  <2>7. Exact(t)
    BY <2>5, <2>6, OnwardWanted, ExactIs
  <2>8. Whole(t) /\ SameWorld(s, t)
    BY <1>10, <2>6, <2>7 DEF Whole, Onward, Elsewhere, SameWorld
  <2> QED BY <1>2, <1>6, <2>8, UprightSame, DoesIs
<1> QED BY <1>13, <1>14 DEF Group

LEMMA TimePassesKeeps ==
  ASSUME Upright(avahi), NEW g \in Group, TimePasses(g)
  PROVE  Upright(avahi')
<1>1. PICK s : s = Now
  OBVIOUS
<1>2. Upright(s) /\ s \in AvahiState /\ s.ver["srv"] \in 0 .. s.events
  BY <1>1, NowIs DEF Upright, Whole, Good
<1>3. PICK recent : recent = [s.recent EXCEPT ![g] = FALSE]
  OBVIOUS
<1>4. PICK t : t = [s EXCEPT !.recent = recent]
  OBVIOUS
<1>5. recent \in [Group -> BOOLEAN]
  BY <1>2, <1>3 DEF AvahiState
<1>6. t \in AvahiState
  BY <1>2, <1>4, <1>5 DEF AvahiState
<1>7. Quietly(s, t) /\ t.ver = s.ver /\ t.events = s.events
  BY <1>2, <1>4, <1>6 DEF AvahiState, Quietly, SameHost
<1>8. Does(t)
  BY <1>1, <1>3, <1>4 DEF TimePasses
<1> QED BY <1>2, <1>7, <1>8, QuietStep

LEMMA ConflictKeeps ==
  ASSUME Upright(avahi), MayHappen, NEW e \in Entry, NEW i \in Iface, Conflict(e, i)
  PROVE  Upright(avahi')
<1>1. PICK s : s = Happens
  OBVIOUS
<1>2. Upright(s) /\ s \in AvahiState /\ s.ann = avahi.ann
  BY <1>1, HappensIs DEF Upright, Whole, Good, SameRest, Quietly
<1>3. PICK here : here = SameKey(avahi, e)
  OBVIOUS
<1>4. PICK heard : heard = [s.heard EXCEPT ![i] = {x \in @ : x[1] \notin here}]
  OBVIOUS
<1>20. PICK stale : stale = [s.stale EXCEPT ![i] = {x \in @ : x[1] \notin here}]
  OBVIOUS
<1>5. PICK u : u = [s EXCEPT !.heard = heard, !.stale = stale]
  OBVIOUS
<1>6. heard \in [Iface -> SUBSET (Entry \X Version)] /\ stale \in [Iface -> SUBSET (Entry \X Version)]
  BY <1>2, <1>4, <1>20 DEF AvahiState
<1>7. u \in AvahiState
  BY <1>2, <1>5, <1>6 DEF AvahiState
<1>8. Quietly(s, u) /\ u.ver = s.ver /\ u.events = s.events
  BY <1>2, <1>5, <1>7 DEF AvahiState, Quietly, SameHost
<1>9. Upright(u) /\ Whole(u)
  BY <1>2, <1>8, QuietlyIs DEF Upright
<1>10. CASE Does(WithdrawRrset(u, e))
  <2>1. PICK t : t = WithdrawRrset(u, e)
    OBVIOUS
  <2>2. Whole(t) /\ SameWorld(u, t)
    BY <1>9, <2>1, WithdrawRrsetIs
  <2> QED BY <1>9, <1>10, <2>1, <2>2, UprightSame, DoesIs
<1>11. CASE \E f \in here : Registered(avahi, <<f, i>>) /\ Does(ReturnToInitial(u, <<f, i>>))
  <2>1. PICK f \in here : Registered(avahi, <<f, i>>) /\ Does(ReturnToInitial(u, <<f, i>>))
    BY <1>11
  <2>2. PICK p : p = <<f, i>>
    OBVIOUS
  <2>3. f \in avahi.live /\ avahi.live \subseteq Entry
    BY <1>3, <2>1 DEF SameKey, Upright, Whole, Good, AvahiState
  <2>4. p \in Pair
    BY <2>2, <2>3, Names
  <2>5. u.ann[p].st # "PROBING"
    BY <1>2, <1>8, <2>1, <2>2 DEF Registered, Quietly
  <2>6. PICK t : t = ReturnToInitial(u, p)
    OBVIOUS
  <2>7. Whole(t) /\ SameWorld(u, t)
    BY <1>9, <2>4, <2>5, <2>6, ReturnIs
  <2> QED BY <1>9, <2>1, <2>2, <2>6, <2>7, UprightSame, DoesIs
<1>12. u = [s EXCEPT !.heard[i] = {x \in @ : x[1] \notin here},
                     !.stale[i] = {x \in @ : x[1] \notin here}]
  BY <1>4, <1>5, <1>20
<1> QED BY <1>1, <1>3, <1>10, <1>11, <1>12 DEF Conflict

LEMMA IncomingProbeKeeps ==
  ASSUME Upright(avahi), MayHappen, NEW e \in Entry, NEW i \in Iface, NEW above \in SUBSET Entry,
         IncomingProbe(e, i, above)
  PROVE  Upright(avahi')
<1>1. PICK s : s = Happens
  OBVIOUS
<1>2. Upright(s) /\ Whole(s)
  BY <1>1, HappensIs DEF Upright
<1>3. PICK t : t = WithdrawRrset(s, e)
  OBVIOUS
<1>4. Whole(t) /\ SameWorld(s, t)
  BY <1>2, <1>3, WithdrawRrsetIs
<1>5. Does(t)
  BY <1>1, <1>3 DEF IncomingProbe
<1> QED BY <1>2, <1>4, <1>5, UprightSame, DoesIs

-------------------------------------------------------------------------------
(* The application; the beginning.                                            *)

LEMMA PublishKeeps ==
  ASSUME Upright(avahi), Publish
  PROVE  Upright(avahi')
<1>1. PICK n : n = Now
  OBVIOUS
<1>2. Upright(n) /\ n \in AvahiState
  BY <1>1, NowIs DEF Upright, Whole, Good
<1>3. PICK s : s = [n EXCEPT !.published = TRUE]
  OBVIOUS
<1>4. s \in AvahiState
  BY <1>2, <1>3 DEF AvahiState
<1>5. Quietly(n, s) /\ s.ver = n.ver /\ s.events = n.events
  BY <1>2, <1>3, <1>4 DEF AvahiState, Quietly, SameHost
<1>6. Upright(s) /\ Whole(s) /\ Sound(s, "svc")
  BY <1>2, <1>5, QuietlyIs, Names DEF Upright, Whole, Good
<1>7. PICK live \in SUBSET Entry : live = s.live \cup Entries("svc")
  BY <1>4, Names DEF AvahiState
<1>8. PICK u : u = AddService(s)
  OBVIOUS
<1>9. u = [s EXCEPT !.live = live]
  BY <1>4, <1>7, <1>8 DEF AddService, AddRecords, AvahiState
<1>10. u \in AvahiState
  BY <1>4, <1>9 DEF AvahiState
<1>11. /\ u.live = live /\ u.state = s.state /\ u.timer = s.timer /\ u.n_probing = s.n_probing
       /\ u.ann = s.ann /\ u.announcing = s.announcing /\ u.events = s.events /\ u.ver = s.ver
       /\ SameWorld(s, u) /\ SameHost(s, u)
       /\ u.present = s.present /\ u.list_complete = s.list_complete /\ u.flags_ok = s.flags_ok
  BY <1>4, <1>9 DEF AvahiState, SameWorld, SameHost
<1>12. PICK t : t = Commit(u, "svc", Callback)
  OBVIOUS
<1>13. Does(t)
  BY <1>1, <1>3, <1>8, <1>12 DEF Publish
<1>14. t = Commit(u, "svc", Ignore)
  BY <1>12, ServiceIgnores
<1>15. CASE s.state["svc"] \in {"UNCOMMITED", "COLLISION"}
  <2>1. OnlyGroup(s, u, "svc")
    <3>1. ASSUME NEW h \in Group, h # "svc" PROVE SameGroup(s, u, h)
      <4>1. \A e \in Entries(h) : e \notin Entries("svc")
        BY <3>1, Names
      <4> QED BY <1>7, <1>11, <4>1 DEF SameGroup
    <3> QED BY <1>11, <3>1 DEF OnlyGroup
  <2>2. Filled(u, "svc")
    <3>1. Founded(u, "svc") /\ ServedLate(u, "svc") /\ Bounded(u, "svc") /\ Covered(u, "svc")
      BY <1>6, <1>7, <1>11 DEF Sound, Founded, ServedLate, Bounded, Covered, Probes
    <3>2. u.timer["svc"] = FALSE
      BY <1>4, <1>6, <1>11, <1>15, Names DEF Sound, AvahiState
    <3> QED BY <1>7, <1>10, <1>11, <1>15, <3>1, <3>2 DEF Filled
  <2>3. Going(u, t, "svc")
    BY <1>11, <1>14, <1>15, <2>2, Names, CommitAlone
  <2>4. OnlyGroup(s, t, "svc")
    BY <2>1, <2>3, OnlyIsTransitive DEF Going
  <2>5. Whole(t) /\ SameWorld(s, t)
    BY <1>6, <2>3, <2>4, ServiceStep DEF Going
  <2> QED BY <1>6, <1>13, <2>5, UprightSame, DoesIs
<1>16. CASE s.state["svc"] \notin {"UNCOMMITED", "COLLISION"}
  <2>1. t = u
    BY <1>11, <1>14, <1>16 DEF Commit, Commits
  <2>2. \A e \in Entries("svc") : e \in s.live
    BY <1>4, <1>6, <1>16, Names DEF Sound, Committed, AvahiState, GroupState
  <2>3. u.live = s.live
    BY <1>7, <1>11, <2>2
  <2>4. Quietly(s, u)
    BY <1>10, <1>11, <2>3 DEF Quietly
  <2>5. Upright(u)
    BY <1>6, <1>11, <2>4, QuietlyIs DEF Upright
  <2> QED BY <1>13, <2>1, <2>5, DoesIs
<1> QED BY <1>15, <1>16

LEMMA UnpublishKeeps ==
  ASSUME Upright(avahi), MayHappen, Unpublish
  PROVE  Upright(avahi')
<1>1. PICK s : s = Happens
  OBVIOUS
<1>2. Upright(s) /\ Whole(s) /\ s \in AvahiState /\ Sound(s, "svc")
  BY <1>1, HappensIs, Names DEF Upright, Whole, Good
<1>3. PICK u : u = FreeGroup(s, "svc")
  OBVIOUS
<1>4. u \in AvahiState /\ OnlyGroup(s, u, "svc") /\ Sound(u, "svc") /\ Driven(u, "svc")
  BY <1>2, <1>3, FreeIs, Names
<1>5. Upright(u)
  BY <1>2, <1>4, ServiceStep, UprightSame
<1>6. PICK t : t = [u EXCEPT !.published = FALSE]
  OBVIOUS
<1>7. t \in AvahiState
  BY <1>4, <1>6 DEF AvahiState
<1>8. Quietly(u, t) /\ t.ver = u.ver /\ t.events = u.events
  BY <1>4, <1>6, <1>7 DEF AvahiState, Quietly, SameHost
<1>9. Does(t)
  BY <1>1, <1>3, <1>6 DEF Unpublish
<1> QED BY <1>5, <1>8, <1>9, QuietStep DEF Upright

LEMMA UpdateTxtKeeps ==
  ASSUME Upright(avahi), MayHappen, UpdateTxt
  PROVE  Upright(avahi')
<1>1. PICK n : n = Happens
  OBVIOUS
<1>2. Upright(n) /\ Whole(n) /\ n \in AvahiState /\ n.ver = avahi.ver /\ n.events = avahi.events + 1
  BY <1>1, HappensIs DEF Upright, Whole, Good, SameRest
<1>3. "srv" \in Entry /\ avahi.ver["srv"] \in 0 .. avahi.events /\ n.events \in 0 .. MaxEvents
      /\ avahi.events \in Nat
  BY <1>2 DEF Entry, Upright, Whole, Good, AvahiState
<1>4. PICK k : k = avahi.ver["srv"] + 1
  OBVIOUS
<1>5. k \in 0 .. n.events /\ k \in Version
  BY <1>2, <1>3, <1>4, AvahiAssumption DEF Version
<1>6. PICK ver : ver = [n.ver EXCEPT !["srv"] = k]
  OBVIOUS
<1>7. ver \in [Entry -> Version] /\ ver["srv"] = k
  BY <1>2, <1>3, <1>5, <1>6 DEF AvahiState
<1>8. PICK s : s = [n EXCEPT !.ver = ver]
  OBVIOUS
<1>9. s \in AvahiState
  BY <1>2, <1>7, <1>8 DEF AvahiState
<1>10. Quietly(n, s) /\ s.ver = ver /\ s.events = n.events
  BY <1>2, <1>8, <1>9 DEF AvahiState, Quietly, SameHost
<1>11. Upright(s) /\ Whole(s)
  BY <1>2, <1>5, <1>7, <1>10, QuietlyIs DEF Upright
<1>12. s = [n EXCEPT !.ver["srv"] = @ + 1]
  BY <1>2, <1>4, <1>6, <1>8
<1>13. CASE s.state["svc"] = "UNCOMMITED"
  <2>1. Does(s)
    BY <1>1, <1>12, <1>13 DEF UpdateTxt
  <2> QED BY <1>11, <2>1, DoesIs
<1>14. CASE s.state["svc"] # "UNCOMMITED"
  <2>1. PICK t : t = Reannounce(s, "srv")
    OBVIOUS
  <2>2. Does(t)
    BY <1>1, <1>12, <1>14, <2>1 DEF UpdateTxt
  <2>3. Whole(t) /\ SameWorld(s, t)
    BY <1>3, <1>11, <2>1, ReannounceIs
  <2> QED BY <1>11, <2>2, <2>3, UprightSame, DoesIs
<1> QED BY <1>13, <1>14

LEMMA InitIs == Init => Upright(avahi)
<1> SUFFICES ASSUME Init PROVE Upright(avahi)
  OBVIOUS
<1>1. PICK h : h = CHOOSE x \in HostName : TRUE
  OBVIOUS
<1>2. h \in HostName
  BY <1>1, AvahiAssumption
<1>3. avahi = [live |-> {}, ver |-> [e \in Entry |-> 0], ann |-> [p \in Pair |-> NoAnnouncer],
             state |-> [g \in Group |-> "UNCOMMITED"], n_probing |-> [g \in Group |-> 0],
             timer |-> [g \in Group |-> FALSE], recent |-> [g \in Group |-> FALSE],
             announcing |-> [i \in Iface |-> FALSE], flags_ok |-> [i \in Iface |-> TRUE],
             present |-> Address, list_complete |-> FALSE, server |-> "INVALID", pending |-> 0,
             hostName |-> h, published |-> FALSE, ready |-> FALSE,
             told |-> <<>>, events |-> 0,
             heard |-> [i \in Iface |-> {}], stale |-> [i \in Iface |-> {}]]
  BY <1>1 DEF Init
<1>4. avahi \in AvahiState
  <2>1. 0 \in Version /\ 0 \in 0 .. MaxEvents
    BY AvahiAssumption DEF Version
  <2>2. "UNCOMMITED" \in GroupState /\ "INVALID" \in ServerState /\ 0 \in Counter /\ <<>> \in Seq(ServerState)
    BY DEF GroupState, ServerState, Counter
  <2>3. /\ {} \in SUBSET Entry /\ [e \in Entry |-> 0] \in [Entry -> Version]
        /\ [p \in Pair |-> NoAnnouncer] \in [Pair -> AnnType]
        /\ [g \in Group |-> "UNCOMMITED"] \in [Group -> GroupState] /\ [g \in Group |-> 0] \in [Group -> Int]
        /\ [g \in Group |-> FALSE] \in [Group -> BOOLEAN]
        /\ [i \in Iface |-> FALSE] \in [Iface -> BOOLEAN] /\ [i \in Iface |-> TRUE] \in [Iface -> BOOLEAN]
        /\ Address \in SUBSET Address /\ [i \in Iface |-> {}] \in [Iface -> SUBSET (Entry \X Version)]
    BY <2>1, <2>2 DEF AnnType
  <2> QED
    <3> DEFINE ver == [e \in Entry |-> 0]
               ann == [p \in Pair |-> NoAnnouncer]
               st == [g \in Group |-> "UNCOMMITED"]
               cn == [g \in Group |-> 0]
               off == [g \in Group |-> FALSE]
               down == [i \in Iface |-> FALSE]
               up == [i \in Iface |-> TRUE]
               hd == [i \in Iface |-> {}]
               es == <<>>
    <3>1. avahi = [live |-> {}, ver |-> ver, ann |-> ann, state |-> st, n_probing |-> cn,
             timer |-> off, recent |-> off, announcing |-> down, flags_ok |-> up,
             present |-> Address, list_complete |-> FALSE, server |-> "INVALID", pending |-> 0,
             hostName |-> h, published |-> FALSE, ready |-> FALSE,
             told |-> es, events |-> 0, heard |-> hd, stale |-> hd]
      BY <1>3
    <3>2. /\ ver \in [Entry -> Version] /\ ann \in [Pair -> AnnType] /\ st \in [Group -> GroupState]
          /\ cn \in [Group -> Int] /\ off \in [Group -> BOOLEAN] /\ down \in [Iface -> BOOLEAN]
          /\ up \in [Iface -> BOOLEAN] /\ hd \in [Iface -> SUBSET (Entry \X Version)]
          /\ es \in Seq(ServerState)
      BY <2>2, <2>3
    <3> HIDE DEF ver, ann, st, cn, off, down, up, hd, es
    <3> QED BY <1>2, <2>1, <2>2, <2>3, <3>1, <3>2 DEF AvahiState
<1>5. ASSUME NEW g \in Group PROVE Sound(avahi, g) /\ Driven(avahi, g)
  <2>1. \A p \in PairsOf(g) : avahi.ann[p] = NoAnnouncer /\ avahi.ann[p].st = "none" /\ avahi.ann[p].n = 0
    BY <1>3, AnnIs DEF PairsOf
  <2>2. Probes(avahi, g) = {}
    BY <2>1 DEF Probes
  <2>3. Covered(avahi, g)
    <3>1. avahi.n_probing[g] = 0
      BY <1>3
    <3>2. Cardinality(Probes(avahi, g)) = 0
      BY <2>2, FS_EmptySet
    <3> QED BY <3>1, <3>2 DEF Covered
  <2>4. Founded(avahi, g) /\ ServedLate(avahi, g)
    BY <2>1 DEF Founded, ServedLate
  <2>5. Bounded(avahi, g)
    BY <2>1, AvahiAssumption DEF Bounded
  <2>6. \A e \in Entries(g) : e \notin avahi.live /\ ~Committed(avahi, e)
    BY <1>3, Names DEF Committed
  <2> QED BY <1>3, <2>3, <2>4, <2>5, <2>6 DEF Sound, Driven
<1>6. Exact(avahi)
  BY <1>3 DEF Exact, Wanted
<1>7. Counts(avahi) /\ avahi.ver["srv"] \in 0 .. avahi.events
  BY <1>3 DEF Counts, Entry
<1>8. \A a \in Address : a \notin avahi.live
  BY <1>3
<1> QED BY <1>4, <1>5, <1>6, <1>7, <1>8 DEF Upright, Whole, Good

-------------------------------------------------------------------------------
(* The results.                                                               *)

\* One lemma per event: each leaves the record upright.
LEMMA NextKeeps == Upright(avahi) /\ [Next]_vars => Upright(avahi')
<1> SUFFICES ASSUME Upright(avahi), [Next]_vars PROVE Upright(avahi')
  OBVIOUS
<1>1. CASE ServerNew
  BY <1>1, ServerNewKeeps
<1>2. CASE \E joins \in [Iface -> BOOLEAN] : ListComplete(joins)
  BY <1>2, ListCompleteKeeps
<1>3. CASE Publish
  BY <1>3, PublishKeeps
<1>4. CASE Timer
  <2>1. CASE \E p \in Pair : Elapse(p)
    BY <2>1, ElapseKeeps
  <2>2. CASE \E g \in Group : HoldoffElapses(g)
    BY <2>2, HoldoffElapsesKeeps
  <2>3. CASE \E g \in Group : TimePasses(g)
    BY <2>3, TimePassesKeeps
  <2> QED BY <1>4, <2>1, <2>2, <2>3 DEF Timer
<1>5. CASE MayHappen /\ Kernel
  <2>1. CASE \E i \in Iface, joins \in BOOLEAN, ok \in BOOLEAN : NewLink(i, ok, joins)
    BY <1>5, <2>1, NewLinkKeeps
  <2>2. CASE \E a \in Address, joins \in BOOLEAN : NewAddr(a, joins)
    BY <1>5, <2>2, NewAddrKeeps
  <2>3. CASE \E a \in Address, joins \in BOOLEAN : DelAddr(a, joins)
    BY <1>5, <2>3, DelAddrKeeps
  <2>4. CASE \E i \in Iface : DelLink(i)
    BY <1>5, <2>4, DelLinkKeeps
  <2> QED BY <1>5, <2>1, <2>2, <2>3, <2>4 DEF Kernel
<1>6. CASE MayHappen /\ Network
  <2>1. PICK e \in Entry, i \in Iface :
          Conflict(e, i) \/ \E above \in SUBSET Entry : IncomingProbe(e, i, above)
    BY <1>6 DEF Network
  <2> QED BY <1>6, <2>1, ConflictKeeps, IncomingProbeKeeps
<1>7. CASE MayHappen /\ Application
  <2>1. CASE Unpublish
    BY <1>7, <2>1, UnpublishKeeps
  <2>2. CASE UpdateTxt
    BY <1>7, <2>2, UpdateTxtKeeps
  <2>3. CASE \E h \in HostName : SetHostName(h)
    BY <1>7, <2>3, SetHostNameKeeps
  <2> QED BY <1>7, <2>1, <2>2, <2>3 DEF Application
<1>8. CASE UNCHANGED vars
  BY <1>8 DEF vars
<1> QED BY <1>1, <1>2, <1>3, <1>4, <1>5, <1>6, <1>7, <1>8 DEF Next

\* Whatever events came in whatever order, no chain of callbacks has left the
\* registrations, the groups and the addresses out of step.
THEOREM AlwaysUpright == Spec => []Upright(avahi)
<1>1. Upright(avahi) /\ [Next]_vars => Upright(avahi)'
  BY NextKeeps
<1> QED BY <1>1, InitIs, PTL DEF Spec

LEMMA UprightRegisters == Upright(avahi) => RegistrationsKept
<1> SUFFICES ASSUME Upright(avahi) PROVE RegistrationsKept
  OBVIOUS
<1>1. avahi \in AvahiState /\ Exact(avahi) /\ avahi.pending \in Nat
      /\ (avahi.server = "REGISTERING" => avahi.pending > 0)
  BY DEF Upright, Whole, Good, Counts
<1>2. ASSUME NEW g \in Group
      PROVE  /\ Sound(avahi, g) /\ Driven(avahi, g)
             /\ ProbingOf(g) \in Nat /\ avahi.n_probing[g] \in Nat /\ avahi.n_probing[g] >= ProbingOf(g)
  <2>1. Sound(avahi, g) /\ Driven(avahi, g)
    BY DEF Upright, Whole, Good
  <2>2. ProbingOf(g) = Cardinality(Probes(avahi, g))
    <3>1. Probes(avahi, g) = {p \in Pair : Of(p[1]) = g /\ avahi.ann[p].st = "PROBING"}
      BY DEF Probes, PairsOf
    <3> QED BY <3>1 DEF ProbingOf
  <2>3. Cardinality(Probes(avahi, g)) \in Nat
    <3>1. Probes(avahi, g) \in SUBSET Pair
      BY DEF Probes, PairsOf
    <3> QED BY <3>1, SubsetCounts
  <2>4. avahi.n_probing[g] \in Int
    BY <1>1 DEF AvahiState
  <2> QED BY <2>1, <2>2, <2>3, <2>4 DEF Sound, Covered
<1>3. ASSUME NEW p \in Pair
      PROVE  /\ avahi.ann[p].st \in AnnouncerState /\ avahi.ann[p].n \in 0 .. Iterations
             /\ IsUnique(p[1]) /\ Registered(avahi, p) => avahi.state[Of(p[1])] = "ESTABLISHED"
  <2>1. Of(p[1]) \in Group /\ p \in PairsOf(Of(p[1]))
    BY Names DEF PairsOf
  <2>2. Sound(avahi, Of(p[1]))
    BY <1>2, <2>1
  <2>3. avahi.ann[p].st \in AnnouncerState /\ avahi.ann[p].n \in Nat
    BY <1>1, AnnIs
  <2>4. avahi.ann[p].n <= Iterations
    BY <2>1, <2>2 DEF Sound, Bounded
  <2>5. ServedLate(avahi, Of(p[1]))
    BY <2>2 DEF Sound
  <2> QED BY <2>1, <2>3, <2>4, <2>5, AvahiAssumption DEF ServedLate, Registered
<1>4. AvahiTypeOK
  <2>1. avahi.n_probing \in [Group -> Nat]
    BY <1>1, <1>2 DEF AvahiState
  <2> QED BY <1>1, <1>3, <2>1 DEF AvahiState, AvahiTypeOK
<1>5. ServedAfterProbe
  BY <1>3 DEF ServedAfterProbe
<1>6. ProbesCounted
  BY <1>2 DEF ProbesCounted, Driven
<1>7. PendingCounted
  BY <1>1 DEF PendingCounted
<1>8. PublishedIsWanted
  BY <1>1 DEF PublishedIsWanted, Exact
<1> QED BY <1>4, <1>5, <1>6, <1>7, <1>8 DEF RegistrationsKept

\* Every counter that lets a group or the server out of registering agrees
\* with what is under way, and no unique record is announced or answered before
\* its group is established, and the addresses published are exactly those that
\* should be, in every state the publishing half reaches.
THEOREM CountersAreRight == Spec => []RegistrationsKept
BY AlwaysUpright, UprightRegisters, PTL

-------------------------------------------------------------------------------
(* What listeners hold, and that nothing is left undone.  Shown holds after    *)
(* every call that an event is made of, whatever the callbacks do, so that an  *)
(* event keeps it because each of its calls does.  I are the interfaces whose  *)
(* announcers are all there, and X the groups of which some may wait although  *)
(* their group is established: those whose callback is running.                *)

Rooted(s) == \A e \in Entry : Committed(s, e) => e \in s.live
Linked(s) == \A p \in Pair : s.ann[p] # NoAnnouncer =>
    p[1] \in s.live /\ Match(p) /\ s.announcing[p[2]] /\ Committed(s, p[1])
Waits(s, X) == \A p \in Pair : s.ann[p].st = "WAITING" =>
    Of(p[1]) \in X \/ s.state[Of(p[1])] = "REGISTERING"
Told(s) == \A p \in Pair : s.ann[p].st = "ESTABLISHED" /\ Alone(p) =>
    <<p[1], s.ver[p[1]]>> \in s.heard[p[2]]
\* x is what some listener on i holds.
Backed(s, i, x) ==
    /\ x[1] # "srv" => x[2] = s.ver[x[1]]
    /\ x[1] = "srv" => x[2] \in 0 .. s.ver["srv"]
    /\ x[2] = s.ver[x[1]] =>
          Registered(s, <<x[1], i>>) /\ s.announcing[i] /\ Match(<<x[1], i>>)
Taken(s, I) == \A i \in I : \A x \in s.heard[i] : Backed(s, i, x)
\* The application's group is never registered again so soon that it has to wait.
Unhurried(s, X) ==
    /\ s.timer["svc"] = FALSE /\ s.ver["srv"] \in Nat
    /\ "svc" \in X \/ s.state["svc"] \in {"REGISTERING", "ESTABLISHED"}
          \/ (s.state["svc"] = "UNCOMMITED" /\ s.recent["svc"] = FALSE)
\* Every pair of C that should have an announcer has one, but for those of a
\* group that waits for its timer.
Owed(s, p) == Match(p) /\ s.announcing[p[2]] /\ Committed(s, p[1])
Manned(s, C) == \A p \in C : Owed(s, p) /\ ~s.timer[Of(p[1])] => s.ann[p] # NoAnnouncer
Full(s, g, I) == \A p \in Entries(g) \X I : Owed(s, p) => s.ann[p] # NoAnnouncer

Basis(s, I, X) ==
    Rooted(s) /\ Linked(s) /\ Waits(s, X) /\ Told(s) /\ Taken(s, I) /\ Unhurried(s, X)
Shown(s, I, X) == Basis(s, I, X) /\ Manned(s, Entry \X I)
Shows(I, X) == {s \in AvahiState : Shown(s, I, X)}

LEMMA Fields ==
  ASSUME NEW s \in AvahiState
  PROVE  /\ s.live \subseteq Entry /\ s.ver \in [Entry -> Version] /\ s.ann \in [Pair -> AnnType]
         /\ s.state \in [Group -> GroupState] /\ s.n_probing \in [Group -> Int]
         /\ s.timer \in [Group -> BOOLEAN] /\ s.recent \in [Group -> BOOLEAN]
         /\ s.announcing \in [Iface -> BOOLEAN]
         /\ s.heard \in [Iface -> SUBSET (Entry \X Version)] /\ s.stale \in [Iface -> SUBSET (Entry \X Version)]
BY DEF AvahiState

\* The fields that Shown reads
SameView(s, t) ==
    /\ t.live = s.live /\ t.ver = s.ver /\ t.ann = s.ann /\ t.state = s.state /\ t.timer = s.timer
    /\ t.recent = s.recent /\ t.announcing = s.announcing /\ t.heard = s.heard

LEMMA ViewKeeps ==
  ASSUME NEW I, NEW X, NEW s, NEW t, SameView(s, t)
  PROVE  /\ Basis(s, I, X) => Basis(t, I, X)
         /\ \A C : Manned(s, C) => Manned(t, C)
         /\ \A g : Full(s, g, I) => Full(t, g, I)
<1>1. \A e : Committed(t, e) <=> Committed(s, e)
  BY DEF Committed, SameView
<1>2. \A p : (Registered(t, p) <=> Registered(s, p)) /\ (Owed(t, p) <=> Owed(s, p))
  BY <1>1 DEF Registered, Owed, SameView
<1>3. Taken(s, I) => Taken(t, I)
  BY <1>2 DEF Taken, Backed, SameView
<1>4. Basis(s, I, X) => Basis(t, I, X)
  BY <1>1, <1>3 DEF Basis, Rooted, Linked, Waits, Told, Unhurried, SameView
<1> QED BY <1>2, <1>4 DEF Manned, Full, SameView

LEMMA ShowsSame ==
  ASSUME NEW I, NEW X, NEW s \in Shows(I, X), NEW t \in AvahiState, SameView(s, t)
  PROVE  t \in Shows(I, X)
BY ViewKeeps DEF Shows, Shown

\* Fewer interfaces, or more groups that may wait
LEMMA ShowsLess ==
  ASSUME NEW I, NEW J \in SUBSET I, NEW X, NEW Y, X \subseteq Y
  PROVE  /\ \A s : Basis(s, I, X) => Basis(s, J, Y)
         /\ Shows(I, X) \subseteq Shows(J, Y)
<1>1. \A s : Basis(s, I, X) => Basis(s, J, Y)
  BY DEF Basis, Waits, Taken, Unhurried
<1>2. \A s : Manned(s, Entry \X I) => Manned(s, Entry \X J)
  BY DEF Manned
<1> QED BY <1>1, <1>2 DEF Shows, Shown

-------------------------------------------------------------------------------
(* A group that is withdrawn *)

\* Of group g nothing is left, and no listener holds its present data.
Dropped(s, t, g, I) ==
    /\ t \in AvahiState
    /\ t.live = s.live \ Entries(g) /\ t.ver = s.ver /\ t.announcing = s.announcing
    /\ \A p \in Pair : t.ann[p] = IF Of(p[1]) = g THEN NoAnnouncer ELSE s.ann[p]
    /\ t.state[g] \notin {"REGISTERING", "ESTABLISHED"}
    /\ \A h \in Group : h # g =>
          t.state[h] = s.state[h] /\ t.timer[h] = s.timer[h] /\ t.recent[h] = s.recent[h]
    /\ \A i \in Iface : /\ t.heard[i] \subseteq s.heard[i]
                        /\ \A x \in s.heard[i] : Of(x[1]) # g => x \in t.heard[i]
    /\ \A i \in I : \A x \in t.heard[i] : Of(x[1]) = g => x[2] # s.ver[x[1]]

LEMMA DroppedShows ==
  ASSUME NEW I \in SUBSET Iface, NEW X, NEW g \in Group, NEW s \in Shows(I, X \union {g}),
         NEW t, Dropped(s, t, g, I),
         g = "svc" => t.timer[g] = FALSE,
         g = "svc" => "svc" \in X \/ (t.state[g] = "UNCOMMITED" /\ t.recent[g] = FALSE)
  PROVE  t \in Shows(I, X)
<1> USE DEF Dropped
<1>1. s \in AvahiState /\ t \in AvahiState /\ Basis(s, I, X \union {g}) /\ Manned(s, Entry \X I)
  BY DEF Shows, Shown
<1>2. \A e \in Entry : Committed(t, e) <=> Committed(s, e) /\ Of(e) # g
  BY Names DEF Committed
<1>3. \A p \in Pair : /\ Of(p[1]) = g => t.ann[p] = NoAnnouncer
                      /\ Of(p[1]) # g => t.ann[p] = s.ann[p]
  OBVIOUS
<1>4. \A e \in Entry : e \in t.live <=> e \in s.live /\ Of(e) # g
  BY Names
<1>5. Rooted(t)
  BY <1>1, <1>2, <1>4 DEF Basis, Rooted
<1>6. Linked(t)
  BY <1>1, <1>2, <1>3, <1>4, Names DEF Basis, Linked
<1>7. Waits(t, X)
  BY <1>1, <1>3, Names, AnnIs DEF Basis, Waits
<1>8. Told(t)
  <2>1. SUFFICES ASSUME NEW p \in Pair, t.ann[p].st = "ESTABLISHED", Alone(p)
                 PROVE  <<p[1], t.ver[p[1]]>> \in t.heard[p[2]]
    BY DEF Told
  <2>2. Of(p[1]) # g /\ s.ann[p] = t.ann[p]
    BY <1>3, <2>1, AnnIs
  <2>3. <<p[1], s.ver[p[1]]>> \in s.heard[p[2]] /\ p[2] \in Iface
    BY <1>1, <2>1, <2>2, Names DEF Basis, Told
  <2>4. PICK x : x = <<p[1], s.ver[p[1]]>>
    OBVIOUS
  <2>5. x \in s.heard[p[2]] /\ Of(x[1]) # g
    BY <2>2, <2>3, <2>4
  <2> QED BY <2>3, <2>4, <2>5
<1>9. Taken(t, I)
  <2>1. SUFFICES ASSUME NEW i \in I, NEW x \in t.heard[i] PROVE Backed(t, i, x)
    BY DEF Taken
  <2>2. x \in s.heard[i] /\ x[1] \in Entry /\ i \in Iface
    BY <1>1, Fields
  <2>3. Backed(s, i, x)
    BY <1>1, <2>2 DEF Basis, Taken
  <2>4. Of(x[1]) # g => (Registered(s, <<x[1], i>>) => Registered(t, <<x[1], i>>))
    BY <1>3, <2>2, Names DEF Registered
  <2>5. Of(x[1]) = g => x[2] # t.ver[x[1]]
    OBVIOUS
  <2> QED BY <2>3, <2>4, <2>5 DEF Backed
<1>10. Unhurried(t, X)
  BY <1>1, Names DEF Basis, Unhurried
<1>11. Manned(t, Entry \X I)
  BY <1>1, <1>2, <1>3, Names DEF Manned, Owed, Pair
<1> QED BY <1>1, <1>5, <1>6, <1>7, <1>8, <1>9, <1>10, <1>11 DEF Shows, Shown, Basis

\* What is left of a group once its live records have been killed, and listeners
\* were told, or taken the records from.
Ended(s, t, g, I) ==
    /\ t \in AvahiState
    /\ t.live = s.live \ Entries(g) /\ t.ver = s.ver /\ t.announcing = s.announcing
    /\ \A p \in Pair : t.ann[p] = IF Of(p[1]) = g THEN NoAnnouncer ELSE s.ann[p]
    /\ t.state = s.state /\ t.timer = s.timer /\ t.recent = s.recent
    /\ \A i \in Iface : /\ t.heard[i] \subseteq s.heard[i]
                        /\ \A x \in s.heard[i] : Of(x[1]) # g => x \in t.heard[i]
    /\ \A i \in I : \A x \in t.heard[i] : Of(x[1]) = g => x[2] # s.ver[x[1]]

WithHeard(s, heard, stale) == [s EXCEPT !.heard = heard, !.stale = stale]
Struck(s, E) == [RemoveAnnouncers(s, E \X Iface) EXCEPT !.live = @ \ E]

StruckTo(s, t, g, heard) ==
    /\ t \in AvahiState
    /\ t.live = s.live \ Entries(g) /\ t.ver = s.ver /\ t.announcing = s.announcing
    /\ \A p \in Pair : t.ann[p] = IF Of(p[1]) = g THEN NoAnnouncer ELSE s.ann[p]
    /\ t.state = s.state /\ t.timer = s.timer /\ t.recent = s.recent
    /\ t.heard = heard

LEMMA KillFields ==
  ASSUME NEW s \in AvahiState, NEW g \in Group, Linked(s), NEW u \in AvahiState,
         NEW heard \in [Iface -> SUBSET (Entry \X Version)], NEW stale \in [Iface -> SUBSET (Entry \X Version)],
         u = WithHeard(s, heard, stale),
         NEW t, t = Struck(u, Entries(g) \intersect s.live)
  PROVE  StruckTo(s, t, g, heard)
<1>1. PICK P : P = (Entries(g) \intersect s.live) \X Iface
  OBVIOUS
<1>2. P \in SUBSET Pair
  BY <1>1, Names
<1>3. PICK v : v = RemoveAnnouncers(u, P)
  OBVIOUS
<1>4. /\ v \in AvahiState /\ \A p \in Pair : v.ann[p] = IF p \in P THEN NoAnnouncer ELSE u.ann[p]
      /\ \E ann : v = [u EXCEPT !.ann = ann]
  BY <1>2, <1>3, RemoveKeeps
<1>5. PICK ann : v = [u EXCEPT !.ann = ann]
  BY <1>4
<1>6. /\ u.ann = s.ann /\ v.live = s.live /\ v.ver = s.ver /\ v.announcing = s.announcing
      /\ v.state = s.state /\ v.timer = s.timer /\ v.recent = s.recent /\ v.heard = heard
  BY <1>5 DEF AvahiState, WithHeard
<1>7. PICK live \in SUBSET Entry : live = v.live \ (Entries(g) \intersect s.live)
  BY <1>4, Fields
<1>11. t = WithEntry(v, live, v.ver)
  <2>1. v = [v EXCEPT !.ver = v.ver]
    BY <1>4 DEF AvahiState
  <2> QED BY <1>1, <1>3, <1>4, <1>7, <2>1 DEF WithEntry, AvahiState, Struck
<1>8. /\ t \in AvahiState /\ t.live = s.live \ Entries(g)
  <2>1. v.ver \in [Entry -> Version]
    BY <1>4, Fields
  <2>2. t \in AvahiState /\ t.live = live
    BY <1>4, <1>11, <2>1, EntrySet
  <2> QED BY <1>6, <1>7, <2>2
<1>9. /\ t.ann = v.ann /\ t.ver = v.ver /\ t.announcing = v.announcing /\ t.state = v.state
      /\ t.timer = v.timer /\ t.recent = v.recent /\ t.heard = v.heard
  BY <1>4, <1>11 DEF WithEntry, AvahiState
<1>10. ASSUME NEW p \in Pair PROVE t.ann[p] = IF Of(p[1]) = g THEN NoAnnouncer ELSE s.ann[p]
  <2>1. p \in P => Of(p[1]) = g
    BY <1>1, Names
  <2>2. Of(p[1]) = g /\ s.ann[p] # NoAnnouncer => p \in P
    BY <1>1, Names DEF Linked
  <2> QED BY <1>4, <1>6, <1>9, <2>1, <2>2
<1> QED BY <1>6, <1>8, <1>9, <1>10 DEF StruckTo

LEMMA KillEnds ==
  ASSUME NEW I \in SUBSET Iface, NEW X, NEW s \in Shows(I, X), NEW g \in Group,
         NEW t, t = Kill(s, Entries(g) \intersect s.live, TRUE)
  PROVE  Ended(s, t, g, I)
<1>1. s \in AvahiState /\ Linked(s) /\ Taken(s, I)
  BY DEF Shows, Shown, Basis
<1>2. PICK P : P = (Entries(g) \intersect s.live) \X Iface
  OBVIOUS
<1>3. PICK said : said = {p \in P : s.announcing[p[2]] /\ Match(p) /\ Registered(s, p)}
  OBVIOUS
<1>4. PICK heard : heard = [i \in Iface |->
              s.heard[i] \ {<<p[1], s.ver[p[1]]>> : p \in {q \in said : q[2] = i}}]
  OBVIOUS
<1>20. PICK stale : stale = [i \in Iface |->
              s.stale[i] \ {<<p[1], s.ver[p[1]]>> : p \in {q \in said : q[2] = i}}]
  OBVIOUS
<1>5. PICK u : u = WithHeard(s, heard, stale)
  OBVIOUS
<1>6. heard \in [Iface -> SUBSET (Entry \X Version)] /\ stale \in [Iface -> SUBSET (Entry \X Version)]
  BY <1>1, <1>4, <1>20, Fields
<1>7. u \in AvahiState
  BY <1>1, <1>5, <1>6 DEF AvahiState, WithHeard
<1>8. u = Goodbye(s, P)
  BY <1>3, <1>4, <1>5, <1>20 DEF Goodbye, WithHeard
<1>9. t = Struck(u, Entries(g) \intersect s.live)
  BY <1>2, <1>8 DEF Kill, Struck
<1>10. StruckTo(s, t, g, heard)
  BY <1>1, <1>5, <1>6, <1>7, <1>9, KillFields
<1>11. ASSUME NEW i \in Iface, NEW x \in s.heard[i], Of(x[1]) # g PROVE x \in heard[i]
  <2>1. \A p \in said : Of(p[1]) = g
    BY <1>2, <1>3, Names
  <2> QED BY <1>4, <1>11, <2>1
<1>12. ASSUME NEW i \in I, NEW x \in heard[i], Of(x[1]) = g PROVE x[2] # s.ver[x[1]]
  <2>1. x \in s.heard[i] /\ i \in Iface /\ x[1] \in Entry /\ x = <<x[1], x[2]>>
    BY <1>1, <1>4, Fields
  <2>2. SUFFICES ASSUME x[2] = s.ver[x[1]] PROVE FALSE
    OBVIOUS
  <2>3. Registered(s, <<x[1], i>>) /\ s.announcing[i] /\ Match(<<x[1], i>>)
    BY <1>1, <2>1, <2>2 DEF Taken, Backed
  <2>4. <<x[1], i>> \in Pair /\ s.ann[<<x[1], i>>] # NoAnnouncer
    BY <2>1, <2>3, Names, AnnIs DEF Registered
  <2>5. x[1] \in s.live
    BY <1>1, <2>4 DEF Linked
  <2>6. <<x[1], i>> \in said
    BY <1>2, <1>3, <1>12, <2>1, <2>3, <2>5, Names
  <2>7. x \in {<<p[1], s.ver[p[1]]>> : p \in {q \in said : q[2] = i}}
    BY <2>1, <2>2, <2>6
  <2> QED BY <1>4, <2>1, <2>7
<1>13. \A i \in Iface : heard[i] \subseteq s.heard[i]
  BY <1>4
<1> QED BY <1>10, <1>11, <1>12, <1>13 DEF Ended, StruckTo

LEMMA FreeShows ==
  ASSUME NEW I \in SUBSET Iface, NEW X, NEW g \in Group, NEW s \in Shows(I, X \union {g})
  PROVE  FreeGroup(s, g) \in Shows(I, X)
<1>1. PICK u : u = Kill(s, Entries(g) \intersect s.live, TRUE)
  OBVIOUS
<1>2. Ended(s, u, g, I)
  BY <1>1, KillEnds
<1>3. PICK t : t = FreeGroup(s, g)
  OBVIOUS
<1>4. Dropped(s, t, g, I) /\ t.state[g] = "UNCOMMITED" /\ t.timer[g] = FALSE /\ t.recent[g] = FALSE
  <2>1. PICK n : n = [u.n_probing EXCEPT ![g] = 0]
    OBVIOUS
  <2>2. PICK st : st = [u.state EXCEPT ![g] = "UNCOMMITED"]
    OBVIOUS
  <2>3. PICK tm : tm = [u.timer EXCEPT ![g] = FALSE]
    OBVIOUS
  <2>4. PICK rc : rc = [u.recent EXCEPT ![g] = FALSE]
    OBVIOUS
  <2>5. u \in AvahiState
    BY <1>2 DEF Ended
  <2>6. /\ n \in [Group -> Int] /\ st \in [Group -> GroupState] /\ tm \in [Group -> BOOLEAN]
        /\ rc \in [Group -> BOOLEAN] /\ st[g] = "UNCOMMITED" /\ tm[g] = FALSE /\ rc[g] = FALSE
        /\ \A h \in Group : h # g => /\ st[h] = u.state[h] /\ tm[h] = u.timer[h]
                                     /\ rc[h] = u.recent[h]
    BY <2>1, <2>2, <2>3, <2>4, <2>5, Fields DEF GroupState
  <2>7. t = WithGroup(u, n, st, tm, rc)
    BY <1>1, <1>3, <2>1, <2>2, <2>3, <2>4 DEF FreeGroup, WithGroup
  <2>8. t \in AvahiState /\ t.state = st /\ t.timer = tm /\ t.recent = rc
    BY <2>5, <2>6, <2>7, GroupSet
  <2>9. t.live = u.live /\ t.ver = u.ver /\ t.ann = u.ann /\ t.announcing = u.announcing
        /\ t.heard = u.heard
    BY <2>5, <2>7 DEF WithGroup, AvahiState
  <2> QED BY <1>2, <2>6, <2>8, <2>9 DEF Ended, Dropped
<1> QED BY <1>3, <1>4, DroppedShows

LEMMA ResetShows ==
  ASSUME NEW I \in SUBSET Iface, NEW X, NEW s \in Shows(I, X), NEW a \in Address
  PROVE  Reset(s, a) \in Shows(I, X)
<1>1. PICK u : u = Kill(s, Entries(a) \intersect s.live, TRUE)
  OBVIOUS
<1>2. a \in Group /\ a # "svc" /\ Ended(s, u, a, I) /\ u \in AvahiState
  <2>1. a \in Group /\ a # "svc"
    BY Names
  <2>2. Ended(s, u, a, I)
    BY <1>1, <2>1, KillEnds
  <2> QED BY <2>1, <2>2 DEF Ended
<1>3. PICK n : n = [u.n_probing EXCEPT ![a] = 0]
  OBVIOUS
<1>4. PICK v : v = WithCount(u, n)
  OBVIOUS
<1>5. v \in AvahiState /\ SameView(u, v)
  <2>1. n \in [Group -> Int]
    BY <1>2, <1>3, Fields
  <2>2. v \in AvahiState
    BY <1>2, <1>4, <2>1, CountSet
  <2>3. v = [u EXCEPT !.n_probing = n]
    BY <1>4 DEF WithCount
  <2>4. SameView(u, v)
    BY <1>2, <2>3 DEF SameView, AvahiState
  <2> QED BY <2>2, <2>4
<1>6. PICK t : t = Reset(s, a)
  OBVIOUS
<1>7. t = IF v.state[a] = "UNCOMMITED" THEN v ELSE Entered(v, a, "UNCOMMITED")
  BY <1>1, <1>3, <1>4, <1>6 DEF Reset, ChangeState, WithCount
<1>8. Dropped(s, t, a, I)
  <2>1. CASE v.state[a] = "UNCOMMITED"
    BY <1>2, <1>5, <1>7, <2>1 DEF Ended, Dropped, SameView
  <2>2. CASE v.state[a] # "UNCOMMITED"
    <3>1. "UNCOMMITED" \in GroupState /\ t = Entered(v, a, "UNCOMMITED")
      BY <1>7, <2>2 DEF GroupState
    <3>2. /\ t \in AvahiState /\ t.state[a] = "UNCOMMITED"
          /\ \A h \in Group : h # a => t.state[h] = v.state[h] /\ t.timer[h] = v.timer[h]
      BY <1>2, <1>5, <3>1, EnteredIs DEF OnlyGroup, SameGroup
    <3>3. /\ t.live = v.live /\ t.ver = v.ver /\ t.ann = v.ann /\ t.announcing = v.announcing
          /\ t.heard = v.heard /\ t.recent = v.recent
      BY <1>5, <3>1 DEF Entered, AvahiState
    <3> QED BY <1>2, <1>5, <3>2, <3>3 DEF Ended, Dropped, SameView
  <2> QED BY <2>1, <2>2
<1>9. s \in Shows(I, X \union {a})
  BY ShowsLess
<1> QED BY <1>2, <1>6, <1>8, <1>9, DroppedShows

\* A group withdrawn without goodbyes: what listeners heard of it is stale.
ClearedTo(s, u, g) == \E t \in AvahiState :
    /\ StruckTo(s, t, g, s.heard)
    /\ u \in AvahiState
    /\ u.heard = [i \in Iface |-> {x \in s.heard[i] : Of(x[1]) # g}]
    /\ u.live = t.live /\ u.ver = t.ver /\ u.ann = t.ann
    /\ u.announcing = t.announcing /\ u.state = t.state /\ u.timer = t.timer
    /\ u.recent = t.recent

LEMMA ClearedFields ==
  ASSUME NEW s \in AvahiState, NEW g \in Group, Linked(s)
  PROVE  ClearedTo(s, Cleared(s, g), g)
<1>1. PICK t : t = Kill(s, Entries(g) \intersect s.live, FALSE)
  OBVIOUS
<1>2. StruckTo(s, t, g, s.heard)
  <2>1. /\ s = WithHeard(s, s.heard, s.stale)
        /\ s.heard \in [Iface -> SUBSET (Entry \X Version)] /\ s.stale \in [Iface -> SUBSET (Entry \X Version)]
    BY DEF WithHeard, AvahiState
  <2>2. t = Struck(s, Entries(g) \intersect s.live)
    BY <1>1 DEF Kill, Struck
  <2> QED BY <2>1, <2>2, KillFields
<1>3. t \in AvahiState /\ t.heard = s.heard
  BY <1>2 DEF StruckTo
<1>4. PICK n : n = [t.n_probing EXCEPT ![g] = 0]
  OBVIOUS
<1>5. PICK heard : heard = [i \in Iface |-> {x \in s.heard[i] : Of(x[1]) # g}]
  OBVIOUS
<1>20. PICK stale : stale = [i \in Iface |-> t.stale[i] \union {x \in s.heard[i] : Of(x[1]) = g}]
  OBVIOUS
<1>6. n \in [Group -> Int]
  BY <1>3, <1>4, Fields
<1>7. heard \in [Iface -> SUBSET (Entry \X Version)] /\ stale \in [Iface -> SUBSET (Entry \X Version)]
  BY <1>3, <1>5, <1>20, Fields
<1>8. PICK u : u = [t EXCEPT !.n_probing = n, !.heard = heard, !.stale = stale]
  OBVIOUS
<1>9. u = Cleared(s, g)
  BY <1>1, <1>3, <1>4, <1>5, <1>8, <1>20 DEF Cleared
<1>10. /\ u \in AvahiState /\ u.heard = heard /\ u.live = t.live /\ u.ver = t.ver /\ u.ann = t.ann
       /\ u.announcing = t.announcing /\ u.state = t.state /\ u.timer = t.timer
       /\ u.recent = t.recent
  BY <1>3, <1>6, <1>7, <1>8 DEF AvahiState
<1> QED BY <1>2, <1>3, <1>5, <1>9, <1>10 DEF ClearedTo

LEMMA ClearedShows ==
  ASSUME NEW I \in SUBSET Iface, NEW X, NEW s \in Shows(I, X), NEW g \in Group
  PROVE  /\ Cleared(s, g).state = s.state
         /\ g # "svc" /\ s.state[g] = "COLLISION" => Cleared(s, g) \in Shows(I, X)
         /\ g # "svc" => Entered(Cleared(s, g), g, "COLLISION") \in Shows(I, X)
         /\ Entered(Cleared(s, g), g, "COLLISION") \in Shows(I, X \union {g})
<1>1. s \in AvahiState /\ Linked(s) /\ s.timer["svc"] = FALSE
  BY DEF Shows, Shown, Basis, Unhurried
<1>2. s \in Shows(I, X \union {g})
  BY ShowsLess
<1>3. PICK u : u = Cleared(s, g)
  OBVIOUS
<1>4. ClearedTo(s, u, g)
  BY <1>1, <1>3, ClearedFields
<1>5. PICK t \in AvahiState : /\ StruckTo(s, t, g, s.heard)
         /\ u \in AvahiState
         /\ u.heard = [i \in Iface |-> {x \in s.heard[i] : Of(x[1]) # g}]
         /\ u.live = t.live /\ u.ver = t.ver /\ u.ann = t.ann
         /\ u.announcing = t.announcing /\ u.state = t.state /\ u.timer = t.timer
         /\ u.recent = t.recent
  BY <1>4 DEF ClearedTo
<1>6. \A i \in Iface : /\ u.heard[i] \subseteq s.heard[i]
                       /\ \A x \in s.heard[i] : Of(x[1]) # g => x \in u.heard[i]
                       /\ \A x \in u.heard[i] : Of(x[1]) # g
  BY <1>5
<1>7. u.state = s.state /\ u.timer = s.timer
  BY <1>5 DEF StruckTo
<1>8. s.state[g] = "COLLISION" => Dropped(s, u, g, I)
  BY <1>5, <1>6 DEF StruckTo, Dropped
<1>9. PICK v : v = Entered(u, g, "COLLISION")
  OBVIOUS
<1>10. /\ v \in AvahiState /\ OnlyGroup(u, v, g) /\ v.state[g] = "COLLISION"
       /\ v.timer[g] => u.timer[g]
  <2>1. "COLLISION" \in GroupState
    BY DEF GroupState
  <2> QED BY <1>5, <1>9, <2>1, EnteredIs
<1>11. /\ v.live = u.live /\ v.ver = u.ver /\ v.ann = u.ann /\ v.announcing = u.announcing
       /\ v.heard = u.heard /\ v.recent = u.recent
  BY <1>5, <1>9 DEF Entered, AvahiState
<1>12. \A h \in Group : h # g => v.state[h] = u.state[h] /\ v.timer[h] = u.timer[h]
  BY <1>10 DEF OnlyGroup, SameGroup
<1>13. Dropped(s, v, g, I)
  BY <1>5, <1>6, <1>10, <1>11, <1>12 DEF StruckTo, Dropped
<1>14. g = "svc" => v.timer[g] = FALSE
  <2>1. v.timer[g] \in BOOLEAN
    BY <1>10, Fields
  <2> QED BY <1>1, <1>7, <1>10, <2>1
<1>15. g # "svc" /\ s.state[g] = "COLLISION" => u \in Shows(I, X)
  BY <1>2, <1>8, DroppedShows
<1>16. g # "svc" => v \in Shows(I, X)
  BY <1>2, <1>13, DroppedShows
<1>17. v \in Shows(I, X \union {g})
  <2>1. PICK Y : Y = X \union {g}
    OBVIOUS
  <2>2. s \in Shows(I, Y \union {g}) /\ g \in Y
    BY <1>2, <2>1, Y \union {g} = Y
  <2>4. g = "svc" => "svc" \in Y \/ (v.state[g] = "UNCOMMITED" /\ v.recent[g] = FALSE)
    BY <2>2
  <2>3. v \in Shows(I, Y)
    BY <1>13, <1>14, <2>2, <2>4, DroppedShows
  <2> QED BY <2>1, <2>3
<1> QED BY <1>3, <1>7, <1>9, <1>15, <1>16, <1>17

-------------------------------------------------------------------------------
(* New announcers *)

NewTo(s, t, I, X, C, P) ==
    /\ t \in AvahiState /\ Basis(t, I, X) /\ Manned(t, C \union P)
    /\ t.live = s.live /\ t.state = s.state /\ t.timer = s.timer
    /\ \A p \in P : Owed(t, p) => t.ann[p] # NoAnnouncer

LEMMA NewShows ==
  ASSUME NEW I \in SUBSET Iface, NEW X, NEW C, NEW s \in AvahiState, Basis(s, I, X), Manned(s, C),
         C \subseteq Pair, NEW P \in SUBSET Pair, NEW t, t = NewAnnouncers(s, P)
  PROVE  NewTo(s, t, I, X, C, P)
<1>1. PICK new : new = {p \in P : /\ Match(p) /\ s.announcing[p[2]] /\ p[1] \in s.live
                                  /\ Committed(s, p[1]) /\ s.ann[p] = NoAnnouncer}
  OBVIOUS
<1>2. PICK ann : ann = [p \in Pair |-> IF p \in new THEN Initial(s, p[1]) ELSE s.ann[p]]
  OBVIOUS
<1>3. t.ann = ann /\ t \in AvahiState
  <2>1. t \in AvahiState
    BY NewKeeps
  <2>2. PICK n : t = [s EXCEPT !.ann = ann, !.n_probing = n]
    BY <1>1, <1>2 DEF NewAnnouncers
  <2> QED BY <2>1, <2>2 DEF AvahiState
<1>4. /\ t.live = s.live /\ t.ver = s.ver /\ t.state = s.state /\ t.timer = s.timer
      /\ t.recent = s.recent /\ t.announcing = s.announcing /\ t.heard = s.heard
  BY DEF NewAnnouncers, AvahiState
<1>5. \A e : Committed(t, e) <=> Committed(s, e)
  BY <1>4 DEF Committed
<1>6. \A p \in Pair : /\ p \in new => /\ s.ann[p] = NoAnnouncer /\ t.ann[p] # NoAnnouncer
                                      /\ t.ann[p] = Initial(s, p[1])
                                      /\ t.ann[p].st # "ESTABLISHED"
                                      /\ Owed(s, p) /\ p[1] \in s.live
                      /\ p \notin new => t.ann[p] = s.ann[p]
  BY <1>1, <1>2, <1>3, InitialIs DEF Owed
<1>7. Rooted(t) /\ Unhurried(t, X)
  BY <1>4, <1>5 DEF Basis, Rooted, Unhurried
<1>8. Linked(t)
  BY <1>4, <1>5, <1>6 DEF Basis, Linked, Owed
<1>9. Waits(t, X)
  <2>1. \A p \in new : s.state[Of(p[1])] \in {"REGISTERING", "ESTABLISHED"}
    BY <1>1 DEF Committed
  <2>2. \A p \in new : Initial(s, p[1]).st = "WAITING" => s.state[Of(p[1])] # "ESTABLISHED"
    BY DEF Initial
  <2>3. \A p \in new : t.ann[p] = Initial(s, p[1])
    BY <1>1, <1>6
  <2> QED BY <1>4, <1>6, <2>1, <2>2, <2>3 DEF Basis, Waits
<1>10. Told(t)
  BY <1>4, <1>6 DEF Basis, Told
<1>11. Taken(t, I)
  <2>1. SUFFICES ASSUME NEW i \in I, NEW x \in s.heard[i] PROVE Backed(t, i, x)
    BY <1>4 DEF Taken
  <2>2. x[1] \in Entry /\ i \in Iface /\ <<x[1], i>> \in Pair
    BY Fields, Names
  <2>3. Registered(s, <<x[1], i>>) => Registered(t, <<x[1], i>>)
    BY <1>6, <2>2, AnnIs DEF Registered
  <2> QED BY <1>4, <2>1, <2>3 DEF Basis, Taken, Backed
<1>12. \A p : Owed(t, p) <=> Owed(s, p)
  BY <1>4, <1>5 DEF Owed
<1>13. \A p \in P : Owed(t, p) => t.ann[p] # NoAnnouncer
  <2>1. \A p \in P : Owed(s, p) => p[1] \in s.live
    BY Names DEF Owed, Basis, Rooted
  <2> QED BY <1>1, <1>6, <1>12, <2>1 DEF Owed
<1>14. Manned(t, C \union P)
  BY <1>4, <1>6, <1>12, <1>13 DEF Manned
<1> QED BY <1>3, <1>4, <1>7, <1>8, <1>9, <1>10, <1>11, <1>13, <1>14 DEF Basis, NewTo

-------------------------------------------------------------------------------
(* An announcement is sent. *)

\* What listeners hold once p was sent
SaidOn(s, p) ==
    IF IsUnique(p[1])
    THEN {x \in s.heard[p[2]] : Key(x[1], x[2]) # Key(p[1], s.ver[p[1]])}
             \union {<<f, s.ver[f]>> : f \in {e \in SameKey(s, p[1]) : Registered(s, <<e, p[2]>>)}}
    ELSE s.heard[p[2]] \union {<<p[1], s.ver[p[1]]>>}

LEMMA SaidIs ==
  ASSUME NEW s \in AvahiState, NEW p \in Pair
  PROVE  /\ \A x \in SaidOn(s, p) :
              \/ x \in s.heard[p[2]]
              \/ \E f \in Entry : x = <<f, s.ver[f]>> /\ (f = p[1] \/ Registered(s, <<f, p[2]>>))
         /\ \A f \in s.live : <<f, s.ver[f]>> \in s.heard[p[2]] /\ Registered(s, <<f, p[2]>>) =>
              <<f, s.ver[f]>> \in SaidOn(s, p)
         /\ p[1] \in s.live /\ Registered(s, p) => <<p[1], s.ver[p[1]]>> \in SaidOn(s, p)
<1>1. p[1] \in Entry /\ p = <<p[1], p[2]>> /\ s.live \subseteq Entry
  BY Names, Fields
<1>2. PICK rrset \in SUBSET Entry : rrset = {e \in SameKey(s, p[1]) : Registered(s, <<e, p[2]>>)}
  BY <1>1 DEF SameKey
<1>3. \A f \in s.live : Registered(s, <<f, p[2]>>) =>
          f \in rrset \/ Key(f, s.ver[f]) # Key(p[1], s.ver[p[1]])
  BY <1>2 DEF SameKey
<1>4. \A f \in rrset : Registered(s, <<f, p[2]>>)
  BY <1>2
<1>5. SaidOn(s, p) = IF IsUnique(p[1])
                     THEN {y \in s.heard[p[2]] : Key(y[1], y[2]) # Key(p[1], s.ver[p[1]])}
                             \union {<<f, s.ver[f]>> : f \in rrset}
                     ELSE s.heard[p[2]] \union {<<p[1], s.ver[p[1]]>>}
  BY <1>2 DEF SaidOn
<1>6. CASE IsUnique(p[1])
  <2>1. \A f \in s.live : <<f, s.ver[f]>> \in s.heard[p[2]] /\ Registered(s, <<f, p[2]>>) =>
              <<f, s.ver[f]>> \in SaidOn(s, p)
    BY <1>3, <1>5, <1>6
  <2>2. p[1] \in s.live /\ Registered(s, p) => p[1] \in rrset
    BY <1>1, <1>3
  <2> QED BY <1>4, <1>5, <1>6, <2>1, <2>2
<1>7. CASE ~IsUnique(p[1])
  BY <1>1, <1>5, <1>7
<1> QED BY <1>6, <1>7

LEMMA SendShows ==
  ASSUME NEW I \in SUBSET Iface, NEW X, NEW s \in Shows(I, X), NEW p \in Pair,
         s.ann[p].st \in {"ANNOUNCING", "ESTABLISHED"}, NEW t, t = Send(s, p)
  PROVE  t \in Shows(I, X) /\ t.ann = s.ann /\ <<p[1], t.ver[p[1]]>> \in t.heard[p[2]]
<1>1. s \in AvahiState /\ Basis(s, I, X) /\ Manned(s, Entry \X I) /\ p[1] \in Entry /\ p[2] \in Iface
  BY Names DEF Shows, Shown
<1>20. OnlyHeard(s, t)
  BY <1>1, SendIs
<1>2. PICK heard \in [Iface -> SUBSET (Entry \X Version)], stale \in [Iface -> SUBSET (Entry \X Version)] :
        t = [s EXCEPT !.heard = heard, !.stale = stale]
  BY <1>20 DEF OnlyHeard
<1>3. t \in AvahiState /\ t.heard = heard
  BY <1>1, <1>2 DEF AvahiState
<1>4. /\ t.live = s.live /\ t.ver = s.ver /\ t.ann = s.ann /\ t.state = s.state
      /\ t.timer = s.timer /\ t.recent = s.recent /\ t.announcing = s.announcing
  BY <1>1, <1>2 DEF AvahiState
<1>5. t.heard[p[2]] = SaidOn(s, p) /\ \A i \in Iface : i # p[2] => t.heard[i] = s.heard[i]
  <2>1. \E k : t = [s EXCEPT !.heard = [s.heard EXCEPT ![p[2]] = SaidOn(s, p)],
                            !.stale = [s.stale EXCEPT ![p[2]] = k]]
    <3>1. PICK k : k = IF IsUnique(p[1])
                       THEN {x \in s.stale[p[2]] : Key(x[1], x[2]) # Key(p[1], s.ver[p[1]])}
                       ELSE s.stale[p[2]] \ {<<p[1], s.ver[p[1]]>>}
      OBVIOUS
    <3>2. t = [s EXCEPT !.heard = [s.heard EXCEPT ![p[2]] = SaidOn(s, p)],
                        !.stale = [s.stale EXCEPT ![p[2]] = k]]
      BY <3>1 DEF Send, SaidOn
    <3> QED BY <3>2
  <2>2. t.heard = [s.heard EXCEPT ![p[2]] = SaidOn(s, p)]
    BY <1>1, <2>1 DEF AvahiState
  <2>3. s.heard \in [Iface -> SUBSET (Entry \X Version)]
    BY <1>1, Fields
  <2> QED BY <1>1, <2>2, <2>3
<1>6. Registered(s, p) /\ p[1] \in s.live /\ p = <<p[1], p[2]>>
  <2>1. s.ann[p] # NoAnnouncer
    BY <1>1, AnnIs
  <2> QED BY <1>1, <2>1, Names DEF Registered, Basis, Linked
<1>7. \A e : Committed(t, e) <=> Committed(s, e)
  BY <1>4 DEF Committed
<1>8. Rooted(t) /\ Linked(t) /\ Waits(t, X) /\ Unhurried(t, X)
  BY <1>1, <1>4, <1>7 DEF Basis, Rooted, Linked, Waits, Unhurried
<1>9. Told(t)
  <2>1. SUFFICES ASSUME NEW q \in Pair, s.ann[q].st = "ESTABLISHED", Alone(q)
                 PROVE  <<q[1], s.ver[q[1]]>> \in t.heard[q[2]]
    BY <1>4 DEF Told
  <2>2. <<q[1], s.ver[q[1]]>> \in s.heard[q[2]] /\ q[1] \in s.live /\ q = <<q[1], q[2]>>
        /\ Registered(s, q) /\ q[2] \in Iface
    BY <1>1, <2>1, AnnIs, Names DEF Basis, Told, Linked, Registered
  <2>3. q[2] = p[2] => <<q[1], s.ver[q[1]]>> \in SaidOn(s, p)
    <3>1. \A f \in s.live : <<f, s.ver[f]>> \in s.heard[p[2]] /\ Registered(s, <<f, p[2]>>) =>
              <<f, s.ver[f]>> \in SaidOn(s, p)
      BY <1>1, SaidIs
    <3> QED BY <2>2, <3>1
  <2> QED BY <1>5, <2>2, <2>3
<1>10. Taken(t, I)
  <2>1. SUFFICES ASSUME NEW i \in I, NEW x \in t.heard[i] PROVE Backed(t, i, x)
    BY DEF Taken
  <2>2. Backed(t, i, x) <=> Backed(s, i, x)
    BY <1>4 DEF Backed, Registered
  <2>3. CASE x \in s.heard[i]
    BY <1>1, <2>2, <2>3 DEF Basis, Taken
  <2>4. CASE i = p[2] /\ \E f \in Entry : x = <<f, s.ver[f]>>
                                         /\ (f = p[1] \/ Registered(s, <<f, p[2]>>))
    <3>1. PICK f \in Entry : x = <<f, s.ver[f]>> /\ Registered(s, <<f, i>>)
      BY <1>6, <2>4
    <3>2. <<f, i>> \in Pair /\ s.ann[<<f, i>>] # NoAnnouncer
      BY <3>1, AnnIs, Names DEF Registered
    <3>3. s.announcing[i] /\ Match(<<f, i>>)
      BY <1>1, <3>2 DEF Basis, Linked
    <3>4. f = "srv" => s.ver["srv"] \in 0 .. s.ver["srv"]
      BY <1>1 DEF Basis, Unhurried
    <3> QED BY <2>2, <3>1, <3>3, <3>4 DEF Backed
  <2>5. \A y \in SaidOn(s, p) :
              \/ y \in s.heard[p[2]]
              \/ \E f \in Entry : y = <<f, s.ver[f]>> /\ (f = p[1] \/ Registered(s, <<f, p[2]>>))
    BY <1>1, SaidIs
  <2>6. i # p[2] => x \in s.heard[i]
    BY <1>5, <2>1
  <2>7. i = p[2] => x \in SaidOn(s, p)
    BY <1>5, <2>1
  <2> QED BY <2>3, <2>4, <2>5, <2>6, <2>7
<1>11. Manned(t, Entry \X I)
  BY <1>1, <1>4, <1>7 DEF Manned, Owed
<1>12. <<p[1], s.ver[p[1]]>> \in t.heard[p[2]]
  BY <1>1, <1>5, <1>6, SaidIs
<1> QED BY <1>3, <1>4, <1>8, <1>9, <1>10, <1>11, <1>12 DEF Shows, Shown, Basis

(* An announcer goes on to serve, and so do those that began to. *)
Serving(x) == x.st \in {"ANNOUNCING", "ESTABLISHED"}

\* Other announcers, of which none is gone or new: they serve what they did,
\* and what listeners know of those that are done.
Restarts(s, t) ==
    /\ s \in AvahiState /\ t \in AvahiState
    /\ t.live = s.live /\ t.ver = s.ver /\ t.state = s.state /\ t.timer = s.timer
    /\ t.recent = s.recent /\ t.announcing = s.announcing /\ t.heard = s.heard
    /\ \A p \in Pair : /\ t.ann[p] = NoAnnouncer <=> s.ann[p] = NoAnnouncer
                       /\ t.ann[p].st = "ESTABLISHED" /\ s.ann[p].st # "ESTABLISHED" =>
                             <<p[1], s.ver[p[1]]>> \in s.heard[p[2]]
                       /\ Registered(s, p) => Registered(t, p)

LEMMA RestartShows ==
  ASSUME NEW I \in SUBSET Iface, NEW X, NEW Y, NEW s, Basis(s, I, X),
         NEW C, Manned(s, C), C \subseteq Pair,
         NEW t, Restarts(s, t), Waits(t, Y), Unhurried(t, Y)
  PROVE  Basis(t, I, Y) /\ Manned(t, C)
<1> USE DEF Restarts
<1>1. \A e : Committed(t, e) <=> Committed(s, e)
  BY DEF Committed
<1>2. Rooted(t) /\ Linked(t)
  BY <1>1 DEF Basis, Rooted, Linked
<1>3. Told(t)
  BY DEF Basis, Told
<1>4. Taken(t, I)
  <2>1. SUFFICES ASSUME NEW i \in I, NEW x \in s.heard[i] PROVE Backed(t, i, x)
    BY DEF Taken
  <2>2. x[1] \in Entry /\ i \in Iface /\ <<x[1], i>> \in Pair
    BY Fields, Names
  <2> QED BY <2>1, <2>2 DEF Basis, Taken, Backed
<1>5. Manned(t, C)
  BY <1>1 DEF Manned, Owed
<1> QED BY <1>2, <1>3, <1>4, <1>5 DEF Basis

LEMMA AnnounceShows ==
  ASSUME NEW I \in SUBSET Iface, NEW X, NEW s \in Shows(I, X), NEW p \in Pair,
         Serving(s.ann[p]), NEW t, t = NextAnnouncement(s, p)
  PROVE  t \in Shows(I, X) /\ Serving(t.ann[p])
<1>1. s \in AvahiState
  BY DEF Shows
<1>2. Announced(s, t, p)
  BY <1>1, AnnounceIs
<1>3. PICK u : u = Send(s, p)
  OBVIOUS
<1>4. u \in Shows(I, X) /\ u.ann = s.ann /\ <<p[1], u.ver[p[1]]>> \in u.heard[p[2]]
  BY <1>3, SendShows DEF Serving
<1>5. PICK ann : t = [u EXCEPT !.ann = ann]
  BY <1>3 DEF NextAnnouncement
<1>6. u \in AvahiState /\ Basis(u, I, X) /\ Manned(u, Entry \X I) /\ t \in AvahiState
  BY <1>2, <1>4 DEF Shows, Shown, Announced
<1>7. /\ t.live = u.live /\ t.ver = u.ver /\ t.state = u.state
      /\ t.timer = u.timer /\ t.recent = u.recent /\ t.announcing = u.announcing
      /\ t.heard = u.heard
  BY <1>5, <1>6 DEF AvahiState
<1>8. /\ Serving(t.ann[p]) /\ t.ann[p] # NoAnnouncer
      /\ \A q \in Pair : q # p => t.ann[q] = u.ann[q]
  BY <1>2, <1>4 DEF Announced, Serving
<1>9. u.ann[p] # NoAnnouncer
  BY <1>4, AnnIs DEF Serving
<1>10. Restarts(u, t)
  BY <1>4, <1>6, <1>7, <1>8, <1>9 DEF Serving, Registered, Restarts
<1>11. Waits(t, X) /\ Unhurried(t, X)
  BY <1>6, <1>7, <1>8 DEF Serving, Basis, Waits, Unhurried
<1>12. Entry \X I \subseteq Pair
  BY DEF Pair
<1>13. Basis(t, I, X) /\ Manned(t, Entry \X I)
  BY <1>6, <1>10, <1>11, <1>12, RestartShows
<1> QED BY <1>4, <1>6, <1>8, <1>13 DEF Shows, Shown

Ready(s, g) == {p \in Pair : Of(p[1]) = g /\ s.ann[p].st = "WAITING"}
Begin(s, g, n) ==
    [s EXCEPT !.ann = [p \in Pair |->
        IF p \in Ready(s, g) THEN [st |-> "ANNOUNCING", n |-> n] ELSE @[p]]]

LEMMA BeginShows ==
  ASSUME NEW I \in SUBSET Iface, NEW X, NEW g \in Group, NEW s \in Shows(I, X \union {g}),
         g = "svc" => s.state["svc"] = "ESTABLISHED", NEW n \in Nat
  PROVE  /\ Begin(s, g, n) \in Shows(I, X)
         /\ \A p \in Ready(s, g) : Serving(Begin(s, g, n).ann[p])
<1>20. PICK ready : ready = Ready(s, g)
  OBVIOUS
<1>21. PICK ann : ann = [p \in Pair |-> IF p \in ready THEN [st |-> "ANNOUNCING", n |-> n] ELSE s.ann[p]]
  OBVIOUS
<1>22. PICK t : t = WithAnn(s, ann)
  OBVIOUS
<1>23. t = Begin(s, g, n)
  BY <1>20, <1>21, <1>22 DEF Begin, WithAnn
<1>1. s \in AvahiState /\ Basis(s, I, X \union {g}) /\ Manned(s, Entry \X I)
  BY DEF Shows, Shown
<1>2. /\ [st |-> "ANNOUNCING", n |-> n] \in AnnType \ {NoAnnouncer}
      /\ [st |-> "ANNOUNCING", n |-> n].st = "ANNOUNCING"
  BY AnnIs DEF AnnouncerState
<1>3. ann \in [Pair -> AnnType]
  BY <1>1, <1>2, <1>21, AnnIs
<1>4. t \in AvahiState /\ t.ann = ann
  BY <1>1, <1>3, <1>22, AnnSet
<1>5. /\ t.live = s.live /\ t.ver = s.ver /\ t.state = s.state
      /\ t.timer = s.timer /\ t.recent = s.recent /\ t.announcing = s.announcing
      /\ t.heard = s.heard
  BY <1>1, <1>22 DEF WithAnn, AvahiState
<1>6. \A p \in Pair : /\ p \in ready => /\ t.ann[p].st = "ANNOUNCING" /\ t.ann[p] # NoAnnouncer
                                        /\ s.ann[p].st = "WAITING" /\ s.ann[p] # NoAnnouncer
                      /\ p \notin ready => t.ann[p] = s.ann[p] /\ (Of(p[1]) = g => t.ann[p].st # "WAITING")
  BY <1>2, <1>4, <1>20, <1>21, AnnIs DEF Ready
<1>7. \A p \in Pair : /\ t.ann[p] = NoAnnouncer <=> s.ann[p] = NoAnnouncer
                      /\ t.ann[p].st = "ESTABLISHED" /\ s.ann[p].st # "ESTABLISHED" =>
                               <<p[1], s.ver[p[1]]>> \in s.heard[p[2]]
                      /\ Registered(s, p) => Registered(t, p)
  BY <1>6 DEF Registered
<1>8. Waits(t, X)
  BY <1>1, <1>5, <1>6 DEF Basis, Waits
<1>9. Unhurried(t, X)
  BY <1>1, <1>5 DEF Basis, Unhurried
<1>10. Entry \X I \subseteq Pair
  BY DEF Pair
<1>12. Restarts(s, t)
  BY <1>1, <1>4, <1>5, <1>7 DEF Restarts
<1>13. PICK Y : Y = X \union {g}
  OBVIOUS
<1>11. Basis(t, I, X) /\ Manned(t, Entry \X I)
  BY <1>1, <1>8, <1>9, <1>10, <1>12, <1>13, RestartShows
<1> QED BY <1>4, <1>6, <1>11, <1>20, <1>23 DEF Shows, Shown, Serving, Ready

LEMMA BegunShows ==
  ASSUME NEW I \in SUBSET Iface, NEW X, NEW g \in Group, NEW s \in Shows(I, X \union {g}),
         g = "svc" => s.state["svc"] = "ESTABLISHED",
         NEW t, t = Begun(s, g, TRUE) \/ t = Begun(s, g, FALSE)
  PROVE  t \in Shows(I, X)
<1>1. PICK ready : ready = Ready(s, g)
  OBVIOUS
<1>2. CASE t = Begun(s, g, FALSE)
  <2>1. t = Begin(s, g, 0)
    BY <1>2 DEF Begun, Begin, Ready
  <2> QED BY <2>1, BeginShows
<1>3. CASE t = Begun(s, g, TRUE)
  <2>2. PICK u : u = Begin(s, g, 1)
    OBVIOUS
  <2>3. u \in Shows(I, X) /\ \A p \in ready : Serving(u.ann[p])
    BY <1>1, <2>2, BeginShows
  <2>4. PICK seq : seq = SetToSeq(ready)
    OBVIOUS
  <2>5. t = Along(u, seq, NextAnnouncement)
    BY <1>1, <1>3, <2>2, <2>4 DEF Begun, Begin, Ready
  <2>6. PICK N \in Nat : N = Len(seq) /\ \A n \in 1 .. N : seq[n] \in ready /\ seq[n] \in Pair
    <3>1. IsFiniteSet(ready) /\ ready \subseteq Pair
      BY <1>1, SubsetCounts DEF Ready
    <3> QED BY <2>4, <3>1, ListIs
  <2>7. PICK S : S = {v \in Shows(I, X) : \A p \in ready : Serving(v.ann[p])}
    OBVIOUS
  <2>8. ASSUME NEW v \in S, NEW n \in 1 .. N PROVE NextAnnouncement(v, seq[n]) \in S
    <3>1. PICK p \in Pair : p = seq[n] /\ p \in ready
      BY <2>6
    <3>2. PICK w : w = NextAnnouncement(v, p)
      OBVIOUS
    <3>3. v \in Shows(I, X) /\ Serving(v.ann[p])
      BY <2>7, <3>1
    <3>6. w \in Shows(I, X) /\ Serving(w.ann[p])
      BY <3>2, <3>3, AnnounceShows
    <3>7. Announced(v, w, p)
      BY <3>2, <3>3, AnnounceIs DEF Shows
    <3>4. w \in Shows(I, X) /\ Serving(w.ann[p]) /\ \A q \in Pair : q # p => w.ann[q] = v.ann[q]
      BY <3>6, <3>7 DEF Announced
    <3>5. \A q \in ready : Serving(w.ann[q])
      BY <1>1, <2>7, <3>4 DEF Ready
    <3> QED BY <2>7, <3>1, <3>2, <3>4, <3>5
  <2>9. u \in S
    BY <2>3, <2>7
  <2> DEFINE f[n \in 0 .. Len(seq)] == IF n = 0 THEN u ELSE NextAnnouncement(f[n-1], seq[n])
  <2>10. t = f[Len(seq)]
    BY <2>5 DEF Along
  <2>11. PICK h \in [0 .. N -> S] : h = [n \in 0 .. N |-> IF n = 0 THEN u ELSE NextAnnouncement(h[n-1], seq[n])]
    <3>1. PICK g1 : g1 = [n \in 1 .. N |-> [v \in S |-> NextAnnouncement(v, seq[n])]]
      OBVIOUS
    <3>2. g1 \in [1 .. N -> [S -> S]]
      BY <2>8, <3>1
    <3>3. PICK h \in [0 .. N -> S] : Runs(h, N, u, g1)
      BY <2>9, <3>2, Loops
    <3>4. ASSUME NEW n \in 0 .. N
          PROVE  h[n] = IF n = 0 THEN u ELSE NextAnnouncement(h[n-1], seq[n])
      <4>1. n # 0 => n \in 1 .. N /\ n - 1 \in 0 .. N /\ h[n-1] \in S
        BY <3>3
      <4> QED BY <3>1, <3>3, <4>1 DEF Runs
    <3> QED BY <3>3, <3>4
  <2>12. f = [n \in 0 .. N |-> IF n = 0 THEN u ELSE NextAnnouncement(f[n-1], seq[n])]
    BY <2>6, <2>11
  <2>13. t = f[N]
    BY <2>6, <2>10
  <2> HIDE DEF f
  <2>14. f[0] = u /\ \A n \in 1 .. N : f[n] = NextAnnouncement(f[n-1], seq[n])
    BY <2>12
  <2>15. PICK Q : Q = [n \in 0 .. N |-> S]
    OBVIOUS
  <2>16. f[0] \in Q[0]
    BY <2>9, <2>14, <2>15
  <2>17. ASSUME NEW n \in 1 .. N, f[n-1] \in Q[n-1] PROVE f[n] \in Q[n]
    BY <2>8, <2>14, <2>15, <2>17
  <2>18. f[N] \in Q[N]
    BY <2>16, <2>17, LoopEnds
  <2> QED BY <2>7, <2>13, <2>15, <2>18
<1> QED BY <1>2, <1>3

-------------------------------------------------------------------------------
(* A group registers, and is established. *)

\* The fields that a change of a group's state leaves alone
OnAir(s, t) ==
    /\ t.live = s.live /\ t.ver = s.ver /\ t.ann = s.ann /\ t.announcing = s.announcing
    /\ t.heard = s.heard
Enters(s, t, g, st) ==
    /\ t \in AvahiState /\ t.state[g] = st
    /\ t.timer[g] = (s.timer[g] /\ s.state[g] # "REGISTERING")
    /\ \A h \in Group : h # g => t.state[h] = s.state[h] /\ t.timer[h] = s.timer[h]
    /\ OnAir(s, t) /\ t.recent = s.recent

LEMMA EnteredFields ==
  ASSUME NEW s \in AvahiState, NEW g \in Group, NEW st \in GroupState, NEW t, t = Entered(s, g, st)
  PROVE  Enters(s, t, g, st)
<1>1. /\ t \in AvahiState /\ OnlyGroup(s, t, g) /\ t.state[g] = st
      /\ t.timer[g] => s.timer[g] /\ s.state[g] # "REGISTERING"
      /\ s.timer[g] /\ s.state[g] # "REGISTERING" => t.timer[g]
  BY EnteredIs
<1>2. t.timer[g] \in BOOLEAN /\ s.timer[g] \in BOOLEAN
  BY <1>1, Fields
<1>3. /\ t.live = s.live /\ t.ver = s.ver /\ t.ann = s.ann /\ t.announcing = s.announcing
      /\ t.heard = s.heard /\ t.recent = s.recent
  BY DEF Entered, AvahiState
<1> QED BY <1>1, <1>2, <1>3 DEF OnlyGroup, SameGroup, Enters, OnAir

\* Only states and timers of groups change.
LEMMA TurnShows ==
  ASSUME NEW I, NEW X, NEW Y, NEW s, Basis(s, I, X), NEW t, OnAir(s, t), Rooted(t),
         \A p \in Pair : s.ann[p] # NoAnnouncer => Committed(t, p[1]),
         Waits(t, Y), Unhurried(t, Y)
  PROVE  Basis(t, I, Y)
<1>1. Linked(t)
  BY DEF Basis, Linked, OnAir
<1>2. Told(t)
  BY DEF Basis, Told, OnAir
<1>3. \A p : Registered(t, p) <=> Registered(s, p)
  BY DEF Registered, OnAir
<1>4. Taken(t, I)
  BY <1>3 DEF Basis, Taken, Backed, OnAir
<1> QED BY <1>1, <1>2, <1>4 DEF Basis

LEMMA EstablishedShows ==
  ASSUME NEW I \in SUBSET Iface, NEW X, NEW s \in Shows(I, X), NEW g \in Group,
         s.state[g] = "REGISTERING", Full(s, g, I), NEW t, t = Entered(s, g, "ESTABLISHED")
  PROVE  t \in Shows(I, X \union {g}) /\ t.state[g] = "ESTABLISHED"
<1>1. s \in AvahiState /\ Basis(s, I, X) /\ Manned(s, Entry \X I)
  BY DEF Shows, Shown
<1>2. /\ t \in AvahiState /\ t.state[g] = "ESTABLISHED" /\ t.timer[g] = FALSE
      /\ \A h \in Group : h # g => t.state[h] = s.state[h] /\ t.timer[h] = s.timer[h]
      /\ OnAir(s, t) /\ t.recent = s.recent
  <2>1. "ESTABLISHED" \in GroupState
    BY DEF GroupState
  <2>2. Enters(s, t, g, "ESTABLISHED")
    BY <1>1, <2>1, EnteredFields
  <2> QED BY <2>2 DEF Enters
<1>3. \A e \in Entry : Committed(t, e) <=> Committed(s, e)
  BY <1>2, Names DEF Committed
<1>4. Rooted(t) /\ \A p \in Pair : s.ann[p] # NoAnnouncer => Committed(t, p[1])
  BY <1>1, <1>2, <1>3, Names DEF Basis, Rooted, Linked, OnAir
<1>5. Waits(t, X \union {g})
  <2>1. \A p \in Pair : Of(p[1]) \in Group
    BY Names
  <2> QED BY <1>1, <1>2, <2>1 DEF Basis, Waits, OnAir
<1>6. Unhurried(t, X \union {g})
  BY <1>1, <1>2, Names DEF Basis, Unhurried, OnAir
<1>7. Basis(t, I, X \union {g})
  <2>1. PICK Y : Y = X \union {g}
    OBVIOUS
  <2> QED BY <1>1, <1>2, <1>4, <1>5, <1>6, <2>1, TurnShows
<1>9. Manned(t, Entry \X I)
  <2>1. \A p \in Entry \X I : Owed(t, p) <=> Owed(s, p)
    BY <1>2, <1>3 DEF Owed, OnAir
  <2>2. \A p \in Entry \X I : Of(p[1]) = g => p \in Entries(g) \X I
    BY Names
  <2> QED BY <1>1, <1>2, <2>1, <2>2, Names DEF Manned, Full, OnAir
<1> QED BY <1>2, <1>7, <1>9 DEF Shows, Shown

\* Group g registers, and the others stay as they are.
Joins(s, t, g) ==
    /\ t \in AvahiState /\ t.state[g] = "REGISTERING" /\ OnAir(s, t)
    /\ \A h \in Group : h # g =>
          t.state[h] = s.state[h] /\ t.timer[h] = s.timer[h] /\ t.recent[h] = s.recent[h]

\* The others have all the announcers that they had.
JoinedTo(s, t, I, X, g) ==
    /\ Basis(t, I, X)
    /\ \A C \in SUBSET Pair : Manned(s, C) /\ (t.timer[g] \/ C \cap PairsOf(g) = {}) =>
          Manned(t, C)
LEMMA JoinsShow ==
  ASSUME NEW I, NEW X, NEW g \in Group, NEW s \in AvahiState, Basis(s, I, X),
         Entries(g) \subseteq s.live, NEW t, Joins(s, t, g),
         g = "svc" => t.timer[g] = FALSE
  PROVE  JoinedTo(s, t, I, X, g)
<1>1. \A e \in Entry : /\ Of(e) \in Group
                       /\ Of(e) = g => Committed(t, e) /\ e \in s.live
                       /\ Of(e) # g => (Committed(t, e) <=> Committed(s, e))
  BY Names DEF Committed, Joins
<1>2. Rooted(t)
  BY <1>1 DEF Basis, Rooted, Joins, OnAir
<1>3. \A p \in Pair : p[1] \in Entry /\ Of(p[1]) \in Group
  BY Names
<1>4. Waits(t, X)
  BY <1>3 DEF Basis, Waits, Joins, OnAir
<1>5. \A p \in Pair : s.ann[p] # NoAnnouncer => Committed(t, p[1])
  BY <1>1, <1>3 DEF Basis, Linked
<1>6. Unhurried(t, X)
  <2>1. CASE g = "svc"
    BY <2>1 DEF Basis, Unhurried, Joins, OnAir
  <2>2. CASE g # "svc"
    <3>1. "svc" \in Group
      BY Names
    <3> QED BY <2>2, <3>1 DEF Basis, Unhurried, Joins, OnAir
  <2> QED BY <2>1, <2>2
<1>7. Basis(t, I, X)
  <2>1. OnAir(s, t)
    BY DEF Joins
  <2> QED BY <1>2, <1>4, <1>5, <1>6, <2>1, TurnShows
<1>8. ASSUME NEW C \in SUBSET Pair, Manned(s, C), t.timer[g] \/ C \cap PairsOf(g) = {}
      PROVE  Manned(t, C)
  <2>1. SUFFICES ASSUME NEW p \in C, Owed(t, p), ~t.timer[Of(p[1])] PROVE s.ann[p] # NoAnnouncer
    BY DEF Manned, Joins, OnAir
  <2>2. p[1] \in Entry /\ Of(p[1]) \in Group /\ Of(p[1]) # g
    BY <1>3, <1>8, <2>1 DEF PairsOf
  <2>3. Owed(s, p) /\ ~s.timer[Of(p[1])]
    BY <1>1, <2>1, <2>2 DEF Owed, Joins, OnAir
  <2> QED BY <1>8, <2>3 DEF Manned
<1> QED BY <1>7, <1>8 DEF JoinedTo

WithRecent(s, rc) == [s EXCEPT !.recent = rc]
WithTimer(s, tm) == [s EXCEPT !.timer = tm]

RecentTo(s, t, g, b) ==
    /\ t \in AvahiState /\ t.recent[g] = b /\ \A h \in Group : h # g => t.recent[h] = s.recent[h]
    /\ OnAir(s, t) /\ t.state = s.state /\ t.timer = s.timer
LEMMA RecentFields ==
  ASSUME NEW s \in AvahiState, NEW g \in Group, NEW b \in BOOLEAN,
         NEW rc, rc = [s.recent EXCEPT ![g] = b], NEW t, t = WithRecent(s, rc)
  PROVE  RecentTo(s, t, g, b)
<1>2. rc \in [Group -> BOOLEAN] /\ rc[g] = b /\ \A h \in Group : h # g => rc[h] = s.recent[h]
  BY Fields
<1>3. t = [s EXCEPT !.recent = rc]
  BY DEF WithRecent
<1>4. t \in AvahiState
  BY <1>2, <1>3 DEF AvahiState
<1>5. t.recent = rc /\ t.state = s.state /\ t.timer = s.timer
  BY <1>3 DEF AvahiState
<1>6. OnAir(s, t)
  BY <1>3 DEF AvahiState, OnAir
<1> QED BY <1>2, <1>4, <1>5, <1>6 DEF RecentTo

TimerTo(s, t, g, b) ==
    /\ t \in AvahiState /\ t.timer[g] = b /\ \A h \in Group : h # g => t.timer[h] = s.timer[h]
    /\ OnAir(s, t) /\ t.state = s.state /\ t.recent = s.recent
LEMMA TimerFields ==
  ASSUME NEW s \in AvahiState, NEW g \in Group, NEW b \in BOOLEAN,
         NEW tm, tm = [s.timer EXCEPT ![g] = b], NEW t, t = WithTimer(s, tm)
  PROVE  TimerTo(s, t, g, b)
<1>2. tm \in [Group -> BOOLEAN] /\ tm[g] = b /\ \A h \in Group : h # g => tm[h] = s.timer[h]
  BY Fields
<1>3. t = [s EXCEPT !.timer = tm]
  BY DEF WithTimer
<1>4. t \in AvahiState
  BY <1>2, <1>3 DEF AvahiState
<1>5. t.timer = tm /\ t.state = s.state /\ t.recent = s.recent
  BY <1>3 DEF AvahiState
<1>6. OnAir(s, t)
  BY <1>3 DEF AvahiState, OnAir
<1> QED BY <1>2, <1>4, <1>5, <1>6 DEF TimerTo

\* Those that a commit finds, before the new announcers of the group are there
Startable(s, I, X, g) ==
    /\ s \in AvahiState /\ Basis(s, I, X) /\ Manned(s, (Entry \X I) \ PairsOf(g))
    /\ Entries(g) \subseteq s.live

LEMMA RegisteringJoins ==
  ASSUME NEW g \in Group, NEW s \in AvahiState,
         NEW u, RecentTo(s, u, g, TRUE),
         NEW t, t = IF s.state[g] = "REGISTERING" THEN u ELSE Entered(u, g, "REGISTERING")
  PROVE  Joins(s, t, g) /\ (t.timer[g] => s.timer[g])
<1>1. /\ u \in AvahiState /\ \A h \in Group : h # g => u.recent[h] = s.recent[h]
      /\ OnAir(s, u) /\ u.state = s.state /\ u.timer = s.timer
  BY DEF RecentTo
<1>2. CASE s.state[g] = "REGISTERING"
  BY <1>1, <1>2 DEF Joins
<1>3. CASE s.state[g] # "REGISTERING"
  <2>1. "REGISTERING" \in GroupState /\ t = Entered(u, g, "REGISTERING")
    BY <1>3 DEF GroupState
  <2>2. Enters(u, t, g, "REGISTERING")
    BY <1>1, <2>1, EnteredFields
  <2> QED BY <1>1, <2>2 DEF Joins, Enters, OnAir
<1> QED BY <1>2, <1>3

LEMMA RegisteringShows ==
  ASSUME NEW I \in SUBSET Iface, NEW X, NEW g \in Group, NEW s, Startable(s, I, X, g),
         NEW t, Joins(s, t, g), t.timer[g] => s.timer[g]
  PROVE  Startable(t, I, X, g)
<1>1. s \in AvahiState /\ Basis(s, I, X) /\ Manned(s, (Entry \X I) \ PairsOf(g))
      /\ Entries(g) \subseteq s.live /\ t \in AvahiState /\ t.live = s.live
  BY DEF Startable, Joins, OnAir
<1>2. g = "svc" => t.timer[g] = FALSE
  <2>1. t.timer[g] \in BOOLEAN
    BY <1>1, Fields
  <2> QED BY <1>1, <2>1 DEF Basis, Unhurried
<1>3. PICK C \in SUBSET Pair : C = (Entry \X I) \ PairsOf(g)
  BY DEF Pair
<1>4. Basis(t, I, X) /\ Manned(t, C)
  <2>1. C \cap PairsOf(g) = {}
    BY <1>3
  <2>2. JoinedTo(s, t, I, X, g)
    BY <1>1, <1>2, JoinsShow
  <2> QED BY <1>1, <1>3, <2>1, <2>2 DEF JoinedTo
<1> QED BY <1>1, <1>3, <1>4 DEF Startable

LEMMA StartedShows ==
  ASSUME NEW I \in SUBSET Iface, NEW X, NEW g \in Group, NEW s, Startable(s, I, X, g),
         NEW t, t = NewAnnouncers(s, Entries(g) \X Iface)
  PROVE  t \in Shows(I, X) /\ Full(t, g, I) /\ t.state = s.state
<1>1. s \in AvahiState /\ Basis(s, I, X) /\ Manned(s, (Entry \X I) \ PairsOf(g))
  BY DEF Startable
<1>2. PICK P \in SUBSET Pair : P = Entries(g) \X Iface
  BY Names
<1>3. PICK C \in SUBSET Pair : C = (Entry \X I) \ PairsOf(g)
  BY DEF Pair
<1>4. /\ t \in AvahiState /\ Basis(t, I, X) /\ Manned(t, C \union P)
      /\ t.state = s.state
      /\ \A p \in P : Owed(t, p) => t.ann[p] # NoAnnouncer
  <2>1. NewTo(s, t, I, X, C, P)
    BY <1>1, <1>2, <1>3, NewShows
  <2> QED BY <2>1 DEF NewTo
<1>5. Entry \X I \subseteq C \union P
  BY <1>2, <1>3, Names DEF PairsOf
<1>6. Manned(t, Entry \X I)
  BY <1>4, <1>5 DEF Manned
<1>7. Full(t, g, I)
  BY <1>2, <1>4 DEF Full
<1> QED BY <1>4, <1>6, <1>7 DEF Shows, Shown

\* One that has to wait is due only once its timer has run out.
LEMMA HeldOffShows ==
  ASSUME NEW I \in SUBSET Iface, NEW X, NEW s \in Shows(I, X), NEW g \in Group, g # "svc",
         s.state[g] # "REGISTERING", Entries(g) \subseteq s.live,
         NEW u, TimerTo(s, u, g, TRUE), NEW t, t = Entered(u, g, "REGISTERING")
  PROVE  t \in Shows(I, X)
<1>1. s \in AvahiState /\ Basis(s, I, X) /\ Manned(s, Entry \X I)
  BY DEF Shows, Shown
<1>2. /\ u \in AvahiState /\ u.timer[g] /\ \A h \in Group : h # g => u.timer[h] = s.timer[h]
      /\ OnAir(s, u) /\ u.state = s.state /\ u.recent = s.recent
  BY DEF TimerTo
<1>3. Enters(u, t, g, "REGISTERING")
  <2>1. "REGISTERING" \in GroupState
    BY DEF GroupState
  <2> QED BY <1>2, <2>1, EnteredFields
<1>4. t.timer[g]
  BY <1>2, <1>3 DEF Enters
<1>5. Joins(s, t, g)
  BY <1>2, <1>3 DEF Joins, Enters, OnAir
<1>6. PICK C \in SUBSET Pair : C = Entry \X I
  BY DEF Pair
<1>7. Basis(t, I, X) /\ Manned(t, C)
  <2>1. JoinedTo(s, t, I, X, g)
    BY <1>1, <1>5, JoinsShow
  <2> QED BY <1>1, <1>4, <1>6, <2>1 DEF JoinedTo
<1> QED BY <1>5, <1>6, <1>7 DEF Shows, Shown, Joins

\* A group has registered anew, and its announcers are there.
LEMMA JoinedShows ==
  ASSUME NEW I \in SUBSET Iface, NEW X, NEW g \in Group, NEW s, Startable(s, I, X, g),
         NEW u, RecentTo(s, u, g, TRUE),
         NEW v, v = IF s.state[g] = "REGISTERING" THEN u ELSE Entered(u, g, "REGISTERING"),
         NEW w \in AvahiState, SameView(v, w), NEW t, t = NewAnnouncers(w, Entries(g) \X Iface)
  PROVE  t \in Shows(I, X) /\ Full(t, g, I)
<1>1. Joins(s, v, g) /\ (v.timer[g] => s.timer[g])
  BY RegisteringJoins DEF Startable
<1>2. Startable(v, I, X, g)
  BY <1>1, RegisteringShows
<1>3. Startable(w, I, X, g)
  BY <1>2, ViewKeeps DEF Startable, SameView
<1> QED BY <1>3, StartedShows

LEMMA ProbedShows ==
  ASSUME NEW I \in SUBSET Iface, NEW X, NEW s \in Shows(I, X), NEW g \in Group,
         s.state[g] = "REGISTERING" => Full(s, g, I),
         NEW t, t = CheckProbed(s, g, TRUE, Ignore) \/ t = CheckProbed(s, g, FALSE, Ignore)
  PROVE  t \in Shows(I, X)
<1>1. CASE t = s
  BY <1>1
<1>2. CASE t # s
  <2>1. PICK u : u = Entered(s, g, "ESTABLISHED")
    OBVIOUS
  <2>2. s.state[g] = "REGISTERING" /\ (t = Begun(u, g, TRUE) \/ t = Begun(u, g, FALSE))
    BY <1>2, <2>1 DEF CheckProbed, ChangeState, Ignore
  <2>3. u \in Shows(I, X \union {g}) /\ u.state[g] = "ESTABLISHED"
    BY <2>1, <2>2, EstablishedShows
  <2> QED BY <2>2, <2>3, BegunShows
<1> QED BY <1>1, <1>2

LEMMA CommitRealShows ==
  ASSUME NEW I \in SUBSET Iface, NEW X, NEW g \in Group, NEW s, Startable(s, I, X, g),
         NEW t, t = CommitReal(s, g, Ignore)
  PROVE  t \in Shows(I, X)
<1>1. PICK rc : rc = [s.recent EXCEPT ![g] = TRUE]
  OBVIOUS
<1>2. PICK u : u = WithRecent(s, rc)
  OBVIOUS
<1>3. s \in AvahiState /\ RecentTo(s, u, g, TRUE)
  BY <1>1, <1>2, RecentFields DEF Startable
<1>4. PICK v : v = IF s.state[g] = "REGISTERING" THEN u ELSE Entered(u, g, "REGISTERING")
  OBVIOUS
<1>5. PICK w : w = NewAnnouncers(v, Entries(g) \X Iface)
  OBVIOUS
<1>6. t = CheckProbed(w, g, FALSE, Ignore)
  BY <1>1, <1>2, <1>3, <1>4, <1>5 DEF CommitReal, ChangeState, Ignore, WithRecent, RecentTo
<1>7. v \in AvahiState
  BY <1>3, <1>4, RegisteringJoins DEF Joins
<1>8. w \in Shows(I, X) /\ Full(w, g, I)
  BY <1>3, <1>4, <1>5, <1>7, JoinedShows DEF SameView
<1> QED BY <1>6, <1>8, ProbedShows

\* Those of a group that is shown may start.
LEMMA MayStart ==
  ASSUME NEW I \in SUBSET Iface, NEW X, NEW s \in Shows(I, X), NEW g \in Group, Entries(g) \subseteq s.live
  PROVE  Startable(s, I, X, g)
BY DEF Shows, Shown, Startable, Manned

LEMMA CommitShows ==
  ASSUME NEW I \in SUBSET Iface, NEW X, NEW s \in Shows(I, X), NEW g \in Group, Entries(g) \subseteq s.live,
         g = "svc" => "svc" \notin X, NEW t, t = Commit(s, g, Ignore)
  PROVE  t \in Shows(I, X)
<1>1. CASE ~Commits(s, g)
  BY <1>1 DEF Commit
<1>2. CASE Commits(s, g) /\ ~s.recent[g]
  <2>1. t = CommitReal(s, g, Ignore)
    BY <1>2 DEF Commit
  <2> QED BY <2>1, MayStart, CommitRealShows
<1>3. CASE Commits(s, g) /\ s.recent[g]
  <2>1. s \in AvahiState /\ s.state[g] \in {"UNCOMMITED", "COLLISION"} /\ g # "svc"
    BY <1>3 DEF Commits, Shows, Shown, Basis, Unhurried
  <2>2. PICK tm : tm = [s.timer EXCEPT ![g] = TRUE]
    OBVIOUS
  <2>3. PICK u : u = WithTimer(s, tm)
    OBVIOUS
  <2>4. TimerTo(s, u, g, TRUE)
    BY <2>1, <2>2, <2>3, TimerFields
  <2>5. t = Entered(u, g, "REGISTERING")
    BY <1>3, <2>1, <2>2, <2>3, <2>4 DEF Commit, ChangeState, Ignore, WithTimer, TimerTo
  <2> QED BY <2>1, <2>4, <2>5, HeldOffShows
<1> QED BY <1>1, <1>2, <1>3

-------------------------------------------------------------------------------
(* An address is added, or withdrawn. *)

LEMMA AddShows ==
  ASSUME NEW I \in SUBSET Iface, NEW X, NEW s \in Shows(I, X), NEW a \in Address, a \notin s.live,
         NEW t, t = AddAddress(s, a)
  PROVE  t \in Shows(I, X) /\ Entries(a) \subseteq t.live
<1>1. s \in AvahiState /\ Basis(s, I, X) /\ Manned(s, Entry \X I) /\ a \in Entry /\ a # "srv" /\ Entries(a) = {a}
  BY Names DEF Shows, Shown
<1>2. PICK live \in SUBSET Entry : live = s.live \union {a}
  BY <1>1, Fields
<1>3. s.hostName \in Version /\ s.ver \in [Entry -> Version]
  BY <1>1 DEF AvahiState, Version
<1>4. PICK ver : ver = [s.ver EXCEPT ![a] = s.hostName]
  OBVIOUS
<1>5. ver \in [Entry -> Version] /\ \A e \in Entry : e # a => ver[e] = s.ver[e]
  BY <1>3, <1>4
<1>6. t = WithEntry(s, live, ver)
  BY <1>1, <1>2, <1>4, Names DEF AddAddress, AddRecords, WithEntry, AvahiState
<1>7. t \in AvahiState /\ t.live = live /\ t.ver = ver
  BY <1>1, <1>2, <1>5, <1>6, EntrySet
<1>8. /\ t.ann = s.ann /\ t.state = s.state /\ t.timer = s.timer
      /\ t.recent = s.recent /\ t.announcing = s.announcing /\ t.heard = s.heard
  BY <1>1, <1>6 DEF WithEntry, AvahiState
<1>9. \A e : Committed(t, e) <=> Committed(s, e)
  BY <1>8 DEF Committed
<1>10. \A p \in Pair : s.ann[p] # NoAnnouncer => p[1] # a
  BY <1>1 DEF Basis, Linked
<1>11. Rooted(t) /\ Linked(t)
  BY <1>1, <1>2, <1>7, <1>8, <1>9 DEF Basis, Rooted, Linked
<1>12. Waits(t, X)
  BY <1>1, <1>8 DEF Basis, Waits
<1>13. Told(t)
  <2>1. SUFFICES ASSUME NEW p \in Pair, s.ann[p].st = "ESTABLISHED", Alone(p)
                 PROVE  <<p[1], ver[p[1]]>> \in s.heard[p[2]]
    BY <1>7, <1>8 DEF Told
  <2>2. p[1] \in Entry /\ p[1] # a
    BY <1>1, <1>10, <2>1, AnnIs, Names
  <2> QED BY <1>1, <1>5, <2>1, <2>2 DEF Basis, Told
<1>14. Taken(t, I)
  <2>1. SUFFICES ASSUME NEW i \in I, NEW x \in s.heard[i] PROVE Backed(t, i, x)
    BY <1>8 DEF Taken
  <2>2. x[1] \in Entry /\ i \in Iface /\ <<x[1], i>> \in Pair
    BY <1>1, Fields, Names
  <2>3. Backed(s, i, x)
    BY <1>1 DEF Basis, Taken
  <2>4. x[1] # a
    <3>1. SUFFICES ASSUME x[1] = a PROVE FALSE
      OBVIOUS
    <3>2. Registered(s, <<a, i>>)
      BY <1>1, <2>3, <3>1 DEF Backed
    <3> QED BY <1>1, <1>10, <2>2, <3>1, <3>2, AnnIs DEF Registered
  <2>5. t.ver[x[1]] = s.ver[x[1]] /\ t.ver["srv"] = s.ver["srv"]
    <3>1. "srv" \in Entry
      BY DEF Entry
    <3> QED BY <1>1, <1>5, <1>7, <2>2, <2>4, <3>1
  <2> QED BY <1>8, <2>3, <2>5 DEF Backed, Registered
<1>15. Unhurried(t, X)
  <2>1. "srv" \in Entry
    BY DEF Entry
  <2> QED BY <1>1, <1>5, <1>7, <1>8, <2>1 DEF Basis, Unhurried
<1>16. Manned(t, Entry \X I)
  BY <1>1, <1>8, <1>9 DEF Manned, Owed
<1> QED BY <1>1, <1>2, <1>7, <1>11, <1>12, <1>13, <1>14, <1>15, <1>16 DEF Shows, Shown, Basis

LEMMA PlaceShows ==
  ASSUME NEW I \in SUBSET Iface, NEW X, NEW s \in Shows(I, X), NEW a \in Address,
         NEW t, t = Place(s, a)
  PROVE  t \in Shows(I, X)
<1>1. CASE t = s
  BY <1>1
<1>2. CASE t = Reset(s, a)
  BY <1>2, ResetShows
<1>3. CASE t # s /\ t # Reset(s, a)
  <2>1. PICK u : u = AddAddress(s, a)
    OBVIOUS
  <2>2. a \notin s.live /\ t = Commit(u, a, Ignore)
    BY <1>3, <2>1 DEF Place, UpdateAddress, Same
  <2>3. u \in Shows(I, X) /\ Entries(a) \subseteq u.live
    BY <2>1, <2>2, AddShows
  <2>4. a \in Group /\ a # "svc"
    BY Names
  <2> QED BY <2>2, <2>3, <2>4, CommitShows
<1> QED BY <1>1, <1>2, <1>3

LEMMA SettleShows ==
  ASSUME NEW I \in SUBSET Iface, NEW X, NEW s \in Shows(I, X), NEW t, t = Settle(s)
  PROVE  t \in Shows(I, X)
<1> DEFINE f[n \in 0 .. Len(Addresses)] == IF n = 0 THEN s ELSE Place(f[n-1], Addresses[n])
<1>1. t = f[Len(Addresses)]
  BY DEF Settle, UpdateSettled, Along, Place
<1>2. PICK N \in Nat : N = Len(Addresses) /\ \A n \in 1 .. N : Addresses[n] \in Address
  BY AvahiAssumption
<1>3. t = f[N] /\ s \in Shows(I, X)
  BY <1>1, <1>2
<1>4. PICK S : S = Shows(I, X)
  OBVIOUS
<1>5. ASSUME NEW v \in S, NEW n \in 1 .. N PROVE Place(v, Addresses[n]) \in S
  <2>1. PICK a \in Address : a = Addresses[n]
    BY <1>2
  <2>2. PICK u : u = Place(v, a)
    OBVIOUS
  <2>3. u \in Shows(I, X)
    BY <1>4, <2>2, PlaceShows
  <2> QED BY <1>4, <2>1, <2>2, <2>3
<1>6. PICK h \in [0 .. N -> S] : h = [n \in 0 .. N |-> IF n = 0 THEN s ELSE Place(h[n-1], Addresses[n])]
  <2>1. PICK g : g = [n \in 1 .. N |-> [v \in S |-> Place(v, Addresses[n])]]
    OBVIOUS
  <2>2. g \in [1 .. N -> [S -> S]] /\ s \in S
    BY <1>3, <1>4, <1>5, <2>1
  <2>3. PICK h \in [0 .. N -> S] : Runs(h, N, s, g)
    BY <2>2, Loops
  <2>4. ASSUME NEW n \in 0 .. N
        PROVE  h[n] = IF n = 0 THEN s ELSE Place(h[n-1], Addresses[n])
    <3>1. n # 0 => n \in 1 .. N /\ n - 1 \in 0 .. N /\ h[n-1] \in S
      BY <2>3
    <3> QED BY <2>1, <2>3, <3>1 DEF Runs
  <2> QED BY <2>3, <2>4
<1>7. f = [n \in 0 .. N |-> IF n = 0 THEN s ELSE Place(f[n-1], Addresses[n])]
  BY <1>2, <1>6
<1> HIDE DEF f
<1>8. f[0] = s /\ \A n \in 1 .. N : f[n] = Place(f[n-1], Addresses[n])
  BY <1>7
<1>9. PICK Q : Q = [n \in 0 .. N |-> S]
  OBVIOUS
<1>10. f[0] \in Q[0]
  BY <1>3, <1>4, <1>8, <1>9
<1>11. ASSUME NEW n \in 1 .. N, f[n-1] \in Q[n-1] PROVE f[n] \in Q[n]
  BY <1>5, <1>8, <1>9, <1>11
<1>12. f[N] \in Q[N]
  BY <1>10, <1>11, LoopEnds
<1> QED BY <1>3, <1>4, <1>9, <1>12

LEMMA ServerShows ==
  ASSUME NEW I, NEW X, NEW s \in Shows(I, X), NEW st \in ServerState,
         NEW t, t = [s EXCEPT !.server = st] \/ t = [s EXCEPT !.told = Append(@, st)]
  PROVE  t \in Shows(I, X)
<1>1. s \in AvahiState
  BY DEF Shows
<1>2. CASE t = [s EXCEPT !.server = st]
  <2>1. t \in AvahiState /\ SameView(s, t)
    BY <1>1, <1>2 DEF AvahiState, SameView
  <2> QED BY <2>1, ShowsSame
<1>3. CASE t = [s EXCEPT !.told = Append(@, st)]
  <2>4. s.told \in Seq(ServerState) /\ \A q \in Seq(ServerState) : Append(q, st) \in Seq(ServerState)
    BY <1>1 DEF AvahiState
  <2>1. PICK told \in Seq(ServerState) : told = Append(s.told, st)
    BY <2>4
  <2>2. t = [s EXCEPT !.told = told]
    BY <1>3, <2>1
  <2>3. t \in AvahiState /\ SameView(s, t)
    BY <1>1, <2>2 DEF AvahiState, SameView
  <2> QED BY <2>3, ShowsSame
<1> QED BY <1>2, <1>3

LEMMA PendingShows ==
  ASSUME NEW I, NEW X, NEW s \in Shows(I, X), NEW n \in Counter, NEW t, t = [s EXCEPT !.pending = n]
  PROVE  t \in Shows(I, X) /\ SameView(s, t)
<1>1. s \in AvahiState
  BY DEF Shows
<1>2. t \in AvahiState /\ SameView(s, t)
  BY <1>1 DEF AvahiState, SameView
<1> QED BY <1>2, ShowsSame

LEMMA SetSettledShows ==
  ASSUME NEW I \in SUBSET Iface, NEW X, NEW s \in Shows(I, X), NEW st \in ServerState,
         NEW t, t = SetSettled(s, st)
  PROVE  t \in Shows(I, X)
<1>1. PICK u : u = [s EXCEPT !.server = st]
  OBVIOUS
<1>2. PICK v : v = Settle(u)
  OBVIOUS
<1>3. t = s \/ t = [v EXCEPT !.told = Append(@, st)]
  BY <1>1, <1>2 DEF SetSettled, Settle
<1>4. u \in Shows(I, X)
  BY <1>1, ServerShows
<1>5. v \in Shows(I, X)
  BY <1>2, <1>4, SettleShows
<1> QED BY <1>3, <1>5, ServerShows

LEMMA DecreaseShows ==
  ASSUME NEW I \in SUBSET Iface, NEW X, NEW s \in Shows(I, X), NEW t, t = DecreasePending(s)
  PROVE  t \in Shows(I, X)
<1>1. PICK n \in Counter : n = s.pending - 1
  BY DEF Shows, AvahiState, Counter
<1>2. PICK u : u = [s EXCEPT !.pending = n]
  OBVIOUS
<1>3. u \in Shows(I, X)
  BY <1>2, PendingShows
<1>4. t = IF u.pending = 0 THEN SetSettled(u, "RUNNING") ELSE u
  BY <1>1, <1>2 DEF DecreasePending, Shows, AvahiState
<1>5. "RUNNING" \in ServerState
  BY DEF ServerState
<1> QED BY <1>3, <1>4, <1>5, SetSettledShows

LEMMA HostRegisteredShows ==
  ASSUME NEW I \in SUBSET Iface, NEW X, NEW s \in Shows(I, X), NEW g
  PROVE  HostRegistered(s, g, "ESTABLISHED") \in Shows(I, X)
<1>1. DecreasePending(s) \in Shows(I, X)
  BY DecreaseShows
<1> QED BY <1>1 DEF HostRegistered

\* A group that registers is counted, if at all.
LEMMA HostRegisteringIs ==
  ASSUME NEW s \in AvahiState, NEW g, NEW t, t = HostRegistered(s, g, "REGISTERING")
  PROVE  t \in AvahiState /\ SameView(s, t)
<1>1. CASE t = s
  BY <1>1 DEF SameView
<1>2. CASE t # s
  <2>1. PICK n \in Counter : n = s.pending + 1
    BY DEF AvahiState, Counter
  <2>2. t = [s EXCEPT !.pending = n]
    BY <1>2, <2>1 DEF HostRegistered
  <2> QED BY <2>2 DEF AvahiState, SameView
<1> QED BY <1>1, <1>2

LEMMA ProbedHostShows ==
  ASSUME NEW I \in SUBSET Iface, NEW X, NEW s \in Shows(I, X), NEW g \in Address,
         s.state[g] = "REGISTERING" => Full(s, g, I),
         NEW t, t = CheckProbed(s, g, TRUE, HostRegistered) \/ t = CheckProbed(s, g, FALSE, HostRegistered)
  PROVE  t \in Shows(I, X)
<1>1. CASE t = s
  BY <1>1
<1>2. CASE t # s
  <2>1. PICK u : u = Entered(s, g, "ESTABLISHED")
    OBVIOUS
  <2>2. PICK v : v = HostRegistered(u, g, "ESTABLISHED")
    OBVIOUS
  <2>3. s.state[g] = "REGISTERING" /\ (t = Begun(v, g, TRUE) \/ t = Begun(v, g, FALSE))
    BY <1>2, <2>1, <2>2 DEF CheckProbed, ChangeState
  <2>4. g \in Group /\ g # "svc"
    BY Names
  <2>5. u \in Shows(I, X \union {g})
    BY <2>1, <2>3, <2>4, EstablishedShows
  <2>6. PICK Y : Y = X \union {g}
    OBVIOUS
  <2>7. v \in Shows(I, Y)
    BY <2>2, <2>5, <2>6, HostRegisteredShows
  <2> QED BY <2>3, <2>4, <2>6, <2>7, BegunShows
<1> QED BY <1>1, <1>2

LEMMA CommitRealHostShows ==
  ASSUME NEW I \in SUBSET Iface, NEW X, NEW g \in Address, NEW s, Startable(s, I, X, g),
         NEW t, t = CommitReal(s, g, HostRegistered)
  PROVE  t \in Shows(I, X)
<1>1. PICK rc : rc = [s.recent EXCEPT ![g] = TRUE]
  OBVIOUS
<1>2. PICK u : u = WithRecent(s, rc)
  OBVIOUS
<1>3. s \in AvahiState /\ g \in Group
  BY Names DEF Startable
<1>4. RecentTo(s, u, g, TRUE)
  BY <1>1, <1>2, <1>3, RecentFields
<1>5. PICK v : v = IF s.state[g] = "REGISTERING" THEN u ELSE Entered(u, g, "REGISTERING")
  OBVIOUS
<1>6. v \in AvahiState
  BY <1>3, <1>4, <1>5, RegisteringJoins DEF Joins
<1>7. PICK w : w = IF s.state[g] = "REGISTERING" THEN v ELSE HostRegistered(v, g, "REGISTERING")
  OBVIOUS
<1>8. w \in AvahiState /\ SameView(v, w)
  <2>1. CASE w = v
    BY <1>6, <2>1 DEF SameView
  <2>2. CASE w = HostRegistered(v, g, "REGISTERING")
    BY <1>6, <2>2, HostRegisteringIs
  <2> QED BY <1>7, <2>1, <2>2
<1>9. PICK x : x = NewAnnouncers(w, Entries(g) \X Iface)
  OBVIOUS
<1>10. t = CheckProbed(x, g, FALSE, HostRegistered)
  BY <1>1, <1>2, <1>4, <1>5, <1>7, <1>9 DEF CommitReal, ChangeState, WithRecent, RecentTo
<1>11. x \in Shows(I, X) /\ Full(x, g, I)
  BY <1>3, <1>4, <1>5, <1>8, <1>9, JoinedShows
<1> QED BY <1>10, <1>11, ProbedHostShows

LEMMA CommitHostShows ==
  ASSUME NEW I \in SUBSET Iface, NEW X, NEW s \in Shows(I, X), NEW g \in Address, Entries(g) \subseteq s.live,
         NEW t, t = Commit(s, g, HostRegistered)
  PROVE  t \in Shows(I, X)
<1>1. g \in Group /\ g # "svc"
  BY Names
<1>2. CASE ~Commits(s, g)
  BY <1>2 DEF Commit
<1>3. CASE Commits(s, g) /\ ~s.recent[g]
  <2>1. t = CommitReal(s, g, HostRegistered)
    BY <1>3 DEF Commit
  <2>2. Startable(s, I, X, g)
    BY <1>1, MayStart
  <2> QED BY <2>1, <2>2, CommitRealHostShows
<1>4. CASE Commits(s, g) /\ s.recent[g]
  <2>1. s \in AvahiState /\ s.state[g] \in {"UNCOMMITED", "COLLISION"}
    BY <1>4 DEF Commits, Shows
  <2>2. PICK tm : tm = [s.timer EXCEPT ![g] = TRUE]
    OBVIOUS
  <2>3. PICK u : u = WithTimer(s, tm)
    OBVIOUS
  <2>4. TimerTo(s, u, g, TRUE)
    BY <1>1, <2>1, <2>2, <2>3, TimerFields
  <2>5. PICK v : v = Entered(u, g, "REGISTERING")
    OBVIOUS
  <2>6. t = HostRegistered(v, g, "REGISTERING")
    BY <1>4, <2>1, <2>2, <2>3, <2>4, <2>5 DEF Commit, ChangeState, WithTimer, TimerTo
  <2>7. v \in Shows(I, X)
    BY <1>1, <2>1, <2>4, <2>5, HeldOffShows
  <2>8. t \in AvahiState /\ SameView(v, t)
    BY <2>6, <2>7, HostRegisteringIs DEF Shows
  <2> QED BY <2>7, <2>8, ShowsSame
<1> QED BY <1>2, <1>3, <1>4

LEMMA UpdateShows ==
  ASSUME NEW I \in SUBSET Iface, NEW X, NEW s \in Shows(I, X), NEW a \in Address,
         NEW t, t = PlaceHost(s, a) \/ t = TakeHost(s, a)
  PROVE  t \in Shows(I, X)
<1>1. PICK d : d = IF WasPending(s, a) THEN DecreasePending(s) ELSE s
  OBVIOUS
<1>2. PICK u : u = AddAddress(s, a)
  OBVIOUS
<1>3. t = s \/ t = Reset(d, a) \/ (a \notin s.live /\ t = Commit(u, a, HostRegistered))
  BY <1>1, <1>2 DEF PlaceHost, TakeHost, UpdateAddress
<1>4. CASE t = Reset(d, a)
  <2>1. d \in Shows(I, X)
    BY <1>1, DecreaseShows
  <2> QED BY <1>4, <2>1, ResetShows
<1>5. CASE a \notin s.live /\ t = Commit(u, a, HostRegistered)
  <2>1. u \in Shows(I, X) /\ Entries(a) \subseteq u.live
    BY <1>2, <1>5, AddShows
  <2> QED BY <1>5, <2>1, CommitHostShows
<1> QED BY <1>3, <1>4, <1>5

LEMMA PlaceTheseShows ==
  ASSUME NEW I \in SUBSET Iface, NEW X, NEW s \in Shows(I, X), NEW A, NEW t, t = PlaceThese(s, A)
  PROVE  t \in Shows(I, X)
<1> DEFINE f[n \in 0 .. Len(Addresses)] == IF n = 0 THEN s ELSE PlaceOne(f[n-1], Addresses[n], A)
<1>1. t = f[Len(Addresses)]
  BY DEF PlaceThese, UpdateAddresses, Along, PlaceOne, PlaceHost
<1>2. PICK N \in Nat : N = Len(Addresses) /\ \A n \in 1 .. N : Addresses[n] \in Address
  BY AvahiAssumption
<1>3. t = f[N] /\ s \in Shows(I, X)
  BY <1>1, <1>2
<1>4. PICK S : S = Shows(I, X)
  OBVIOUS
<1>5. ASSUME NEW v \in S, NEW n \in 1 .. N PROVE PlaceOne(v, Addresses[n], A) \in S
  <2>1. PICK a \in Address : a = Addresses[n]
    BY <1>2
  <2>2. PICK u : u = PlaceHost(v, a)
    OBVIOUS
  <2>3. u \in Shows(I, X)
    BY <1>4, <2>2, UpdateShows
  <2> QED BY <1>4, <2>1, <2>2, <2>3 DEF PlaceOne
<1>6. PICK h \in [0 .. N -> S] : h = [n \in 0 .. N |-> IF n = 0 THEN s ELSE PlaceOne(h[n-1], Addresses[n], A)]
  <2>1. PICK g : g = [n \in 1 .. N |-> [v \in S |-> PlaceOne(v, Addresses[n], A)]]
    OBVIOUS
  <2>2. g \in [1 .. N -> [S -> S]] /\ s \in S
    BY <1>3, <1>4, <1>5, <2>1
  <2>3. PICK h \in [0 .. N -> S] : Runs(h, N, s, g)
    BY <2>2, Loops
  <2>4. ASSUME NEW n \in 0 .. N
        PROVE  h[n] = IF n = 0 THEN s ELSE PlaceOne(h[n-1], Addresses[n], A)
    <3>1. n # 0 => n \in 1 .. N /\ n - 1 \in 0 .. N /\ h[n-1] \in S
      BY <2>3
    <3> QED BY <2>1, <2>3, <3>1 DEF Runs
  <2> QED BY <2>3, <2>4
<1>7. f = [n \in 0 .. N |-> IF n = 0 THEN s ELSE PlaceOne(f[n-1], Addresses[n], A)]
  BY <1>2, <1>6
<1> HIDE DEF f
<1>8. f[0] = s /\ \A n \in 1 .. N : f[n] = PlaceOne(f[n-1], Addresses[n], A)
  BY <1>7
<1>9. PICK Q : Q = [n \in 0 .. N |-> S]
  OBVIOUS
<1>10. f[0] \in Q[0]
  BY <1>3, <1>4, <1>8, <1>9
<1>11. ASSUME NEW n \in 1 .. N, f[n-1] \in Q[n-1] PROVE f[n] \in Q[n]
  BY <1>5, <1>8, <1>9, <1>11
<1>12. f[N] \in Q[N]
  BY <1>10, <1>11, LoopEnds
<1> QED BY <1>3, <1>4, <1>9, <1>12

LEMMA TakeTheseShows ==
  ASSUME NEW I \in SUBSET Iface, NEW X, NEW s \in Shows(I, X), NEW A, NEW t, t = TakeThese(s, A)
  PROVE  t \in Shows(I, X)
<1> DEFINE f[n \in 0 .. Len(Addresses)] == IF n = 0 THEN s ELSE TakeOne(f[n-1], Addresses[n], A)
<1>1. t = f[Len(Addresses)]
  BY DEF TakeThese, UpdateAddresses, Along, TakeOne, TakeHost
<1>2. PICK N \in Nat : N = Len(Addresses) /\ \A n \in 1 .. N : Addresses[n] \in Address
  BY AvahiAssumption
<1>3. t = f[N] /\ s \in Shows(I, X)
  BY <1>1, <1>2
<1>4. PICK S : S = Shows(I, X)
  OBVIOUS
<1>5. ASSUME NEW v \in S, NEW n \in 1 .. N PROVE TakeOne(v, Addresses[n], A) \in S
  <2>1. PICK a \in Address : a = Addresses[n]
    BY <1>2
  <2>2. PICK u : u = TakeHost(v, a)
    OBVIOUS
  <2>3. u \in Shows(I, X)
    BY <1>4, <2>2, UpdateShows
  <2> QED BY <1>4, <2>1, <2>2, <2>3 DEF TakeOne
<1>6. PICK h \in [0 .. N -> S] : h = [n \in 0 .. N |-> IF n = 0 THEN s ELSE TakeOne(h[n-1], Addresses[n], A)]
  <2>1. PICK g : g = [n \in 1 .. N |-> [v \in S |-> TakeOne(v, Addresses[n], A)]]
    OBVIOUS
  <2>2. g \in [1 .. N -> [S -> S]] /\ s \in S
    BY <1>3, <1>4, <1>5, <2>1
  <2>3. PICK h \in [0 .. N -> S] : Runs(h, N, s, g)
    BY <2>2, Loops
  <2>4. ASSUME NEW n \in 0 .. N
        PROVE  h[n] = IF n = 0 THEN s ELSE TakeOne(h[n-1], Addresses[n], A)
    <3>1. n # 0 => n \in 1 .. N /\ n - 1 \in 0 .. N /\ h[n-1] \in S
      BY <2>3
    <3> QED BY <2>1, <2>3, <3>1 DEF Runs
  <2> QED BY <2>3, <2>4
<1>7. f = [n \in 0 .. N |-> IF n = 0 THEN s ELSE TakeOne(f[n-1], Addresses[n], A)]
  BY <1>2, <1>6
<1> HIDE DEF f
<1>8. f[0] = s /\ \A n \in 1 .. N : f[n] = TakeOne(f[n-1], Addresses[n], A)
  BY <1>7
<1>9. PICK Q : Q = [n \in 0 .. N |-> S]
  OBVIOUS
<1>10. f[0] \in Q[0]
  BY <1>3, <1>4, <1>8, <1>9
<1>11. ASSUME NEW n \in 1 .. N, f[n-1] \in Q[n-1] PROVE f[n] \in Q[n]
  BY <1>5, <1>8, <1>9, <1>11
<1>12. f[N] \in Q[N]
  BY <1>10, <1>11, LoopEnds
<1> QED BY <1>3, <1>4, <1>9, <1>12

-------------------------------------------------------------------------------
(* The host withdraws its records, registers them, and hears of collisions. *)

LEMMA WithdrawHostShows ==
  ASSUME NEW I \in SUBSET Iface, NEW X, NEW s \in Shows(I, X), NEW t, t = WithdrawHost(s)
  PROVE  t \in Shows(I, X)
<1>1. PICK u : u = TakeThese(s, Address)
  OBVIOUS
<1>2. u \in Shows(I, X)
  BY <1>1, TakeTheseShows
<1>3. t = [u EXCEPT !.pending = 0]
  BY <1>1 DEF WithdrawHost, UpdateAll, TakeThese
<1> QED BY <1>2, <1>3, PendingShows DEF Counter

LEMMA RegisterStuffShows ==
  ASSUME NEW I \in SUBSET Iface, NEW X, NEW s \in Shows(I, X), NEW t, t = RegisterStuff(s)
  PROVE  t \in Shows(I, X)
<1>1. PICK u : u = [s EXCEPT !.server = "REGISTERING"]
  OBVIOUS
<1>2. PICK v : v = PlaceThese(u, Address)
  OBVIOUS
<1>3. PICK w : w = IF s.server = "REGISTERING" THEN s ELSE [v EXCEPT !.told = Append(@, "REGISTERING")]
  OBVIOUS
<1>4. PICK x : x = [w EXCEPT !.pending = @ + 1]
  OBVIOUS
<1>5. PICK y : y = PlaceThese(x, Address)
  OBVIOUS
<1>6. t = DecreasePending(y)
  BY <1>1, <1>2, <1>3, <1>4, <1>5 DEF RegisterStuff, UpdateAll, PlaceThese
<1>7. w \in Shows(I, X)
  <2>1. "REGISTERING" \in ServerState
    BY DEF ServerState
  <2>2. u \in Shows(I, X)
    BY <1>1, <2>1, ServerShows
  <2>3. v \in Shows(I, X)
    BY <1>2, <2>2, PlaceTheseShows
  <2>4. CASE w = s
    BY <2>4
  <2>5. CASE w = [v EXCEPT !.told = Append(@, "REGISTERING")]
    BY <2>1, <2>3, <2>5, ServerShows
  <2> QED BY <1>3, <2>4, <2>5
<1>8. x \in Shows(I, X)
  <2>1. PICK n \in Counter : n = w.pending + 1
    BY <1>7 DEF Shows, AvahiState, Counter
  <2>2. x = [w EXCEPT !.pending = n]
    BY <1>4, <2>1
  <2> QED BY <1>7, <2>2, PendingShows
<1>9. y \in Shows(I, X)
  BY <1>5, <1>8, PlaceTheseShows
<1> QED BY <1>6, <1>9, DecreaseShows

LEMMA CollidedShows ==
  ASSUME NEW I \in SUBSET Iface, NEW g \in Group, NEW X, g = "svc" => X = {"svc"}, g # "svc" => X = {},
         NEW s \in Shows(I, X), NEW t, t = Callback(s, g, "COLLISION")
  PROVE  t \in Shows(I, {})
<1>1. CASE g = "svc"
  <2>1. PICK u : u = FreeGroup(s, "svc")
    OBVIOUS
  <2>2. s \in Shows(I, {} \union {"svc"}) /\ "svc" \in Group
    BY <1>1, {} \union {"svc"} = {"svc"}
  <2>3. u \in Shows(I, {})
    BY <2>1, <2>2, FreeShows
  <2>4. t = [u EXCEPT !.published = FALSE]
    BY <1>1, <2>1 DEF Callback
  <2>5. u \in AvahiState
    BY <2>3 DEF Shows
  <2>6. t \in AvahiState
    BY <2>4, <2>5 DEF AvahiState
  <2>7. SameView(u, t)
    BY <2>4, <2>5 DEF AvahiState, SameView
  <2> QED BY <2>3, <2>6, <2>7, ShowsSame
<1>2. CASE g # "svc"
  <2>1. PICK u : u = WithdrawHost(s)
    OBVIOUS
  <2>2. u \in Shows(I, {})
    BY <1>2, <2>1, WithdrawHostShows
  <2>3. t = s \/ t = SetSettled(u, "COLLISION")
    BY <1>2, <2>1 DEF Callback
  <2>4. "COLLISION" \in ServerState
    BY DEF ServerState
  <2>5. CASE t = SetSettled(u, "COLLISION")
    BY <2>2, <2>4, <2>5, SetSettledShows
  <2> QED BY <1>2, <2>3, <2>5
<1> QED BY <1>1, <1>2

LEMMA WithdrawEntryShows ==
  ASSUME NEW I \in SUBSET Iface, NEW s \in Shows(I, {}), NEW e \in Entry, NEW t, t = WithdrawEntry(s, e)
  PROVE  t \in Shows(I, {})
<1>1. PICK g \in Group : g = Of(e)
  BY Names
<1>2. PICK u : u = Cleared(s, g)
  OBVIOUS
<1>3. PICK v : v = Entered(u, g, "COLLISION")
  OBVIOUS
<1>4. t = s \/ t = IF u.state[g] = "COLLISION" THEN u ELSE Callback(v, g, "COLLISION")
  BY <1>1, <1>2, <1>3 DEF WithdrawEntry, ChangeState, Cleared
<1>5. /\ u.state = s.state
      /\ g # "svc" /\ s.state[g] = "COLLISION" => u \in Shows(I, {})
      /\ g # "svc" => v \in Shows(I, {})
      /\ v \in Shows(I, {} \union {g})
  BY <1>2, <1>3, ClearedShows
<1>6. s.state["svc"] # "COLLISION"
  BY DEF Shows, Shown, Basis, Unhurried
<1>7. g = "svc" => v \in Shows(I, {"svc"})
  BY <1>5, {} \union {g} = {g}
<1>8. CASE t = Callback(v, g, "COLLISION")
  BY <1>5, <1>7, <1>8, CollidedShows
<1> QED BY <1>4, <1>5, <1>6, <1>8

LEMMA WithdrawRrsetShows ==
  ASSUME NEW I \in SUBSET Iface, NEW s \in Shows(I, {}), NEW seq, NEW e, seq = SetToSeq(SameKey(s, e)),
         NEW t, t = WithdrawRrset(s, e)
  PROVE  t \in Shows(I, {})
<1> DEFINE f[n \in 0 .. Len(seq)] == IF n = 0 THEN s ELSE WithdrawEntry(f[n-1], seq[n])
<1>1. t = f[Len(seq)]
  BY DEF WithdrawRrset, Along
<1>2. PICK N \in Nat : N = Len(seq) /\ \A n \in 1 .. N : seq[n] \in Entry
  <2>1. SameKey(s, e) \subseteq Entry
    BY DEF SameKey, Shows, AvahiState
  <2>2. IsFiniteSet(SameKey(s, e))
    BY <2>1, FinitePairs, FS_Subset
  <2>3. Len(seq) \in Nat /\ seq \in [1 .. Len(seq) -> SameKey(s, e)]
    BY <2>2, ListIs
  <2> QED BY <2>1, <2>3
<1>3. t = f[N] /\ s \in Shows(I, {})
  BY <1>1, <1>2
<1>4. PICK S : S = Shows(I, {})
  OBVIOUS
<1>5. ASSUME NEW v \in S, NEW n \in 1 .. N PROVE WithdrawEntry(v, seq[n]) \in S
  <2>1. PICK d \in Entry : d = seq[n]
    BY <1>2
  <2>2. PICK u : u = WithdrawEntry(v, d)
    OBVIOUS
  <2>3. u \in Shows(I, {})
    BY <1>4, <2>2, WithdrawEntryShows
  <2> QED BY <1>4, <2>1, <2>2, <2>3
<1>6. PICK h \in [0 .. N -> S] : h = [n \in 0 .. N |-> IF n = 0 THEN s ELSE WithdrawEntry(h[n-1], seq[n])]
  <2>1. PICK g : g = [n \in 1 .. N |-> [v \in S |-> WithdrawEntry(v, seq[n])]]
    OBVIOUS
  <2>2. g \in [1 .. N -> [S -> S]] /\ s \in S
    BY <1>3, <1>4, <1>5, <2>1
  <2>3. PICK h \in [0 .. N -> S] : Runs(h, N, s, g)
    BY <2>2, Loops
  <2>4. ASSUME NEW n \in 0 .. N
        PROVE  h[n] = IF n = 0 THEN s ELSE WithdrawEntry(h[n-1], seq[n])
    <3>1. n # 0 => n \in 1 .. N /\ n - 1 \in 0 .. N /\ h[n-1] \in S
      BY <2>3
    <3> QED BY <2>1, <2>3, <3>1 DEF Runs
  <2> QED BY <2>3, <2>4
<1>7. f = [n \in 0 .. N |-> IF n = 0 THEN s ELSE WithdrawEntry(f[n-1], seq[n])]
  BY <1>2, <1>6
<1> HIDE DEF f
<1>8. f[0] = s /\ \A n \in 1 .. N : f[n] = WithdrawEntry(f[n-1], seq[n])
  BY <1>7
<1>9. PICK Q : Q = [n \in 0 .. N |-> S]
  OBVIOUS
<1>10. f[0] \in Q[0]
  BY <1>3, <1>4, <1>8, <1>9
<1>11. ASSUME NEW n \in 1 .. N, f[n-1] \in Q[n-1] PROVE f[n] \in Q[n]
  BY <1>5, <1>8, <1>9, <1>11
<1>12. f[N] \in Q[N]
  BY <1>10, <1>11, LoopEnds
<1> QED BY <1>3, <1>4, <1>9, <1>12

\* A group's last probe is over, or its registration begins: whoever hears of it.
LEMMA ProbedGroupShows ==
  ASSUME NEW I \in SUBSET Iface, NEW X, NEW s \in Shows(I, X), NEW g \in Group,
         s.state[g] = "REGISTERING" => Full(s, g, I), NEW t, t = CheckProbed(s, g, TRUE, Callback)
  PROVE  t \in Shows(I, X)
<1>1. CASE g = "svc"
  <2>1. t = CheckProbed(s, g, TRUE, Ignore)
    BY <1>1, ServiceIgnores
  <2> QED BY <2>1, ProbedShows
<1>2. CASE g # "svc"
  <2>1. g \in Address /\ t = CheckProbed(s, g, TRUE, HostRegistered)
    BY <1>2, HostHears DEF Group
  <2> QED BY <2>1, ProbedHostShows
<1> QED BY <1>1, <1>2

LEMMA CommitRealGroupShows ==
  ASSUME NEW I \in SUBSET Iface, NEW X, NEW s, NEW g \in Group, Startable(s, I, X, g),
         NEW t, t = CommitReal(s, g, Callback)
  PROVE  t \in Shows(I, X)
<1>1. CASE g = "svc"
  <2>1. t = CommitReal(s, g, Ignore)
    BY <1>1, ServiceIgnores
  <2> QED BY <2>1, CommitRealShows
<1>2. CASE g # "svc"
  <2>1. g \in Address /\ t = CommitReal(s, g, HostRegistered)
    BY <1>2, HostHears DEF Group
  <2> QED BY <2>1, CommitRealHostShows
<1> QED BY <1>1, <1>2

LEMMA FreeAddressShows ==
  ASSUME NEW I \in SUBSET Iface, NEW X, NEW s \in Shows(I, X), NEW a \in Address, NEW t, t = FreeAddress(s, a)
  PROVE  t \in Shows(I, X)
<1>1. PICK u : u = TakeHost(s, a)
  OBVIOUS
<1>2. u \in Shows(I, X)
  BY <1>1, UpdateShows
<1>3. PICK v : v = [u EXCEPT !.present = @ \ {a}]
  OBVIOUS
<1>4. v \in AvahiState /\ SameView(u, v)
  BY <1>2, <1>3 DEF Shows, AvahiState, SameView
<1>5. v \in Shows(I, X)
  BY <1>2, <1>4, ShowsSame
<1>6. v \in Shows(I, X \union {a}) /\ a \in Group
  BY <1>5, ShowsLess, Names
<1>7. t = FreeGroup(v, a)
  BY <1>1, <1>3 DEF FreeAddress, TakeHost
<1> QED BY <1>6, <1>7, FreeShows

LEMMA FreeTheseShows ==
  ASSUME NEW I \in SUBSET Iface, NEW X, NEW s \in Shows(I, X), NEW mine, NEW t, t = FreeAddresses(s, mine)
  PROVE  t \in Shows(I, X)
<1> DEFINE f[n \in 0 .. Len(Addresses)] == IF n = 0 THEN s ELSE FreeOne(f[n-1], Addresses[n], mine)
<1>1. t = f[Len(Addresses)]
  BY DEF FreeAddresses, Along, FreeOne
<1>2. PICK N \in Nat : N = Len(Addresses) /\ \A n \in 1 .. N : Addresses[n] \in Address
  BY AvahiAssumption
<1>3. t = f[N] /\ s \in Shows(I, X)
  BY <1>1, <1>2
<1>4. PICK S : S = Shows(I, X)
  OBVIOUS
<1>5. ASSUME NEW v \in S, NEW n \in 1 .. N PROVE FreeOne(v, Addresses[n], mine) \in S
  <2>1. PICK a \in Address : a = Addresses[n]
    BY <1>2
  <2>2. PICK u : u = FreeAddress(v, a)
    OBVIOUS
  <2>3. u \in Shows(I, X)
    BY <1>4, <2>2, FreeAddressShows
  <2> QED BY <1>4, <2>1, <2>2, <2>3 DEF FreeOne
<1>6. PICK h \in [0 .. N -> S] : h = [n \in 0 .. N |-> IF n = 0 THEN s ELSE FreeOne(h[n-1], Addresses[n], mine)]
  <2>1. PICK g : g = [n \in 1 .. N |-> [v \in S |-> FreeOne(v, Addresses[n], mine)]]
    OBVIOUS
  <2>2. g \in [1 .. N -> [S -> S]] /\ s \in S
    BY <1>3, <1>4, <1>5, <2>1
  <2>3. PICK h \in [0 .. N -> S] : Runs(h, N, s, g)
    BY <2>2, Loops
  <2>4. ASSUME NEW n \in 0 .. N
        PROVE  h[n] = IF n = 0 THEN s ELSE FreeOne(h[n-1], Addresses[n], mine)
    <3>1. n # 0 => n \in 1 .. N /\ n - 1 \in 0 .. N /\ h[n-1] \in S
      BY <2>3
    <3> QED BY <2>1, <2>3, <3>1 DEF Runs
  <2> QED BY <2>3, <2>4
<1>7. f = [n \in 0 .. N |-> IF n = 0 THEN s ELSE FreeOne(f[n-1], Addresses[n], mine)]
  BY <1>2, <1>6
<1> HIDE DEF f
<1>8. f[0] = s /\ \A n \in 1 .. N : f[n] = FreeOne(f[n-1], Addresses[n], mine)
  BY <1>7
<1>9. PICK Q : Q = [n \in 0 .. N |-> S]
  OBVIOUS
<1>10. f[0] \in Q[0]
  BY <1>3, <1>4, <1>8, <1>9
<1>11. ASSUME NEW n \in 1 .. N, f[n-1] \in Q[n-1] PROVE f[n] \in Q[n]
  BY <1>5, <1>8, <1>9, <1>11
<1>12. f[N] \in Q[N]
  BY <1>10, <1>11, LoopEnds
<1> QED BY <1>3, <1>4, <1>9, <1>12

-------------------------------------------------------------------------------
(* An interface is announced on, or left. *)

LEMMA AnnouncesShows ==
  ASSUME NEW X, NEW s \in Shows(Iface, X), NEW i \in Iface, NEW joins \in BOOLEAN, NEW t, t = Announces(s, i, joins)
  PROVE  t \in Shows(Iface, X)
<1>1. CASE ~joins
  BY <1>1 DEF Announces
<1>2. CASE joins
  <2>1. PICK x : x = [s.announcing EXCEPT ![i] = TRUE]
    OBVIOUS
  <2>2. PICK u : u = [s EXCEPT !.announcing = x]
    OBVIOUS
  <2>3. PICK P \in SUBSET Pair : P = Entry \X {i}
    BY DEF Pair
  <2>4. t = NewAnnouncers(u, P)
    BY <1>2, <2>1, <2>2, <2>3 DEF Announces
  <2>5. s \in AvahiState /\ Basis(s, Iface, X) /\ Manned(s, Entry \X Iface)
    BY DEF Shows, Shown
  <2>6. x \in [Iface -> BOOLEAN] /\ x[i] = TRUE /\ \A j \in Iface : j # i => x[j] = s.announcing[j]
    BY <2>1, <2>5, Fields
  <2>7. u \in AvahiState
    BY <2>2, <2>5, <2>6 DEF AvahiState
  <2>8. /\ u.live = s.live /\ u.ver = s.ver /\ u.ann = s.ann /\ u.state = s.state /\ u.timer = s.timer
        /\ u.recent = s.recent /\ u.announcing = x /\ u.heard = s.heard
    BY <2>2, <2>5, <2>6 DEF AvahiState
  <2>9. \A e : Committed(u, e) <=> Committed(s, e)
    BY <2>8 DEF Committed
  <2>10. \A j \in Iface : s.announcing[j] => u.announcing[j]
    BY <2>6, <2>8
  <2>11. Rooted(u) /\ Linked(u)
    BY <2>5, <2>8, <2>9, <2>10, Names DEF Basis, Rooted, Linked
  <2>12. Waits(u, X) /\ Told(u) /\ Unhurried(u, X)
    BY <2>5, <2>8 DEF Basis, Waits, Told, Unhurried
  <2>13. Taken(u, Iface)
    <3>1. SUFFICES ASSUME NEW j \in Iface, NEW y \in s.heard[j] PROVE Backed(u, j, y)
      BY <2>8 DEF Taken
    <3>2. Backed(s, j, y)
      BY <2>5 DEF Basis, Taken
    <3>3. Registered(u, <<y[1], j>>) <=> Registered(s, <<y[1], j>>)
      BY <2>8 DEF Registered
    <3> QED BY <2>8, <2>10, <3>2, <3>3 DEF Backed
  <2>14. Basis(u, Iface, X)
    BY <2>11, <2>12, <2>13 DEF Basis
  <2>15. PICK C \in SUBSET Pair : C = Pair \ P
    OBVIOUS
  <2>16. Manned(u, C)
    <3>1. SUFFICES ASSUME NEW p \in C, Owed(u, p), ~u.timer[Of(p[1])] PROVE u.ann[p] # NoAnnouncer
      BY DEF Manned
    <3>2. p \in Pair /\ p[2] \in Iface /\ p[2] # i
      BY <2>3, <2>15, Names DEF Pair
    <3>3. Owed(s, p)
      BY <2>6, <2>8, <2>9, <3>1, <3>2 DEF Owed
    <3> QED BY <2>5, <2>8, <3>1, <3>2, <3>3 DEF Manned, Pair
  <2>17. NewTo(u, t, Iface, X, C, P)
    BY <2>3, <2>4, <2>7, <2>14, <2>15, <2>16, NewShows
  <2>18. C \union P = Entry \X Iface
    BY <2>3, <2>15 DEF Pair
  <2> QED BY <2>17, <2>18 DEF NewTo, Shows, Shown
<1> QED BY <1>1, <1>2

RemovedTo(s, t, P) ==
    /\ t \in AvahiState
    /\ t.live = s.live /\ t.ver = s.ver /\ t.state = s.state /\ t.timer = s.timer
    /\ t.recent = s.recent /\ t.announcing = s.announcing /\ t.heard = s.heard
    /\ \A p \in Pair : t.ann[p] = IF p \in P THEN NoAnnouncer ELSE s.ann[p]
LEMMA RemovedFields ==
  ASSUME NEW s \in AvahiState, NEW P \in SUBSET Pair, NEW t, t = RemoveAnnouncers(s, P)
  PROVE  RemovedTo(s, t, P)
<1>1. /\ t \in AvahiState /\ \A p \in Pair : t.ann[p] = IF p \in P THEN NoAnnouncer ELSE s.ann[p]
      /\ \E ann : t = [s EXCEPT !.ann = ann]
  BY RemoveKeeps
<1>2. PICK ann : t = [s EXCEPT !.ann = ann]
  BY <1>1
<1>3. /\ t.live = s.live /\ t.ver = s.ver /\ t.state = s.state /\ t.timer = s.timer
      /\ t.recent = s.recent /\ t.announcing = s.announcing /\ t.heard = s.heard
  BY <1>2 DEF AvahiState
<1> QED BY <1>1, <1>3 DEF RemovedTo

\* No announcer is on link i, and what its listeners hold is left open.
Unmanned(t, i, X) ==
    t \in Shows(Iface \ {i}, X) /\ \A p \in Pair : p[2] = i => t.ann[p] = NoAnnouncer
LEMMA UnmannedShows ==
  ASSUME NEW X, NEW s \in Shows(Iface, X), NEW i \in Iface, NEW P, P = Entry \X {i},
         NEW t, t = RemoveAnnouncers(s, P)
  PROVE  Unmanned(t, i, X)
<1>1. P \in SUBSET Pair /\ \A p \in Pair : p \in P <=> p[2] = i
  BY Names DEF Pair
<1>2. s \in AvahiState /\ Basis(s, Iface, X) /\ Manned(s, Entry \X Iface)
  BY DEF Shows, Shown
<1>4. RemovedTo(s, t, P)
  BY <1>1, <1>2, RemovedFields
<1>6. /\ t.live = s.live /\ t.ver = s.ver /\ t.state = s.state /\ t.timer = s.timer
      /\ t.recent = s.recent /\ t.announcing = s.announcing /\ t.heard = s.heard
      /\ t \in AvahiState
  BY <1>4 DEF RemovedTo
<1>7. \A p \in Pair : /\ p[2] = i => t.ann[p] = NoAnnouncer
                      /\ p[2] # i => t.ann[p] = s.ann[p]
  BY <1>1, <1>4 DEF RemovedTo
<1>8. \A e : Committed(t, e) <=> Committed(s, e)
  BY <1>6 DEF Committed
<1>9. Rooted(t) /\ Unhurried(t, X)
  BY <1>2, <1>6, <1>8 DEF Basis, Rooted, Unhurried
<1>15. Linked(t)
  <2>1. SUFFICES ASSUME NEW p \in Pair, t.ann[p] # NoAnnouncer
                 PROVE  p[1] \in t.live /\ Match(p) /\ t.announcing[p[2]] /\ Committed(t, p[1])
    BY DEF Linked
  <2>2. s.ann[p] # NoAnnouncer
    BY <1>7, <2>1
  <2> QED BY <1>2, <1>6, <1>8, <2>2 DEF Basis, Linked
<1>16. \A p \in Pair : t.ann[p].st # "none" => t.ann[p] = s.ann[p]
  BY <1>7, AnnIs
<1>17. Waits(t, X)
  BY <1>2, <1>6, <1>16 DEF Basis, Waits
<1>18. Told(t)
  BY <1>2, <1>6, <1>16 DEF Basis, Told
<1>10. Waits(t, X) /\ Told(t)
  BY <1>17, <1>18
<1>11. PICK J \in SUBSET Iface : J = Iface \ {i}
  OBVIOUS
<1>12. Taken(t, J)
  <2>1. SUFFICES ASSUME NEW j \in J, NEW x \in s.heard[j] PROVE Backed(t, j, x)
    BY <1>6 DEF Taken
  <2>2. j \in Iface /\ j # i /\ x[1] \in Entry
    BY <1>2, <1>11, Fields
  <2>3. t.ann[<<x[1], j>>] = s.ann[<<x[1], j>>]
    BY <1>7, <2>2, Names
  <2> QED BY <1>2, <1>6, <2>2, <2>3 DEF Basis, Taken, Backed, Registered
<1>13. Manned(t, Entry \X J)
  <2>1. SUFFICES ASSUME NEW p \in Entry \X J, Owed(t, p), ~t.timer[Of(p[1])] PROVE t.ann[p] # NoAnnouncer
    BY DEF Manned
  <2>2. p \in Entry \X Iface /\ p \in Pair /\ p[2] # i
    BY <1>11 DEF Pair
  <2>3. Owed(s, p)
    BY <1>6, <1>8, <2>1 DEF Owed
  <2> QED BY <1>2, <1>6, <1>7, <2>1, <2>2, <2>3 DEF Manned
<1>14. Basis(t, J, X)
  BY <1>9, <1>10, <1>12, <1>15 DEF Basis
<1> QED BY <1>6, <1>7, <1>11, <1>13, <1>14 DEF Shows, Shown, Unmanned

LinkGone(s, t, i) ==
    /\ t \in AvahiState
    /\ t.live = s.live /\ t.ver = s.ver /\ t.ann = s.ann /\ t.state = s.state /\ t.timer = s.timer
    /\ t.recent = s.recent
    /\ t.announcing[i] = FALSE /\ t.heard[i] = {}
    /\ \A j \in Iface : j # i => t.announcing[j] = s.announcing[j] /\ t.heard[j] = s.heard[j]
LEMMA GoneShows ==
  ASSUME NEW X, NEW i \in Iface, NEW s \in Shows(Iface \ {i}, X), NEW t, LinkGone(s, t, i), Linked(t)
  PROVE  t \in Shows(Iface, X)
<1> USE DEF LinkGone
<1>1. PICK J \in SUBSET Iface : J = Iface \ {i}
  OBVIOUS
<1>2. s \in AvahiState /\ Basis(s, J, X) /\ Manned(s, Entry \X J)
  BY <1>1 DEF Shows, Shown
<1>3. \A e : Committed(t, e) <=> Committed(s, e)
  BY DEF Committed
<1>4. Rooted(t) /\ Unhurried(t, X) /\ Waits(t, X)
  BY <1>2, <1>3 DEF Basis, Rooted, Unhurried, Waits
<1>5. Told(t)
  <2>1. SUFFICES ASSUME NEW p \in Pair, t.ann[p].st = "ESTABLISHED", Alone(p)
                 PROVE  <<p[1], t.ver[p[1]]>> \in t.heard[p[2]]
    BY DEF Told
  <2>2. p[2] \in Iface /\ p[2] # i
    BY <2>1, AnnIs, Names DEF Linked
  <2> QED BY <1>2, <2>1, <2>2 DEF Basis, Told
<1>6. Taken(t, Iface)
  <2>1. SUFFICES ASSUME NEW j \in Iface, NEW x \in t.heard[j] PROVE Backed(t, j, x)
    BY DEF Taken
  <2>2. j \in J /\ x \in s.heard[j] /\ t.announcing[j] = s.announcing[j]
    BY <1>1, <2>1
  <2> QED BY <1>2, <2>2 DEF Basis, Taken, Backed, Registered
<1>7. Manned(t, Entry \X Iface)
  <2>1. SUFFICES ASSUME NEW p \in Entry \X Iface, Owed(t, p), ~t.timer[Of(p[1])] PROVE t.ann[p] # NoAnnouncer
    BY DEF Manned
  <2>2. p[2] \in Iface /\ p[2] # i /\ p \in Entry \X J
    BY <1>1, <2>1 DEF Owed
  <2>3. Owed(s, p)
    BY <1>3, <2>1, <2>2 DEF Owed
  <2> QED BY <1>2, <2>1, <2>2, <2>3 DEF Manned
<1> QED BY <1>4, <1>5, <1>6, <1>7 DEF Basis, Shows, Shown

LEMMA LeavesShows ==
  ASSUME NEW X, NEW s \in Shows(Iface, X), NEW i \in Iface, NEW t, t = Leaves(s, i)
  PROVE  t \in Shows(Iface, X)
<1>12. PICK P : P = Entry \X {i}
  OBVIOUS
<1>1. PICK u : u = RemoveAnnouncers(s, P)
  OBVIOUS
<1>13. Unmanned(u, i, X)
  BY <1>1, <1>12, UnmannedShows
<1>2. u \in Shows(Iface \ {i}, X) /\ \A p \in Pair : p[2] = i => u.ann[p] = NoAnnouncer
  BY <1>13 DEF Unmanned
<1>3. u \in AvahiState /\ Linked(u)
  BY <1>2 DEF Shows, Shown, Basis
<1>4. PICK x : x = [u.announcing EXCEPT ![i] = FALSE]
  OBVIOUS
<1>5. PICK heard : heard = [u.heard EXCEPT ![i] = {}]
  OBVIOUS
<1>20. PICK stale : stale = [u.stale EXCEPT ![i] = {}]
  OBVIOUS
<1>6. /\ x \in [Iface -> BOOLEAN] /\ x[i] = FALSE /\ \A j \in Iface : j # i => x[j] = u.announcing[j]
      /\ heard \in [Iface -> SUBSET (Entry \X Version)] /\ heard[i] = {}
      /\ stale \in [Iface -> SUBSET (Entry \X Version)]
      /\ \A j \in Iface : j # i => heard[j] = u.heard[j]
  BY <1>3, <1>4, <1>5, <1>20, Fields
<1>7. t = WithLink(u, x, heard, stale)
  BY <1>1, <1>4, <1>5, <1>12, <1>20 DEF Leaves, WithLink
<1>8. t \in AvahiState /\ t.announcing = x /\ t.heard = heard
  BY <1>3, <1>6, <1>7, LinkSet
<1>9. /\ t.live = u.live /\ t.ver = u.ver /\ t.ann = u.ann /\ t.state = u.state /\ t.timer = u.timer
      /\ t.recent = u.recent
  BY <1>3, <1>7 DEF WithLink, AvahiState
<1>10. LinkGone(u, t, i)
  BY <1>6, <1>8, <1>9 DEF LinkGone
<1>11. Linked(t)
  <2>1. SUFFICES ASSUME NEW p \in Pair, t.ann[p] # NoAnnouncer
                 PROVE  p[1] \in t.live /\ Match(p) /\ t.announcing[p[2]] /\ Committed(t, p[1])
    BY DEF Linked
  <2>2. p[2] \in Iface /\ p[2] # i
    BY <1>2, <1>9, <2>1, Names
  <2>3. Committed(t, p[1]) <=> Committed(u, p[1])
    BY <1>9 DEF Committed
  <2> QED BY <1>3, <1>6, <1>8, <1>9, <2>1, <2>2, <2>3 DEF Linked
<1> QED BY <1>2, <1>10, <1>11, GoneShows

LEMMA CheckRelevantShows ==
  ASSUME NEW X, NEW s \in Shows(Iface, X), NEW i \in Iface, NEW joins \in BOOLEAN, NEW t, t = CheckRelevant(s, i, joins)
  PROVE  t \in Shows(Iface, X)
<1>1. t = s \/ t = Announces(s, i, joins) \/ t = Leaves(s, i)
  BY DEF CheckRelevant
<1> QED BY <1>1, AnnouncesShows, LeavesShows

-------------------------------------------------------------------------------
(* The events: what listeners hold, and the announcers, are in order after each. *)

LEMMA NowShows ==
  ASSUME Upright(avahi), avahi \in Shows(Iface, {})
  PROVE  Now \in Shows(Iface, {}) /\ SameView(avahi, Now)
<1>1. avahi \in AvahiState /\ Now \in AvahiState
  BY NowIs DEF Upright, Whole, Good
<1>2. SameView(avahi, Now)
  BY <1>1 DEF Now, SameView, AvahiState
<1> QED BY <1>1, <1>2, ShowsSame

LEMMA HappensShows ==
  ASSUME Upright(avahi), MayHappen, avahi \in Shows(Iface, {})
  PROVE  Happens \in Shows(Iface, {}) /\ SameView(avahi, Happens)
<1>1. avahi \in AvahiState /\ Happens \in AvahiState
  BY HappensIs DEF Upright, Whole, Good
<1>2. SameView(avahi, Happens)
  BY <1>1 DEF Now, Happens, SameView, AvahiState
<1> QED BY <1>1, <1>2, ShowsSame

LEMMA DoesShows ==
  ASSUME NEW s \in Shows(Iface, {}), Does(s)
  PROVE  avahi' \in Shows(Iface, {})
<1>1. PICK ready \in BOOLEAN : avahi' = [s EXCEPT !.ready = ready]
  BY DEF Does
<1>2. s \in AvahiState
  BY DEF Shows
<1>3. PICK t : t = avahi'
  OBVIOUS
<1>4. t \in AvahiState /\ SameView(s, t)
  BY <1>1, <1>2, <1>3 DEF AvahiState, SameView
<1> QED BY <1>3, <1>4, ShowsSame

LEMMA ServerNewShows ==
  ASSUME Upright(avahi), avahi \in Shows(Iface, {}), ServerNew
  PROVE  avahi' \in Shows(Iface, {})
<1>1. PICK s \in Shows(Iface, {}) : s = Now
  BY NowShows
<1>2. PICK t : t = RegisterStuff(s)
  OBVIOUS
<1>3. t \in Shows(Iface, {})
  BY <1>2, RegisterStuffShows
<1> QED BY <1>1, <1>2, <1>3, DoesShows DEF ServerNew

LEMMA SetHostNameShows ==
  ASSUME Upright(avahi), MayHappen, avahi \in Shows(Iface, {}), NEW h \in HostName, SetHostName(h)
  PROVE  avahi' \in Shows(Iface, {})
<1>1. PICK s \in Shows(Iface, {}) : s = Happens
  BY HappensShows
<1>2. PICK w : w = WithdrawHost(s)
  OBVIOUS
<1>3. w \in Shows(Iface, {}) /\ w \in AvahiState
  BY <1>2, WithdrawHostShows DEF Shows
<1>4. PICK u : u = [w EXCEPT !.hostName = h]
  OBVIOUS
<1>5. u \in AvahiState /\ SameView(w, u)
  BY <1>3, <1>4 DEF AvahiState, SameView
<1>6. u \in Shows(Iface, {})
  BY <1>3, <1>5, ShowsSame
<1>7. PICK t : t = RegisterStuff(u)
  OBVIOUS
<1>8. t \in Shows(Iface, {})
  BY <1>6, <1>7, RegisterStuffShows
<1> QED BY <1>1, <1>2, <1>4, <1>7, <1>8, DoesShows DEF SetHostName

LEMMA RefreshShows ==
  ASSUME NEW s \in Shows(Iface, {}), NEW i \in Iface, NEW joins \in BOOLEAN,
         NEW u, u = CheckRelevant(s, i, joins), NEW t, t = UpdateInterface(u, i, FALSE)
  PROVE  t \in Shows(Iface, {})
<1>1. u \in Shows(Iface, {})
  BY CheckRelevantShows
<1>2. PICK A : A = {a \in Address : On[a] = i}
  OBVIOUS
<1>3. t = PlaceThese(u, A)
  BY <1>2 DEF UpdateInterface, PlaceThese
<1> QED BY <1>1, <1>3, PlaceTheseShows

LEMMA NewLinkShows ==
  ASSUME Upright(avahi), MayHappen, avahi \in Shows(Iface, {}),
         NEW i \in Iface, NEW ok \in BOOLEAN, NEW joins \in BOOLEAN, NewLink(i, ok, joins)
  PROVE  avahi' \in Shows(Iface, {})
<1>1. PICK s \in Shows(Iface, {}) : s = Happens
  BY HappensShows
<1>2. s \in AvahiState
  BY DEF Shows
<1>3. PICK x : x = [s.flags_ok EXCEPT ![i] = ok]
  OBVIOUS
<1>4. x \in [Iface -> BOOLEAN]
  BY <1>2, <1>3 DEF AvahiState
<1>5. PICK v : v = [s EXCEPT !.flags_ok = x]
  OBVIOUS
<1>6. v \in AvahiState /\ SameView(s, v)
  BY <1>2, <1>4, <1>5 DEF AvahiState, SameView
<1>7. v \in Shows(Iface, {})
  BY <1>6, ShowsSame
<1>8. PICK u : u = CheckRelevant(v, i, joins)
  OBVIOUS
<1>9. PICK t : t = UpdateInterface(u, i, FALSE)
  OBVIOUS
<1>10. t \in Shows(Iface, {})
  BY <1>7, <1>8, <1>9, RefreshShows
<1> QED BY <1>1, <1>3, <1>5, <1>8, <1>9, <1>10, DoesShows DEF NewLink

LEMMA NewAddrShows ==
  ASSUME Upright(avahi), MayHappen, avahi \in Shows(Iface, {}),
         NEW a \in Address, NEW joins \in BOOLEAN, NewAddr(a, joins)
  PROVE  avahi' \in Shows(Iface, {})
<1>1. PICK s \in Shows(Iface, {}) : s = Happens
  BY HappensShows
<1>2. s \in AvahiState
  BY DEF Shows
<1>3. PICK present \in SUBSET Address : present = s.present \cup {a}
  BY <1>2 DEF AvahiState
<1>4. PICK v : v = [s EXCEPT !.present = present]
  OBVIOUS
<1>5. v \in AvahiState /\ SameView(s, v)
  BY <1>2, <1>4 DEF AvahiState, SameView
<1>6. v \in Shows(Iface, {}) /\ On[a] \in Iface
  BY <1>5, ShowsSame, AvahiAssumption
<1>7. PICK u : u = CheckRelevant(v, On[a], joins)
  OBVIOUS
<1>8. PICK t : t = UpdateInterface(u, On[a], FALSE)
  OBVIOUS
<1>9. t \in Shows(Iface, {})
  BY <1>6, <1>7, <1>8, RefreshShows
<1> QED BY <1>1, <1>3, <1>4, <1>7, <1>8, <1>9, DoesShows DEF NewAddr

LEMMA DelAddrShows ==
  ASSUME Upright(avahi), MayHappen, avahi \in Shows(Iface, {}),
         NEW a \in Address, NEW joins \in BOOLEAN, DelAddr(a, joins)
  PROVE  avahi' \in Shows(Iface, {})
<1>1. PICK s \in Shows(Iface, {}) : s = Happens
  BY HappensShows
<1>2. PICK v : v = FreeAddress(s, a)
  OBVIOUS
<1>3. v \in Shows(Iface, {}) /\ On[a] \in Iface
  BY <1>2, FreeAddressShows, AvahiAssumption
<1>4. PICK u : u = CheckRelevant(v, On[a], joins)
  OBVIOUS
<1>5. PICK t : t = UpdateInterface(u, On[a], FALSE)
  OBVIOUS
<1>6. t \in Shows(Iface, {})
  BY <1>3, <1>4, <1>5, RefreshShows
<1> QED BY <1>1, <1>2, <1>4, <1>5, <1>6, DoesShows DEF DelAddr

LEMMA DelLinkShows ==
  ASSUME Upright(avahi), MayHappen, avahi \in Shows(Iface, {}), NEW i \in Iface, DelLink(i)
  PROVE  avahi' \in Shows(Iface, {})
<1>1. PICK s \in Shows(Iface, {}) : s = Happens
  BY HappensShows
<1>2. PICK J \in SUBSET Iface : J = Iface \ {i}
  OBVIOUS
<1>3. PICK A : A = {a \in Address : On[a] = i}
  OBVIOUS
<1>4. PICK mine : mine = {a \in avahi.present : On[a] = i}
  OBVIOUS
<1>5. PICK t : t = TakeThese(s, A)
  OBVIOUS
<1>6. PICK P : P = Entry \X {i}
  OBVIOUS
<1>7. PICK r : r = RemoveAnnouncers(t, P)
  OBVIOUS
<1>8. PICK u : u = TakeThese(r, A)
  OBVIOUS
<1>9. PICK w : w = FreeAddresses(u, mine)
  OBVIOUS
<1>10. PICK z : z = [w EXCEPT !.flags_ok[i] = FALSE, !.announcing[i] = FALSE,
                              !.heard[i] = {}, !.stale[i] = {}]
  OBVIOUS
<1>11. Does(z)
  <2>1. /\ t = UpdateInterface(Happens, i, TRUE)
        /\ r = RemoveAnnouncers(t, Entry \X {i})
        /\ u = UpdateInterface(r, i, TRUE)
    BY <1>1, <1>3, <1>5, <1>6, <1>7, <1>8 DEF UpdateInterface, TakeThese
  <2> QED BY <1>4, <1>9, <1>10, <2>1, Zenon DEF DelLink
<1>12. t \in Shows(Iface, {})
  BY <1>5, TakeTheseShows
<1>13. r \in Shows(J, {})
  <2>1. Unmanned(r, i, {})
    BY <1>6, <1>7, <1>12, UnmannedShows
  <2> QED BY <1>2, <2>1 DEF Unmanned
<1>14. u \in Shows(J, {})
  BY <1>8, <1>13, TakeTheseShows
<1>15. w \in Shows(J, {}) /\ w \in AvahiState
  BY <1>9, <1>14, FreeTheseShows DEF Shows
<1>16. PICK flags : flags = [w.flags_ok EXCEPT ![i] = FALSE]
  OBVIOUS
<1>17. PICK announcing : announcing = [w.announcing EXCEPT ![i] = FALSE]
  OBVIOUS
<1>18. PICK heard : heard = [w.heard EXCEPT ![i] = {}]
  OBVIOUS
<1>40. PICK stale : stale = [w.stale EXCEPT ![i] = {}]
  OBVIOUS
<1>19. z = [w EXCEPT !.flags_ok = flags, !.announcing = announcing, !.heard = heard, !.stale = stale]
  BY <1>10, <1>16, <1>17, <1>18, <1>40
<1>20. /\ flags \in [Iface -> BOOLEAN] /\ announcing \in [Iface -> BOOLEAN] /\ announcing[i] = FALSE
       /\ heard \in [Iface -> SUBSET (Entry \X Version)] /\ heard[i] = {}
       /\ stale \in [Iface -> SUBSET (Entry \X Version)]
       /\ \A j \in Iface : j # i => announcing[j] = w.announcing[j] /\ heard[j] = w.heard[j]
  BY <1>15, <1>16, <1>17, <1>18, <1>40 DEF AvahiState
<1>21. LinkGone(w, z, i)
  BY <1>15, <1>19, <1>20 DEF AvahiState, LinkGone
<1>22. Linked(z)
  <2>1. PICK ready \in BOOLEAN : avahi' = [z EXCEPT !.ready = ready]
    BY <1>11 DEF Does
  <2>2. PICK y : y = avahi'
    OBVIOUS
  <2>3. y.live = z.live /\ y.ann = z.ann /\ y.announcing = z.announcing /\ y.state = z.state
    BY <1>21, <2>1, <2>2 DEF LinkGone, AvahiState
  <2>4. \A g \in Group : Sound(y, g)
    BY <2>2, DelLinkKeeps DEF Upright, Whole, Good
  <2>5. SUFFICES ASSUME NEW p \in Pair, z.ann[p] # NoAnnouncer
                 PROVE  p[1] \in z.live /\ Match(p) /\ z.announcing[p[2]] /\ Committed(z, p[1])
    BY DEF Linked
  <2>6. Of(p[1]) \in Group /\ p \in PairsOf(Of(p[1])) /\ p[1] \in Entries(Of(p[1]))
    BY Names DEF PairsOf
  <2>7. p[1] \in y.live /\ Match(p) /\ y.announcing[p[2]] /\ Committed(y, p[1])
    BY <2>3, <2>4, <2>5, <2>6 DEF Sound, Founded
  <2> QED BY <2>3, <2>7 DEF Committed
<1>23. z \in Shows(Iface, {})
  BY <1>2, <1>15, <1>21, <1>22, GoneShows
<1> QED BY <1>11, <1>23, DoesShows

\* The links and addresses of the first list are looked at, one by one.
Checked(s, joins, seq) == Along(s, seq, LAMBDA t, i : CheckRelevant(t, i, joins[i]))

LEMMA ChecksShow ==
  ASSUME NEW s \in Shows(Iface, {}), NEW joins \in [Iface -> BOOLEAN], NEW seq, seq = SetToSeq(Iface),
         NEW t, t = Checked(s, joins, seq)
  PROVE  t \in Shows(Iface, {})
<1> DEFINE f[n \in 0 .. Len(seq)] == IF n = 0 THEN s ELSE CheckRelevant(f[n-1], seq[n], joins[seq[n]])
<1>1. t = f[Len(seq)]
  BY DEF Checked, Along
<1>2. PICK N \in Nat : N = Len(seq) /\ \A n \in 1 .. N : seq[n] \in Iface
  <2>1. Len(seq) \in Nat /\ seq \in [1 .. Len(seq) -> Iface]
    BY AvahiAssumption, ListIs
  <2> QED BY <2>1
<1>3. t = f[N] /\ s \in Shows(Iface, {})
  BY <1>1, <1>2
<1>4. PICK S : S = Shows(Iface, {})
  OBVIOUS
<1>5. ASSUME NEW v \in S, NEW n \in 1 .. N PROVE CheckRelevant(v, seq[n], joins[seq[n]]) \in S
  BY <1>2, <1>4, CheckRelevantShows
<1>6. PICK h \in [0 .. N -> S] : h = [n \in 0 .. N |-> IF n = 0 THEN s ELSE CheckRelevant(h[n-1], seq[n], joins[seq[n]])]
  <2>1. PICK g : g = [n \in 1 .. N |-> [v \in S |-> CheckRelevant(v, seq[n], joins[seq[n]])]]
    OBVIOUS
  <2>2. g \in [1 .. N -> [S -> S]] /\ s \in S
    BY <1>3, <1>4, <1>5, <2>1
  <2>3. PICK h \in [0 .. N -> S] : Runs(h, N, s, g)
    BY <2>2, Loops
  <2>4. ASSUME NEW n \in 0 .. N
        PROVE  h[n] = IF n = 0 THEN s ELSE CheckRelevant(h[n-1], seq[n], joins[seq[n]])
    <3>1. n # 0 => n \in 1 .. N /\ n - 1 \in 0 .. N /\ h[n-1] \in S
      BY <2>3
    <3> QED BY <2>1, <2>3, <3>1 DEF Runs
  <2> QED BY <2>3, <2>4
<1>7. f = [n \in 0 .. N |-> IF n = 0 THEN s ELSE CheckRelevant(f[n-1], seq[n], joins[seq[n]])]
  BY <1>2, <1>6
<1> HIDE DEF f
<1>8. f[0] = s /\ \A n \in 1 .. N : f[n] = CheckRelevant(f[n-1], seq[n], joins[seq[n]])
  BY <1>7
<1>9. PICK Q : Q = [n \in 0 .. N |-> S]
  OBVIOUS
<1>10. f[0] \in Q[0]
  BY <1>3, <1>4, <1>8, <1>9
<1>11. ASSUME NEW n \in 1 .. N, f[n-1] \in Q[n-1] PROVE f[n] \in Q[n]
  BY <1>5, <1>8, <1>9, <1>11
<1>12. f[N] \in Q[N]
  BY <1>10, <1>11, LoopEnds
<1> QED BY <1>3, <1>4, <1>9, <1>12

LEMMA ListCompleteShows ==
  ASSUME Upright(avahi), avahi \in Shows(Iface, {}), NEW joins \in [Iface -> BOOLEAN], ListComplete(joins)
  PROVE  avahi' \in Shows(Iface, {})
<1>1. PICK n \in Shows(Iface, {}) : n = Now
  BY NowShows
<1>2. n \in AvahiState
  BY DEF Shows
<1>3. PICK s : s = [n EXCEPT !.list_complete = TRUE]
  OBVIOUS
<1>4. s \in AvahiState /\ SameView(n, s)
  BY <1>2, <1>3 DEF AvahiState, SameView
<1>5. s \in Shows(Iface, {})
  BY <1>4, ShowsSame
<1>6. PICK seq : seq = SetToSeq(Iface)
  OBVIOUS
<1>7. PICK t : t = Checked(s, joins, seq)
  OBVIOUS
<1>8. t \in Shows(Iface, {})
  BY <1>5, <1>6, <1>7, ChecksShow
<1>9. PICK y : y = PlaceThese(t, Address)
  OBVIOUS
<1>10. y \in Shows(Iface, {})
  BY <1>8, <1>9, PlaceTheseShows
<1>11. Does(y)
  BY <1>1, <1>3, <1>6, <1>7, <1>9 DEF ListComplete, UpdateAll, PlaceThese, Checked
<1> QED BY <1>10, <1>11, DoesShows

LEMMA HoldoffElapsesShows ==
  ASSUME Upright(avahi), avahi \in Shows(Iface, {}), NEW g \in Group, HoldoffElapses(g)
  PROVE  avahi' \in Shows(Iface, {})
<1>1. PICK s \in Shows(Iface, {}) : s = Now
  BY NowShows
<1>2. s \in AvahiState /\ Basis(s, Iface, {}) /\ Manned(s, Entry \X Iface) /\ Sound(s, g) /\ s.timer[g]
  BY <1>1, NowShows, NowIs DEF Shows, Shown, Upright, Whole, Good, SameView, HoldoffElapses
<1>3. s.state[g] = "REGISTERING" /\ g # "svc" /\ g \in Address
  BY <1>2 DEF Sound, Basis, Unhurried, Group
<1>4. PICK tm : tm = [s.timer EXCEPT ![g] = FALSE]
  OBVIOUS
<1>5. PICK u : u = WithTimer(s, tm)
  OBVIOUS
<1>6. TimerTo(s, u, g, FALSE)
  BY <1>2, <1>4, <1>5, TimerFields
<1>7. Startable(u, Iface, {}, g)
  <2>1. OnAir(s, u) /\ u.state = s.state /\ u.recent = s.recent /\ u \in AvahiState
        /\ \A h \in Group : h # g => u.timer[h] = s.timer[h]
    BY <1>6 DEF TimerTo
  <2>2. \A e : Committed(u, e) <=> Committed(s, e)
    BY <2>1 DEF Committed
  <2>3. Rooted(u)
    BY <1>2, <2>1, <2>2 DEF Basis, Rooted, OnAir
  <2>4. \A p \in Pair : s.ann[p] # NoAnnouncer => Committed(u, p[1])
    BY <1>2, <2>2 DEF Basis, Linked
  <2>5. Waits(u, {}) /\ Unhurried(u, {})
    BY <1>2, <1>3, <2>1, Names DEF Basis, Waits, Unhurried, OnAir
  <2>6. Basis(u, Iface, {})
    BY <1>2, <2>1, <2>3, <2>4, <2>5, TurnShows
  <2>7. Manned(u, (Entry \X Iface) \ PairsOf(g))
    <3>1. SUFFICES ASSUME NEW p \in (Entry \X Iface) \ PairsOf(g), Owed(u, p), ~u.timer[Of(p[1])]
                   PROVE  u.ann[p] # NoAnnouncer
      BY DEF Manned
    <3>2. p \in Pair /\ Of(p[1]) \in Group /\ Of(p[1]) # g
      BY <3>1, Names DEF Pair, PairsOf
    <3>3. Owed(s, p) /\ ~s.timer[Of(p[1])]
      BY <2>1, <2>2, <3>1, <3>2 DEF Owed, OnAir
    <3> QED BY <1>2, <2>1, <3>3 DEF Manned, OnAir
  <2>8. Entries(g) \subseteq u.live
    BY <1>2, <1>3, <2>1, Names DEF Sound, Committed, OnAir
  <2> QED BY <2>1, <2>6, <2>7, <2>8 DEF Startable
<1>8. PICK t : t = CommitReal(u, g, Callback)
  OBVIOUS
<1>9. t \in Shows(Iface, {})
  BY <1>7, <1>8, CommitRealGroupShows
<1>10. Does(t)
  BY <1>1, <1>4, <1>5, <1>8 DEF HoldoffElapses, WithTimer
<1> QED BY <1>9, <1>10, DoesShows

LEMMA TimePassesShows ==
  ASSUME Upright(avahi), avahi \in Shows(Iface, {}), NEW g \in Group, TimePasses(g)
  PROVE  avahi' \in Shows(Iface, {})
<1>1. PICK s \in Shows(Iface, {}) : s = Now
  BY NowShows
<1>2. s \in AvahiState /\ Basis(s, Iface, {}) /\ Manned(s, Entry \X Iface)
  BY DEF Shows, Shown
<1>3. PICK rc : rc = [s.recent EXCEPT ![g] = FALSE]
  OBVIOUS
<1>4. PICK t : t = WithRecent(s, rc)
  OBVIOUS
<1>5. RecentTo(s, t, g, FALSE)
  BY <1>2, <1>3, <1>4, RecentFields
<1>6. /\ OnAir(s, t) /\ t.state = s.state /\ t.timer = s.timer /\ t \in AvahiState
      /\ t.recent[g] = FALSE /\ \A h \in Group : h # g => t.recent[h] = s.recent[h]
  BY <1>5 DEF RecentTo
<1>7. \A e : Committed(t, e) <=> Committed(s, e)
  BY <1>6 DEF Committed
<1>8. Rooted(t) /\ Waits(t, {}) /\ Unhurried(t, {}) /\ Manned(t, Entry \X Iface)
  BY <1>2, <1>6, <1>7, Names DEF Basis, Rooted, Waits, Unhurried, Manned, Owed, OnAir
<1>9. \A p \in Pair : s.ann[p] # NoAnnouncer => Committed(t, p[1])
  BY <1>2, <1>7 DEF Basis, Linked
<1>10. t \in Shows(Iface, {})
  BY <1>2, <1>6, <1>8, <1>9, TurnShows DEF Shows, Shown
<1>11. Does(t)
  BY <1>1, <1>3, <1>4 DEF TimePasses, WithRecent
<1> QED BY <1>10, <1>11, DoesShows

LEMMA PublishShows ==
  ASSUME Upright(avahi), avahi \in Shows(Iface, {}), Publish
  PROVE  avahi' \in Shows(Iface, {})
<1>1. PICK n \in Shows(Iface, {}) : n = Now
  BY NowShows
<1>2. n \in AvahiState
  BY DEF Shows
<1>3. PICK s : s = [n EXCEPT !.published = TRUE]
  OBVIOUS
<1>4. s \in AvahiState /\ SameView(n, s)
  BY <1>2, <1>3 DEF AvahiState, SameView
<1>5. s \in Shows(Iface, {}) /\ Basis(s, Iface, {}) /\ Manned(s, Entry \X Iface)
  BY <1>4, ShowsSame DEF Shows, Shown
<1>6. PICK live \in SUBSET Entry : live = s.live \cup Entries("svc")
  BY <1>4, Names DEF AvahiState
<1>7. PICK u : u = AddService(s)
  OBVIOUS
<1>8. u = [s EXCEPT !.live = live]
  BY <1>4, <1>6, <1>7 DEF AddService, AddRecords, AvahiState
<1>9. /\ u \in AvahiState /\ u.live = live
      /\ u.ver = s.ver /\ u.ann = s.ann /\ u.state = s.state /\ u.timer = s.timer
      /\ u.recent = s.recent /\ u.announcing = s.announcing /\ u.heard = s.heard
  BY <1>4, <1>8 DEF AvahiState
<1>10. \A e : Committed(u, e) <=> Committed(s, e)
  BY <1>9 DEF Committed
<1>11. \A p : Registered(u, p) <=> Registered(s, p)
  BY <1>9 DEF Registered
<1>12. Rooted(u) /\ Linked(u)
  BY <1>5, <1>6, <1>9, <1>10 DEF Basis, Rooted, Linked
<1>13. Waits(u, {}) /\ Told(u) /\ Unhurried(u, {}) /\ Taken(u, Iface)
  BY <1>5, <1>9, <1>11 DEF Basis, Waits, Told, Unhurried, Taken, Backed
<1>14. Manned(u, Entry \X Iface)
  BY <1>5, <1>9, <1>10 DEF Manned, Owed
<1>15. u \in Shows(Iface, {}) /\ Entries("svc") \subseteq u.live /\ "svc" \in Group
  BY <1>6, <1>9, <1>12, <1>13, <1>14, Names DEF Shows, Shown, Basis
<1>16. PICK t : t = Commit(u, "svc", Callback)
  OBVIOUS
<1>17. t = Commit(u, "svc", Ignore)
  BY <1>16, ServiceIgnores
<1>18. t \in Shows(Iface, {})
  BY <1>15, <1>17, CommitShows
<1>19. Does(t)
  BY <1>1, <1>3, <1>7, <1>16 DEF Publish
<1> QED BY <1>18, <1>19, DoesShows

LEMMA UnpublishShows ==
  ASSUME Upright(avahi), MayHappen, avahi \in Shows(Iface, {}), Unpublish
  PROVE  avahi' \in Shows(Iface, {})
<1>1. PICK s \in Shows(Iface, {}) : s = Happens
  BY HappensShows
<1>2. s \in Shows(Iface, {} \union {"svc"}) /\ "svc" \in Group
  BY ShowsLess, Names
<1>3. PICK u : u = FreeGroup(s, "svc")
  OBVIOUS
<1>4. u \in Shows(Iface, {}) /\ u \in AvahiState
  BY <1>2, <1>3, FreeShows DEF Shows
<1>5. PICK t : t = [u EXCEPT !.published = FALSE]
  OBVIOUS
<1>6. t \in AvahiState /\ SameView(u, t)
  BY <1>4, <1>5 DEF AvahiState, SameView
<1>7. t \in Shows(Iface, {})
  BY <1>4, <1>6, ShowsSame
<1>8. Does(t)
  BY <1>1, <1>3, <1>5 DEF Unpublish
<1> QED BY <1>7, <1>8, DoesShows

\* An announcer that probed has done so once more, or has ended probing.
LEMMA TickShows ==
  ASSUME NEW s \in Shows(Iface, {}), NEW p \in Pair, NEW g, g = Of(p[1]), s.ann[p].st = "PROBING",
         NEW x \in AnnType, x # NoAnnouncer, x.st # "ESTABLISHED",
         x.st = "WAITING" => s.state[g] = "REGISTERING", NEW n \in Int,
         NEW t, t = Ticks(s, g, p, x, n)
  PROVE  t \in Shows(Iface, {}) /\ t.ann[p] = x /\ t.state = s.state
<1>1. s \in AvahiState /\ Basis(s, Iface, {}) /\ Manned(s, Entry \X Iface) /\ g \in Group
  BY Names DEF Shows, Shown
<1>2. PICK ann : ann = [s.ann EXCEPT ![p] = x]
  OBVIOUS
<1>3. PICK count : count = [s.n_probing EXCEPT ![g] = n]
  OBVIOUS
<1>4. ann \in [Pair -> AnnType] /\ ann[p] = x /\ \A q \in Pair : q # p => ann[q] = s.ann[q]
  BY <1>1, <1>2, Fields
<1>5. count \in [Group -> Int]
  BY <1>1, <1>3, Fields
<1>6. t = WithAnnouncers(s, ann, count)
  BY <1>2, <1>3 DEF Ticks, WithAnnouncers
<1>7. t \in AvahiState /\ t.ann = ann
  BY <1>1, <1>4, <1>5, <1>6, AnnouncersSet
<1>8. /\ t.live = s.live /\ t.ver = s.ver /\ t.state = s.state /\ t.timer = s.timer
      /\ t.recent = s.recent /\ t.announcing = s.announcing /\ t.heard = s.heard
  BY <1>1, <1>6 DEF WithAnnouncers, AvahiState
<1>9. Restarts(s, t)
  <2>1. ASSUME NEW q \in Pair
        PROVE  /\ t.ann[q] = NoAnnouncer <=> s.ann[q] = NoAnnouncer
               /\ t.ann[q].st = "ESTABLISHED" => s.ann[q].st = "ESTABLISHED"
               /\ Registered(s, q) => Registered(t, q)
    <3>1. CASE q = p
      BY <1>4, <1>7, <3>1, AnnIs DEF Registered
    <3>2. CASE q # p
      BY <1>4, <1>7, <3>2 DEF Registered
    <3> QED BY <3>1, <3>2
  <2> QED BY <1>1, <1>7, <1>8, <2>1 DEF Restarts
<1>10. Waits(t, {}) /\ Unhurried(t, {})
  BY <1>1, <1>4, <1>7, <1>8 DEF Basis, Waits, Unhurried
<1>11. Entry \X Iface \subseteq Pair
  BY DEF Pair
<1>12. Basis(t, Iface, {}) /\ Manned(t, Entry \X Iface)
  BY <1>1, <1>9, <1>10, <1>11, RestartShows
<1> QED BY <1>4, <1>7, <1>8, <1>12 DEF Shows, Shown

\* A group whose announcer has just probed does not wait for its timer, or that
\* announcer is the only one that it should have.
LEMMA AllProbed ==
  ASSUME NEW s \in Shows(Iface, {}), NEW p \in Pair, s.ann[p] # NoAnnouncer, NEW g, g = Of(p[1])
  PROVE  Full(s, g, Iface)
<1>1. SUFFICES ASSUME NEW q \in Entries(g) \X Iface, Owed(s, q) PROVE s.ann[q] # NoAnnouncer
  BY DEF Full
<1>2. Basis(s, Iface, {}) /\ Manned(s, Entry \X Iface) /\ g \in Group
  BY Names DEF Shows, Shown
<1>3. q[1] \in Entry /\ Of(q[1]) = g /\ q[2] \in Iface /\ q = <<q[1], q[2]>> /\ q \in Entry \X Iface
  BY <1>1, <1>2, Names
<1>4. CASE g = "svc"
  BY <1>1, <1>2, <1>3, <1>4 DEF Basis, Unhurried, Manned
<1>5. CASE g \in Address
  <2>1. p[1] \in Entries(g) /\ p[1] = g /\ q[1] = g
    BY <1>1, <1>5, Names
  <2>2. p[2] = On[g] /\ q[2] = On[g]
    BY <1>1, <1>2, <1>5, <2>1 DEF Basis, Linked, Match, Owed
  <2>3. p = <<p[1], p[2]>>
    BY Names
  <2>4. q = p
    BY <1>3, <2>1, <2>2, <2>3
  <2> QED BY <2>4
<1> QED BY <1>2, <1>4, <1>5 DEF Group

LEMMA ElapseShows ==
  ASSUME Upright(avahi), avahi \in Shows(Iface, {}), NEW p \in Pair, Elapse(p)
  PROVE  avahi' \in Shows(Iface, {})
<1>1. PICK s \in Shows(Iface, {}) : s = Now
  BY NowShows
<1>2. PICK g \in Group : g = Of(p[1])
  BY Names
<1>3. s \in AvahiState /\ s.ann = avahi.ann /\ s.state = avahi.state
  BY <1>1, NowShows DEF Shows, SameView
<1>4. Sound(s, g) /\ p \in PairsOf(g)
  BY <1>1, <1>2, NowIs DEF Upright, Whole, Good, PairsOf
<1>5. PICK a : a = s.ann[p]
  OBVIOUS
<1>6. a \in AnnType /\ a.n \in Nat /\ a.st \in AnnouncerState
  BY <1>3, <1>5, AnnIs
<1>7. CASE a.st = "ANNOUNCING"
  <2>1. PICK t : t = NextAnnouncement(s, p)
    OBVIOUS
  <2>2. Does(t)
    BY <1>1, <1>3, <1>5, <1>7, <2>1 DEF Elapse
  <2>3. Serving(s.ann[p])
    BY <1>5, <1>7 DEF Serving
  <2>4. t \in Shows(Iface, {})
    BY <2>1, <2>3, AnnounceShows
  <2> QED BY <2>2, <2>4, DoesShows
<1>8. CASE a.st = "PROBING" /\ a.n < Iterations
  <2>1. PICK x : x = [st |-> "PROBING", n |-> a.n + 1]
    OBVIOUS
  <2>2. x \in AnnType /\ x # NoAnnouncer /\ x.st = "PROBING"
    BY <1>6, <2>1, AnnIs DEF AnnouncerState
  <2>3. PICK t : t = [s EXCEPT !.ann[p].n = @ + 1]
    OBVIOUS
  <2>4. Does(t)
    <3>1. avahi.ann[p].st = "PROBING" /\ avahi.ann[p].n < Iterations /\ ~(avahi.ann[p].n >= Iterations)
      BY <1>3, <1>5, <1>6, <1>8, AvahiAssumption
    <3>2. "PROBING" # "ANNOUNCING"
      OBVIOUS
    <3> QED BY <1>1, <2>3, <3>1, <3>2, Zenon DEF Elapse
  <2>5. [a EXCEPT !.n = @ + 1] = x
    <3>1. a = [st |-> "PROBING", n |-> a.n]
      BY <1>6, <1>8 DEF AnnType, NoAnnouncer
    <3> QED BY <2>1, <3>1
  <2>6. PICK ann : ann = [s.ann EXCEPT ![p] = x]
    OBVIOUS
  <2>7. t = [s EXCEPT !.ann = ann]
    BY <1>5, <2>3, <2>5, <2>6
  <2>8. PICK n \in Int : n = s.n_probing[g]
    BY <1>3, Fields
  <2>9. PICK count : count = [s.n_probing EXCEPT ![g] = n]
    OBVIOUS
  <2>10. count = s.n_probing
    BY <1>3, <2>8, <2>9, Fields
  <2>11. t = [s EXCEPT !.ann = ann, !.n_probing = count]
    BY <1>3, <2>7, <2>10 DEF AvahiState
  <2>12. t = Ticks(s, g, p, x, n)
    BY <2>6, <2>9, <2>11 DEF Ticks
  <2>13. t \in Shows(Iface, {})
    BY <1>2, <1>5, <1>8, <2>2, <2>12, TickShows
  <2> QED BY <2>4, <2>13, DoesShows
<1>9. CASE a.st = "PROBING" /\ a.n >= Iterations
  <2>1. PICK n \in Int : n = s.n_probing[g] - 1
    BY <1>3, Fields
  <2>2. PICK count : count = [s.n_probing EXCEPT ![g] = n]
    OBVIOUS
  <2>3. PICK d : d = [s EXCEPT !.n_probing[g] = @ - 1]
    OBVIOUS
  <2>4. d = [s EXCEPT !.n_probing = count]
    BY <2>1, <2>2, <2>3
  <2>5. d.ann = s.ann
    BY <1>3, <2>4 DEF AvahiState
  <2>6. s.state[g] \in {"REGISTERING", "ESTABLISHED"}
    <3>1. s.ann[p].st # "none"
      BY <1>5, <1>9
    <3> QED BY <1>3, <1>4, <3>1, WorkedFor
  <2>7. ~(a.n < Iterations)
    BY <1>6, <1>9, AvahiAssumption
  <2>8. CASE s.state[g] = "REGISTERING"
    <3>1. PICK x : x = [st |-> "WAITING", n |-> a.n]
      OBVIOUS
    <3>2. x \in AnnType /\ x # NoAnnouncer /\ x.st = "WAITING"
      BY <1>6, <3>1, AnnIs DEF AnnouncerState
    <3>3. PICK u : u = [d EXCEPT !.ann[p].st = "WAITING"]
      OBVIOUS
    <3>4. PICK t : t = CheckProbed(u, g, TRUE, Callback)
      OBVIOUS
    <3>5. Does(t)
      <4>1. avahi.state[g] = "REGISTERING" /\ avahi.ann[p].st = "PROBING"
            /\ ~(avahi.ann[p].n < Iterations)
        BY <1>3, <1>5, <1>9, <2>7, <2>8
      <4>2. "PROBING" # "ANNOUNCING"
        OBVIOUS
      <4> QED BY <1>1, <1>2, <2>3, <3>3, <3>4, <4>1, <4>2, Zenon DEF Elapse
    <3>6. [a EXCEPT !.st = "WAITING"] = x
      <4>1. a = [st |-> "PROBING", n |-> a.n]
        BY <1>6, <1>9 DEF AnnType, NoAnnouncer
      <4> QED BY <3>1, <4>1
    <3>7. PICK ann : ann = [s.ann EXCEPT ![p] = x]
      OBVIOUS
    <3>8. u = [d EXCEPT !.ann = ann]
      BY <1>5, <2>5, <3>3, <3>6, <3>7
    <3>9. u = [s EXCEPT !.ann = ann, !.n_probing = count]
      BY <1>3, <2>4, <3>8 DEF AvahiState
    <3>10. u = Ticks(s, g, p, x, n)
      BY <2>2, <3>7, <3>9 DEF Ticks
    <3>11. u \in Shows(Iface, {}) /\ u.ann[p] # NoAnnouncer
      BY <1>2, <1>5, <1>9, <2>8, <3>2, <3>10, TickShows
    <3>12. Full(u, g, Iface)
      BY <1>2, <3>11, AllProbed
    <3>13. t \in Shows(Iface, {})
      BY <3>4, <3>11, <3>12, ProbedGroupShows
    <3> QED BY <3>5, <3>13, DoesShows
  <2>9. CASE s.state[g] = "ESTABLISHED"
    <3>1. PICK x : x = [st |-> "ANNOUNCING", n |-> 1]
      OBVIOUS
    <3>2. x \in AnnType /\ x # NoAnnouncer /\ x.st = "ANNOUNCING"
      BY <3>1, AnnIs DEF AnnouncerState
    <3>3. PICK u : u = [d EXCEPT !.ann[p] = x]
      OBVIOUS
    <3>4. PICK t : t = NextAnnouncement(u, p)
      OBVIOUS
    <3>5. Does(t)
      <4>1. avahi.state[g] # "REGISTERING" /\ avahi.ann[p].st = "PROBING"
            /\ ~(avahi.ann[p].n < Iterations)
        BY <1>3, <1>5, <1>9, <2>7, <2>9
      <4>2. "PROBING" # "ANNOUNCING"
        OBVIOUS
      <4> QED BY <1>1, <1>2, <2>3, <3>1, <3>3, <3>4, <4>1, <4>2, Zenon DEF Elapse
    <3>6. PICK ann : ann = [s.ann EXCEPT ![p] = x]
      OBVIOUS
    <3>7. u = [d EXCEPT !.ann = ann]
      BY <2>5, <3>3, <3>6
    <3>8. u = [s EXCEPT !.ann = ann, !.n_probing = count]
      BY <1>3, <2>4, <3>7 DEF AvahiState
    <3>9. u = Ticks(s, g, p, x, n)
      BY <2>2, <3>6, <3>8 DEF Ticks
    <3>10. u \in Shows(Iface, {}) /\ u.ann[p] = x
      BY <1>2, <1>5, <1>9, <3>2, <3>9, TickShows
    <3>11. Serving(u.ann[p])
      BY <3>2, <3>10 DEF Serving
    <3>12. t \in Shows(Iface, {})
      BY <3>4, <3>10, <3>11, AnnounceShows
    <3> QED BY <3>5, <3>12, DoesShows
  <2> QED BY <2>6, <2>8, <2>9
<1>10. a.st = "ANNOUNCING" \/ a.st = "PROBING"
  BY <1>3, <1>5 DEF Elapse
<1> QED BY <1>6, <1>7, <1>8, <1>9, <1>10, AvahiAssumption

\* Of the records that are filed under one name, another one that works on the
\* link shows that a record is not alone there: both are addresses of the link,
\* and both are global or neither is, as the others are not relevant.
LEMMA Neighbours ==
  ASSUME Upright(avahi), avahi \in Shows(Iface, {}), NEW e \in Entry, NEW i \in Iface,
         NEW b \in SameKey(avahi, e), NEW f \in SameKey(avahi, e), b # f,
         NEW p, p = <<b, i>>, NEW q, q = <<f, i>>,
         avahi.ann[p] # NoAnnouncer, avahi.ann[q] # NoAnnouncer
  PROVE  ~Alone(p)
<1>1. avahi \in AvahiState /\ Linked(avahi) /\ Exact(avahi) /\ avahi.live \subseteq Entry
  BY DEF Shows, Shown, Basis, Upright, Whole, Fields, AvahiState
<1>2. b \in avahi.live /\ f \in avahi.live /\ b \in Entry /\ f \in Entry
      /\ Key(b, avahi.ver[b]) = Key(f, avahi.ver[f])
  BY <1>1 DEF SameKey
<1>3. b \in Address /\ f \in Address
  <2>1. PICK v : v = avahi.ver[b]
    OBVIOUS
  <2>2. PICK w : w = avahi.ver[f]
    OBVIOUS
  <2>3. Key(b, v)[1] = Key(f, w)[1]
    BY <1>2, <2>1, <2>2
  <2>4. \A x \in Entry : x \in Address \/ x = "srv" \/ x = "ptr"
    BY DEF Entry
  <2>5. /\ b \in Address => Key(b, v)[1] = "host"
        /\ b \notin Address => Key(b, v)[1] = b
        /\ f \in Address => Key(f, w)[1] = "host"
        /\ f \notin Address => Key(f, w)[1] = f
    BY DEF Key
  <2>6. "host" # "srv" /\ "host" # "ptr"
    OBVIOUS
  <2> QED BY <1>2, <2>3, <2>4, <2>5, <2>6
<1>4. p \in Pair /\ q \in Pair /\ p[1] = b /\ p[2] = i /\ q[1] = f /\ q[2] = i
  BY <1>2, Names
<1>5. On[b] = i /\ On[f] = i
  BY <1>1, <1>3, <1>4 DEF Linked, Match
<1>6. Wanted(avahi, b) /\ Wanted(avahi, f)
  BY <1>1, <1>2, <1>3 DEF Exact
<1>7. /\ b \in avahi.present /\ f \in avahi.present
      /\ AddressRelevant(avahi, b) /\ AddressRelevant(avahi, f)
  BY <1>6 DEF Wanted
<1>8. b \in Global <=> f \in Global
  BY <1>5, <1>7 DEF AddressRelevant
<1> QED BY <1>3, <1>4, <1>5, <1>8 DEF Alone

\* What the listeners of one link held of the records in here is flushed.
FlushedTo(s, t, i, here) ==
    /\ t \in AvahiState
    /\ t.live = s.live /\ t.ver = s.ver /\ t.ann = s.ann /\ t.state = s.state /\ t.timer = s.timer
    /\ t.recent = s.recent /\ t.announcing = s.announcing
    /\ \A j \in Iface : j # i => t.heard[j] = s.heard[j]
    /\ t.heard[i] = {x \in s.heard[i] : x[1] \notin here}

\* The record is withdrawn, or its announcer begins again.
LEMMA FlushedShows ==
  ASSUME NEW s \in Shows(Iface, {}), NEW i \in Iface, NEW here, NEW t, FlushedTo(s, t, i, here),
         \A p \in Pair : p[2] = i /\ p[1] \in here /\ Alone(p) => s.ann[p].st # "ESTABLISHED"
  PROVE  t \in Shows(Iface, {})
<1> USE DEF FlushedTo
<1>1. s \in AvahiState /\ Basis(s, Iface, {}) /\ Manned(s, Entry \X Iface)
  BY DEF Shows, Shown
<1>2. \A e : Committed(t, e) <=> Committed(s, e)
  BY DEF Committed
<1>3. \A p : Registered(t, p) <=> Registered(s, p)
  BY DEF Registered
<1>4. Rooted(t) /\ Linked(t) /\ Waits(t, {}) /\ Unhurried(t, {})
  BY <1>1, <1>2 DEF Basis, Rooted, Linked, Waits, Unhurried
<1>5. Told(t)
  <2>1. SUFFICES ASSUME NEW p \in Pair, t.ann[p].st = "ESTABLISHED", Alone(p)
                 PROVE  <<p[1], t.ver[p[1]]>> \in t.heard[p[2]]
    BY DEF Told
  <2>2. <<p[1], s.ver[p[1]]>> \in s.heard[p[2]] /\ p[2] \in Iface
    BY <1>1, <2>1, Names DEF Basis, Told
  <2>3. p[2] = i => p[1] \notin here
    BY <2>1
  <2> QED BY <2>2, <2>3
<1>6. Taken(t, Iface)
  <2>1. SUFFICES ASSUME NEW j \in Iface, NEW x \in t.heard[j] PROVE Backed(t, j, x)
    BY DEF Taken
  <2>2. x \in s.heard[j]
    BY <2>1
  <2> QED BY <1>1, <1>3, <2>2 DEF Basis, Taken, Backed
<1>7. Manned(t, Entry \X Iface)
  BY <1>1, <1>2 DEF Manned, Owed
<1> QED BY <1>4, <1>5, <1>6, <1>7 DEF Shows, Shown, Basis

\* The announcer that begins again is the one that listeners would have heard.
LEMMA ReturnShows ==
  ASSUME NEW s \in Shows(Iface, {}), NEW i \in Iface, NEW here, NEW u, Whole(u), FlushedTo(s, u, i, here),
         NEW p \in Pair, p[2] = i, p[1] \in here, u.ann[p] # NoAnnouncer, u.ann[p].st # "PROBING",
         \A q \in Pair : q # p /\ q[2] = i /\ q[1] \in here /\ Alone(q) => s.ann[q].st # "ESTABLISHED",
         NEW t, t = ReturnToInitial(u, p)
  PROVE  t \in Shows(Iface, {})
<1> USE DEF FlushedTo
<1>1. s \in AvahiState /\ Basis(s, Iface, {}) /\ Manned(s, Entry \X Iface) /\ u \in AvahiState
  BY DEF Shows, Shown
<1>2. t \in AvahiState
  BY ReturnIs DEF Whole, Good
<1>3. PICK m0 : m0 = Counted(u, {q \in {p} : u.ann[q].st = "PROBING"}, -1)
  OBVIOUS
<1>4. PICK v : v = [u EXCEPT !.n_probing = m0]
  OBVIOUS
<1>5. PICK m : m = Counted(v, {q \in {p} : IsUnique(q[1])}, 1)
  OBVIOUS
<1>6. v.ann = u.ann /\ v.state = u.state
  BY <1>1, <1>4 DEF AvahiState
<1>7. PICK x : x = Initial(v, p[1])
  OBVIOUS
<1>8. PICK ann : ann = [u.ann EXCEPT ![p] = x]
  OBVIOUS
<1>9. t = [v EXCEPT !.ann = ann, !.n_probing = m]
  BY <1>3, <1>4, <1>5, <1>6, <1>7, <1>8 DEF ReturnToInitial
<1>10. t = [u EXCEPT !.ann = ann, !.n_probing = m]
  BY <1>1, <1>4, <1>9 DEF AvahiState
<1>11. /\ t.live = s.live /\ t.ver = s.ver /\ t.ann = ann /\ t.state = s.state /\ t.timer = s.timer
       /\ t.recent = s.recent /\ t.announcing = s.announcing /\ t.heard = u.heard
  BY <1>1, <1>10 DEF AvahiState
<1>12. ann[p] = x /\ \A q \in Pair : q # p => ann[q] = s.ann[q]
  BY <1>1, <1>8, Fields
<1>13. Committed(s, p[1])
  BY <1>1 DEF Basis, Linked
<1>14. x # NoAnnouncer /\ x.st # "ESTABLISHED" /\ (x.st = "WAITING" => s.state[Of(p[1])] = "REGISTERING")
  BY <1>6, <1>7, <1>13 DEF Initial, NoAnnouncer, Committed
<1>15. \A e : Committed(t, e) <=> Committed(s, e)
  BY <1>11 DEF Committed
<1>16. \A q \in Pair : t.ann[q] = NoAnnouncer <=> s.ann[q] = NoAnnouncer
  BY <1>11, <1>12, <1>14
<1>17. Rooted(t) /\ Linked(t) /\ Unhurried(t, {})
  BY <1>1, <1>11, <1>15, <1>16 DEF Basis, Rooted, Linked, Unhurried
<1>18. Waits(t, {})
  BY <1>1, <1>11, <1>12, <1>14 DEF Basis, Waits
<1>19. Told(t)
  <2>1. SUFFICES ASSUME NEW q \in Pair, t.ann[q].st = "ESTABLISHED", Alone(q)
                 PROVE  <<q[1], t.ver[q[1]]>> \in t.heard[q[2]]
    BY DEF Told
  <2>2. q # p
    BY <1>11, <1>12, <1>14, <2>1
  <2>3. s.ann[q].st = "ESTABLISHED"
    BY <1>11, <1>12, <2>1, <2>2
  <2>4. <<q[1], s.ver[q[1]]>> \in s.heard[q[2]] /\ q[2] \in Iface
    BY <1>1, <2>1, <2>3, Names DEF Basis, Told
  <2>5. q[2] = i => q[1] \notin here
    BY <2>1, <2>2, <2>3
  <2> QED BY <1>11, <2>4, <2>5
<1>20. Taken(t, Iface)
  <2>1. SUFFICES ASSUME NEW j \in Iface, NEW y \in t.heard[j] PROVE Backed(t, j, y)
    BY DEF Taken
  <2>2. y \in s.heard[j] /\ (j = i => y[1] \notin here)
    BY <1>11, <2>1
  <2>3. y[1] \in Entry /\ <<y[1], j>> \in Pair
    BY <1>1, <2>2, Fields, Names
  <2>4. <<y[1], j>> # p
    BY <2>2
  <2>5. Registered(t, <<y[1], j>>) <=> Registered(s, <<y[1], j>>)
    BY <1>11, <1>12, <2>3, <2>4 DEF Registered
  <2> QED BY <1>1, <1>11, <2>2, <2>5 DEF Basis, Taken, Backed
<1>21. Manned(t, Entry \X Iface)
  BY <1>1, <1>11, <1>15, <1>16 DEF Manned, Owed, Pair
<1> QED BY <1>2, <1>17, <1>18, <1>19, <1>20, <1>21 DEF Shows, Shown, Basis

LEMMA ConflictShows ==
  ASSUME Upright(avahi), MayHappen, avahi \in Shows(Iface, {}), NEW e \in Entry, NEW i \in Iface, Conflict(e, i)
  PROVE  avahi' \in Shows(Iface, {})
<1>1. PICK s \in Shows(Iface, {}) : s = Happens
  BY HappensShows
<1>2. s \in AvahiState /\ SameView(avahi, s) /\ Upright(s) /\ avahi.live \subseteq Entry
  BY <1>1, HappensShows, HappensIs DEF Shows, AvahiState
<1>3. PICK here : here = SameKey(avahi, e)
  OBVIOUS
<1>4. PICK heard : heard = [s.heard EXCEPT ![i] = {x \in @ : x[1] \notin here}]
  OBVIOUS
<1>20. PICK stale : stale = [s.stale EXCEPT ![i] = {x \in @ : x[1] \notin here}]
  OBVIOUS
<1>5. PICK u : u = [s EXCEPT !.heard = heard, !.stale = stale]
  OBVIOUS
<1>6. /\ heard \in [Iface -> SUBSET (Entry \X Version)] /\ stale \in [Iface -> SUBSET (Entry \X Version)]
      /\ \A j \in Iface : j # i => heard[j] = s.heard[j]
      /\ heard[i] = {x \in s.heard[i] : x[1] \notin here}
  BY <1>2, <1>4, <1>20, Fields
<1>7. u \in AvahiState
  BY <1>2, <1>5, <1>6 DEF AvahiState
<1>8. /\ u.live = s.live /\ u.ver = s.ver /\ u.ann = s.ann /\ u.state = s.state /\ u.timer = s.timer
      /\ u.recent = s.recent /\ u.announcing = s.announcing /\ u.heard = heard
  BY <1>2, <1>5 DEF AvahiState
<1>9. FlushedTo(s, u, i, here)
  BY <1>6, <1>7, <1>8 DEF FlushedTo
<1>10. Whole(u)
  <2>1. Quietly(s, u) /\ u.ver = s.ver /\ u.events = s.events
    BY <1>2, <1>5, <1>7 DEF AvahiState, Quietly, SameHost
  <2> QED BY <1>2, <2>1, QuietlyIs DEF Upright
<1>11. \A f \in here : f \in Entry /\ <<f, i>> \in Pair
  BY <1>2, <1>3, Names DEF SameKey
<1>12. ASSUME NEW f \in here, NEW q, q = <<f, i>>, avahi.ann[q] # NoAnnouncer,
              NEW p \in Pair, p # q, p[2] = i, p[1] \in here, Alone(p)
       PROVE  s.ann[p].st # "ESTABLISHED"
  <2>1. p = <<p[1], i>> /\ p[1] # f
    BY <1>12, Names
  <2>2. avahi.ann[p] = NoAnnouncer
    BY <1>3, <1>12, <2>1, Neighbours
  <2> QED BY <1>2, <2>2, AnnIs DEF SameView
<1>13. u = [s EXCEPT !.heard[i] = {x \in @ : x[1] \notin here},
                     !.stale[i] = {x \in @ : x[1] \notin here}]
  BY <1>4, <1>5, <1>20
<1>14. \/ \E f \in here : Probing(avahi, <<f, i>>) /\ Does(WithdrawRrset(u, e))
       \/ \E f \in here : Registered(avahi, <<f, i>>) /\ Does(ReturnToInitial(u, <<f, i>>))
  BY <1>1, <1>3, <1>13 DEF Conflict
<1>15. CASE \E f \in here : Probing(avahi, <<f, i>>) /\ Does(WithdrawRrset(u, e))
  <2>1. PICK f \in here : Probing(avahi, <<f, i>>) /\ Does(WithdrawRrset(u, e))
    BY <1>15
  <2>2. PICK q : q = <<f, i>>
    OBVIOUS
  <2>3. avahi.ann[q].st \in {"PROBING", "WAITING"}
    BY <2>1, <2>2 DEF Probing
  <2>4. q \in Pair /\ avahi.ann[q] # NoAnnouncer
    BY <1>11, <2>2, <2>3, AnnIs
  <2>5. ASSUME NEW p \in Pair, p[2] = i, p[1] \in here, Alone(p)
        PROVE  s.ann[p].st # "ESTABLISHED"
    <3>1. CASE p = q
      BY <1>2, <2>3, <3>1 DEF SameView
    <3>2. CASE p # q
      BY <1>12, <2>2, <2>4, <2>5, <3>2
    <3> QED BY <3>1, <3>2
  <2>6. u \in Shows(Iface, {})
    BY <1>9, <2>5, FlushedShows
  <2>7. PICK seq : seq = SetToSeq(SameKey(u, e))
    OBVIOUS
  <2>8. PICK t : t = WithdrawRrset(u, e)
    OBVIOUS
  <2>9. t \in Shows(Iface, {})
    BY <2>6, <2>7, <2>8, WithdrawRrsetShows
  <2> QED BY <2>1, <2>8, <2>9, DoesShows
<1>16. CASE \E f \in here : Registered(avahi, <<f, i>>) /\ Does(ReturnToInitial(u, <<f, i>>))
  <2>1. PICK f \in here : Registered(avahi, <<f, i>>) /\ Does(ReturnToInitial(u, <<f, i>>))
    BY <1>16
  <2>2. PICK q : q = <<f, i>>
    OBVIOUS
  <2>3. avahi.ann[q].st \in {"ANNOUNCING", "ESTABLISHED", "WAITING"}
    BY <2>1, <2>2 DEF Registered
  <2>4. q \in Pair /\ avahi.ann[q] # NoAnnouncer /\ q[1] = f /\ q[2] = i
    BY <1>11, <2>2, <2>3, AnnIs
  <2>5. u.ann[q] # NoAnnouncer /\ u.ann[q].st # "PROBING"
    BY <1>2, <1>8, <2>3, <2>4 DEF SameView
  <2>6. \A p \in Pair : p # q /\ p[2] = i /\ p[1] \in here /\ Alone(p) => s.ann[p].st # "ESTABLISHED"
    BY <1>12, <2>2, <2>4
  <2>7. PICK t : t = ReturnToInitial(u, q)
    OBVIOUS
  <2>8. t \in Shows(Iface, {})
    BY <1>9, <1>10, <2>4, <2>5, <2>6, <2>7, ReturnShows
  <2> QED BY <2>1, <2>2, <2>7, <2>8, DoesShows
<1> QED BY <1>14, <1>15, <1>16

LEMMA IncomingProbeShows ==
  ASSUME Upright(avahi), MayHappen, avahi \in Shows(Iface, {}), NEW e \in Entry, NEW i \in Iface,
         NEW above \in SUBSET Entry, IncomingProbe(e, i, above)
  PROVE  avahi' \in Shows(Iface, {})
<1>1. PICK s \in Shows(Iface, {}) : s = Happens
  BY HappensShows
<1>2. PICK seq : seq = SetToSeq(SameKey(s, e))
  OBVIOUS
<1>3. PICK t : t = WithdrawRrset(s, e)
  OBVIOUS
<1>4. t \in Shows(Iface, {})
  BY <1>2, <1>3, WithdrawRrsetShows
<1>5. Does(t)
  BY <1>1, <1>3 DEF IncomingProbe
<1> QED BY <1>4, <1>5, DoesShows

\* The application's unique records have new data, and are announced anew.
LEMMA RenewedShows ==
  ASSUME NEW s \in Shows(Iface, {}), NEW t \in AvahiState,
         t.live = s.live, t.state = s.state, t.timer = s.timer, t.recent = s.recent,
         t.announcing = s.announcing, t.heard = s.heard,
         t.ver["srv"] = s.ver["srv"] + 1, \A e \in Entry : e # "srv" => t.ver[e] = s.ver[e],
         \A p \in Pair : /\ t.ann[p] = NoAnnouncer <=> s.ann[p] = NoAnnouncer
                         /\ p[1] # "srv" => t.ann[p] = s.ann[p]
                         /\ p[1] = "srv" => t.ann[p].st \notin {"ESTABLISHED", "WAITING"}
  PROVE  t \in Shows(Iface, {})
<1>1. s \in AvahiState /\ Basis(s, Iface, {}) /\ Manned(s, Entry \X Iface)
  BY DEF Shows, Shown
<1>2. \A e : Committed(t, e) <=> Committed(s, e)
  BY DEF Committed
<1>3. Rooted(t) /\ Linked(t)
  BY <1>1, <1>2 DEF Basis, Rooted, Linked
<1>4. Waits(t, {})
  BY <1>1 DEF Basis, Waits
<1>5. s.ver["srv"] \in Nat /\ t.ver["srv"] \in Nat
  BY <1>1 DEF Basis, Unhurried
<1>6. Unhurried(t, {})
  BY <1>1, <1>5 DEF Basis, Unhurried
<1>7. Told(t)
  <2>1. SUFFICES ASSUME NEW p \in Pair, t.ann[p].st = "ESTABLISHED", Alone(p)
                 PROVE  <<p[1], t.ver[p[1]]>> \in t.heard[p[2]]
    BY DEF Told
  <2>2. p[1] # "srv" /\ p[1] \in Entry /\ s.ann[p] = t.ann[p] /\ t.ver[p[1]] = s.ver[p[1]]
    BY <2>1, Names
  <2> QED BY <1>1, <2>1, <2>2 DEF Basis, Told
<1>8. Taken(t, Iface)
  <2>1. SUFFICES ASSUME NEW i \in Iface, NEW x \in s.heard[i] PROVE Backed(t, i, x)
    BY DEF Taken
  <2>2. x[1] \in Entry /\ <<x[1], i>> \in Pair /\ Backed(s, i, x)
    BY <1>1, <2>1, Fields, Names DEF Basis, Taken
  <2>3. CASE x[1] = "srv"
    <3>1. x[2] \in 0 .. s.ver["srv"]
      BY <2>2, <2>3 DEF Backed
    <3>2. x[2] \in 0 .. t.ver["srv"] /\ x[2] # t.ver["srv"]
      BY <1>5, <3>1
    <3> QED BY <2>3, <3>2 DEF Backed
  <2>4. CASE x[1] # "srv"
    <3>1. Registered(t, <<x[1], i>>) <=> Registered(s, <<x[1], i>>)
      BY <2>2, <2>4 DEF Registered
    <3>2. t.ver[x[1]] = s.ver[x[1]]
      BY <2>2, <2>4
    <3> QED BY <2>2, <2>4, <3>1, <3>2 DEF Backed
  <2> QED BY <2>3, <2>4
<1>9. Manned(t, Entry \X Iface)
  BY <1>1, <1>2 DEF Manned, Owed, Pair
<1> QED BY <1>3, <1>4, <1>6, <1>7, <1>8, <1>9 DEF Shows, Shown, Basis

LEMMA UpdateTxtShows ==
  ASSUME Upright(avahi), MayHappen, avahi \in Shows(Iface, {}), UpdateTxt
  PROVE  avahi' \in Shows(Iface, {})
<1>1. PICK n \in Shows(Iface, {}) : n = Happens
  BY HappensShows
<1>2. /\ n \in AvahiState /\ Basis(n, Iface, {}) /\ Upright(n) /\ n.ver["srv"] \in 0 .. avahi.events
      /\ n.events = avahi.events + 1 /\ "srv" \in Entry
  BY <1>1, HappensIs DEF Shows, Shown, SameRest, Upright, Entry
<1>3. avahi.events \in Nat /\ n.events \in 0 .. MaxEvents
  BY <1>2, AvahiAssumption DEF Upright, Whole, Good, AvahiState
<1>4. PICK k : k = n.ver["srv"] + 1
  OBVIOUS
<1>5. k \in 0 .. n.events /\ k \in Version
  BY <1>2, <1>3, <1>4, AvahiAssumption DEF Version
<1>6. PICK ver : ver = [n.ver EXCEPT !["srv"] = k]
  OBVIOUS
<1>7. ver \in [Entry -> Version] /\ ver["srv"] = k /\ \A e \in Entry : e # "srv" => ver[e] = n.ver[e]
  BY <1>2, <1>5, <1>6, Fields
<1>8. PICK s : s = [n EXCEPT !.ver = ver]
  OBVIOUS
<1>9. s \in AvahiState
  BY <1>2, <1>7, <1>8 DEF AvahiState
<1>10. /\ s.live = n.live /\ s.ann = n.ann /\ s.state = n.state /\ s.timer = n.timer
       /\ s.recent = n.recent /\ s.announcing = n.announcing /\ s.heard = n.heard /\ s.ver = ver
  BY <1>2, <1>8 DEF AvahiState
<1>11. s = [n EXCEPT !.ver["srv"] = @ + 1]
  BY <1>4, <1>6, <1>8
<1>12. ASSUME NEW p \in Pair, p[1] = "srv", s.ann[p] # NoAnnouncer
       PROVE  s.state["svc"] \in {"REGISTERING", "ESTABLISHED"} /\ Match(p)
  BY <1>2, <1>10, <1>12, Names DEF Basis, Linked, Committed
<1>13. CASE s.state["svc"] = "UNCOMMITED"
  <2>1. \A p \in Pair : p[1] = "srv" => s.ann[p].st = "none"
    BY <1>12, <1>13, AnnIs
  <2>2. s \in Shows(Iface, {})
    BY <1>4, <1>7, <1>9, <1>10, <2>1, RenewedShows
  <2>3. Does(s)
    BY <1>1, <1>11, <1>13 DEF UpdateTxt
  <2> QED BY <2>2, <2>3, DoesShows
<1>14. CASE s.state["svc"] # "UNCOMMITED"
  <2>1. PICK t : t = Reannounce(s, "srv")
    OBVIOUS
  <2>2. Does(t)
    BY <1>1, <1>11, <1>14, <2>1 DEF UpdateTxt
  <2>3. t \in AvahiState
    <3>1. Quietly(n, s) /\ s.events = n.events
      BY <1>2, <1>8, <1>9 DEF AvahiState, Quietly, SameHost
    <3>2. Whole(s)
      BY <1>2, <3>1, QuietlyIs DEF Upright
    <3> QED BY <1>2, <2>1, <3>2, ReannounceIs DEF Whole, Good
  <2>4. PICK P : P = {p \in {"srv"} \X Iface : Match(p)}
    OBVIOUS
  <2>5. PICK ann : ann = [p \in Pair |-> IF p \in P THEN Reannounced(s, p) ELSE s.ann[p]]
    OBVIOUS
  <2>6. \E m : t = [s EXCEPT !.ann = ann, !.n_probing = m]
    BY <2>1, <2>4, <2>5 DEF Reannounce
  <2>7. PICK m : t = [s EXCEPT !.ann = ann, !.n_probing = m]
    BY <2>6
  <2>8. /\ t.live = s.live /\ t.ann = ann /\ t.state = s.state /\ t.timer = s.timer /\ t.recent = s.recent
        /\ t.announcing = s.announcing /\ t.heard = s.heard /\ t.ver = s.ver
    BY <1>9, <2>7 DEF AvahiState
  <2>9. ASSUME NEW p \in Pair
        PROVE  /\ t.ann[p] = NoAnnouncer <=> s.ann[p] = NoAnnouncer
               /\ p[1] # "srv" => t.ann[p] = s.ann[p]
               /\ p[1] = "srv" => t.ann[p].st \notin {"ESTABLISHED", "WAITING"}
    <3>1. CASE p[1] # "srv"
      <4>1. p \notin P
        BY <2>4, <3>1
      <4> QED BY <2>5, <2>8, <3>1, <4>1
    <3>2. CASE p[1] = "srv" /\ s.ann[p] = NoAnnouncer
      <4>1. Reannounced(s, p) = NoAnnouncer
        BY <3>2 DEF Reannounced
      <4> QED BY <2>5, <2>8, <3>2, <4>1, AnnIs
    <3>3. CASE p[1] = "srv" /\ s.ann[p] # NoAnnouncer
      <4>1. p \in P /\ Of(p[1]) = "svc"
        BY <1>12, <2>4, <3>3, Names
      <4>2. t.ann[p] = Reannounced(s, p)
        BY <2>5, <2>8, <4>1
      <4>3. s.state["svc"] \notin {"UNCOMMITED", "COLLISION"} /\ IsUnique(p[1])
        BY <1>12, <3>3 DEF IsUnique
      <4>4. PICK st : st = IF Probing(s, p) THEN "PROBING"
                           ELSE IF s.ann[p].st = "WAITING" THEN "WAITING" ELSE "ANNOUNCING"
        OBVIOUS
      <4>5. t.ann[p] = [st |-> st, n |-> 1]
        BY <3>3, <4>1, <4>2, <4>3, <4>4 DEF Reannounced
      <4>6. st \in {"PROBING", "ANNOUNCING"}
        BY <4>3, <4>4 DEF Probing
      <4> QED BY <3>3, <4>5, <4>6 DEF NoAnnouncer
    <3> QED BY <3>1, <3>2, <3>3
  <2>10. /\ t.live = n.live /\ t.state = n.state /\ t.timer = n.timer /\ t.recent = n.recent
         /\ t.announcing = n.announcing /\ t.heard = n.heard
         /\ t.ver["srv"] = n.ver["srv"] + 1 /\ \A e \in Entry : e # "srv" => t.ver[e] = n.ver[e]
    BY <1>4, <1>7, <1>10, <2>8
  <2>11. t \in Shows(Iface, {})
    BY <1>10, <2>3, <2>9, <2>10, RenewedShows
  <2> QED BY <2>2, <2>11, DoesShows
<1> QED BY <1>13, <1>14

LEMMA InitShows == Init => avahi \in Shows(Iface, {})
<1> SUFFICES ASSUME Init PROVE avahi \in Shows(Iface, {})
  OBVIOUS
<1>1. avahi \in AvahiState
  BY InitIs DEF Upright, Whole, Good
<1>2. /\ \A p \in Pair : avahi.ann[p] = NoAnnouncer /\ avahi.ann[p].st = "none"
      /\ \A g \in Group : /\ avahi.state[g] = "UNCOMMITED" /\ avahi.timer[g] = FALSE
                          /\ avahi.recent[g] = FALSE
      /\ \A i \in Iface : avahi.heard[i] = {} /\ avahi.announcing[i] = FALSE
      /\ avahi.ver["srv"] = 0
  BY AnnIs DEF Init, Entry
<1>3. \A e \in Entry : ~Committed(avahi, e)
  BY <1>2, Names DEF Committed
<1>4. Basis(avahi, Iface, {})
  BY <1>2, <1>3, Names DEF Basis, Rooted, Linked, Waits, Told, Taken, Unhurried
<1>5. Manned(avahi, Entry \X Iface)
  BY <1>2 DEF Manned, Owed
<1> QED BY <1>1, <1>4, <1>5 DEF Shows, Shown

\* One lemma per event: each leaves listeners and announcers in order.
LEMMA NextShows ==
  ASSUME Upright(avahi), avahi \in Shows(Iface, {}), [Next]_vars
  PROVE  avahi' \in Shows(Iface, {})
<1>1. CASE ServerNew
  BY <1>1, ServerNewShows
<1>2. CASE \E joins \in [Iface -> BOOLEAN] : ListComplete(joins)
  BY <1>2, ListCompleteShows
<1>3. CASE Publish
  BY <1>3, PublishShows
<1>4. CASE Timer
  <2>1. CASE \E p \in Pair : Elapse(p)
    BY <2>1, ElapseShows
  <2>2. CASE \E g \in Group : HoldoffElapses(g)
    BY <2>2, HoldoffElapsesShows
  <2>3. CASE \E g \in Group : TimePasses(g)
    BY <2>3, TimePassesShows
  <2> QED BY <1>4, <2>1, <2>2, <2>3 DEF Timer
<1>5. CASE MayHappen /\ Kernel
  <2>1. CASE \E i \in Iface, joins \in BOOLEAN, ok \in BOOLEAN : NewLink(i, ok, joins)
    BY <1>5, <2>1, NewLinkShows
  <2>2. CASE \E a \in Address, joins \in BOOLEAN : NewAddr(a, joins)
    BY <1>5, <2>2, NewAddrShows
  <2>3. CASE \E a \in Address, joins \in BOOLEAN : DelAddr(a, joins)
    BY <1>5, <2>3, DelAddrShows
  <2>4. CASE \E i \in Iface : DelLink(i)
    BY <1>5, <2>4, DelLinkShows
  <2> QED BY <1>5, <2>1, <2>2, <2>3, <2>4 DEF Kernel
<1>6. CASE MayHappen /\ Network
  <2>1. PICK e \in Entry, i \in Iface :
          Conflict(e, i) \/ \E above \in SUBSET Entry : IncomingProbe(e, i, above)
    BY <1>6 DEF Network
  <2> QED BY <1>6, <2>1, ConflictShows, IncomingProbeShows
<1>7. CASE MayHappen /\ Application
  <2>1. CASE Unpublish
    BY <1>7, <2>1, UnpublishShows
  <2>2. CASE UpdateTxt
    BY <1>7, <2>2, UpdateTxtShows
  <2>3. CASE \E h \in HostName : SetHostName(h)
    BY <1>7, <2>3, SetHostNameShows
  <2> QED BY <1>7, <2>1, <2>2, <2>3 DEF Application
<1>8. CASE UNCHANGED vars
  BY <1>8 DEF vars
<1> QED BY <1>1, <1>2, <1>3, <1>4, <1>5, <1>6, <1>7, <1>8 DEF Next

\* After whatever events and callbacks, what listeners hold is what is served,
\* and every record has the announcers that it should have.
THEOREM AlwaysShown == Spec => [](Upright(avahi) /\ avahi \in Shows(Iface, {}))
<1> DEFINE Inv == Upright(avahi) /\ avahi \in Shows(Iface, {})
<1>1. Init => Inv
  BY InitIs, InitShows
<1>2. Inv /\ [Next]_vars => Inv'
  BY NextKeeps, NextShows
<1> QED BY <1>1, <1>2, PTL DEF Spec

LEMMA ShownIsServed == avahi \in Shows(Iface, {}) => HeardIsServed
<1> SUFFICES ASSUME avahi \in Shows(Iface, {}) PROVE HeardIsServed
  OBVIOUS
<1>1. avahi \in AvahiState /\ Told(avahi) /\ Taken(avahi, Iface)
  BY DEF Shows, Shown, Basis
<1>2. \A p \in Pair : avahi.ann[p].st = "ESTABLISHED" /\ Alone(p) =>
          <<p[1], avahi.ver[p[1]]>> \in avahi.heard[p[2]]
  BY <1>1 DEF Told
<1>3. \A i \in Iface : \A x \in Held(i) :
          x[2] = avahi.ver[x[1]] => Registered(avahi, <<x[1], i>>) \/ x \in avahi.stale[i]
  BY <1>1 DEF Held, Taken, Backed
<1> QED BY <1>2, <1>3 DEF HeardIsServed

\* What listeners hold: every record that has been announced in full, and the
\* present data of no record that is not served, but for what a conflict took
\* away without a goodbye (announce.c, entry.c, iface.c, server.c:169).
THEOREM ListenersAgree == Spec => []HeardIsServed
<1>1. Upright(avahi) /\ avahi \in Shows(Iface, {}) => HeardIsServed
  BY ShownIsServed
<1> QED BY <1>1, AlwaysShown, PTL

LEMMA ShownIsDriven == Upright(avahi) /\ avahi \in Shows(Iface, {}) => NeverStuck
<1> SUFFICES ASSUME Upright(avahi), avahi \in Shows(Iface, {}),
                    \A p \in Pair : avahi.ann[p].st \notin {"PROBING", "ANNOUNCING"},
                    NEW g \in Group, ~avahi.timer[g], avahi.n_probing[g] = ProbingOf(g)
             PROVE  /\ avahi.state[g] # "REGISTERING"
                    /\ \A p \in Entries(g) \X Iface : avahi.ann[p].st \in {"none", "ESTABLISHED"}
                    /\ avahi.state[g] = "ESTABLISHED" =>
                          \A p \in Entries(g) \X Iface :
                              Match(p) /\ avahi.announcing[p[2]] /\ p[1] \in avahi.live =>
                                  avahi.ann[p].st = "ESTABLISHED"
  BY DEF NeverStuck
<1>1. avahi \in AvahiState /\ Basis(avahi, Iface, {}) /\ Manned(avahi, Entry \X Iface)
  BY DEF Shows, Shown
<1>2. avahi.state[g] # "REGISTERING"
  <2>1. {p \in Pair : Of(p[1]) = g /\ avahi.ann[p].st = "PROBING"} = {}
    OBVIOUS
  <2>2. avahi.n_probing[g] = 0
    BY <2>1, FS_EmptySet DEF ProbingOf
  <2>3. Driven(avahi, g)
    BY DEF Upright, Whole, Good
  <2> QED BY <2>2, <2>3 DEF Driven
<1>3. ASSUME NEW p \in Entries(g) \X Iface
      PROVE  p \in Pair /\ Of(p[1]) = g /\ p \in Entry \X Iface /\ avahi.ann[p].st \in {"none", "ESTABLISHED"}
  <2>1. p \in Pair /\ Of(p[1]) = g /\ p \in Entry \X Iface
    BY <1>3, Names DEF Pair
  <2>2. avahi.ann[p].st # "WAITING"
    BY <1>1, <1>2, <2>1 DEF Basis, Waits
  <2>3. avahi.ann[p].st \in AnnouncerState
    BY <1>1, <2>1, AnnIs
  <2> QED BY <2>1, <2>2, <2>3 DEF AnnouncerState
<1>4. ASSUME avahi.state[g] = "ESTABLISHED", NEW p \in Entries(g) \X Iface,
             Match(p), avahi.announcing[p[2]], p[1] \in avahi.live
      PROVE  avahi.ann[p].st = "ESTABLISHED"
  <2>1. p \in Pair /\ Of(p[1]) = g /\ p \in Entry \X Iface /\ avahi.ann[p].st \in {"none", "ESTABLISHED"}
    BY <1>3, <1>4
  <2>2. Owed(avahi, p)
    BY <1>4, <2>1 DEF Owed, Committed
  <2>3. avahi.ann[p] # NoAnnouncer
    BY <1>1, <2>1, <2>2 DEF Manned
  <2> QED BY <1>1, <2>1, <2>3, AnnIs
<1> QED BY <1>2, <1>3, <1>4

\* Work that is left has a timer: a group whose probes are counted right is done
\* registering, and its records are announced in full, once no announcer's timer
\* runs (entry.c, announce.c).
THEOREM NothingIsStuck == Spec => []NeverStuck
<1>1. Upright(avahi) /\ avahi \in Shows(Iface, {}) => NeverStuck
  BY ShownIsDriven
<1> QED BY <1>1, AlwaysShown, PTL
===============================================================================
