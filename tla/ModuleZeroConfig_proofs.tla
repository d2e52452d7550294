------------------------ MODULE ModuleZeroConfig_proofs ------------------------
(***************************************************************************)
(* Proofs about ModuleZeroConfig.  The slots are operators on the state of *)
(* the object, so each has a lemma that it preserves the invariant of that *)
(* state; the theorems follow action by action.                            *)
(***************************************************************************)
EXTENDS ModuleZeroConfig, TLAPS

\* What PointersLive needs to be inductive: only listed descriptors that are to
\* be published have a service pointer, so that the descriptors start() makes,
\* and those it does not publish, have none.
Pointers(z) ==
  \A d \in Descriptor : z.servicePointer[d] # 0 =>
    /\ d \in z.descriptors /\ isActive(d)
    /\ <<d, z.servicePointer[d]>> \in z.apZCservices
    /\ <<d, z.servicePointer[d]>> \in z.alive
Listed(z) == z.bRunning => z.apZCservices \subseteq z.alive
Good(z) == z \in ZeroConf /\ Pointers(z) /\ Listed(z)

-------------------------------------------------------------------------------
(* The slots. *)

\* Publishing keeps the type, and touches none of the other fields.
LEMMA PublishType ==
  ASSUME NEW z \in ZeroConf, NEW D \in SUBSET Descriptor
  PROVE /\ Publish(z, D) \in ZeroConf
        /\ Publish(z, D).bActive = z.bActive
        /\ Publish(z, D).bRunning = z.bRunning
        /\ Publish(z, D).descriptors = z.descriptors
        /\ Publish(z, D).started = z.started
<1> DEFINE P == {d \in D : isActive(d)}
           made == [d \in Descriptor |-> IF d \in P THEN z.made[d] + 1 ELSE z.made[d]]
           pointer == [d \in Descriptor |-> IF d \in P THEN made[d] ELSE z.servicePointer[d]]
           new == {<<d, made[d]>> : d \in P}
<1>1. /\ z.made \in [Descriptor -> Nat] /\ z.servicePointer \in [Descriptor -> Nat]
      /\ z.apZCservices \in SUBSET Service /\ z.alive \in SUBSET Service
  BY DEF ZeroConf
<1>2. made \in [Descriptor -> Nat] BY <1>1
<1>3. \A d \in P : made[d] \in Nat \ {0} BY <1>1
<1>4. new \subseteq Service
  <2> P \subseteq Descriptor OBVIOUS
  <2> HIDE DEF P, made
  <2> QED BY <1>3 DEF Service
<1>5. pointer \in [Descriptor -> Nat] BY <1>1, <1>2
<1> HIDE DEF P, made, pointer, new
<1>6. Publish(z, D) = [z EXCEPT !.made = made, !.servicePointer = pointer,
                                !.apZCservices = z.apZCservices \cup new,
                                !.alive = z.alive \cup new]
  BY DEF Publish, P, made, pointer, new
<1> QED BY <1>1, <1>2, <1>4, <1>5, <1>6 DEF ZeroConf

\* What publish() does to the pointers and the lists.
LEMMA PublishFields ==
  ASSUME NEW z \in ZeroConf, NEW D \in SUBSET Descriptor
  PROVE LET p == Publish(z, D) IN
        /\ \A d \in Descriptor : d \in D /\ isActive(d) =>
             /\ p.servicePointer[d] # 0
             /\ <<d, p.servicePointer[d]>> \in p.apZCservices
             /\ <<d, p.servicePointer[d]>> \in p.alive
        /\ \A d \in Descriptor : ~(d \in D /\ isActive(d)) =>
             p.servicePointer[d] = z.servicePointer[d]
        /\ z.apZCservices \subseteq p.apZCservices
        /\ z.alive \subseteq p.alive
        /\ z.apZCservices \subseteq z.alive => p.apZCservices \subseteq p.alive
<1> DEFINE P == {d \in D : isActive(d)}
           made == [d \in Descriptor |-> IF d \in P THEN z.made[d] + 1 ELSE z.made[d]]
           pointer == [d \in Descriptor |-> IF d \in P THEN made[d] ELSE z.servicePointer[d]]
           new == {<<d, made[d]>> : d \in P}
<1>1. z.made \in [Descriptor -> Nat] BY DEF ZeroConf
<1>2. Publish(z, D) = [z EXCEPT !.made = made, !.servicePointer = pointer,
                                !.apZCservices = z.apZCservices \cup new,
                                !.alive = z.alive \cup new]
  BY DEF Publish
<1>3. /\ Publish(z, D).servicePointer = pointer
      /\ Publish(z, D).apZCservices = z.apZCservices \cup new
      /\ Publish(z, D).alive = z.alive \cup new
  <2> HIDE DEF made, pointer, new
  <2> QED BY <1>2 DEF ZeroConf
<1>4. \A d \in Descriptor : d \in D /\ isActive(d) =>
        pointer[d] = made[d] /\ made[d] # 0 /\ <<d, pointer[d]>> \in new
  BY <1>1
<1>5. \A d \in Descriptor : ~(d \in D /\ isActive(d)) => pointer[d] = z.servicePointer[d]
  OBVIOUS
<1> HIDE DEF pointer, new, made
<1> QED BY <1>3, <1>4, <1>5

\* Publishing descriptors of the list keeps the invariant.
LEMMA PublishGood ==
  ASSUME NEW z, Good(z), NEW D \in SUBSET z.descriptors
  PROVE Good(Publish(z, D))
<1>1. z \in ZeroConf /\ D \in SUBSET Descriptor BY DEF Good, ZeroConf
<1> DEFINE p == Publish(z, D)
<1>2. p \in ZeroConf /\ p.descriptors = z.descriptors /\ p.bRunning = z.bRunning
  BY <1>1, PublishType
<1>3. Pointers(p)
  <2> SUFFICES ASSUME NEW d \in Descriptor, p.servicePointer[d] # 0
               PROVE /\ d \in p.descriptors /\ isActive(d)
                     /\ <<d, p.servicePointer[d]>> \in p.apZCservices
                     /\ <<d, p.servicePointer[d]>> \in p.alive
    BY DEF Pointers
  <2> HIDE DEF p
  <2>1. CASE d \in D /\ isActive(d)
    BY <1>1, <1>2, <2>1, PublishFields DEF p
  <2>2. CASE ~(d \in D /\ isActive(d))
    <3>1. /\ p.servicePointer[d] = z.servicePointer[d]
          /\ z.apZCservices \subseteq p.apZCservices
          /\ z.alive \subseteq p.alive
      BY <1>1, <2>2, PublishFields DEF p
    <3> QED BY <1>2, <3>1 DEF Good, Pointers
  <2> QED BY <2>1, <2>2
<1>4. Listed(p)
  BY <1>1, <1>2, PublishFields DEF Good, Listed
<1> QED BY <1>2, <1>3, <1>4 DEF Good

\* onStopZeroConfServices keeps the invariant; it deletes nothing twice.
LEMMA StopServicesGood ==
  ASSUME NEW z, Good(z), NEW uid
  PROVE /\ Good(StopServices(z, uid))
        /\ StopServices(z, uid).bTouched = z.bTouched
        /\ StopServices(z, uid).descriptors = z.descriptors
        /\ StopServices(z, uid).bActive = z.bActive
        /\ StopServices(z, uid).bRunning = z.bRunning
        /\ StopServices(z, uid).started = z.started
        /\ \A d \in Descriptor : moduleUID(d) = uid => StopServices(z, uid).servicePointer[d] = 0
<1> DEFINE D == Of(z, uid)
           pointer == Nulled(z, D)
           gone == Pointed(z, D)
           s == StopServices(z, uid)
<1>1. z \in ZeroConf BY DEF Good
<1>2. D \in SUBSET Descriptor BY <1>1 DEF Of, ZeroConf
<1>3. /\ pointer \in [Descriptor -> Nat]
      /\ \A d \in Descriptor : pointer[d] = IF d \in D THEN 0 ELSE z.servicePointer[d]
  BY <1>1 DEF Nulled, ZeroConf
<1>4. gone \subseteq z.alive
  BY <1>2 DEF Pointed, Good, Pointers
<1>5. \A d \in Descriptor : d \notin D => <<d, z.servicePointer[d]>> \notin gone
  BY DEF Pointed
<1> HIDE DEF D, pointer, gone
<1>6. /\ z.bTouched \in BOOLEAN
      /\ z.apZCservices \in SUBSET Service /\ z.alive \in SUBSET Service
  BY <1>1 DEF ZeroConf
<1>7. s = [z EXCEPT !.servicePointer = pointer,
                    !.apZCservices = z.apZCservices \ gone,
                    !.alive = z.alive \ gone,
                    !.bTouched = z.bTouched]
  BY <1>4, <1>6 DEF StopServices, D, pointer, gone
<1> HIDE DEF s
<1>8. /\ s \in ZeroConf
      /\ s.bTouched = z.bTouched /\ s.descriptors = z.descriptors
      /\ s.bActive = z.bActive /\ s.bRunning = z.bRunning /\ s.started = z.started
      /\ s.servicePointer = pointer
      /\ s.apZCservices = z.apZCservices \ gone
      /\ s.alive = z.alive \ gone
  BY <1>1, <1>3, <1>6, <1>7 DEF ZeroConf
<1>9. Pointers(s)
  BY <1>3, <1>5, <1>8 DEF Good, Pointers
<1>10. Listed(s)
  BY <1>8 DEF Good, Listed
<1>11. \A d \in Descriptor : moduleUID(d) = uid => pointer[d] = 0
  BY <1>3 DEF Good, Pointers, Of, D
<1> QED BY <1>8, <1>9, <1>10, <1>11 DEF Good, s

\* onStartZeroConfServices keeps the invariant.
LEMMA StartServicesGood ==
  ASSUME NEW z, Good(z), NEW uid
  PROVE /\ Good(StartServices(z, uid))
        /\ StartServices(z, uid).descriptors = z.descriptors
        /\ StartServices(z, uid).bActive = z.bActive
        /\ StartServices(z, uid).bRunning = z.bRunning
<1>1. CASE z.bActive
  <2> DEFINE s == StopServices(z, uid)
             D == Of(z, uid)
  <2>1. Good(s) /\ s.descriptors = z.descriptors /\ s.bRunning = z.bRunning
        /\ s.bActive = z.bActive
    BY StopServicesGood
  <2>2. D \in SUBSET s.descriptors BY <2>1 DEF Of
  <2>3. s \in ZeroConf /\ D \in SUBSET Descriptor BY <2>1, <2>2 DEF Good, ZeroConf
  <2> HIDE DEF s, D
  <2>4. /\ Good(Publish(s, D))
        /\ Publish(s, D).descriptors = s.descriptors
        /\ Publish(s, D).bActive = s.bActive
        /\ Publish(s, D).bRunning = s.bRunning
    BY <2>1, <2>2, <2>3, PublishGood, PublishType
  <2>5. StartServices(z, uid) = Publish(s, D)
    BY <1>1 DEF StartServices, s, D
  <2> QED BY <2>1, <2>4, <2>5
<1>2. CASE ~z.bActive
  BY <1>2 DEF StartServices
<1> QED BY <1>1, <1>2

\* onRemoveServiceDescriptors keeps the invariant.
LEMMA RemoveGood ==
  ASSUME NEW z, Good(z), NEW uid
  PROVE Good(Remove(z, uid))
<1> DEFINE s == StartServices(z, uid)
           D == Of(s, uid)
           r == Remove(z, uid)
<1>1. Good(s) BY StartServicesGood
<1>2. s \in ZeroConf /\ D \in SUBSET Descriptor
  BY <1>1 DEF Good, ZeroConf, Of
<1> DEFINE pointer == Nulled(s, D)
<1>3. /\ pointer \in [Descriptor -> Nat]
      /\ \A d \in Descriptor : pointer[d] = IF d \in D THEN 0 ELSE s.servicePointer[d]
  BY <1>2 DEF Nulled, ZeroConf
<1>4. r = [s EXCEPT !.descriptors = s.descriptors \ D, !.servicePointer = pointer]
  BY DEF Remove
<1> HIDE DEF s, D, pointer, r
<1>5. /\ r \in ZeroConf
      /\ r.descriptors = s.descriptors \ D /\ r.servicePointer = pointer
      /\ r.apZCservices = s.apZCservices /\ r.alive = s.alive
      /\ r.bRunning = s.bRunning
  BY <1>2, <1>3, <1>4 DEF ZeroConf
<1> QED BY <1>1, <1>3, <1>5 DEF Good, Pointers, Listed, r

\* onAddServiceDescriptor keeps the invariant: descriptors not on the list have
\* no service pointer.
LEMMA AddGood ==
  ASSUME NEW z, Good(z), NEW D \in SUBSET Descriptor
  PROVE Good(Add(z, D)) /\ Add(z, D).bActive = z.bActive
<1> DEFINE a == [z EXCEPT !.descriptors = z.descriptors \cup D]
<1>1. z \in ZeroConf BY DEF Good
<1>2. /\ a \in ZeroConf
      /\ a.descriptors = z.descriptors \cup D
      /\ a.servicePointer = z.servicePointer
      /\ a.apZCservices = z.apZCservices /\ a.alive = z.alive
      /\ a.bRunning = z.bRunning /\ a.bActive = z.bActive
  BY <1>1 DEF ZeroConf
<1>3. Add(z, D) = IF z.bRunning THEN Publish(a, D) ELSE a
  BY DEF Add
<1> HIDE DEF a
<1>4. Good(a)
  BY <1>2 DEF Good, Pointers, Listed
<1>5. D \in SUBSET a.descriptors BY <1>2
<1>6. Good(Publish(a, D)) BY <1>4, <1>5, PublishGood
<1>7. Publish(a, D).bActive = a.bActive BY <1>2, PublishType
<1> QED BY <1>2, <1>3, <1>4, <1>6, <1>7

\* ModuleBase::start, of a module that may start once more.
LEMMA RegisterGood ==
  ASSUME NEW z, Good(z), NEW uid \in Module, z.started[uid] < MaxStarts
  PROVE Good(Register(z, uid)) /\ Register(z, uid).bActive = z.bActive
<1> DEFINE n == z.started[uid] + 1
           D == {<<e, n>> : e \in {e \in Entry : ownerOf[e] = uid}}
           t == [z EXCEPT !.started[uid] = n]
<1>1. z \in ZeroConf /\ z.started \in [Module -> Nat] BY DEF Good, ZeroConf
<1>2. n \in 1 .. MaxStarts BY <1>1, ZeroConfAssumption
<1>3. D \in SUBSET Descriptor
  <2> HIDE DEF n
  <2> QED BY <1>2 DEF Descriptor
<1>4. /\ t \in ZeroConf
      /\ t.descriptors = z.descriptors /\ t.servicePointer = z.servicePointer
      /\ t.apZCservices = z.apZCservices /\ t.alive = z.alive
      /\ t.bRunning = z.bRunning /\ t.bActive = z.bActive
  <2>1. [z.started EXCEPT ![uid] = n] \in [Module -> Nat] BY <1>1
  <2> QED BY <1>1, <2>1 DEF ZeroConf
<1>5. Register(z, uid) = StartServices(Add(t, D), uid)
  BY DEF Register
<1> HIDE DEF t, D
<1>6. Good(t) BY <1>4 DEF Good, Pointers, Listed
<1>7. Good(Add(t, D)) /\ Add(t, D).bActive = t.bActive BY <1>3, <1>6, AddGood
<1> QED BY <1>4, <1>5, <1>7, StartServicesGood

-------------------------------------------------------------------------------
(* What a slot leaves alone, and what it publishes. *)

\* The descriptors, pointers and services of all modules but m are those of z.
SameButFor(m, z, y) ==
  /\ y.bRunning = z.bRunning
  /\ \A d \in Descriptor : moduleUID(d) # m =>
       /\ d \in y.descriptors <=> d \in z.descriptors
       /\ y.servicePointer[d] = z.servicePointer[d]
       /\ \A k \in Nat : <<d, k>> \in y.alive <=> <<d, k>> \in z.alive

\* Publishing descriptors of m.
LEMMA PublishFrame ==
  ASSUME NEW m, NEW z \in ZeroConf, NEW D \in SUBSET Descriptor,
         \A d \in D : moduleUID(d) = m
  PROVE SameButFor(m, z, Publish(z, D))
<1> DEFINE P == {d \in D : isActive(d)}
           made == [d \in Descriptor |-> IF d \in P THEN z.made[d] + 1 ELSE z.made[d]]
           pointer == [d \in Descriptor |-> IF d \in P THEN made[d] ELSE z.servicePointer[d]]
           new == {<<d, made[d]>> : d \in P}
<1>1. \A d \in Descriptor : moduleUID(d) # m =>
        pointer[d] = z.servicePointer[d] /\ \A k \in Nat : <<d, k>> \notin new
  OBVIOUS
<1> HIDE DEF P, made, pointer, new
<1>2. Publish(z, D) = [z EXCEPT !.made = made, !.servicePointer = pointer,
                                !.apZCservices = z.apZCservices \cup new,
                                !.alive = z.alive \cup new]
  BY DEF Publish, P, made, pointer, new
<1>3. /\ Publish(z, D).servicePointer = pointer
      /\ Publish(z, D).alive = z.alive \cup new
      /\ Publish(z, D).descriptors = z.descriptors
      /\ Publish(z, D).bRunning = z.bRunning
  BY <1>2 DEF ZeroConf
<1> QED BY <1>1, <1>3 DEF SameButFor

\* Stopping the services of m.
LEMMA StopServicesFrame ==
  ASSUME NEW m, NEW z \in ZeroConf
  PROVE SameButFor(m, z, StopServices(z, m))
<1> DEFINE D == Of(z, m)
           pointer == Nulled(z, D)
           gone == Pointed(z, D)
<1>1. \A d \in Descriptor : moduleUID(d) # m =>
        pointer[d] = z.servicePointer[d] /\ \A k \in Nat : <<d, k>> \notin gone
  BY DEF Nulled, Pointed, Of
<1>2. /\ StopServices(z, m).servicePointer = pointer
      /\ StopServices(z, m).alive = z.alive \ gone
      /\ StopServices(z, m).descriptors = z.descriptors
      /\ StopServices(z, m).bRunning = z.bRunning
  <2> HIDE DEF D, pointer, gone
  <2> QED BY DEF StopServices, ZeroConf, D, pointer, gone
<1> HIDE DEF D, pointer, gone
<1> QED BY <1>1, <1>2 DEF SameButFor

\* Two slots in a row.
LEMMA FrameTransitive ==
  ASSUME NEW m, NEW x, NEW y, NEW z, SameButFor(m, x, y), SameButFor(m, y, z)
  PROVE SameButFor(m, x, z)
BY DEF SameButFor

\* onStartZeroConfServices leaves the others alone; if the module is active, all
\* descriptors of m that are to be published then are.
LEMMA StartServicesFrame ==
  ASSUME NEW m, NEW z, Good(z)
  PROVE /\ SameButFor(m, z, StartServices(z, m))
        /\ z.bActive => \A d \in Of(z, m) : isActive(d) => StartServices(z, m).servicePointer[d] # 0
<1>1. CASE z.bActive
  <2> DEFINE s == StopServices(z, m)
  <2>1. s \in ZeroConf /\ s.descriptors = z.descriptors BY StopServicesGood DEF Good
  <2>2. Of(z, m) \in SUBSET Descriptor /\ \A d \in Of(z, m) : moduleUID(d) = m
    BY DEF Of, Good, ZeroConf
  <2>3. SameButFor(m, z, s) BY StopServicesFrame DEF Good
  <2>4. StartServices(z, m) = Publish(s, Of(z, m)) BY <1>1 DEF StartServices
  <2> HIDE DEF s
  <2>5. SameButFor(m, s, Publish(s, Of(z, m))) BY <2>1, <2>2, PublishFrame
  <2>6. \A d \in Of(z, m) : isActive(d) => Publish(s, Of(z, m)).servicePointer[d] # 0
    BY <2>1, <2>2, PublishFields
  <2> QED BY <2>3, <2>4, <2>5, <2>6, FrameTransitive
<1>2. CASE ~z.bActive
  BY <1>2 DEF StartServices, SameButFor
<1> QED BY <1>1, <1>2

\* onRemoveServiceDescriptors leaves the others alone.
LEMMA RemoveFrame ==
  ASSUME NEW m, NEW z, Good(z)
  PROVE SameButFor(m, z, Remove(z, m))
<1> DEFINE s == StartServices(z, m)
           D == Of(s, m)
           pointer == Nulled(s, D)
<1>1. s \in ZeroConf /\ SameButFor(m, z, s) BY StartServicesGood, StartServicesFrame DEF Good
<1>2. \A d \in Descriptor : moduleUID(d) # m =>
        d \notin D /\ pointer[d] = s.servicePointer[d]
  BY DEF Nulled, Of
<1>3. Remove(z, m) = [s EXCEPT !.descriptors = s.descriptors \ D, !.servicePointer = pointer]
  BY DEF Remove
<1> HIDE DEF s, D, pointer
<1>4. /\ Remove(z, m).servicePointer = pointer
      /\ Remove(z, m).descriptors = s.descriptors \ D
      /\ Remove(z, m).alive = s.alive
      /\ Remove(z, m).bRunning = s.bRunning
  BY <1>1, <1>3 DEF ZeroConf
<1>5. SameButFor(m, s, Remove(z, m)) BY <1>2, <1>4 DEF SameButFor
<1> QED BY <1>1, <1>5, FrameTransitive

\* ModuleBase::start: the others are left alone, each entry of the module has a
\* descriptor, and while the ZeroConf module runs it is published.
LEMMA RegisterFrame ==
  ASSUME NEW z, Good(z), NEW m \in Module, z.started[m] < MaxStarts
  PROVE /\ SameButFor(m, z, Register(z, m))
        /\ \A e \in Entry : ownerOf[e] = m =>
             \E d \in Register(z, m).descriptors :
               /\ d[1] = e
               /\ z.bRunning /\ e \in Publishes => Register(z, m).servicePointer[d] # 0
<1> DEFINE n == z.started[m] + 1
           D == {<<e, n>> : e \in {e \in Entry : ownerOf[e] = m}}
           t == [z EXCEPT !.started[m] = n]
           a == [t EXCEPT !.descriptors = t.descriptors \cup D]
           b == Add(t, D)
<1>1. z \in ZeroConf /\ z.started \in [Module -> Nat] BY DEF Good, ZeroConf
<1>2. n \in 1 .. MaxStarts BY <1>1, ZeroConfAssumption
<1>3. /\ D \in SUBSET Descriptor
      /\ \A d \in D : moduleUID(d) = m
      /\ \A e \in Entry : ownerOf[e] = m => \E d \in D : d[1] = e
  <2>1. \A e \in Entry : <<e, n>> \in Descriptor
    <3> HIDE DEF n
    <3> QED BY <1>2 DEF Descriptor
  <2>2. \A e \in Entry : ownerOf[e] = m => <<e, n>> \in D /\ <<e, n>>[1] = e
    OBVIOUS
  <2>3. \A d \in D : \E e \in Entry : ownerOf[e] = m /\ d = <<e, n>>
    OBVIOUS
  <2> HIDE DEF n, D
  <2>4. \A d \in D : d \in Descriptor /\ moduleUID(d) = m BY <2>1, <2>3 DEF moduleUID
  <2> QED BY <2>2, <2>4
<1>4. /\ t \in ZeroConf
      /\ t.descriptors = z.descriptors /\ t.servicePointer = z.servicePointer
      /\ t.apZCservices = z.apZCservices /\ t.alive = z.alive
      /\ t.bRunning = z.bRunning /\ t.bActive = z.bActive
  <2>1. [z.started EXCEPT ![m] = n] \in [Module -> Nat] BY <1>1, <1>2
  <2> QED BY <1>1, <2>1 DEF ZeroConf
<1>5. Register(z, m) = StartServices(b, m)
  BY DEF Register
<1>6. Good(t)
  <2> HIDE DEF t
  <2> QED BY <1>4 DEF Good, Pointers, Listed
<1> HIDE DEF t, D, n
<1>7. /\ a \in ZeroConf
      /\ a.descriptors = z.descriptors \cup D /\ a.servicePointer = z.servicePointer
      /\ a.alive = z.alive /\ a.bRunning = z.bRunning
  BY <1>3, <1>4 DEF ZeroConf
<1>8. b = IF z.bRunning THEN Publish(a, D) ELSE a
  BY <1>4 DEF Add
<1>9. Good(b) BY <1>3, <1>6, AddGood
<1> HIDE DEF a, b
<1>10. SameButFor(m, z, a) BY <1>3, <1>7 DEF SameButFor
<1>11. SameButFor(m, a, Publish(a, D)) BY <1>3, <1>7, PublishFrame
<1>12. SameButFor(m, z, b) BY <1>8, <1>10, <1>11, FrameTransitive
<1>13. /\ D \subseteq b.descriptors
       /\ z.bRunning => \A d \in D : isActive(d) => b.servicePointer[d] # 0
  <2>1. CASE z.bRunning
    <3>1. Publish(a, D).descriptors = a.descriptors BY <1>3, <1>7, PublishType
    <3>2. \A d \in D : d \in Descriptor BY <1>3
    <3>3. \A d \in D : isActive(d) => Publish(a, D).servicePointer[d] # 0
      BY <1>3, <1>7, <3>2, PublishFields
    <3> QED BY <1>7, <1>8, <2>1, <3>1, <3>3
  <2>2. CASE ~z.bRunning
    BY <1>7, <1>8, <2>2
  <2> QED BY <2>1, <2>2
<1>14. StartServices(b, m).descriptors = b.descriptors
  BY <1>9, StartServicesGood
<1>15. z.bRunning => \A d \in D : isActive(d) => StartServices(b, m).servicePointer[d] # 0
  <2>1. CASE b.bActive
    <3>1. D \subseteq Of(b, m) BY <1>3, <1>13 DEF Of
    <3> QED BY <1>9, <2>1, <3>1, StartServicesFrame
  <2>2. CASE ~b.bActive
    BY <1>13, <2>2 DEF StartServices
  <2> QED BY <2>1, <2>2
<1>16. SameButFor(m, z, StartServices(b, m))
  BY <1>9, <1>12, StartServicesFrame, FrameTransitive
<1> QED BY <1>3, <1>5, <1>13, <1>14, <1>15, <1>16 DEF isActive

-------------------------------------------------------------------------------
(* The module's own start, stop and die. *)

\* stop() nulls every pointer, so it need not leave the list clean.
LEMMA StopGood ==
  ASSUME NEW z, Good(z)
  PROVE /\ Good(Stop(z)) /\ Stop(z).bActive = z.bActive
        /\ Stop(z).started = z.started
<1> DEFINE s == StopServices(z, zcUID)
           r == Stop(z)
<1>1. Good(s) /\ s \in ZeroConf /\ s.bActive = z.bActive /\ s.started = z.started
  BY StopServicesGood DEF Good
<1> DEFINE pointer == Nulled(s, s.descriptors)
           touched == s.bTouched \/ ~(s.apZCservices \subseteq s.alive)
<1>2. /\ pointer \in [Descriptor -> Nat]
      /\ \A d \in Descriptor : pointer[d] = IF d \in s.descriptors THEN 0
                                              ELSE s.servicePointer[d]
  BY <1>1 DEF Nulled, ZeroConf
<1>3. touched \in BOOLEAN BY <1>1 DEF ZeroConf
<1>4. r = [s EXCEPT !.servicePointer = pointer, !.alive = s.alive \ s.apZCservices,
                    !.bTouched = touched, !.bRunning = FALSE]
  BY DEF Stop
<1> HIDE DEF s, r, pointer, touched
<1>5. /\ r \in ZeroConf
      /\ r.descriptors = s.descriptors /\ r.servicePointer = pointer
      /\ r.bRunning = FALSE /\ r.bActive = s.bActive /\ r.started = s.started
  BY <1>1, <1>2, <1>3, <1>4 DEF ZeroConf
<1>6. \A d \in Descriptor : pointer[d] = 0
  BY <1>1, <1>2 DEF Good, Pointers
<1> QED BY <1>1, <1>5, <1>6 DEF Good, Pointers, Listed, r

\* start() publishes every descriptor, so pointers to forgotten services go.
LEMMA StartGood ==
  ASSUME NEW z, Good(z), z.started[zcUID] < MaxStarts
  PROVE Good(Start(z))
<1> DEFINE s == IF z.bRunning THEN Stop(z) ELSE z
           g == Register(s, zcUID)
           r == [g EXCEPT !.apZCservices = {}]
           p == Publish(r, r.descriptors)
<1>1. Good(s) /\ s.started = z.started BY StopGood
<1> HIDE DEF s
<1>2. Good(g) BY <1>1, RegisterGood, ZeroConfAssumption
<1> HIDE DEF g
<1>3. /\ r \in ZeroConf
      /\ r.descriptors = g.descriptors /\ r.descriptors \in SUBSET Descriptor
      /\ r.servicePointer = g.servicePointer
      /\ r.apZCservices = {} /\ r.alive = g.alive
  BY <1>2 DEF Good, ZeroConf
<1> HIDE DEF r
<1>4. p \in ZeroConf /\ p.descriptors = r.descriptors
  BY <1>3, PublishType
<1>5. p.apZCservices \subseteq p.alive
  BY <1>3, PublishFields
<1>6. Pointers(p)
  <2> SUFFICES ASSUME NEW d \in Descriptor, p.servicePointer[d] # 0
               PROVE /\ d \in p.descriptors /\ isActive(d)
                     /\ <<d, p.servicePointer[d]>> \in p.apZCservices
                     /\ <<d, p.servicePointer[d]>> \in p.alive
    BY DEF Pointers
  <2>1. d \in r.descriptors /\ isActive(d)
    <3>1. CASE ~(d \in r.descriptors /\ isActive(d))
      <4>1. p.servicePointer[d] = r.servicePointer[d]
        BY <1>3, <3>1, PublishFields
      <4> QED BY <1>2, <1>3, <3>1, <4>1 DEF Good, Pointers
    <3> QED BY <3>1
  <2> QED BY <1>3, <1>4, <2>1, PublishFields
<1> HIDE DEF p
<1>7. /\ [p EXCEPT !.bRunning = TRUE] \in ZeroConf
      /\ [p EXCEPT !.bRunning = TRUE].descriptors = p.descriptors
      /\ [p EXCEPT !.bRunning = TRUE].servicePointer = p.servicePointer
      /\ [p EXCEPT !.bRunning = TRUE].apZCservices = p.apZCservices
      /\ [p EXCEPT !.bRunning = TRUE].alive = p.alive
  BY <1>4 DEF ZeroConf
<1>8. Good([p EXCEPT !.bRunning = TRUE])
  BY <1>5, <1>6, <1>7 DEF Good, Pointers, Listed
<1>9. Start(z) = IF z.bActive THEN [p EXCEPT !.bRunning = TRUE] ELSE z
  BY DEF Start, p, r, g, s
<1> QED BY <1>8, <1>9

\* die() ends with empty lists and no pointers.
LEMMA DieGood ==
  ASSUME NEW z, Good(z)
  PROVE /\ Good(Die(z))
        /\ \A d \in Descriptor : Die(z).servicePointer[d] = 0
        /\ Die(z).apZCservices = {}
<1> DEFINE s == Remove(Stop(z), zcUID)
           r == Die(z)
<1>1. Good(s) /\ s \in ZeroConf BY StopGood, RemoveGood DEF Good
<1> DEFINE pointer == Nulled(s, s.descriptors)
<1>2. /\ pointer \in [Descriptor -> Nat]
      /\ \A d \in Descriptor : pointer[d] = IF d \in s.descriptors THEN 0
                                              ELSE s.servicePointer[d]
  BY <1>1 DEF Nulled, ZeroConf
<1>3. r = [s EXCEPT !.apZCservices = {}, !.descriptors = {}, !.servicePointer = pointer]
  BY DEF Die
<1> HIDE DEF s, r, pointer
<1>4. r \in ZeroConf /\ r.apZCservices = {} /\ r.servicePointer = pointer
  BY <1>1, <1>2, <1>3 DEF ZeroConf
<1>5. \A d \in Descriptor : pointer[d] = 0
  BY <1>1, <1>2 DEF Good, Pointers
<1> QED BY <1>4, <1>5 DEF Good, Pointers, Listed, r

-------------------------------------------------------------------------------
(* The theorems. *)

IInv == Good(zc) /\ up \subseteq Module /\ life \in {"there", "dead", "gone"}

LEMMA InitIInv == Init => IInv
<1> SUFFICES ASSUME Init PROVE IInv OBVIOUS
<1>1. zc \in ZeroConf
  BY DEF Init, ZeroConf
<1>2. Pointers(zc) /\ Listed(zc)
  BY DEF Init, Pointers, Listed
<1> QED BY <1>1, <1>2 DEF Init, IInv, Good

LEMMA StepIInv == IInv /\ [Next]_vars => IInv'
<1> SUFFICES ASSUME IInv, [Next]_vars PROVE IInv'
  OBVIOUS
<1> USE DEF IInv
<1>g. Good(zc)' <=> Good(zc')
  BY DEF Good, Pointers, Listed
<1>1. ASSUME NEW m \in Module, ModuleStart(m) PROVE IInv'
  BY <1>1, <1>g, RegisterGood DEF ModuleStart
<1>2. ASSUME NEW m \in Module, ModuleStop(m) PROVE IInv'
  BY <1>2, <1>g, StopServicesGood DEF ModuleStop
<1>3. ASSUME NEW m \in Module, ModuleDie(m) PROVE IInv'
  <2>1. Good(StopServices(zc, m)) BY StopServicesGood
  <2> QED BY <1>3, <1>g, <2>1, RemoveGood DEF ModuleDie
<1>4. CASE SelfStart
  BY <1>4, <1>g, StartGood, ZeroConfAssumption DEF SelfStart
<1>5. CASE SelfStop
  BY <1>5, <1>g, StopGood DEF SelfStop
<1>6. CASE SelfDie
  BY <1>6, <1>g, DieGood DEF SelfDie
<1>7. CASE Destroyed
  <2> DEFINE d == Die(zc)
  <2>1. /\ Good(d) /\ d \in ZeroConf /\ d.apZCservices = {}
        /\ \A x \in Descriptor : d.servicePointer[x] = 0
    BY DieGood DEF Good
  <2>2. zc' = [d EXCEPT !.alive = {}] BY <1>7 DEF Destroyed
  <2> HIDE DEF d
  <2>3. /\ zc' \in ZeroConf /\ zc'.apZCservices = {}
        /\ zc'.servicePointer = d.servicePointer
    BY <2>1, <2>2 DEF ZeroConf
  <2>4. Good(zc') BY <2>1, <2>3 DEF Good, Pointers, Listed
  <2> QED BY <1>7, <1>g, <2>4 DEF Destroyed
<1>8. CASE Deactivate
  <2>1. /\ zc' \in ZeroConf /\ zc'.apZCservices = zc.apZCservices
        /\ zc'.servicePointer = zc.servicePointer /\ zc'.alive = zc.alive
        /\ zc'.descriptors = zc.descriptors /\ zc'.bRunning = zc.bRunning
    BY <1>8 DEF Deactivate, Good, ZeroConf
  <2>2. Good(zc') BY <2>1 DEF Good, Pointers, Listed
  <2> QED BY <1>8, <1>g, <2>2 DEF Deactivate
<1>9. CASE UNCHANGED vars
  BY <1>9, <1>g DEF vars
<1> QED BY <1>1, <1>2, <1>3, <1>4, <1>5, <1>6, <1>7, <1>8, <1>9 DEF Next

LEMMA Inductive == Spec => []IInv
  BY InitIInv, StepIInv, PTL DEF Spec

\* Every variable keeps its type, for any modules and entries.
THEOREM TypeCorrect == Spec => []TypeOK
<1>1. IInv => TypeOK BY DEF IInv, Good, TypeOK
<1> QED BY <1>1, Inductive, PTL

\* The pointer through which onStopZeroConfServices deletes a service is never
\* dangling, however modules start, stop and die around the ZeroConf module.
THEOREM PointersNeverDangle == Spec => []PointersLive
<1>1. IInv => PointersLive BY DEF IInv, Good, ZeroConf, Pointers, PointersLive
<1> QED BY <1>1, Inductive, PTL

\* A running module has no deleted service on its list, so that the first stop()
\* after a start deletes each service once.
THEOREM RunningListIsLive == Spec => []RunningListLive
<1>1. IInv => RunningListLive BY DEF IInv, Good, Listed, RunningListLive
<1> QED BY <1>1, Inductive, PTL

-------------------------------------------------------------------------------
(* Who is started is published. *)

\* What Served needs to be inductive: while the object is there, entries of
\* started modules have descriptors, whether it runs or not, so that its start
\* finds them to publish; and it does not run again after die().
Registered(z, U) ==
  \A e \in Publishes : ownerOf[e] \in U => \E d \in z.descriptors : d[1] = e
Serves(z, U) ==
  z.bRunning =>
    \A e \in Publishes : ownerOf[e] \in U =>
      \E d \in z.descriptors : d[1] = e /\ z.servicePointer[d] # 0
Attended(z, U) == Registered(z, U) /\ Serves(z, U)
ServedInv == IF life = "there" THEN Attended(zc, up) ELSE ~zc.bRunning

\* A slot that leaves all but m alone keeps what was promised to the others.
LEMMA OthersAttended ==
  ASSUME NEW m, NEW z \in ZeroConf, NEW y \in ZeroConf, SameButFor(m, z, y),
         NEW U, Attended(z, U)
  PROVE Attended(y, U \ {m})
<1> SUFFICES ASSUME NEW e \in Publishes, ownerOf[e] \in U \ {m}
             PROVE \E d \in y.descriptors :
                     d[1] = e /\ (y.bRunning => y.servicePointer[d] # 0)
  BY DEF Attended, Registered, Serves
<1>1. PICK d \in z.descriptors : d[1] = e /\ (z.bRunning => z.servicePointer[d] # 0)
  BY DEF Attended, Registered, Serves
<1>2. d \in Descriptor /\ moduleUID(d) # m BY <1>1 DEF ZeroConf, moduleUID
<1> QED BY <1>1, <1>2 DEF SameButFor

\* A module's start leaves the module attended, too.
LEMMA RegisterAttends ==
  ASSUME NEW z, Good(z), NEW m \in Module, z.started[m] < MaxStarts,
         NEW U, Attended(z, U)
  PROVE Attended(Register(z, m), U \cup {m})
<1> DEFINE y == Register(z, m)
<1>1. z \in ZeroConf /\ y \in ZeroConf BY RegisterGood DEF Good
<1>2. SameButFor(m, z, y) /\ y.bRunning = z.bRunning BY RegisterFrame DEF SameButFor
<1>3. Attended(y, U \ {m}) BY <1>1, <1>2, OthersAttended
<1>4. \A e \in Publishes : ownerOf[e] = m =>
        \E d \in y.descriptors : d[1] = e /\ (z.bRunning => y.servicePointer[d] # 0)
  BY RegisterFrame, ZeroConfAssumption
<1> HIDE DEF y
<1>5. \A e \in Publishes : ownerOf[e] \in U \ {m} =>
        \E d \in y.descriptors : d[1] = e /\ (z.bRunning => y.servicePointer[d] # 0)
  BY <1>2, <1>3 DEF Attended, Registered, Serves
<1>6. \A e \in Publishes : ownerOf[e] \in U \cup {m} =>
        \E d \in y.descriptors : d[1] = e /\ (z.bRunning => y.servicePointer[d] # 0)
  BY <1>4, <1>5
<1> QED BY <1>2, <1>6 DEF y, Attended, Registered, Serves

\* start() of the module itself publishes whatever has a descriptor.
LEMMA StartAttends ==
  ASSUME NEW z, Good(z), z.started[zcUID] < MaxStarts, z.bActive, NEW U, Registered(z, U)
  PROVE Attended(Start(z), U \cup {zcUID})
<1> DEFINE s == IF z.bRunning THEN Stop(z) ELSE z
           g == Register(s, zcUID)
           r == [g EXCEPT !.apZCservices = {}]
           p == Publish(r, r.descriptors)
           y == [p EXCEPT !.bRunning = TRUE]
<1>1. Good(s) /\ s.started = z.started BY StopGood
<1>2. s.descriptors = z.descriptors /\ ~s.bRunning
  <2>1. CASE z.bRunning
    <3> DEFINE t == StopServices(z, zcUID)
               pointer == Nulled(t, t.descriptors)
               alive == t.alive \ t.apZCservices
               touched == t.bTouched \/ ~(t.apZCservices \subseteq t.alive)
    <3>1. t \in ZeroConf /\ t.descriptors = z.descriptors BY StopServicesGood DEF Good
    <3>2. Stop(z) = [t EXCEPT !.servicePointer = pointer, !.alive = alive,
                              !.bTouched = touched, !.bRunning = FALSE]
      BY DEF Stop
    <3> HIDE DEF t, pointer, alive, touched
    <3> QED BY <2>1, <3>1, <3>2 DEF ZeroConf
  <2> QED BY <2>1
<1>3. Attended(s, U) BY <1>2 DEF Attended, Registered, Serves
<1> HIDE DEF s
<1>4. Attended(g, U \cup {zcUID}) BY <1>1, <1>3, RegisterAttends, ZeroConfAssumption
<1>5. g \in ZeroConf BY <1>1, RegisterGood, ZeroConfAssumption DEF Good
<1> HIDE DEF g
<1>6. /\ r \in ZeroConf /\ r.descriptors = g.descriptors
      /\ r.descriptors \in SUBSET Descriptor
  BY <1>5 DEF ZeroConf
<1> HIDE DEF r
<1>7. /\ p \in ZeroConf /\ p.descriptors = g.descriptors
      /\ \A d \in g.descriptors : isActive(d) => p.servicePointer[d] # 0
  <2>1. p \in ZeroConf /\ p.descriptors = r.descriptors BY <1>6, PublishType
  <2>2. \A d \in r.descriptors : isActive(d) => p.servicePointer[d] # 0
    BY <1>6, PublishFields
  <2> QED BY <1>6, <2>1, <2>2
<1> HIDE DEF p
<1>8. y.descriptors = g.descriptors /\ y.servicePointer = p.servicePointer
  BY <1>7 DEF ZeroConf
<1>9. Start(z) = y BY DEF Start, y, p, r, g, s
<1> HIDE DEF y
<1> QED BY <1>4, <1>7, <1>8, <1>9 DEF Attended, Registered, Serves, isActive

\* stop() and die() of the module itself leave it not running.
LEMMA StopRests ==
  ASSUME NEW z, Good(z)
  PROVE /\ Stop(z).bRunning = FALSE /\ Stop(z).descriptors = z.descriptors
        /\ Die(z).bRunning = FALSE
<1> DEFINE t == StopServices(z, zcUID)
           pointer == Nulled(t, t.descriptors)
           alive == t.alive \ t.apZCservices
           touched == t.bTouched \/ ~(t.apZCservices \subseteq t.alive)
           s == Remove(Stop(z), zcUID)
           null == Nulled(s, s.descriptors)
<1>1. t \in ZeroConf /\ t.descriptors = z.descriptors BY StopServicesGood DEF Good
<1>2. Stop(z) = [t EXCEPT !.servicePointer = pointer, !.alive = alive,
                          !.bTouched = touched, !.bRunning = FALSE]
  BY DEF Stop
<1>3. Stop(z).bRunning = FALSE /\ Stop(z).descriptors = z.descriptors
  <2> HIDE DEF t, pointer, alive, touched
  <2> QED BY <1>1, <1>2 DEF ZeroConf
<1>4. s \in ZeroConf /\ s.bRunning = Stop(z).bRunning
  BY StopGood, RemoveGood, RemoveFrame DEF Good, SameButFor
<1>5. Die(z) = [s EXCEPT !.apZCservices = {}, !.descriptors = {}, !.servicePointer = null]
  BY DEF Die
<1> HIDE DEF s, null
<1>6. Die(z).bRunning = s.bRunning BY <1>4, <1>5 DEF ZeroConf
<1> QED BY <1>3, <1>4, <1>6

LEMMA InitServedInv == Init => ServedInv
<1> SUFFICES ASSUME Init PROVE ServedInv OBVIOUS
<1> QED BY DEF Init, ServedInv, Attended, Registered, Serves

LEMMA StepServedInv == IInv /\ ServedInv /\ [Next]_vars => ServedInv'
<1> SUFFICES ASSUME IInv, ServedInv, [Next]_vars PROVE ServedInv'
  OBVIOUS
<1> USE DEF IInv
<1>a. zc \in ZeroConf BY DEF Good
<1>g. ServedInv' <=> IF life' = "there" THEN Attended(zc', up') ELSE ~zc'.bRunning
  BY DEF ServedInv, Attended, Registered, Serves
<1>1. ASSUME NEW m \in Module, ModuleStart(m) PROVE ServedInv'
  BY <1>1, <1>g, RegisterAttends DEF ModuleStart, ServedInv
<1>2. ASSUME NEW m \in Module, ModuleStop(m) PROVE ServedInv'
  <2>1. StopServices(zc, m) \in ZeroConf BY StopServicesGood DEF Good
  <2>2. SameButFor(m, zc, StopServices(zc, m)) BY <1>a, StopServicesFrame
  <2> QED BY <1>2, <1>a, <1>g, <2>1, <2>2, OthersAttended DEF ModuleStop, ServedInv
<1>3. ASSUME NEW m \in Module, ModuleDie(m) PROVE ServedInv'
  <2>1. Good(StopServices(zc, m)) BY StopServicesGood
  <2>2. Remove(StopServices(zc, m), m) \in ZeroConf BY <2>1, RemoveGood DEF Good
  <2>3. SameButFor(m, zc, Remove(StopServices(zc, m), m))
    BY <1>a, <2>1, StopServicesFrame, RemoveFrame, FrameTransitive
  <2>4. CASE life = "there"
    BY <1>3, <1>a, <1>g, <2>2, <2>3, <2>4, OthersAttended DEF ModuleDie, ServedInv
  <2>5. CASE life # "there"
    BY <1>3, <1>g, <2>3, <2>5 DEF ModuleDie, ServedInv, SameButFor
  <2> QED BY <2>4, <2>5
<1>4. CASE SelfStart
  <2>1. CASE zc.bActive
    BY <1>4, <1>g, <2>1, StartAttends DEF SelfStart, ServedInv, Attended
  <2>2. CASE ~zc.bActive
    BY <1>4, <1>g, <2>2 DEF SelfStart, Start, ServedInv
  <2> QED BY <2>1, <2>2
<1>5. CASE SelfStop
  <2>1. zc'.bRunning = FALSE /\ zc'.descriptors = zc.descriptors BY <1>5, StopRests DEF SelfStop
  <2> QED BY <1>5, <1>g, <2>1 DEF SelfStop, ServedInv, Attended, Registered, Serves
<1>6. CASE SelfDie
  BY <1>6, <1>g, StopRests DEF SelfDie
<1>7. CASE Destroyed
  <2> DEFINE d == Die(zc)
  <2>1. d \in ZeroConf /\ d.bRunning = FALSE BY DieGood, StopRests DEF Good
  <2>2. zc' = [d EXCEPT !.alive = {}] BY <1>7 DEF Destroyed
  <2> HIDE DEF d
  <2>3. zc'.bRunning = FALSE BY <2>1, <2>2 DEF ZeroConf
  <2> QED BY <1>7, <1>g, <2>3 DEF Destroyed
<1>8. CASE Deactivate
  <2>1. /\ zc'.descriptors = zc.descriptors /\ zc'.bRunning = zc.bRunning
        /\ zc'.servicePointer = zc.servicePointer
    BY <1>8, <1>a DEF Deactivate, ZeroConf
  <2> QED BY <1>8, <1>g, <2>1 DEF Deactivate, ServedInv, Attended, Registered, Serves
<1>9. CASE UNCHANGED vars
  BY <1>9, <1>g DEF vars, ServedInv
<1> QED BY <1>1, <1>2, <1>3, <1>4, <1>5, <1>6, <1>7, <1>8, <1>9 DEF Next

\* While the module runs, each entry to publish of a started module is published,
\* however modules and the ZeroConf module itself were restarted.
THEOREM StartedIsServed == Spec => []Served
<1>1. ServedInv => Served
  BY DEF ServedInv, Attended, Serves, Served
<1>2. IInv /\ ServedInv => ServedInv BY DEF ServedInv
<1> QED BY <1>1, InitServedInv, StepServedInv, Inductive, PTL DEF Spec

\* A module's start, stop or end leaves the services of all others as they are.
THEOREM LeavesOthersAlone == Spec => OthersUntouched
<1> DEFINE A(m) ==
      ModuleStart(m) \/ ModuleStop(m) \/ ModuleDie(m) =>
        /\ {s \in zc.alive : moduleUID(s[1]) # m} = {s \in zc'.alive : moduleUID(s[1]) # m}
        /\ \A d \in zc.descriptors :
             moduleUID(d) # m => zc'.servicePointer[d] = zc.servicePointer[d]
<1>1. ASSUME IInv, IInv', NEW m \in Module PROVE A(m)
  <2> SUFFICES ASSUME ModuleStart(m) \/ ModuleStop(m) \/ ModuleDie(m) PROVE A(m)
    OBVIOUS
  <2>1. SameButFor(m, zc, zc')
    <3>1. CASE ModuleStart(m)
      BY <1>1, <3>1, RegisterFrame DEF ModuleStart, IInv
    <3>2. CASE ModuleStop(m)
      BY <1>1, <3>2, StopServicesFrame DEF ModuleStop, IInv, Good
    <3>3. CASE ModuleDie(m)
      <4>1. Good(StopServices(zc, m)) BY <1>1, StopServicesGood DEF IInv
      <4>2. SameButFor(m, zc, StopServices(zc, m)) BY <1>1, StopServicesFrame DEF IInv, Good
      <4> QED BY <3>3, <4>1, <4>2, RemoveFrame, FrameTransitive DEF ModuleDie
    <3> QED BY <3>1, <3>2, <3>3
  <2>2. \A d \in zc.descriptors : d \in Descriptor
    BY <1>1 DEF IInv, Good, ZeroConf
  <2>3. \A s \in zc.alive \cup zc'.alive :
          \E d \in Descriptor, k \in Nat : s = <<d, k>>
    BY <1>1 DEF IInv, Good, ZeroConf, Service
  <2>4. \A s \in zc.alive \cup zc'.alive :
          moduleUID(s[1]) # m => (s \in zc.alive <=> s \in zc'.alive)
    BY <2>1, <2>3 DEF SameButFor
  <2> QED BY <2>1, <2>2, <2>4 DEF SameButFor
<1>2. IInv /\ IInv' /\ [Next]_vars => [\A m \in Module : A(m)]_vars
  BY <1>1
<1> QED BY <1>2, Inductive, PTL DEF Spec, OthersUntouched

-------------------------------------------------------------------------------
(* Where deleted services are used. *)

\* Publishing uses no service that is there already.
LEMMA PublishTouches ==
  ASSUME NEW z \in ZeroConf, NEW D
  PROVE Publish(z, D).bTouched = z.bTouched
<1> DEFINE P == {d \in D : isActive(d)}
           made == [d \in Descriptor |-> IF d \in P THEN z.made[d] + 1 ELSE z.made[d]]
           pointer == [d \in Descriptor |-> IF d \in P THEN made[d] ELSE z.servicePointer[d]]
           new == {<<d, made[d]>> : d \in P}
<1>1. Publish(z, D) = [z EXCEPT !.made = made, !.servicePointer = pointer,
                                !.apZCservices = z.apZCservices \cup new,
                                !.alive = z.alive \cup new]
  BY DEF Publish
<1> HIDE DEF made, pointer, new
<1> QED BY <1>1 DEF ZeroConf

\* onStartZeroConfServices deletes what descriptors point to, which is there.
LEMMA StartServicesTouches ==
  ASSUME NEW z, Good(z), NEW uid
  PROVE StartServices(z, uid).bTouched = z.bTouched
<1>1. /\ StopServices(z, uid) \in ZeroConf
      /\ StopServices(z, uid).bTouched = z.bTouched
  BY StopServicesGood DEF Good
<1> QED BY <1>1, PublishTouches DEF StartServices

LEMMA RemoveTouches ==
  ASSUME NEW z, Good(z), NEW uid
  PROVE Remove(z, uid).bTouched = z.bTouched
<1> DEFINE s == StartServices(z, uid)
           D == Of(s, uid)
           pointer == Nulled(s, D)
<1>1. s \in ZeroConf /\ s.bTouched = z.bTouched
  BY StartServicesGood, StartServicesTouches DEF Good
<1>2. Remove(z, uid) = [s EXCEPT !.descriptors = s.descriptors \ D, !.servicePointer = pointer]
  BY DEF Remove
<1> HIDE DEF s, D, pointer
<1> QED BY <1>1, <1>2 DEF ZeroConf

LEMMA RegisterTouches ==
  ASSUME NEW z, Good(z), NEW uid \in Module, z.started[uid] < MaxStarts
  PROVE Register(z, uid).bTouched = z.bTouched
<1> DEFINE n == z.started[uid] + 1
           D == {<<e, n>> : e \in {e \in Entry : ownerOf[e] = uid}}
           t == [z EXCEPT !.started[uid] = n]
           a == [t EXCEPT !.descriptors = t.descriptors \cup D]
<1>1. z \in ZeroConf /\ z.started \in [Module -> Nat] BY DEF Good, ZeroConf
<1>2. n \in 1 .. MaxStarts BY <1>1, ZeroConfAssumption
<1>3. D \in SUBSET Descriptor
  <2> HIDE DEF n
  <2> QED BY <1>2 DEF Descriptor
<1>4. /\ t \in ZeroConf /\ t.bTouched = z.bTouched
      /\ t.descriptors = z.descriptors /\ t.servicePointer = z.servicePointer
      /\ t.apZCservices = z.apZCservices /\ t.alive = z.alive
      /\ t.bRunning = z.bRunning
  <2>1. [z.started EXCEPT ![uid] = n] \in [Module -> Nat] BY <1>1
  <2> QED BY <1>1, <2>1 DEF ZeroConf
<1>5. Register(z, uid) = StartServices(Add(t, D), uid)
  BY DEF Register
<1>6. Add(t, D) = IF t.bRunning THEN Publish(a, D) ELSE a
  BY DEF Add
<1> HIDE DEF t, D
<1>7. Good(t) BY <1>4 DEF Good, Pointers, Listed
<1>8. Good(Add(t, D)) BY <1>3, <1>7, AddGood
<1>9. a \in ZeroConf /\ a.bTouched = t.bTouched BY <1>3, <1>4 DEF ZeroConf
<1> HIDE DEF a
<1>10. Add(t, D).bTouched = t.bTouched BY <1>6, <1>9, PublishTouches
<1> QED BY <1>4, <1>5, <1>8, <1>10, StartServicesTouches

\* The first stop() after a start: everything listed is there.  What a stop()
\* leaves on the list was there before.
LEMMA StopTouches ==
  ASSUME NEW z, Good(z)
  PROVE /\ z.bRunning \/ z.apZCservices = {} => Stop(z).bTouched = z.bTouched
        /\ Stop(z).apZCservices \subseteq z.apZCservices
<1> DEFINE s == StopServices(z, zcUID)
           pointer == Nulled(s, s.descriptors)
           alive == s.alive \ s.apZCservices
           touched == s.bTouched \/ ~(s.apZCservices \subseteq s.alive)
<1>1. /\ Good(s) /\ s \in ZeroConf /\ s.bTouched = z.bTouched /\ s.bRunning = z.bRunning
  BY StopServicesGood DEF Good
<1>2. s.apZCservices \subseteq z.apZCservices
  <2> DEFINE D == Of(z, zcUID)
             nulled == Nulled(z, D)
             left == z.apZCservices \ Pointed(z, D)
             rest == z.alive \ Pointed(z, D)
             used == z.bTouched \/ ~(Pointed(z, D) \subseteq z.alive)
  <2>1. s = [z EXCEPT !.servicePointer = nulled, !.apZCservices = left,
                      !.alive = rest, !.bTouched = used]
    BY DEF StopServices
  <2>2. left \subseteq z.apZCservices OBVIOUS
  <2> HIDE DEF s, left, nulled, rest, used
  <2> QED BY <2>1, <2>2 DEF Good, ZeroConf
<1>3. Stop(z) = [s EXCEPT !.servicePointer = pointer, !.alive = alive,
                          !.bTouched = touched, !.bRunning = FALSE]
  BY DEF Stop
<1>4. Stop(z).bTouched = touched /\ Stop(z).apZCservices = s.apZCservices
  <2> HIDE DEF s, pointer, alive, touched
  <2> QED BY <1>1, <1>3 DEF ZeroConf
<1>5. z.bRunning \/ z.apZCservices = {} => s.apZCservices \subseteq s.alive
  BY <1>1, <1>2 DEF Good, Listed
<1>6. s.bTouched \in BOOLEAN BY <1>1 DEF ZeroConf
<1> QED BY <1>1, <1>2, <1>4, <1>5, <1>6

LEMMA DieTouches ==
  ASSUME NEW z, Good(z)
  PROVE Die(z).bTouched = Stop(z).bTouched
<1> DEFINE s == Remove(Stop(z), zcUID)
           pointer == Nulled(s, s.descriptors)
<1>1. s \in ZeroConf /\ s.bTouched = Stop(z).bTouched
  BY StopGood, RemoveGood, RemoveTouches DEF Good
<1>2. Die(z) = [s EXCEPT !.apZCservices = {}, !.descriptors = {}, !.servicePointer = pointer]
  BY DEF Die
<1> HIDE DEF s, pointer
<1> QED BY <1>1, <1>2 DEF ZeroConf

LEMMA StartTouches ==
  ASSUME NEW z, Good(z), z.started[zcUID] < MaxStarts
  PROVE Start(z).bTouched = z.bTouched
<1> DEFINE s == IF z.bRunning THEN Stop(z) ELSE z
           g == Register(s, zcUID)
           r == [g EXCEPT !.apZCservices = {}]
           p == Publish(r, r.descriptors)
<1>1. Good(s) /\ s.started = z.started /\ s.bTouched = z.bTouched
  BY StopGood, StopTouches
<1> HIDE DEF s
<1>2. Good(g) /\ g.bTouched = s.bTouched
  BY <1>1, RegisterGood, RegisterTouches, ZeroConfAssumption
<1> HIDE DEF g
<1>3. r \in ZeroConf /\ r.bTouched = g.bTouched BY <1>2 DEF Good, ZeroConf
<1>4. r.descriptors \in SUBSET Descriptor BY <1>3 DEF ZeroConf
<1> HIDE DEF r
<1>5. p \in ZeroConf /\ p.bTouched = r.bTouched
  BY <1>3, <1>4, PublishType, PublishTouches
<1> HIDE DEF p
<1>6. [p EXCEPT !.bRunning = TRUE].bTouched = p.bTouched BY <1>5 DEF ZeroConf
<1>7. Start(z) = IF z.bActive THEN [p EXCEPT !.bRunning = TRUE] ELSE z
  BY DEF Start, p, r, g, s
<1> QED BY <1>1, <1>2, <1>3, <1>5, <1>6, <1>7

\* After die() the lists are empty, and stay so.
Emptied == life = "dead" => zc.apZCservices = {} /\ zc.descriptors = {}

LEMMA DieEmpties ==
  ASSUME NEW z, Good(z)
  PROVE Die(z).apZCservices = {} /\ Die(z).descriptors = {}
<1> DEFINE s == Remove(Stop(z), zcUID)
           pointer == Nulled(s, s.descriptors)
<1>1. s \in ZeroConf BY StopGood, RemoveGood DEF Good
<1>2. Die(z) = [s EXCEPT !.apZCservices = {}, !.descriptors = {}, !.servicePointer = pointer]
  BY DEF Die
<1> HIDE DEF s, pointer
<1> QED BY <1>1, <1>2 DEF ZeroConf

\* Without descriptors there is nothing to start or to stop.
LEMMA NothingToRemove ==
  ASSUME NEW z, Good(z), z.descriptors = {}, z.apZCservices = {}, NEW m
  PROVE LET y == Remove(StopServices(z, m), m)
        IN y.descriptors = {} /\ y.apZCservices = {}
<1> DEFINE Clear(y) == y \in ZeroConf /\ y.descriptors = {} /\ y.apZCservices = {}
<1>1. ASSUME NEW y, Good(y), Clear(y) PROVE Clear(StopServices(y, m))
  <2> DEFINE D == Of(y, m)
             nulled == Nulled(y, D)
             rest == y.alive \ Pointed(y, D)
             used == y.bTouched \/ ~(Pointed(y, D) \subseteq y.alive)
  <2>1. StopServices(y, m) = [y EXCEPT !.servicePointer = nulled,
                                       !.apZCservices = y.apZCservices \ Pointed(y, D),
                                       !.alive = rest, !.bTouched = used]
    BY DEF StopServices
  <2>2. y.apZCservices \ Pointed(y, D) = {} BY <1>1
  <2>3. StopServices(y, m) \in ZeroConf /\ StopServices(y, m).descriptors = {}
    BY <1>1, StopServicesGood DEF Good
  <2> HIDE DEF D, nulled, rest, used
  <2> QED BY <1>1, <2>1, <2>2, <2>3 DEF ZeroConf
<1>2. ASSUME NEW y, Clear(y) PROVE Clear(Publish(y, {}))
  <2> DEFINE made == [d \in Descriptor |-> IF d \in {c \in {} : isActive(c)} THEN y.made[d] + 1
                                           ELSE y.made[d]]
             pointer == [d \in Descriptor |-> IF d \in {c \in {} : isActive(c)} THEN made[d]
                                              ELSE y.servicePointer[d]]
             new == {<<d, made[d]>> : d \in {c \in {} : isActive(c)}}
  <2>1. Publish(y, {}) = [y EXCEPT !.made = made, !.servicePointer = pointer,
                                   !.apZCservices = y.apZCservices \cup new,
                                   !.alive = y.alive \cup new]
    BY DEF Publish
  <2>2. new = {} OBVIOUS
  <2>3. Publish(y, {}) \in ZeroConf /\ Publish(y, {}).descriptors = {}
    BY <1>2, PublishType
  <2> HIDE DEF made, pointer, new
  <2> QED BY <1>2, <2>1, <2>2, <2>3 DEF ZeroConf
<1> DEFINE s == StopServices(z, m)
           t == StartServices(s, m)
<1>3. Good(s) /\ Clear(s) BY <1>1, StopServicesGood DEF Good
<1>4. Good(StopServices(s, m)) /\ Clear(StopServices(s, m))
  BY <1>1, <1>3, StopServicesGood
<1>5. Of(s, m) = {} BY <1>3 DEF Of
<1>6. Clear(t) BY <1>2, <1>3, <1>4, <1>5 DEF StartServices
<1> DEFINE D == Of(t, m)
           pointer == Nulled(t, D)
<1>7. Remove(s, m) = [t EXCEPT !.descriptors = t.descriptors \ D, !.servicePointer = pointer]
  BY DEF Remove
<1> HIDE DEF s, t, D, pointer
<1>8. Remove(s, m).descriptors = {} /\ Remove(s, m).apZCservices = {}
  BY <1>6, <1>7 DEF ZeroConf
<1> QED BY <1>8 DEF s

LEMMA StepEmptied == IInv /\ Emptied /\ [Next]_vars => Emptied'
<1> SUFFICES ASSUME IInv, Emptied, [Next]_vars, life' = "dead"
             PROVE zc'.apZCservices = {} /\ zc'.descriptors = {}
  BY DEF Emptied
<1> USE DEF IInv
<1>1. ASSUME NEW m \in Module, ModuleDie(m)
      PROVE zc'.apZCservices = {} /\ zc'.descriptors = {}
  BY <1>1, NothingToRemove DEF ModuleDie, Emptied
<1>2. CASE SelfDie BY <1>2, DieEmpties DEF SelfDie
<1>3. CASE UNCHANGED vars BY <1>3 DEF vars, Emptied
<1> QED
  BY <1>1, <1>2, <1>3
     DEF Next, ModuleStart, ModuleStop, SelfStart, SelfStop, Destroyed, Deactivate

LEMMA EmptiedStays == Spec => []Emptied
<1>1. Init => Emptied BY DEF Init, Emptied
<1> QED BY <1>1, StepEmptied, Inductive, PTL DEF Spec

\* Deleted services are used by stop() and die() of a module that was stopped
\* before, and by nothing else.
THEOREM SecondStopTouches == Spec => TouchedBySecondStop
<1> DEFINE A == zc'.bTouched /\ ~zc.bTouched => ~zc.bRunning /\ (SelfStop \/ SelfDie)
<1>1. ASSUME IInv, Emptied, [Next]_vars PROVE [A]_vars
  <2> SUFFICES ASSUME Next, zc'.bTouched # zc.bTouched
               PROVE ~zc.bRunning /\ (SelfStop \/ SelfDie)
    BY <1>1
  <2>g. Good(zc) BY <1>1 DEF IInv
  <2>1. ASSUME NEW m \in Module, ModuleStart(m) PROVE FALSE
    BY <2>1, <2>g, RegisterTouches DEF ModuleStart
  <2>2. ASSUME NEW m \in Module, ModuleStop(m) PROVE FALSE
    BY <2>2, <2>g, StopServicesGood DEF ModuleStop
  <2>3. ASSUME NEW m \in Module, ModuleDie(m) PROVE FALSE
    <3>1. Good(StopServices(zc, m)) /\ StopServices(zc, m).bTouched = zc.bTouched
      BY <2>g, StopServicesGood
    <3> QED BY <2>3, <3>1, RemoveTouches DEF ModuleDie
  <2>4. CASE SelfStart BY <2>4, <2>g, StartTouches DEF SelfStart
  <2>5. CASE SelfStop BY <2>5, <2>g, StopTouches DEF SelfStop
  <2>6. CASE SelfDie BY <2>6, <2>g, StopTouches, DieTouches DEF SelfDie
  <2>7. CASE Destroyed
    <3> DEFINE d == Die(zc)
    <3>1. d \in ZeroConf /\ d.bTouched = zc.bTouched
      BY <1>1, <2>7, <2>g, DieGood, DieTouches, StopTouches DEF Good, Destroyed, Emptied
    <3>2. zc' = [d EXCEPT !.alive = {}] BY <2>7 DEF Destroyed
    <3> HIDE DEF d
    <3>3. zc'.bTouched = d.bTouched BY <3>1, <3>2 DEF ZeroConf
    <3> QED BY <3>1, <3>3
  <2>8. CASE Deactivate BY <2>8, <2>g DEF Deactivate, Good, ZeroConf
  <2> QED BY <2>1, <2>2, <2>3, <2>4, <2>5, <2>6, <2>7, <2>8 DEF Next
<1>2. IInv /\ Emptied /\ [Next]_vars => [A]_vars BY <1>1
<1> QED BY <1>2, Inductive, EmptiedStays, PTL DEF Spec, TouchedBySecondStop

\* Neither a descriptor's pointer nor a running module's list leads to a deleted
\* service; the list of a stopped one may, and a second stop() follows it there.
THEOREM PointersStaySound == Spec => PointersSound
BY TypeCorrect, PointersNeverDangle, RunningListIsLive, SecondStopTouches, PTL
   DEF PointersSound
===============================================================================
