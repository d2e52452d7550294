--------------------------- MODULE ModuleZeroConfig ---------------------------
(***************************************************************************)
(* ModuleZeroConfig: the list of service descriptors that modules register,*)
(* and the QZeroConf objects that publish them.  Modules reach it by the   *)
(* signals of ModuleBase::start, stop and die; its own start, stop and die *)
(* emit the same signals to itself.                                        *)
(*                                                                         *)
(* Each slot is an operator on z, the state of the object, because the     *)
(* slots call one another; an action is what a module's call amounts to.   *)
(***************************************************************************)
EXTENDS Naturals

CONSTANTS Module,      \* UIDs
          zcUID,       \* the UID of the ZeroConf module itself
          Entry,       \* the well-formed entries "zeroConf" of all modules
          ownerOf,     \* [Entry -> Module]
          Publishes,   \* the entries to publish: isActive() of the descriptor
          MaxStarts,   \* bound: starts of one module
          MaxPublish   \* bound: publications of one descriptor

ASSUME ZeroConfAssumption ==
  /\ zcUID \in Module
  /\ ownerOf \in [Entry -> Module]
  /\ Publishes \subseteq Entry
  /\ MaxStarts \in Nat /\ MaxPublish \in Nat

\* start() makes a descriptor of each entry anew; publish() makes a QZeroConf
\* of a descriptor anew.  The numbers tell those objects apart.
Descriptor == Entry \X (1 .. MaxStarts)
Service == Descriptor \X (Nat \ {0})
moduleUID(d) == ownerOf[d[1]]
isActive(d) == d[1] \in Publishes

VARIABLES zc,   \* the object, see ZeroConf
          up,   \* auxiliary: modules last started, not stopped
          life  \* of the object: "there", "dead" after die(), "gone" when deleted

vars == <<zc, up, life>>

\* apZCdescriptors is the domain of servicePointer, where 0 is the null pointer.
ZeroConf ==
  [bActive       : BOOLEAN,                  \* of its configuration
   bRunning      : BOOLEAN,
   started       : [Module -> Nat],          \* starts of each module
   descriptors   : SUBSET Descriptor,        \* apZCdescriptors
   servicePointer: [Descriptor -> Nat],      \* 0: the null pointer
   made          : [Descriptor -> Nat],      \* its publications so far
   apZCservices  : SUBSET Service,
   alive         : SUBSET Service,           \* the QZeroConf objects there are
   bTouched      : BOOLEAN]                  \* a deleted one was used

Of(z, uid) == {d \in z.descriptors : moduleUID(d) = uid}
Pointed(z, D) == {<<d, z.servicePointer[d]>> : d \in {d \in D : z.servicePointer[d] # 0}}
Nulled(z, D) == [d \in Descriptor |-> IF d \in D THEN 0 ELSE z.servicePointer[d]]

-------------------------------------------------------------------------------
(* The slots. *)

\* Mutant: the service not created, the null pointer put on the list.
PublishNull(z, D) ==
  LET P == {d \in D : isActive(d)}
  IN [z EXCEPT !.servicePointer = [d \in Descriptor |-> IF d \in P THEN 0
                                                        ELSE z.servicePointer[d]],
               !.apZCservices = z.apZCservices \cup {<<d, 0>> : d \in P}]

\* publish(), of several descriptors.
Publish(z, D) ==
  LET P == {d \in D : isActive(d)}
      made == [d \in Descriptor |-> IF d \in P THEN z.made[d] + 1 ELSE z.made[d]]
      new == {<<d, made[d]>> : d \in P}
  IN [z EXCEPT !.made = made,
               !.servicePointer = [d \in Descriptor |-> IF d \in P THEN made[d]
                                                        ELSE z.servicePointer[d]],
               !.apZCservices = z.apZCservices \cup new,
               !.alive = z.alive \cup new]

\* onAddServiceDescriptor, for the descriptors D.
Add(z, D) ==
  LET added == [z EXCEPT !.descriptors = z.descriptors \cup D]
  IN IF z.bRunning THEN Publish(added, D) ELSE added

\* Mutants: every module's services stopped; the pointer kept.
StopServicesOfAll(z, uid) ==
  LET D == z.descriptors
  IN [z EXCEPT !.servicePointer = Nulled(z, D),
               !.apZCservices = z.apZCservices \ Pointed(z, D),
               !.alive = z.alive \ Pointed(z, D),
               !.bTouched = z.bTouched \/ ~(Pointed(z, D) \subseteq z.alive)]

StopServicesKeepsPointer(z, uid) ==
  LET D == Of(z, uid)
  IN [z EXCEPT !.apZCservices = z.apZCservices \ Pointed(z, D),
               !.alive = z.alive \ Pointed(z, D),
               !.bTouched = z.bTouched \/ ~(Pointed(z, D) \subseteq z.alive)]

\* onStopZeroConfServices.
StopServices(z, uid) ==
  LET D == Of(z, uid)
  IN [z EXCEPT !.servicePointer = Nulled(z, D),
               !.apZCservices = z.apZCservices \ Pointed(z, D),
               !.alive = z.alive \ Pointed(z, D),
               !.bTouched = z.bTouched \/ ~(Pointed(z, D) \subseteq z.alive)]

\* onStartZeroConfServices.
StartServices(z, uid) ==
  IF z.bActive THEN Publish(StopServices(z, uid), Of(z, uid)) ELSE z

\* onRemoveServiceDescriptors, which starts the services it is to remove; the
\* QZeroConf objects stay when the descriptors go.
Remove(z, uid) ==
  LET s == StartServices(z, uid)
  IN [s EXCEPT !.descriptors = s.descriptors \ Of(s, uid),
               !.servicePointer = Nulled(s, Of(s, uid))]

\* ModuleBase::start, of the module uid.
Register(z, uid) ==
  LET n == z.started[uid] + 1
      D == {<<e, n>> : e \in {e \in Entry : ownerOf[e] = uid}}
  IN StartServices(Add([z EXCEPT !.started[uid] = n], D), uid)

-------------------------------------------------------------------------------
(* The module's own start, stop and die. *)

\* stop() deletes what is on the list and leaves the list as it is.
Stop(z) ==
  LET s == StopServices(z, zcUID)
  IN [s EXCEPT !.servicePointer = Nulled(s, s.descriptors),
               !.alive = s.alive \ s.apZCservices,
               !.bTouched = s.bTouched \/ ~(s.apZCservices \subseteq s.alive),
               !.bRunning = FALSE]

\* Mutants: no publication; the list of services not cleared.
StartWithoutPublish(z) ==
  LET s == IF z.bRunning THEN Stop(z) ELSE z
      r == [Register(s, zcUID) EXCEPT !.apZCservices = {}]
  IN IF z.bActive THEN [r EXCEPT !.bRunning = TRUE] ELSE z

StartWithoutClear(z) ==
  LET s == IF z.bRunning THEN Stop(z) ELSE z
      r == Register(s, zcUID)
  IN IF z.bActive THEN [Publish(r, r.descriptors) EXCEPT !.bRunning = TRUE] ELSE z

\* start() forgets the services published before it, and publishes all.
Start(z) ==
  LET s == IF z.bRunning THEN Stop(z) ELSE z
      r == [Register(s, zcUID) EXCEPT !.apZCservices = {}]
  IN IF z.bActive THEN [Publish(r, r.descriptors) EXCEPT !.bRunning = TRUE] ELSE z

Die(z) ==
  LET s == Remove(Stop(z), zcUID)
  IN [s EXCEPT !.apZCservices = {}, !.descriptors = {},
               !.servicePointer = Nulled(s, s.descriptors)]

-------------------------------------------------------------------------------
Init ==
  /\ \E b \in BOOLEAN :
       zc = [bActive |-> b, bRunning |-> FALSE, started |-> [m \in Module |-> 0],
             descriptors |-> {}, servicePointer |-> [d \in Descriptor |-> 0],
             made |-> [d \in Descriptor |-> 0],
             apZCservices |-> {}, alive |-> {}, bTouched |-> FALSE]
  /\ up = {}
  /\ life = "there"

\* The bound on publications.
Bounded == \A d \in Descriptor : zc'.made[d] <= MaxPublish

Others == Module \ {zcUID}

ModuleStart(m) ==
  /\ m \in Others /\ life = "there"
  /\ zc.started[m] < MaxStarts
  /\ zc' = Register(zc, m)
  /\ Bounded
  /\ up' = up \cup {m}
  /\ UNCHANGED life

ModuleStop(m) ==
  /\ m \in Others /\ life = "there"
  /\ zc' = StopServices(zc, m)
  /\ up' = up \ {m}
  /\ UNCHANGED life

\* stop(), then unregisterZeroConfServices().
ModuleDie(m) ==
  /\ m \in Others /\ life # "gone"
  /\ zc' = Remove(StopServices(zc, m), m)
  /\ Bounded
  /\ up' = up \ {m}
  /\ UNCHANGED life

SelfStart ==
  /\ life = "there"
  /\ zc.started[zcUID] < MaxStarts
  /\ zc' = Start(zc)
  /\ Bounded
  /\ up' = IF zc.bActive THEN up \cup {zcUID} ELSE up
  /\ UNCHANGED life

SelfStop ==
  /\ life = "there"
  /\ zc' = Stop(zc)
  /\ up' = up \ {zcUID}
  /\ UNCHANGED life

SelfDie ==
  /\ life = "there"
  /\ zc' = Die(zc)
  /\ Bounded
  /\ up' = up \ {zcUID}
  /\ life' = "dead"

\* The destructor calls die() again; QObject's then deletes the children, the
\* services that were forgotten among them.
Destroyed ==
  /\ life = "dead"
  /\ zc' = [Die(zc) EXCEPT !.alive = {}]
  /\ Bounded
  /\ UNCHANGED up
  /\ life' = "gone"

\* The configuration is made inactive, by the bus command "setActive".
Deactivate ==
  /\ life = "there" /\ zc.bActive
  /\ zc' = [zc EXCEPT !.bActive = FALSE]
  /\ UNCHANGED <<up, life>>

Next == \/ \E m \in Module : ModuleStart(m) \/ ModuleStop(m) \/ ModuleDie(m)
        \/ SelfStart \/ SelfStop \/ SelfDie \/ Destroyed
        \/ Deactivate

Spec == Init /\ [][Next]_vars

-------------------------------------------------------------------------------
(* Properties. *)

TypeOK == /\ zc \in ZeroConf
          /\ up \subseteq Module
          /\ life \in {"there", "dead", "gone"}

\* A descriptor's service pointer never dangles, and what it points to is on the
\* list: onStopZeroConfServices (ModuleZeroConfig.cpp:229) deletes through it.
PointersLive ==
  \A d \in zc.descriptors :
    zc.servicePointer[d] # 0 =>
      <<d, zc.servicePointer[d]>> \in zc.apZCservices \cap zc.alive

\* While the module runs, its list holds existing services only; after stop()
\* it does not, because stop() deletes what is on the list and keeps the list.
RunningListLive == zc.bRunning => zc.apZCservices \subseteq zc.alive

\* While the module runs, each entry of a started module that is to be published
\* is, however modules and the ZeroConf module itself were restarted.
Served ==
  zc.bRunning =>
    \A e \in Publishes : ownerOf[e] \in up =>
      \E d \in zc.descriptors : d[1] = e /\ zc.servicePointer[d] # 0

\* A module's start, stop or end leaves the services of the others as they are.
OthersUntouched ==
  [][\A m \in Module :
       ModuleStart(m) \/ ModuleStop(m) \/ ModuleDie(m) =>
         /\ {s \in zc.alive : moduleUID(s[1]) # m} = {s \in zc'.alive : moduleUID(s[1]) # m}
         /\ \A d \in zc.descriptors :
              moduleUID(d) # m => zc'.servicePointer[d] = zc.servicePointer[d]]_vars

\* The comment at ModuleZeroConfig.cpp:202, of the call of
\* onStopZeroConfServices, says "make sure there are none running anymore":
\* after a module's stop none of its services is published.
StopSilences ==
  [][\A m \in Module : ModuleStop(m) => \A s \in zc'.alive : moduleUID(s[1]) # m]_vars

\* The comment at ModuleZeroConfig.cpp:81 says of what precedes the removal of
\* a module's descriptors "make sure we clean up properly": no service of a
\* module outlives the descriptors it was made of.
DieCleansUp ==
  [][\A m \in Module : ModuleDie(m) => \A s \in zc'.alive : moduleUID(s[1]) # m]_vars

\* stop() leaves deleted services on its list (ModuleZeroConfig.cpp:175), and a
\* second one uses them: quit() makes two, stop() and then die().  Nothing else
\* does: no start, no other module's call, and no destructor's second die().
TouchedBySecondStop ==
  [][zc'.bTouched /\ ~zc.bTouched => ~zc.bRunning /\ (SelfStop \/ SelfDie)]_vars

\* What descriptors point to exists and is listed, and a running module's list
\* holds nothing deleted, in whatever order modules start and stop; and nothing
\* but a second stop() uses what was deleted.
PointersSound == [](TypeOK /\ PointersLive /\ RunningListLive) /\ TouchedBySecondStop
===============================================================================
