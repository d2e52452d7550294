---------------------------- MODULE BonjourBrowser ----------------------------
(***************************************************************************)
(* QZeroConf on top of the Bonjour daemon (bonjour.cpp): three references  *)
(* to operations of the daemon - the published service, the browser, and   *)
(* one that resolves the services found, one after the other - and the     *)
(* notifiers that watch their sockets.                                     *)
(*                                                                         *)
(* A reference is the address of its operation.  What DaemonClient shows   *)
(* of an operation is taken for granted here: it answers as long as its    *)
(* reference is allocated, and its memory may be handed out again when it  *)
(* is freed, also while something still remembers its address.  An         *)
(* operation that nothing refers to any more stays with the daemon until   *)
(* the program ends; the model forgets it.                                 *)
(*                                                                         *)
(* Not modelled: texts, host and port, which protocol an address is of,    *)
(* the blocking read when the first query of a service is heard of again   *)
(* while its addresses are asked for.                                      *)
(***************************************************************************)
EXTENDS Naturals, Sequences, FiniteSets

CONSTANTS Ref,          \* addresses of operations: 1 .. n
          Service,      \* names on an interface
          MaxWork       \* bound: services waiting to be resolved

NULL == 0
ASSUME BonjourAssumption == Ref \subseteq Nat \ {NULL}

VARIABLES pri,          \* QZeroConfPrivate
          open,         \* the operations that are allocated
          services,     \* pub->services
          refused,      \* history: the calls for the resolver that failed
          mistaken      \* history: the browser or the published service was given
                        \* the address that pri.resolver remembers
bonjourVars == <<pri, open, services, refused, mistaken>>

QZeroConfPrivate ==
  [dnssRef : Ref \cup {NULL}, browser : Ref \cup {NULL}, resolver : Ref \cup {NULL},
   bs : Ref \cup {NULL}, browserSocket : Ref \cup {NULL}, resolverSocket : Ref \cup {NULL},
   addressSocket : Ref \cup {NULL}, work : Seq(Service),
   asks : {"resolve", "address"}]       \* what the resolver was made for

Held(p) == {p.dnssRef, p.browser, p.resolver, p.bs, p.browserSocket, p.resolverSocket, p.addressSocket}
\* malloc: memory nobody ever knew, or that of an operation that was freed.
Allocated(p, o) ==
  LET new == Ref \ (o \cup Held(p))
  IN {r \in new : \A x \in new : r <= x} \cup ((Held(p) \ o) \ {NULL})

(***************************************************************************)
(* resolve and cleanUp: the possible outcomes for pri, open, services and  *)
(* refused                                                                 *)
(***************************************************************************)
State(p, o, s, f) == [pri |-> p, open |-> o, services |-> s, refused |-> f]
\* The call fails: its reference is NULL, and cleanUp(NULL) does nothing.
Resolve(x) ==
  {State([x.pri EXCEPT !.resolver = r, !.resolverSocket = r, !.asks = "resolve"],
         x.open \cup {r}, x.services, x.refused) : r \in Allocated(x.pri, x.open)}
  \cup {State([x.pri EXCEPT !.resolver = NULL], x.open, x.services, x.refused \cup {"resolve"})}

Unless(b, X, Y) == IF b THEN X ELSE Y
\* (WatchedStill: mutant that keeps the notifier of the address.)
WatchedStill(p) == [p EXCEPT !.resolverSocket = NULL]
Unwatched(p) == [p EXCEPT !.resolverSocket = NULL, !.addressSocket = NULL]
Dequeued(w) == IF w = <<>> THEN w ELSE Tail(w)
\* (ClearedHalf: mutant that keeps the reference of the service.)
ClearedHalf(p, r) ==
  IF r = p.browser THEN [p EXCEPT !.browser = NULL, !.browserSocket = NULL]
  ELSE IF r = p.dnssRef THEN [p EXCEPT !.bs = NULL] ELSE p
Cleared(p, r) ==
  IF r = p.browser THEN [p EXCEPT !.browser = NULL, !.browserSocket = NULL]
  ELSE IF r = p.dnssRef THEN [p EXCEPT !.dnssRef = NULL, !.bs = NULL] ELSE p
Deallocated(x, r) == State(x.pri, x.open \ {r}, x.services, x.refused)
\* The next service in the queue.  (Waits: mutant that leaves it there.)
Waits(y) == {y}
Continued(y) == Unless(y.pri.work = <<>>, {y}, Resolve(y))
CleanUp(x, toClean) ==
  IF toClean = NULL THEN {x}
  ELSE {Deallocated(y, toClean) : y \in
    IF toClean = x.pri.resolver
    THEN Continued(State([Unwatched(x.pri) EXCEPT !.work = Dequeued(@)], x.open, x.services, x.refused))
    ELSE {State(Cleared(x.pri, toClean), x.open, IF toClean = x.pri.browser THEN {} ELSE x.services, x.refused)}}

Now == State(pri, open, services, refused)
\* Operations nothing refers to are forgotten.
Becomes(X) ==
  \E x \in X : /\ pri' = x.pri /\ services' = x.services /\ refused' = x.refused
               /\ open' = x.open \cap Held(x.pri)
\* A new operation that the resolver has nothing to do with.
Made(r, p) ==
  /\ Becomes({State(p, open \cup {r}, services, refused)})
  /\ mistaken' = (mistaken \/ r = pri.resolver)

(***************************************************************************)
(* The published service                                                   *)
(***************************************************************************)
StartServicePublish ==
  /\ pri.dnssRef = NULL
  /\ \E r \in Allocated(pri, open) : Made(r, [pri EXCEPT !.dnssRef = r, !.bs = r])
\* Stopped, refused by the daemon (registerCallback) or cut off (bsRead).
StopServicePublish ==
  pri.dnssRef # NULL /\ Becomes(CleanUp(Now, pri.dnssRef)) /\ UNCHANGED mistaken
RegisterFails ==
  /\ pri.dnssRef \in open /\ pri.bs = pri.dnssRef
  /\ Becomes(CleanUp(Now, pri.dnssRef)) /\ UNCHANGED mistaken

(***************************************************************************)
(* The browser                                                             *)
(***************************************************************************)
StartBrowser ==
  /\ pri.browser = NULL
  /\ \E r \in Allocated(pri, open) : Made(r, [pri EXCEPT !.browser = r, !.browserSocket = r])
StopBrowser ==
  pri.browser # NULL /\ Becomes(CleanUp(Now, pri.browser)) /\ UNCHANGED mistaken
Browsing == pri.browser \in open /\ pri.browserSocket = pri.browser
BrowseFails == Browsing /\ Becomes(CleanUp(Now, pri.browser)) /\ UNCHANGED mistaken
\* browseCallback, kDNSServiceFlagsAdd.
Enqueued(x, s) ==
  LET y == State([x.pri EXCEPT !.work = Append(@, s)], x.open, x.services, x.refused)
  IN Unless(x.pri.work = <<>>, Resolve(y), {y})
ServiceAppears(s) ==
  /\ Browsing /\ s \notin services /\ Len(pri.work) < MaxWork
  /\ Becomes(Enqueued(Now, s)) /\ UNCHANGED mistaken
ServiceVanishes(s) ==
  /\ Browsing /\ s \in services
  /\ Becomes({State(pri, open, services \ {s}, refused)}) /\ UNCHANGED mistaken

(***************************************************************************)
(* The resolver                                                            *)
(***************************************************************************)
Resolving(what) == pri.resolver \in open /\ pri.asks = what
\* resolverCallback: the reference is overwritten, its operation lost.
ResolverCallback ==
  /\ Resolving("resolve") /\ pri.resolverSocket = pri.resolver
  /\ Becomes({State([pri EXCEPT !.resolver = r, !.addressSocket = r, !.asks = "address"],
                    open \cup {r}, services, refused) : r \in Allocated(pri, open)}
             \cup {State([pri EXCEPT !.resolver = NULL], open, services, refused \cup {"address"})})
  /\ UNCHANGED mistaken
\* addressReply: the last one makes room for the next service.
AddressReply(add, more) ==
  /\ Resolving("address") /\ pri.addressSocket = pri.resolver
  /\ LET x == State(pri, open, IF add THEN services \cup {Head(pri.work)} ELSE services, refused)
     IN Becomes(Unless(more, {x}, CleanUp(x, pri.resolver)))
  /\ UNCHANGED mistaken
\* An error for either, or the connection is lost (resolverRead).
ResolverFails ==
  /\ pri.resolver \in open /\ {pri.resolverSocket, pri.addressSocket} # {NULL}
  /\ Becomes(CleanUp(Now, pri.resolver)) /\ UNCHANGED mistaken

BonjourInit ==
  /\ pri = [dnssRef |-> NULL, browser |-> NULL, resolver |-> NULL, bs |-> NULL, browserSocket |-> NULL,
            resolverSocket |-> NULL, addressSocket |-> NULL, work |-> <<>>, asks |-> "resolve"]
  /\ open = {} /\ services = {} /\ refused = {} /\ mistaken = FALSE

BonjourNext ==
  \/ StartServicePublish \/ StopServicePublish \/ RegisterFails
  \/ StartBrowser \/ StopBrowser \/ BrowseFails
  \/ \E s \in Service : ServiceAppears(s) \/ ServiceVanishes(s)
  \/ ResolverCallback \/ ResolverFails
  \/ \E add, more \in BOOLEAN : AddressReply(add, more)
BonjourSpec == BonjourInit /\ [][BonjourNext]_bonjourVars

(***************************************************************************)
(* Properties                                                              *)
(***************************************************************************)
\* Types; the references to the browser and the service are good or NULL.
BonjourTypeOK ==
  /\ pri \in QZeroConfPrivate /\ open \subseteq Ref /\ services \subseteq Service
  /\ refused \subseteq {"resolve", "address"} /\ mistaken \in BOOLEAN
  /\ {pri.dnssRef, pri.browser} \subseteq open \cup {NULL}

\* "If the reference's underlying socket is used in a run loop or select() call,
\* it should be removed BEFORE DNSServiceRefDeallocate() is called"
\* (dns_sd.h:755): no notifier watches the socket of a released operation.
NotifierWatchesOpen ==
  {pri.bs, pri.browserSocket, pri.resolverSocket, pri.addressSocket} \subseteq open \cup {NULL}

\* The first service in the queue is the one being resolved; and no answer of the
\* resolver finds the queue empty, for it is written into its first service
\* (resolve, cleanUp, addressReply).  Once the daemon refuses a call that is made
\* for a service, and only then, the queue stands still: cleanUp(NULL) returns at
\* once, and nothing but the end of the program gets the queue going again.
HeadIsResolved ==
  /\ refused # {} <=> pri.work # <<>> /\ pri.resolver = NULL
  /\ pri.work # <<>> /\ refused = {} => pri.resolver \in open
  /\ pri.resolver \in open => pri.work # <<>>

\* As long as neither the browser nor the published service was given the address
\* that the resolver's reference keeps of a released operation, the references that
\* QZeroConf keeps are of operations that are open, and the queue of services goes
\* on unless a call was refused.
BrowserSound == mistaken \/ (BonjourTypeOK /\ NotifierWatchesOpen /\ HeadIsResolved)

\* "The only way around this is to call stopServicePublish() and stopBrowser() ...
\* and then call startPublish() and startBrowser()" (README.md:122 of QtZeroConf):
\* once the browser was started again, services that wait are resolved.
RestartResolves ==
  [][StartBrowser => (pri.work # <<>> => pri.resolver \in open)']_bonjourVars
=============================================================================
