---------------------------- MODULE ServiceClient ----------------------------
(***************************************************************************)
(* One service as a client of the Avahi back ends sees it: the service     *)
(* browser (browse-service.c), the resolver QZeroConf keeps for the name   *)
(* and the interface (resolve-service.c), QZeroConf itself (avahicore.cpp, *)
(* and avahiclient.cpp alike) and ZeroConfBrowser (ZeroConfHelpers.cpp).   *)
(*                                                                         *)
(* The PTR of the service, its SRV, its TXT and the address of its host    *)
(* come and go one by one, on either protocol, and each is told by a       *)
(* record browser of its own.  A record browser is what RecordLookup shows *)
(* of it: it is told, sooner or later, of what is cached and of what no    *)
(* longer is, and it is told again of everything when it is restarted.     *)
(*                                                                         *)
(* Not modelled: several services (they share nothing but the browser),    *)
(* A and AAAA apart (one address record stands for both), port and texts.  *)
(***************************************************************************)
EXTENDS Naturals, FiniteSets

CONSTANTS Proto,        \* AVAHI_PROTO_INET, AVAHI_PROTO_INET6
          Host,         \* host names the SRV may point to
          Carried,      \* the records that may be cached, by protocol
          Failures,     \* whether record browsers may fail
          None

Srv(h) == <<"SRV", h>>
Addr(h) == <<"A", h>>
Ptr == <<"PTR", None>>
Txt == <<"TXT", None>>
Srvs == {Srv(h) : h \in Host}
Addrs == {Addr(h) : h \in Host}

ASSUME ClientAssumption ==
  /\ None \notin Host /\ Failures \in BOOLEAN
  /\ Carried \in [Proto -> SUBSET (Srvs \cup Addrs \cup {Ptr, Txt})]

VARIABLES cached,       \* the records the server's cache holds, by protocol
          browser,      \* QZeroConf has a service browser
          ptrs,         \* the protocols it was told of
          resolver,     \* the resolver kept for the name and the interface
          services,     \* the service is in pub->services
          reported      \* the protocols an address was reported of
clientVars == <<cached, browser, ptrs, resolver, services, reported>>

Resolver == [protocol : Proto, told : SUBSET (Srvs \cup Addrs \cup {Txt}), dead : BOOLEAN,
             srv : Host \cup {None}, txt : BOOLEAN, address : Host \cup {None},
             asks : Host \cup {None},   \* whose address is browsed for
             kept : BOOLEAN,            \* the address outlived its SRV (history)
             timer : BOOLEAN]
\* NULL is no resolver.
ASSUME ResolverAssumption == None \notin Resolver

(***************************************************************************)
(* QZeroConf                                                               *)
(***************************************************************************)
\* resolveCallback, for what a resolver found: added the first time.
Found(p) == services' = TRUE /\ reported' = reported \cup {p}
Lost == services' = FALSE /\ reported' = {}
Quiet == UNCHANGED <<services, reported>>
\* broswerCleanUp: the services are reported removed, the resolvers freed.
CleanUp == browser' = FALSE /\ ptrs' = {} /\ resolver' = None /\ Lost

(***************************************************************************)
(* The resolver                                                            *)
(***************************************************************************)
NewResolver(p) ==
  [protocol |-> p, told |-> {}, dead |-> FALSE, srv |-> None, txt |-> FALSE,
   address |-> None, asks |-> None, kept |-> FALSE, timer |-> TRUE]
Complete(r) == r.srv # None /\ r.txt /\ r.address # None
\* What its record browsers have to tell.
Visible(r) == IF r.dead THEN {}
              ELSE {x \in cached[r.protocol] : x \in Srvs \cup {Txt} \/ (x \in Addrs /\ x = Addr(r.asks))}

\* AVAHI_BROWSER_NEW keeps the first record of each kind; the SRV starts the
\* browsers for the address of its host.
\* (TakesRecord: mutant that asks for the address of the record's own name.)
TakesRecord(r, x) ==
  IF x \in Srvs /\ r.srv = None THEN [r EXCEPT !.srv = x[2], !.asks = x, !.told = @ \ Addrs]
  ELSE IF x = Txt THEN [r EXCEPT !.txt = TRUE] ELSE r
Takes(r, x) ==
  CASE x \in Srvs -> IF r.srv # None THEN r
                     ELSE [r EXCEPT !.srv = x[2], !.asks = x[2], !.told = @ \ Addrs]
    [] x = Txt -> [r EXCEPT !.txt = TRUE]
    [] x \in Addrs -> IF r.address # None THEN r ELSE [r EXCEPT !.address = x[2]]
Changed(r, x) == (x \in Srvs /\ r.srv = None) \/ (x = Txt /\ ~r.txt) \/ (x \in Addrs /\ r.address = None)
ResolverNew(x) ==
  /\ resolver # None /\ x \in Visible(resolver) \ resolver.told
  /\ LET r == [Takes(resolver, x) EXCEPT !.told = @ \cup {x}]
     IN IF Changed(resolver, x) /\ Complete(r)
        THEN resolver' = [r EXCEPT !.timer = FALSE] /\ Found(r.protocol)
        ELSE resolver' = r /\ Quiet
  /\ UNCHANGED <<cached, browser, ptrs>>

\* AVAHI_BROWSER_REMOVE of a record that is held: its browser is restarted to
\* look for a replacement, and the time to find one begins.  With the SRV the
\* browsers of the address are freed, but the address stays: the next SRV is
\* listed with it, whatever host it names.
\* (DropsOnly: mutant that starts no timer.)
DropsOnly(r, x) ==
  CASE x \in Srvs -> [r EXCEPT !.srv = None, !.asks = None, !.told = @ \ (Srvs \cup Addrs),
                               !.kept = (r.address # None)]
    [] x = Txt -> [r EXCEPT !.txt = FALSE, !.told = @ \ {Txt}]
    [] x \in Addrs -> [r EXCEPT !.address = None, !.kept = FALSE, !.told = @ \ Addrs]
\* (DropsStale: mutant that does not restart the browser of the SRV.)
DropsStale(r, x) ==
  IF x \in Srvs THEN [r EXCEPT !.srv = None, !.asks = None, !.told = @ \ (Addrs \cup {x}),
                                !.kept = (r.address # None), !.timer = TRUE]
  ELSE [DropsOnly(r, x) EXCEPT !.timer = TRUE]
Drops(r, x) == [DropsOnly(r, x) EXCEPT !.timer = TRUE]
Holds(r, x) == (x \in Srvs /\ r.srv = x[2]) \/ (x = Txt /\ r.txt) \/ (x \in Addrs /\ r.address = x[2])
\* (ForgetsNothing: mutant that keeps the record.)
ForgetsNothing(r, x) == [r EXCEPT !.told = @ \ {x}]
Forgets(r, x) == IF Holds(r, x) THEN Drops(r, x) ELSE [r EXCEPT !.told = @ \ {x}]
ResolverRemove(x) ==
  /\ resolver # None /\ x \in resolver.told \ cached[resolver.protocol]
  /\ resolver' = Forgets(resolver, x)
  /\ Quiet /\ UNCHANGED <<cached, browser, ptrs>>

\* No replacement within five seconds, or a record browser failed and all of
\* them are freed: the service is removed, the resolver stays.
ResolverTimeout ==
  /\ resolver # None /\ resolver.timer
  /\ resolver' = [resolver EXCEPT !.timer = FALSE]
  /\ Lost /\ UNCHANGED <<cached, browser, ptrs>>
ResolverFails ==
  /\ Failures /\ resolver # None /\ ~resolver.dead
  /\ resolver' = [resolver EXCEPT !.dead = TRUE, !.told = {}, !.asks = None, !.timer = FALSE]
  /\ Lost /\ UNCHANGED <<cached, browser, ptrs>>

(***************************************************************************)
(* The service browser                                                     *)
(***************************************************************************)
\* The key of a service is its name and interface: a second protocol finds the
\* resolver of the first.
BrowserNew(p) ==
  /\ browser /\ Ptr \in cached[p] /\ p \notin ptrs
  /\ ptrs' = ptrs \cup {p}
  /\ resolver' = IF resolver = None THEN NewResolver(p) ELSE resolver
  /\ Quiet /\ UNCHANGED <<cached, browser>>
\* (RemoveKeepsService: mutant that frees the resolver only.)
RemoveKeepsService(p) ==
  /\ browser /\ p \in ptrs /\ Ptr \notin cached[p]
  /\ ptrs' = ptrs \ {p} /\ resolver' = None
  /\ Quiet /\ UNCHANGED <<cached, browser>>
BrowserRemove(p) ==
  /\ browser /\ p \in ptrs /\ Ptr \notin cached[p]
  /\ ptrs' = ptrs \ {p}
  /\ IF resolver = None THEN resolver' = None /\ Quiet ELSE resolver' = None /\ Lost
  /\ UNCHANGED <<cached, browser>>
BrowserFails == Failures /\ browser /\ CleanUp /\ UNCHANGED cached

\* ZeroConfBrowser: starting makes a QZeroConf anew, whatever was there.
Start == browser' = TRUE /\ ptrs' = {} /\ resolver' = None /\ Lost /\ UNCHANGED cached
Stop == browser /\ CleanUp /\ UNCHANGED cached

\* What the network does to the cache.
Appears(p, x) ==
  /\ x \in Carried[p] \ cached[p]
  /\ cached' = [cached EXCEPT ![p] = @ \cup {x}]
  /\ UNCHANGED <<browser, ptrs, resolver, services, reported>>
Vanishes(p, x) ==
  /\ x \in cached[p]
  /\ cached' = [cached EXCEPT ![p] = @ \ {x}]
  /\ UNCHANGED <<browser, ptrs, resolver, services, reported>>

ClientInit ==
  /\ cached = [p \in Proto |-> {}] /\ browser = FALSE /\ ptrs = {}
  /\ resolver = None /\ services = FALSE /\ reported = {}

Tell == \/ \E p \in Proto : BrowserNew(p) \/ BrowserRemove(p)
        \/ \E x \in Srvs \cup Addrs \cup {Txt} : ResolverNew(x) \/ ResolverRemove(x)
ClientNext ==
  \/ Tell \/ ResolverTimeout \/ ResolverFails
  \/ Start \/ Stop \/ BrowserFails
  \/ \E p \in Proto : \E x \in Carried[p] : Appears(p, x) \/ Vanishes(p, x)

\* Record browsers tell in the end what the cache holds.
ClientSpec == ClientInit /\ [][ClientNext]_clientVars /\ WF_clientVars(Tell)

(***************************************************************************)
(* Properties                                                              *)
(***************************************************************************)
ClientTypeOK ==
  /\ cached \in [Proto -> SUBSET (Srvs \cup Addrs \cup {Ptr, Txt})]
  /\ browser \in BOOLEAN /\ ptrs \subseteq Proto /\ services \in BOOLEAN /\ reported \subseteq Proto
  /\ resolver = None \/ resolver \in Resolver

\* A service in the list has a resolver that can take it out again, and no
\* resolver outlives the browser it was made for (broswerCleanUp, browseCallback).
ListedHasResolver ==
  /\ services => resolver # None
  /\ resolver # None => browser

\* A service in the list has an SRV, a TXT and an address, or the time to find a
\* replacement is running.  What a resolver found completely is listed (finish,
\* start_timeout).
ListedIsFound ==
  resolver # None /\ ~resolver.dead =>
    /\ services => Complete(resolver) \/ resolver.timer
    /\ Complete(resolver) => services

\* What a resolver found it was told of and not yet told to forget, so that the
\* removal will reach it (the restarts in record_browser_callback), and the
\* address is that of the host the SRV names.  The one exception is an address
\* that outlived its SRV (kept): its browser is freed, no removal of it comes,
\* and the service is listed with it though it may be gone or another host's.
HeldIsTold ==
  resolver # None /\ ~resolver.dead =>
    /\ resolver.srv # None => Srv(resolver.srv) \in resolver.told
    /\ resolver.txt => Txt \in resolver.told
    /\ resolver.address # None /\ ~resolver.kept =>
         resolver.address = resolver.srv /\ Addr(resolver.address) \in resolver.told

\* A service whose records are all there to stay, on every protocol it is
\* carried by, is in the list in the end, whatever came and went before.
Settled(p) == /\ {Ptr, Txt} \subseteq cached[p]
              /\ \E h \in Host : Srv(h) \in cached[p] /\ Addr(h) \in cached[p]
                                 /\ \A g \in Host \ {h} : Srv(g) \notin cached[p]
Whole == browser /\ (resolver # None => ~resolver.dead) /\ \A p \in Proto : Settled(p)
Recovers == (<>[][Tell \/ ResolverTimeout]_clientVars /\ <>[]Whole) => <>[]services

\* "When the IP address of the first protocol is resolved, serviceAdded() is
\* emitted, when the IP address of the second protocol is resolved,
\* serviceUpdated() is emitted" (QtZeroConf/README.md:96): once there is nothing
\* more to tell, an address was reported of every protocol.
BothReported ==
  (Whole /\ services /\ ~ENABLED Tell) => reported = Proto

\* The list of services, its resolvers and what they were told agree, whatever
\* records come and go, and time out, but for an address kept from an old SRV.
ListSound == ClientTypeOK /\ ListedHasResolver /\ ListedIsFound /\ HeldIsTold
=============================================================================
