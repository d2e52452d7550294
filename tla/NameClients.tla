----------------------------- MODULE NameClients -----------------------------
(***************************************************************************)
(* Avahi's clients of record browsers that are about names: the host name  *)
(* resolver (resolve-host-name.c), the address resolver                    *)
(* (resolve-address.c), the browser for DNS servers (browse-dns-server.c), *)
(* for domains (browse-domain.c) and for service types                     *)
(* (browse-service-type.c).                                                *)
(*                                                                         *)
(* A record browser is what RecordLookup shows of it: it tells, sooner or  *)
(* later, of what is there and of what no longer is, each time anew after  *)
(* it was restarted.  A host name resolver is, for the browser for DNS     *)
(* servers, something that finds an address or fails.                      *)
(*                                                                         *)
(* Not modelled: no memory, arguments that are refused, flags, interface   *)
(* and protocol apart (a link stands for both).                            *)
(***************************************************************************)
EXTENDS Naturals, Sequences, FiniteSets

CONSTANTS Link,         \* an interface and a protocol
          Data,         \* what a record of the name may say
          Nothing,
          SrvRecord,    \* the SRV records of DNS servers
          MaxInfo,      \* "b->n_info >= 10"
          Domain,       \* names told of by a record browser
          Invalid,      \* ... that are no service types
          Static        \* browse_domains of the configuration, in order

ASSUME NameAssumption ==
  /\ Nothing \notin Link /\ Nothing \notin [link : Link, data : Data]
  /\ MaxInfo \in Nat /\ Static \in Seq({Static[i] : i \in DOMAIN Static})

(***************************************************************************)
(* The resolvers                                                           *)
(***************************************************************************)
VARIABLES r,            \* the resolver
          there,        \* the records a browser can find, wide-area or local
          answer        \* what its user was told last
resolverVars == <<r, there, answer>>

Record == [link : Link, data : Data]
Source == {"wide", "local"}
AvahiSResolver ==
  [kind : {"host", "address"}, record : Record \cup {Nothing}, link : Link \cup {Nothing},
   time_event : BOOLEAN, retry_with_multicast : BOOLEAN, source : Source,
   browsing : BOOLEAN, told : SUBSET Record]   \* what the record browser has told of

Eligible(x) == r.link \in {Nothing, x.link}

\* AVAHI_BROWSER_NEW: the first record and, from then on, its link only.
RecordNew(x) ==
  /\ r.browsing /\ x \in there[r.source] \ r.told
  /\ LET takes == Eligible(x) /\ r.record = Nothing
     IN /\ r' = [r EXCEPT !.told = @ \cup {x}, !.link = IF Eligible(x) THEN x.link ELSE @,
                          !.record = IF takes THEN x ELSE @, !.time_event = @ /\ ~takes]
        /\ answer' = IF takes THEN "found" ELSE answer
  /\ UNCHANGED there
\* "Look for a replacement": all the browsers start again, and so does the time.
\* (LostUntimed: mutant that does not start the time.)
LostUntimed(x) == [r EXCEPT !.record = Nothing, !.told = {}]
\* (LostWaits: mutant that waits for news.)
LostWaits(x) == [r EXCEPT !.record = Nothing, !.told = @ \ {x}, !.time_event = TRUE]
Lost(x) == [r EXCEPT !.record = Nothing, !.told = {}, !.time_event = TRUE]
RecordRemoved(x) ==
  /\ r.browsing /\ x \in r.told \ there[r.source]
  /\ r' = IF r.record # Nothing /\ x.data = r.record.data THEN Lost(x) ELSE [r EXCEPT !.told = @ \ {x}]
  /\ UNCHANGED <<there, answer>>
\* AVAHI_BROWSER_FAILURE: the address resolver tries again without the
\* wide-area servers, the host name resolver frees its browsers.
BrowserFails ==
  /\ r.browsing
  /\ IF r.retry_with_multicast
     THEN /\ r' = [r EXCEPT !.retry_with_multicast = FALSE, !.source = "local", !.told = {}, !.time_event = TRUE]
          /\ UNCHANGED answer
     ELSE r' = [r EXCEPT !.browsing = FALSE, !.time_event = FALSE] /\ answer' = "failure"
  /\ UNCHANGED there
ResolverTimeout ==
  /\ r.time_event /\ r' = [r EXCEPT !.time_event = FALSE] /\ answer' = "failure" /\ UNCHANGED there

RecordAppears(f, x) == x \notin there[f] /\ there' = [there EXCEPT ![f] = @ \cup {x}] /\ UNCHANGED <<r, answer>>
RecordGoes(f, x) == x \in there[f] /\ there' = [there EXCEPT ![f] = @ \ {x}] /\ UNCHANGED <<r, answer>>

NewResolver(kind, link, servers) ==
  [kind |-> kind, record |-> Nothing, link |-> link, time_event |-> TRUE, retry_with_multicast |-> servers,
   source |-> IF servers THEN "wide" ELSE "local", browsing |-> TRUE, told |-> {}]
ResolverInit ==
  /\ \E link \in Link \cup {Nothing} :
       r \in {NewResolver("host", link, FALSE)} \cup {NewResolver("address", link, w) : w \in BOOLEAN}
  /\ there = [f \in Source |-> {}] /\ answer = "none"
ResolverNext ==
  \/ \E x \in Record : RecordNew(x) \/ RecordRemoved(x) \/ RecordAppears(r.source, x) \/ RecordGoes(r.source, x)
  \/ BrowserFails \/ ResolverTimeout

ResolverSpec == ResolverInit /\ [][ResolverNext]_resolverVars

\* Whoever asked is told something, be it that the time is over: while nothing
\* is held, the time runs or the failure was told (start_timeout, finish).
Answers == r.record = Nothing => r.time_event \/ answer = "failure"

\* When the browser has told all there is, the resolver holds a record if there
\* is one on its link, however many came and went before
\* (avahi_s_record_browser_restart).
FindsAnother ==
  r.browsing /\ r.told = there[r.source] /\ r.record = Nothing => \A x \in r.told : ~Eligible(x)

(***************************************************************************)
(* The browser for DNS servers                                             *)
(***************************************************************************)
VARIABLES info,         \* b->info, by SRV record
          srv,          \* the SRV records there are
          told,         \* ... the record browser has told of
          known         \* the servers its user knows of
serverVars == <<info, srv, told, known>>

\* AvahiDNSServerInfo: whether its host name is being resolved, and whether it
\* was.
Info == [resolving : BOOLEAN, found : BOOLEAN]
Infos == DOMAIN info
Without(x) == [y \in Infos \ {x} |-> info[y]]
SrvNew(x) ==
  /\ x \in srv \ told /\ told' = told \cup {x}
  /\ info' = IF x \in Infos \/ Cardinality(Infos) >= MaxInfo THEN info
             ELSE [y \in Infos \cup {x} |-> IF y = x THEN [resolving |-> TRUE, found |-> FALSE] ELSE info[y]]
  /\ UNCHANGED <<srv, known>>
\* Told only when nothing is being resolved.
SrvRemove(x) ==
  /\ x \in told \ srv /\ told' = told \ {x}
  /\ IF x \in Infos
     THEN info' = Without(x) /\ known' = IF info[x].resolving THEN known ELSE known \ {x}
     ELSE UNCHANGED <<info, known>>
  /\ UNCHANGED srv
\* host_name_resolver_callback: one answer, then the resolver is freed.
\* (KeepsResolver: mutant that waits for more answers.)
KeepsResolver(i, found) == [i EXCEPT !.found = found]
Resolved(i, found) == [resolving |-> FALSE, found |-> found]
HostNameResolved(x, found) ==
  /\ x \in Infos /\ info[x].resolving
  /\ info' = [info EXCEPT ![x] = Resolved(@, found)]
  /\ known' = IF found THEN known \cup {x} ELSE known
  /\ UNCHANGED <<srv, told>>
SrvChanges(x) ==
  /\ srv' = IF x \in srv THEN srv \ {x} ELSE srv \cup {x}
  /\ UNCHANGED <<info, told, known>>

ServerInit == info = <<>> /\ srv = {} /\ told = {} /\ known = {}
ServerNext ==
  \E x \in SrvRecord :
    SrvNew(x) \/ SrvRemove(x) \/ SrvChanges(x) \/ \E found \in BOOLEAN : HostNameResolved(x, found)

ServerSpec == ServerInit /\ [][ServerNext]_serverVars

\* Its user knows exactly the servers whose host was found and whose record
\* was not removed since (record_browser_callback, AVAHI_BROWSER_REMOVE).
KnowsServers == known = {x \in Infos : info[x].found} /\ Infos \subseteq told /\ Cardinality(Infos) <= MaxInfo

(***************************************************************************)
(* The browsers for domains and for service types                          *)
(***************************************************************************)
VARIABLES b,            \* AvahiSDomainBrowser, ref 0 when it is freed
          domains,      \* the names the record browser has told of
          listed,       \* the names its user was told of, with where from
          complete,     \* its user was told "all for now"
          calling       \* where the callback was called from
domainVars == <<b, domains, listed, complete, calling>>

AvahiSDomainBrowser ==
  [ref : 0 .. 2, kind : {"browse", "other", "types"}, defer_event : BOOLEAN,
   all_for_now_scheduled : BOOLEAN, owned : BOOLEAN,
   l : 0 .. Len(Static)]      \* how many defer_callback has told of
Statics == {Static[i] : i \in DOMAIN Static}

\* "Filter out entries defined statically".
DomainPasses(n) == b.kind = "browse" => n \notin Statics
\* avahi_service_name_split must succeed.
TypePasses(n) == n \notin Invalid
Passes(n) == IF b.kind = "types" THEN TypePasses(n) ELSE DomainPasses(n)

Idle == calling = "nobody" /\ b.ref > 0
NameNew(n) ==
  /\ Idle /\ n \notin domains /\ domains' = domains \cup {n}
  /\ IF Passes(n) THEN listed' = listed \cup {<<n, "record">>} /\ calling' = "records" ELSE UNCHANGED <<listed, calling>>
  /\ UNCHANGED <<b, complete>>
NameRemoved(n) ==
  /\ Idle /\ n \in domains /\ domains' = domains \ {n}
  /\ IF Passes(n) THEN listed' = listed \ {<<n, "record">>} /\ calling' = "records" ELSE UNCHANGED <<listed, calling>>
  /\ UNCHANGED <<b, complete>>
\* (ToldAtOnce: mutant that does not wait for the static domains.)
ToldAtOnce == FALSE
Deferred == b.defer_event
AllForNow ==
  /\ Idle
  /\ IF Deferred THEN b' = [b EXCEPT !.all_for_now_scheduled = TRUE] /\ UNCHANGED <<complete, calling>>
     ELSE complete' = TRUE /\ calling' = "records" /\ UNCHANGED b
  /\ UNCHANGED <<domains, listed>>

\* avahi_s_domain_browser_free.
Unref(x) == [x EXCEPT !.ref = @ - 1, !.defer_event = @ /\ x.ref > 1]
\* defer_callback
DeferCallback ==
  /\ Idle /\ b.defer_event
  /\ b' = [b EXCEPT !.defer_event = FALSE, !.ref = @ + 1] /\ calling' = "loop"
  /\ UNCHANGED <<domains, listed, complete>>
\* "Check whether this object still exists outside our own stack frame".
\* (StillThere: mutant that asks only whether there is memory.)
StillThere == b.ref >= 1
Exists == b.ref > 1
TellStatic ==
  /\ calling = "loop" /\ Exists /\ b.l < Len(Static)
  /\ b' = [b EXCEPT !.l = @ + 1] /\ listed' = listed \cup {<<Static[b.l + 1], "static">>}
  /\ calling' = "static" /\ UNCHANGED <<domains, complete>>
DeferEnds ==
  /\ calling = "loop" /\ (b.l = Len(Static) \/ ~Exists)
  /\ complete' = (complete \/ (Exists /\ b.all_for_now_scheduled))
  /\ calling' = IF Exists /\ b.all_for_now_scheduled THEN "last" ELSE "nobody"
  /\ b' = IF calling' = "last" THEN b ELSE Unref(b)
  /\ UNCHANGED <<domains, listed>>
CallbackReturns ==
  /\ calling \in {"records", "static", "last"}
  /\ calling' = IF calling = "static" THEN "loop" ELSE "nobody"
  /\ b' = IF calling = "last" THEN Unref(b) ELSE b
  /\ UNCHANGED <<domains, listed, complete>>
\* By its user, from its callback too.
DomainBrowserFree ==
  /\ b.owned /\ calling # "loop"
  /\ b' = [Unref(b) EXCEPT !.owned = FALSE] /\ UNCHANGED <<domains, listed, complete, calling>>

NewDomainBrowser(kind) ==
  [ref |-> 1, kind |-> kind, defer_event |-> kind = "browse" /\ Static # <<>>,
   all_for_now_scheduled |-> FALSE, owned |-> TRUE, l |-> 0]
NewTypeBrowser ==
  [ref |-> 1, kind |-> "types", defer_event |-> FALSE, all_for_now_scheduled |-> FALSE, owned |-> TRUE, l |-> 0]
DomainInit ==
  /\ b \in {NewTypeBrowser, NewDomainBrowser("browse"), NewDomainBrowser("other")}
  /\ domains = {} /\ listed = {} /\ complete = FALSE /\ calling = "nobody"
DomainNext ==
  \/ \E n \in Domain : NameNew(n) \/ NameRemoved(n)
  \/ AllForNow \/ DeferCallback \/ TellStatic \/ DeferEnds \/ CallbackReturns \/ DomainBrowserFree

DomainSpec == DomainInit /\ [][DomainNext]_domainVars

\* "All for now" comes after every domain of the configuration, though the
\* records may be complete before these are told of (all_for_now_scheduled),
\* and none of them is told of a second time because of a record.
StaticsFirst ==
  b.kind = "browse" =>
    /\ complete /\ Static # <<>> => \A n \in Statics : <<n, "static">> \in listed
    /\ \A n \in Statics : <<n, "record">> \notin listed

\* Nobody is called who has freed the browser, not even between two domains of
\* the configuration (defer_callback, "b->ref <= 1").
CallsOwner == [][calling' \in {"records", "static", "last"} /\ calling # calling' => b.owned]_domainVars

(***************************************************************************)
(* All three.                                                              *)
(***************************************************************************)
NameSpec == ResolverSpec /\ ServerSpec /\ DomainSpec

ResolverTypeOK ==
  r \in AvahiSResolver /\ there \in [Source -> SUBSET Record] /\ answer \in {"none", "found", "failure"}
ServerTypeOK ==
  Infos \subseteq SrvRecord /\ (\A x \in Infos : info[x] \in Info) /\ srv \cup told \cup known \subseteq SrvRecord
DomainTypeOK ==
  /\ b \in AvahiSDomainBrowser /\ domains \subseteq Domain /\ listed \subseteq (Domain \cup Statics) \X {"record", "static"}
  /\ complete \in BOOLEAN /\ calling \in {"nobody", "records", "static", "last", "loop"}
NameTypeOK == ResolverTypeOK /\ ServerTypeOK /\ DomainTypeOK

\* Resolvers answer with what there is, through restarts, and the user of the
\* browser for DNS servers knows those whose names they resolved.
NamesAnswered == NameTypeOK /\ Answers /\ FindsAnother /\ KnowsServers

\* The user of a browser for domains is told in order, and not after it let go.
DomainsInOrder == []StaticsFirst /\ CallsOwner
=============================================================================
