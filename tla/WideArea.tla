------------------------------- MODULE WideArea -------------------------------
(***************************************************************************)
(* Avahi's lookups by ordinary DNS (wide-area.c): a query goes to one      *)
(* server, again after a while, then to another one, up to six times in    *)
(* all; every server's answer fills a cache that all lookups share.  A     *)
(* lookup is freed later than its user says so.                            *)
(*                                                                         *)
(* A lookup's user scans the cache before it makes it, as a record browser *)
(* does.                                                                   *)
(*                                                                         *)
(* Not modelled: the number of a query beyond the 65536th, the limit of    *)
(* the cache.                                                              *)
(***************************************************************************)
EXTENDS Naturals, Sequences

CONSTANTS Id,           \* numbers of queries: 1 .. n
          Key,          \* what is asked for
          Server,       \* DNS servers that there is a socket for
          MaxServers,   \* AVAHI_WIDE_AREA_SERVERS_MAX
          MaxChanges    \* bound: times the servers are changed

ASSUME WideAssumption == Id \subseteq Nat /\ MaxServers \in Nat /\ MaxChanges \in Nat

VARIABLES lookups,      \* e->lookups, by number
          cache,        \* e->cache
          dns_servers,  \* the array: what is beyond n_dns_servers is what it held before
          n_dns_servers, current_dns_server,
          next_id,
          changes       \* how often the servers were changed
wideVars ==
  <<lookups, cache, dns_servers, n_dns_servers, current_dns_server, next_id, changes>>

\* A record with the key itself or a CNAME for its name.
WideRecord == Key \X {"own", "cname"}
Of(key) == {x \in WideRecord : x[1] = key}
AvahiWideAreaLookup ==
  [key : Key, dead : BOOLEAN, callback : BOOLEAN, time_event : BOOLEAN, n_send : 1 .. 6,
   dns_server_used : Server,
   tried : SUBSET Server, since : 0 .. MaxChanges,      \* the servers asked, of which list
   told : SUBSET WideRecord]                            \* the records its user knows of
Ids == DOMAIN lookups
Active == {i \in Ids : ~lookups[i].dead /\ lookups[i].callback}

Current(n) == dns_servers[n]
After(n) == IF n + 1 > n_dns_servers THEN 1 ELSE n + 1
Next_dns_server == After(current_dns_server)

\* lookup_stop  (StopsTimer: mutant that keeps the callback.)
StopsTimer(l) == [l EXCEPT !.time_event = FALSE]
Stopped(l) == [l EXCEPT !.callback = FALSE, !.time_event = FALSE]
\* send_to_dns_server, the first time and again.
Sent(l, server) == [l EXCEPT !.dns_server_used = server, !.tried = @ \cup {server}]

avahi_wide_area_lookup_new(key) ==
  /\ next_id \in Id /\ n_dns_servers > 0      \* else it cannot send, and there is none
  /\ LET server == Current(current_dns_server)
         l == [key |-> key, dead |-> FALSE, callback |-> TRUE, time_event |-> TRUE, n_send |-> 1,
               dns_server_used |-> server, tried |-> {server}, since |-> changes, told |-> cache \cap Of(key)]
     IN lookups' = [i \in Ids \cup {next_id} |-> IF i = next_id THEN l ELSE lookups[i]]
  /\ next_id' = next_id + 1
  /\ UNCHANGED <<cache, dns_servers, n_dns_servers, current_dns_server, changes>>

\* "Try another DNS server after three retries".
\* (GivesUp: mutant that gives up instead.)
GivesUp(l, server) == l.n_send >= 3
OutOfTries(l, server) == l.n_send >= 6 \/ (l.n_send >= 3 /\ server = l.dns_server_used)
sender_timeout_callback(i) ==
  /\ i \in Ids /\ lookups[i].time_event
  /\ LET l == lookups[i]
         moves == l.n_send >= 3 /\ Current(current_dns_server) = l.dns_server_used
         at == IF moves THEN Next_dns_server ELSE current_dns_server
     IN /\ current_dns_server' = at
        /\ lookups' = [lookups EXCEPT ![i] =
             IF OutOfTries(l, Current(at)) THEN Stopped(l)
             ELSE IF n_dns_servers = 0 THEN [l EXCEPT !.n_send = @ + 1]
             ELSE [Sent(l, Current(at)) EXCEPT !.n_send = l.n_send + 1]]
  /\ UNCHANGED <<cache, dns_servers, n_dns_servers, next_id, changes>>

avahi_wide_area_lookup_free(i) ==
  /\ i \in Ids /\ ~lookups[i].dead
  /\ lookups' = [lookups EXCEPT ![i] = [Stopped(@) EXCEPT !.dead = TRUE]]
  /\ UNCHANGED <<cache, dns_servers, n_dns_servers, current_dns_server, next_id, changes>>
\* avahi_wide_area_cleanup, whenever the server gets to it.
avahi_wide_area_cleanup ==
  /\ \E i \in Ids : lookups[i].dead
  /\ lookups' = [i \in {i \in Ids : ~lookups[i].dead} |-> lookups[i]]
  /\ UNCHANGED <<cache, dns_servers, n_dns_servers, current_dns_server, next_id, changes>>

\* run_callbacks: what is new is told to every lookup it answers, a CNAME also
\* to those that did not ask for one.
\* (AsksForIt: mutant that tells only those that asked for that very key.)
AsksForIt(l, x) == x[1] = l.key /\ x[2] = "own"
Concerns(l, x) == x[1] = l.key
Telling(news) ==
  [i \in Ids |-> IF i \in Active
                 THEN [lookups[i] EXCEPT !.told = @ \cup {x \in news : Concerns(lookups[i], x)}] ELSE lookups[i]]
\* handle_packet: records add to the cache, whatever the answer says; then the
\* lookup it is for has ended.  "freed" are those freed by a callback.
handle_packet(i, records, freed) ==
  /\ i \in Ids /\ ~lookups[i].dead
  /\ LET news == records \ cache
         told == Telling(news)
     IN /\ freed \subseteq {j \in Active : told[j].told # lookups[j].told}
        /\ lookups' = [j \in Ids |-> IF j \in freed THEN [Stopped(told[j]) EXCEPT !.dead = TRUE]
                                     ELSE IF j = i THEN Stopped(told[j]) ELSE told[j]]
  /\ cache' = cache \cup records
  /\ UNCHANGED <<dns_servers, n_dns_servers, current_dns_server, next_id, changes>>
expiry_event(x) ==
  /\ x \in cache /\ cache' = cache \ {x}
  /\ lookups' = [i \in Ids |-> [lookups[i] EXCEPT !.told = @ \ {x}]]
  /\ UNCHANGED <<dns_servers, n_dns_servers, current_dns_server, next_id, changes>>

avahi_wide_area_set_servers(list) ==
  /\ changes < MaxChanges /\ changes' = changes + 1
  /\ dns_servers' = list \o SubSeq(dns_servers, Len(list) + 1, Len(dns_servers))
  /\ n_dns_servers' = Len(list) /\ current_dns_server' = 1 /\ cache' = {}
  /\ lookups' = [i \in Ids |-> [lookups[i] EXCEPT !.told = {}]]
  /\ UNCHANGED next_id

\* The first few of those that were given, each as often as it was given.
ServerLists == UNION {[1 .. n -> Server] : n \in 0 .. MaxServers}
WideInit ==
  /\ lookups = <<>> /\ cache = {} /\ dns_servers \in ServerLists \ {<<>>}
  /\ n_dns_servers = Len(dns_servers) /\ current_dns_server = 1
  /\ next_id = 1 /\ changes = 0
WideNext ==
  \/ \E key \in Key : avahi_wide_area_lookup_new(key)
  \/ \E i \in Ids :
       \/ sender_timeout_callback(i) \/ avahi_wide_area_lookup_free(i)
       \/ \E records \in SUBSET WideRecord, freed \in SUBSET Ids : handle_packet(i, records, freed)
  \/ avahi_wide_area_cleanup
  \/ \E x \in WideRecord : expiry_event(x)
  \/ \E list \in ServerLists : avahi_wide_area_set_servers(list)
WideSpec == WideInit /\ [][WideNext]_wideVars

(***************************************************************************)
(* Properties                                                              *)
(***************************************************************************)
WideTypeOK ==
  /\ Ids \subseteq Id /\ \A i \in Ids : lookups[i] \in AvahiWideAreaLookup
  /\ cache \subseteq WideRecord /\ dns_servers \in Seq(Server) \ {<<>>} /\ n_dns_servers \in 0 .. Len(dns_servers)
  /\ current_dns_server \in 1 .. Len(dns_servers) /\ next_id \in Nat
  /\ changes \in 0 .. MaxChanges

\* A lookup that may still tell something has a timer, so it ends; one without
\* is silent for good (lookup_stop).
EndsInTime == \A i \in Ids : lookups[i].callback <=> lookups[i].time_event

\* A lookup does not time out before it asked two servers, although all lookups
\* share the notion of the current one, unless the server it asked follows itself
\* in the list, as the only one or as one given twice: then others of the list are
\* not asked (sender_timeout_callback, next_dns_server).
FollowsItself(server) ==
  \E n \in 1 .. n_dns_servers : Current(n) = server /\ Current(After(n)) = server
AskedTwo(l) == \E x, y \in l.tried : x # y
TimesOut(i) ==
  /\ i \in Active /\ lookups[i].since = changes
  /\ sender_timeout_callback(i) /\ ~lookups'[i].callback
AsksAnother ==
  [][\A i \in Ids : TimesOut(i) => AskedTwo(lookups[i]) \/ FollowsItself(lookups[i].dns_server_used)]_wideVars

\* "There is no other DNS server, fail" (wide-area.c:184).
OnlyServerFails ==
  [][\A i \in Ids : TimesOut(i) =>
       AskedTwo(lookups[i]) \/ \A n \in 1 .. n_dns_servers : Current(n) \in lookups[i].tried]_wideVars

\* The user of a lookup that has not ended knows all the cache holds for it,
\* whoever asked for that (add_to_cache, run_callbacks).
CacheIsTold == \A i \in Active : cache \cap Of(lookups[i].key) \subseteq lookups[i].told

\* Lookups that share servers and a cache end, not before a second server was
\* asked where the list leads to one, and with all that is known.
WideAnswers == [](WideTypeOK /\ EndsInTime /\ CacheIsTold) /\ AsksAnother
=============================================================================
