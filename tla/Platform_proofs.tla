---------------------------- MODULE Platform_proofs ----------------------------
(***************************************************************************)
(* What the parts of MCPlatform promise, for every value of their          *)
(* constants: lookups by ordinary DNS (WideArea), the clients that look up *)
(* names (NameClients), the daemon's client library (DaemonClient),        *)
(* QZeroConf on it (BonjourBrowser), the event loop (SimplePoll) and       *)
(* Avahi's time events (TimeEventQueue).  They share no state, and each    *)
(* has an inductive invariant of its own, introduced where its part        *)
(* begins.                                                                 *)
(***************************************************************************)
EXTENDS DaemonClient, BonjourBrowser, SimplePoll, NameClients, WideArea, TimeEventQueue,
        FiniteSetTheorems, SequenceTheorems, WellFoundedInduction, TLAPS

-------------------------------------------------------------------------------
(* WideArea.  That a lookup asks a second server before it gives up takes an     *)
(* invariant about all its sends: from the fourth on, it has asked two.          *)

\* The current server is one of the list.
InList == n_dns_servers > 0 => current_dns_server <= n_dns_servers

\* The server used last is one of those asked; while the list was not changed, it
\* is not empty, and after three sends there are two of them.
Fair(l, at, n) ==
  /\ l.dns_server_used \in l.tried /\ l.since <= at
  /\ l.since = at => n > 0 /\ (l.n_send > 3 => AskedTwo(l))
Turns == \A i \in Ids : Fair(lookups[i], changes, n_dns_servers)
IInv == WideTypeOK /\ InList /\ Turns /\ EndsInTime /\ CacheIsTold

-------------------------------------------------------------------------------
(* The list of servers. *)

LEMMA ListFacts ==
  ASSUME NEW list \in ServerLists
  PROVE  list \in Seq(Server)
BY WideAssumption DEF ServerLists

\* What the array holds beyond a shorter list stays.
LEMMA ArrayFacts ==
  ASSUME NEW list \in Seq(Server), NEW q \in Seq(Server) \ {<<>>}
  PROVE  LET p == list \o SubSeq(q, Len(list) + 1, Len(q))
         IN /\ p \in Seq(Server) \ {<<>>} /\ Len(list) \in 0 .. Len(p) /\ 1 \in 1 .. Len(p)
            /\ \A i \in 1 .. Len(list) : p[i] = list[i]
<1> DEFINE rest == SubSeq(q, Len(list) + 1, Len(q))
           p == list \o rest
<1>1. rest \in Seq(Server)
      /\ Len(rest) = IF Len(list) + 1 <= Len(q) THEN Len(q) - Len(list) ELSE 0
  BY SubSeqProperties
<1> HIDE DEF rest
<1>2. p \in Seq(Server) /\ Len(p) = Len(list) + Len(rest)
      /\ \A i \in 1 .. Len(list) : p[i] = list[i]
  <2>1. list \o rest \in Seq(Server) /\ Len(list \o rest) = Len(list) + Len(rest)
    BY <1>1, ConcatProperties
  <2>2. ASSUME NEW i \in 1 .. Len(list) PROVE (list \o rest)[i] = list[i]
    BY <1>1, ConcatProperties
  <2> QED BY <2>1, <2>2
<1>3. Len(q) >= 1 BY EmptySeq
<1>4. Len(p) >= 1 BY <1>1, <1>2, <1>3
<1>5. p # <<>> BY <1>4
<1> QED BY <1>2, <1>4, <1>5 DEF rest

-------------------------------------------------------------------------------
(* Types. *)

LEMMA TypedInit == WideInit => WideTypeOK
<1> SUFFICES ASSUME WideInit PROVE WideTypeOK OBVIOUS
<1>1. dns_servers \in Seq(Server) \ {<<>>} BY ListFacts DEF WideInit
<1>2. Len(dns_servers) >= 1 BY <1>1, EmptySeq
<1>3. Ids = {} BY DEF WideInit, Ids
<1> QED BY <1>1, <1>2, <1>3, WideAssumption DEF WideInit, WideTypeOK

\* Whoever is asked next is a server.
LEMMA CurrentTyped ==
  ASSUME WideTypeOK
  PROVE  /\ Current(current_dns_server) \in Server
         /\ Next_dns_server \in 1 .. Len(dns_servers) /\ Current(Next_dns_server) \in Server
BY DEF WideTypeOK, Current, Next_dns_server, After

\* What the steps do to one lookup keeps it one.
LEMMA LookupFacts ==
  ASSUME NEW l \in AvahiWideAreaLookup, NEW server \in Server, NEW heard \in SUBSET WideRecord
  PROVE  /\ Stopped(l) \in AvahiWideAreaLookup /\ ~Stopped(l).callback /\ ~Stopped(l).time_event
         /\ [Stopped(l) EXCEPT !.dead = TRUE] \in AvahiWideAreaLookup
         /\ [l EXCEPT !.told = heard] \in AvahiWideAreaLookup
         /\ l.n_send < 6 => /\ [l EXCEPT !.n_send = @ + 1] \in AvahiWideAreaLookup
                            /\ [Sent(l, server) EXCEPT !.n_send = l.n_send + 1] \in AvahiWideAreaLookup
<1>1. Stopped(l) \in AvahiWideAreaLookup /\ ~Stopped(l).callback /\ ~Stopped(l).time_event
  BY DEF AvahiWideAreaLookup, Stopped
<1>2. [Stopped(l) EXCEPT !.dead = TRUE] \in AvahiWideAreaLookup
  BY DEF AvahiWideAreaLookup, Stopped
<1>3. [l EXCEPT !.told = heard] \in AvahiWideAreaLookup BY DEF AvahiWideAreaLookup
<1>4. ASSUME l.n_send < 6
      PROVE  /\ [l EXCEPT !.n_send = @ + 1] \in AvahiWideAreaLookup
             /\ [Sent(l, server) EXCEPT !.n_send = l.n_send + 1] \in AvahiWideAreaLookup
  <2>1. l.n_send + 1 \in 1 .. 6 BY <1>4 DEF AvahiWideAreaLookup
  <2>2. [l EXCEPT !.n_send = @ + 1] \in AvahiWideAreaLookup BY <2>1 DEF AvahiWideAreaLookup
  <2>3. l.tried \cup {server} \in SUBSET Server BY DEF AvahiWideAreaLookup
  <2>4. Sent(l, server) \in AvahiWideAreaLookup BY <2>3 DEF AvahiWideAreaLookup, Sent
  <2> DEFINE l2 == Sent(l, server)
  <2> HIDE DEF l2
  <2>5. [l2 EXCEPT !.n_send = l.n_send + 1] \in AvahiWideAreaLookup
    BY <2>1, <2>4 DEF AvahiWideAreaLookup, l2
  <2> QED BY <2>2, <2>5 DEF l2
<1> QED BY <1>1, <1>2, <1>3, <1>4

LEMMA TellingTyped ==
  ASSUME WideTypeOK, NEW news \in SUBSET WideRecord
  PROVE  /\ DOMAIN Telling(news) = Ids
         /\ \A i \in Ids : Telling(news)[i] \in AvahiWideAreaLookup
<1>1. DOMAIN Telling(news) = Ids BY DEF Telling
<1>2. ASSUME NEW i \in Ids PROVE Telling(news)[i] \in AvahiWideAreaLookup
  <2> DEFINE heard == lookups[i].told \cup {x \in news : Concerns(lookups[i], x)}
  <2>1. lookups[i] \in AvahiWideAreaLookup BY DEF WideTypeOK
  <2>2. heard \in SUBSET WideRecord BY <2>1 DEF AvahiWideAreaLookup
  <2>3. Telling(news)[i] \in {lookups[i], [lookups[i] EXCEPT !.told = heard]} BY DEF Telling
  <2> HIDE DEF heard
  <2>4. [lookups[i] EXCEPT !.told = heard] \in AvahiWideAreaLookup
    BY <2>1, <2>2 DEF AvahiWideAreaLookup
  <2> QED BY <2>1, <2>3, <2>4
<1> QED BY <1>1, <1>2

\* Each step, for the lookups alone.
LEMMA LookupsTyped ==
  ASSUME WideTypeOK, WideNext
  PROVE  Ids' \subseteq Id /\ \A i \in Ids' : lookups'[i] \in AvahiWideAreaLookup
<1> USE DEF Ids
<1>0. Ids \subseteq Id /\ \A i \in Ids : lookups[i] \in AvahiWideAreaLookup BY DEF WideTypeOK
<1>1. ASSUME NEW key \in Key, avahi_wide_area_lookup_new(key)
      PROVE  Ids' \subseteq Id /\ \A i \in Ids' : lookups'[i] \in AvahiWideAreaLookup
  <2> DEFINE l == [key |-> key, dead |-> FALSE, callback |-> TRUE, time_event |-> TRUE, n_send |-> 1,
                   dns_server_used |-> Current(current_dns_server),
                   tried |-> {Current(current_dns_server)}, since |-> changes, told |-> cache \cap Of(key)]
  <2>1. l \in AvahiWideAreaLookup
    BY CurrentTyped, WideAssumption DEF AvahiWideAreaLookup, WideTypeOK
  <2>2. next_id \in Id
        /\ lookups' = [i \in Ids \cup {next_id} |-> IF i = next_id THEN l ELSE lookups[i]]
    BY <1>1 DEF avahi_wide_area_lookup_new
  <2> HIDE DEF l
  <2> QED BY <1>0, <2>1, <2>2
<1>2. ASSUME NEW i \in Ids, sender_timeout_callback(i)
      PROVE  Ids' \subseteq Id /\ \A j \in Ids' : lookups'[j] \in AvahiWideAreaLookup
  <2>1. PICK at \in {Next_dns_server, current_dns_server} :
          lookups' = [lookups EXCEPT ![i] =
             IF OutOfTries(lookups[i], Current(at)) THEN Stopped(lookups[i])
             ELSE IF n_dns_servers = 0 THEN [lookups[i] EXCEPT !.n_send = @ + 1]
             ELSE [Sent(lookups[i], Current(at)) EXCEPT !.n_send = lookups[i].n_send + 1]]
    BY <1>2 DEF sender_timeout_callback
  <2>2. Current(at) \in Server BY CurrentTyped
  <2>3. ~OutOfTries(lookups[i], Current(at)) => lookups[i].n_send < 6
    BY <1>0 DEF OutOfTries, AvahiWideAreaLookup
  <2>4. lookups'[i] \in AvahiWideAreaLookup BY <1>0, <2>1, <2>2, <2>3, LookupFacts
  <2> QED BY <1>0, <2>1, <2>4
<1>3. ASSUME NEW i \in Ids, avahi_wide_area_lookup_free(i)
      PROVE  Ids' \subseteq Id /\ \A j \in Ids' : lookups'[j] \in AvahiWideAreaLookup
  <2>1. [Stopped(lookups[i]) EXCEPT !.dead = TRUE] \in AvahiWideAreaLookup
    BY <1>0 DEF AvahiWideAreaLookup, Stopped
  <2> QED BY <1>0, <1>3, <2>1 DEF avahi_wide_area_lookup_free
<1>4. ASSUME avahi_wide_area_cleanup
      PROVE  Ids' \subseteq Id /\ \A i \in Ids' : lookups'[i] \in AvahiWideAreaLookup
  BY <1>0, <1>4 DEF avahi_wide_area_cleanup
<1>5. ASSUME NEW i \in Ids, NEW records \in SUBSET WideRecord, NEW freed \in SUBSET Ids,
             handle_packet(i, records, freed)
      PROVE  Ids' \subseteq Id /\ \A j \in Ids' : lookups'[j] \in AvahiWideAreaLookup
  <2> DEFINE telling == Telling(records \ cache)
  <2>1. \A j \in Ids : telling[j] \in AvahiWideAreaLookup BY TellingTyped
  <2>2. lookups' = [j \in Ids |-> IF j \in freed THEN [Stopped(telling[j]) EXCEPT !.dead = TRUE]
                                  ELSE IF j = i THEN Stopped(telling[j]) ELSE telling[j]]
    BY <1>5 DEF handle_packet
  <2> HIDE DEF telling
  <2>3. \A j \in Ids : /\ [Stopped(telling[j]) EXCEPT !.dead = TRUE] \in AvahiWideAreaLookup
                       /\ Stopped(telling[j]) \in AvahiWideAreaLookup
    BY <2>1 DEF AvahiWideAreaLookup, Stopped
  <2> QED BY <1>0, <2>1, <2>2, <2>3
<1>6. ASSUME NEW x \in WideRecord, expiry_event(x)
      PROVE  Ids' \subseteq Id /\ \A i \in Ids' : lookups'[i] \in AvahiWideAreaLookup
  <2>1. \A i \in Ids : [lookups[i] EXCEPT !.told = @ \ {x}] \in AvahiWideAreaLookup
    BY <1>0 DEF AvahiWideAreaLookup
  <2> QED BY <1>0, <1>6, <2>1 DEF expiry_event
<1>7. ASSUME NEW list \in ServerLists, avahi_wide_area_set_servers(list)
      PROVE  Ids' \subseteq Id /\ \A i \in Ids' : lookups'[i] \in AvahiWideAreaLookup
  <2>1. \A i \in Ids : [lookups[i] EXCEPT !.told = {}] \in AvahiWideAreaLookup
    BY <1>0 DEF AvahiWideAreaLookup
  <2> QED BY <1>0, <1>7, <2>1 DEF avahi_wide_area_set_servers
<1> QED BY <1>1, <1>2, <1>3, <1>4, <1>5, <1>6, <1>7 DEF WideNext
\* Types, all of them.
LEMMA TypedNext == WideTypeOK /\ [WideNext]_wideVars => WideTypeOK'
<1> SUFFICES ASSUME WideTypeOK, [WideNext]_wideVars PROVE WideTypeOK' OBVIOUS
<1>1. CASE UNCHANGED wideVars BY <1>1 DEF WideTypeOK, wideVars, Ids, AvahiWideAreaLookup
<1>2. CASE WideNext
  <2>1. Ids' \subseteq Id /\ \A i \in Ids' : lookups'[i] \in AvahiWideAreaLookup BY <1>2, LookupsTyped
  <2>2. cache' \subseteq WideRecord
    BY <1>2 DEF WideNext, WideTypeOK, avahi_wide_area_lookup_new, sender_timeout_callback,
       avahi_wide_area_lookup_free, handle_packet, avahi_wide_area_cleanup, expiry_event,
       avahi_wide_area_set_servers
  <2>3. next_id' \in Nat /\ changes' \in 0 .. MaxChanges
    <3>1. next_id' \in {next_id, next_id + 1} /\ (changes' = changes \/ (changes < MaxChanges /\ changes' = changes + 1))
      BY <1>2 DEF WideNext, avahi_wide_area_lookup_new, sender_timeout_callback,
         avahi_wide_area_lookup_free, handle_packet, avahi_wide_area_cleanup, expiry_event,
         avahi_wide_area_set_servers
    <3> QED BY <3>1, WideAssumption DEF WideTypeOK
  <2>4. /\ dns_servers' \in Seq(Server) \ {<<>>} /\ n_dns_servers' \in 0 .. Len(dns_servers')
        /\ current_dns_server' \in 1 .. Len(dns_servers')
    <3>1. CASE UNCHANGED <<dns_servers, n_dns_servers, current_dns_server>> BY <3>1 DEF WideTypeOK
    <3>2. CASE \E i \in Ids : sender_timeout_callback(i)
      BY <3>2, CurrentTyped DEF sender_timeout_callback, WideTypeOK
    <3>3. CASE \E list \in ServerLists : avahi_wide_area_set_servers(list)
      <4>1. PICK list \in ServerLists : avahi_wide_area_set_servers(list) BY <3>3
      <4>2. list \in Seq(Server) /\ dns_servers \in Seq(Server) \ {<<>>} BY ListFacts DEF WideTypeOK
      <4> QED BY <4>1, <4>2, ArrayFacts DEF avahi_wide_area_set_servers
    <3> QED BY <1>2, <3>1, <3>2, <3>3 DEF WideNext, avahi_wide_area_lookup_new,
       avahi_wide_area_lookup_free, handle_packet, avahi_wide_area_cleanup, expiry_event
  <2> QED BY <2>1, <2>2, <2>3, <2>4 DEF WideTypeOK
<1> QED BY <1>1, <1>2

-------------------------------------------------------------------------------
(* Timers and what is told. *)

LEMMA TimersNext ==
  ASSUME WideTypeOK, EndsInTime, WideNext
  PROVE  EndsInTime'
<1> USE DEF Ids
<1>0. \A i \in Ids : lookups[i] \in AvahiWideAreaLookup /\ (lookups[i].callback <=> lookups[i].time_event)
  BY DEF WideTypeOK, EndsInTime
<1>1. ASSUME NEW key \in Key, avahi_wide_area_lookup_new(key) PROVE EndsInTime'
  BY <1>0, <1>1 DEF avahi_wide_area_lookup_new, EndsInTime
<1>2. ASSUME NEW i \in Ids, sender_timeout_callback(i) PROVE EndsInTime'
  <2>1. PICK at : lookups' = [lookups EXCEPT ![i] =
             IF OutOfTries(lookups[i], Current(at)) THEN Stopped(lookups[i])
             ELSE IF n_dns_servers = 0 THEN [lookups[i] EXCEPT !.n_send = @ + 1]
             ELSE [Sent(lookups[i], Current(at)) EXCEPT !.n_send = lookups[i].n_send + 1]]
    BY <1>2 DEF sender_timeout_callback
  <2> QED BY <1>0, <2>1 DEF EndsInTime, Stopped, Sent, AvahiWideAreaLookup
<1>3. ASSUME NEW i \in Ids, avahi_wide_area_lookup_free(i) PROVE EndsInTime'
  BY <1>0, <1>3 DEF avahi_wide_area_lookup_free, EndsInTime, Stopped, AvahiWideAreaLookup
<1>4. ASSUME avahi_wide_area_cleanup PROVE EndsInTime'
  BY <1>0, <1>4 DEF avahi_wide_area_cleanup, EndsInTime
<1>5. ASSUME NEW i \in Ids, NEW records \in SUBSET WideRecord, NEW freed \in SUBSET Ids,
             handle_packet(i, records, freed)
      PROVE  EndsInTime'
  <2> DEFINE telling == Telling(records \ cache)
  <2>1. \A j \in Ids : telling[j] \in AvahiWideAreaLookup BY TellingTyped
  <2>2. \A j \in Ids : telling[j].callback <=> telling[j].time_event
    BY <1>0 DEF Telling, AvahiWideAreaLookup
  <2>3. lookups' = [j \in Ids |-> IF j \in freed THEN [Stopped(telling[j]) EXCEPT !.dead = TRUE]
                                  ELSE IF j = i THEN Stopped(telling[j]) ELSE telling[j]]
    BY <1>5 DEF handle_packet
  <2> HIDE DEF telling
  <2> QED BY <2>1, <2>2, <2>3 DEF EndsInTime, Stopped, AvahiWideAreaLookup
<1>6. ASSUME NEW x \in WideRecord, expiry_event(x) PROVE EndsInTime'
  BY <1>0, <1>6 DEF expiry_event, EndsInTime, AvahiWideAreaLookup
<1>7. ASSUME NEW list \in ServerLists, avahi_wide_area_set_servers(list) PROVE EndsInTime'
  BY <1>0, <1>7 DEF avahi_wide_area_set_servers, EndsInTime, AvahiWideAreaLookup
<1> QED BY <1>1, <1>2, <1>3, <1>4, <1>5, <1>6, <1>7 DEF WideNext

\* One lookup knows what the cache "c" holds for it.
Knows(l, c) == ~l.dead /\ l.callback => c \cap Of(l.key) \subseteq l.told

\* One that has ended may know anything.
LEMMA StoppedKnows ==
  ASSUME NEW l \in AvahiWideAreaLookup, NEW c
  PROVE  Knows(Stopped(l), c) /\ Knows([Stopped(l) EXCEPT !.dead = TRUE], c)
BY DEF Knows, Stopped, AvahiWideAreaLookup

LEMMA ToldNext ==
  ASSUME WideTypeOK, CacheIsTold, WideNext
  PROVE  CacheIsTold'
<1> USE DEF Ids
<1>0. \A i \in Ids : lookups[i] \in AvahiWideAreaLookup /\ Knows(lookups[i], cache)
  BY DEF WideTypeOK, CacheIsTold, Active, Knows
<1> SUFFICES \A i \in Ids' : Knows(lookups'[i], cache') BY DEF CacheIsTold, Active, Knows
<1>1. ASSUME NEW key \in Key, avahi_wide_area_lookup_new(key)
      PROVE  \A i \in Ids' : Knows(lookups'[i], cache')
  BY <1>0, <1>1 DEF avahi_wide_area_lookup_new, Knows
<1>2. ASSUME NEW i \in Ids, sender_timeout_callback(i)
      PROVE  \A j \in Ids' : Knows(lookups'[j], cache')
  <2>1. PICK at : lookups' = [lookups EXCEPT ![i] =
             IF OutOfTries(lookups[i], Current(at)) THEN Stopped(lookups[i])
             ELSE IF n_dns_servers = 0 THEN [lookups[i] EXCEPT !.n_send = @ + 1]
             ELSE [Sent(lookups[i], Current(at)) EXCEPT !.n_send = lookups[i].n_send + 1]]
    BY <1>2 DEF sender_timeout_callback
  <2>2. cache' = cache BY <1>2 DEF sender_timeout_callback
  <2> QED BY <1>0, <2>1, <2>2 DEF Knows, Stopped, Sent, AvahiWideAreaLookup
<1>3. ASSUME NEW i \in Ids, avahi_wide_area_lookup_free(i)
      PROVE  \A j \in Ids' : Knows(lookups'[j], cache')
  BY <1>0, <1>3 DEF avahi_wide_area_lookup_free, Knows, Stopped, AvahiWideAreaLookup
<1>4. ASSUME avahi_wide_area_cleanup PROVE \A i \in Ids' : Knows(lookups'[i], cache')
  BY <1>0, <1>4 DEF avahi_wide_area_cleanup
<1>5. ASSUME NEW i \in Ids, NEW records \in SUBSET WideRecord, NEW freed \in SUBSET Ids,
             handle_packet(i, records, freed)
      PROVE  \A j \in Ids' : Knows(lookups'[j], cache')
  <2> DEFINE telling == Telling(records \ cache)
  <2>1. \A j \in Ids : telling[j] \in AvahiWideAreaLookup BY TellingTyped
  <2>2. ASSUME NEW j \in Ids PROVE Knows(telling[j], cache \cup records)
    <3> DEFINE new == {x \in records \ cache : Concerns(lookups[j], x)}
    <3>1. CASE j \notin Active BY <1>0, <3>1 DEF Active, Telling, Knows
    <3>2. CASE j \in Active
      <4>1. telling[j] = [lookups[j] EXCEPT !.told = @ \cup new] BY <3>2 DEF Telling
      <4>2. telling[j].told = lookups[j].told \cup new /\ telling[j].key = lookups[j].key
        BY <1>0, <4>1 DEF AvahiWideAreaLookup
      <4>3. cache \cap Of(lookups[j].key) \subseteq lookups[j].told BY <1>0, <3>2 DEF Active, Knows
      <4>4. (records \ cache) \cap Of(lookups[j].key) \subseteq new BY DEF Of, Concerns
      <4> QED BY <4>2, <4>3, <4>4 DEF Knows
    <3> QED BY <3>1, <3>2
  <2>3. lookups' = [j \in Ids |-> IF j \in freed THEN [Stopped(telling[j]) EXCEPT !.dead = TRUE]
                                  ELSE IF j = i THEN Stopped(telling[j]) ELSE telling[j]]
        /\ cache' = cache \cup records
    BY <1>5 DEF handle_packet
  <2> HIDE DEF telling
  <2>4. \A j \in Ids : /\ Knows(Stopped(telling[j]), cache')
                       /\ Knows([Stopped(telling[j]) EXCEPT !.dead = TRUE], cache')
    BY <2>1, StoppedKnows
  <2> QED BY <2>2, <2>3, <2>4
<1>6. ASSUME NEW x \in WideRecord, expiry_event(x) PROVE \A i \in Ids' : Knows(lookups'[i], cache')
  BY <1>0, <1>6 DEF expiry_event, Knows, AvahiWideAreaLookup
<1>7. ASSUME NEW list \in ServerLists, avahi_wide_area_set_servers(list)
      PROVE  \A i \in Ids' : Knows(lookups'[i], cache')
  BY <1>0, <1>7 DEF avahi_wide_area_set_servers, Knows, AvahiWideAreaLookup
<1> QED BY <1>1, <1>2, <1>3, <1>4, <1>5, <1>6, <1>7 DEF WideNext

-------------------------------------------------------------------------------
(* Taking turns. *)

LEMMA InListNext ==
  ASSUME WideTypeOK, InList, WideNext
  PROVE  InList'
<1>1. CASE UNCHANGED <<n_dns_servers, current_dns_server>> BY <1>1 DEF InList
<1>2. CASE \E i \in Ids : sender_timeout_callback(i)
  BY <1>2 DEF sender_timeout_callback, InList, Next_dns_server, After, WideTypeOK
<1>3. CASE \E list \in ServerLists : avahi_wide_area_set_servers(list)
  <2>1. PICK list \in ServerLists : avahi_wide_area_set_servers(list) BY <1>3
  <2>2. n_dns_servers' = Len(list) /\ current_dns_server' = 1 /\ Len(list) \in Nat
    BY <2>1, ListFacts DEF avahi_wide_area_set_servers
  <2> QED BY <2>2 DEF InList
<1> QED BY <1>1, <1>2, <1>3 DEF WideNext, avahi_wide_area_lookup_new,
     avahi_wide_area_lookup_free, handle_packet, avahi_wide_area_cleanup, expiry_event

\* Where a lookup's sends are left alone, so is its turn.
LEMMA SameTurn ==
  ASSUME NEW l, NEW k, NEW at, NEW n, Fair(l, at, n),
         k.dns_server_used = l.dns_server_used, k.tried = l.tried, k.since = l.since, k.n_send = l.n_send
  PROVE  Fair(k, at, n)
BY DEF Fair, AskedTwo

LEMMA StoppedTurn ==
  ASSUME NEW l \in AvahiWideAreaLookup, NEW at, NEW n, Fair(l, at, n)
  PROVE  Fair(Stopped(l), at, n) /\ Fair([Stopped(l) EXCEPT !.dead = TRUE], at, n)
<1>1. ASSUME NEW k \in {Stopped(l), [Stopped(l) EXCEPT !.dead = TRUE]}
      PROVE  /\ k.dns_server_used = l.dns_server_used /\ k.tried = l.tried
             /\ k.since = l.since /\ k.n_send = l.n_send
  BY DEF Stopped, AvahiWideAreaLookup
<1> QED BY <1>1, SameTurn

\* A timer ends a lookup, or sends again: the fourth time elsewhere.
LEMMA TurnTaken ==
  ASSUME WideTypeOK, InList, Turns, NEW i \in Ids, sender_timeout_callback(i)
  PROVE  /\ Fair(lookups'[i], changes, n_dns_servers)
         /\ ~lookups'[i].callback /\ lookups[i].callback /\ lookups[i].since = changes
              => AskedTwo(lookups[i]) \/ FollowsItself(lookups[i].dns_server_used)
<1> DEFINE l == lookups[i]
           moves == l.n_send >= 3 /\ Current(current_dns_server) = l.dns_server_used
           at == IF moves THEN Next_dns_server ELSE current_dns_server
<1>1. lookups'[i] = IF OutOfTries(l, Current(at)) THEN Stopped(l)
                    ELSE IF n_dns_servers = 0 THEN [l EXCEPT !.n_send = @ + 1]
                    ELSE [Sent(l, Current(at)) EXCEPT !.n_send = l.n_send + 1]
  BY DEF sender_timeout_callback, Ids
<1>2. l \in AvahiWideAreaLookup /\ Fair(l, changes, n_dns_servers) BY DEF WideTypeOK, Turns
<1>3. l.n_send >= 3 /\ Current(at) = l.dns_server_used
        => Current(current_dns_server) = l.dns_server_used /\ Current(Next_dns_server) = l.dns_server_used
  OBVIOUS
<1>4. /\ l.n_send \in 1 .. 6 /\ n_dns_servers \in Nat /\ l.since \in Nat /\ changes \in Nat
      /\ current_dns_server \in Nat \ {0}
  BY <1>2 DEF AvahiWideAreaLookup, WideTypeOK
<1> HIDE DEF l, at
<1>5. CASE OutOfTries(l, Current(at))
  <2>1. Fair(Stopped(l), changes, n_dns_servers)
    BY <1>2, StoppedTurn
  <2>2. ASSUME l.since = changes PROVE AskedTwo(l) \/ FollowsItself(l.dns_server_used)
    <3>1. n_dns_servers > 0 /\ (l.n_send > 3 => AskedTwo(l)) BY <1>2, <2>2 DEF Fair
    <3>2. CASE l.n_send > 3 BY <3>1, <3>2
    <3>3. CASE ~(l.n_send > 3)
      <4>1. Current(current_dns_server) = l.dns_server_used /\ Current(Next_dns_server) = l.dns_server_used
        BY <1>3, <1>4, <1>5, <3>3 DEF OutOfTries
      <4>2. current_dns_server \in 1 .. n_dns_servers BY <1>4, <3>1 DEF InList
      <4> QED BY <4>1, <4>2 DEF FollowsItself, Next_dns_server
    <3> QED BY <3>2, <3>3
  <2> QED BY <1>1, <1>5, <2>1, <2>2 DEF l
<1>6. CASE ~OutOfTries(l, Current(at)) /\ n_dns_servers = 0
  <2>1. lookups'[i] = [l EXCEPT !.n_send = @ + 1] BY <1>1, <1>6
  <2>2. lookups'[i].callback = l.callback BY <1>2, <2>1 DEF AvahiWideAreaLookup
  <2>3. ~(l.since = changes) BY <1>2, <1>6 DEF Fair
  <2>4. Fair(lookups'[i], changes, n_dns_servers) BY <1>2, <2>1, <2>3 DEF Fair, AvahiWideAreaLookup
  <2> QED BY <2>2, <2>4 DEF l
<1>7. CASE ~OutOfTries(l, Current(at)) /\ n_dns_servers # 0
  <2> DEFINE k == [Sent(l, Current(at)) EXCEPT !.n_send = l.n_send + 1]
  <2>1. lookups'[i] = k BY <1>1, <1>7
  <2>2. /\ k.dns_server_used = Current(at) /\ k.tried = l.tried \cup {Current(at)}
        /\ k.since = l.since /\ k.n_send = l.n_send + 1 /\ k.callback = l.callback
    BY <1>2 DEF AvahiWideAreaLookup, Sent
  <2> HIDE DEF k
  <2>3. ASSUME k.n_send > 3 PROVE AskedTwo(k)
    <3>1. Current(at) # l.dns_server_used BY <1>4, <1>7, <2>2, <2>3 DEF OutOfTries
    <3> QED BY <1>2, <2>2, <3>1 DEF Fair, AskedTwo
  <2>4. Fair(k, changes, n_dns_servers) BY <1>2, <1>4, <1>7, <2>2, <2>3 DEF Fair
  <2> QED BY <2>1, <2>2, <2>4 DEF l
<1> QED BY <1>5, <1>6, <1>7

LEMMA TurnsNext ==
  ASSUME WideTypeOK, InList, Turns, WideNext
  PROVE  Turns'
<1> USE DEF Ids
<1>0. \A i \in Ids : lookups[i] \in AvahiWideAreaLookup /\ Fair(lookups[i], changes, n_dns_servers)
  BY DEF WideTypeOK, Turns
<1>1. ASSUME NEW key \in Key, avahi_wide_area_lookup_new(key) PROVE Turns'
  <2> DEFINE l == [key |-> key, dead |-> FALSE, callback |-> TRUE, time_event |-> TRUE, n_send |-> 1,
                   dns_server_used |-> Current(current_dns_server),
                   tried |-> {Current(current_dns_server)}, since |-> changes, told |-> cache \cap Of(key)]
  <2>1. Fair(l, changes, n_dns_servers) BY <1>1 DEF Fair, WideTypeOK, avahi_wide_area_lookup_new
  <2>2. lookups' = [i \in Ids \cup {next_id} |-> IF i = next_id THEN l ELSE lookups[i]]
        /\ UNCHANGED <<changes, n_dns_servers>>
    BY <1>1 DEF avahi_wide_area_lookup_new
  <2> HIDE DEF l
  <2> QED BY <1>0, <2>1, <2>2 DEF Turns
<1>2. ASSUME NEW i \in Ids, sender_timeout_callback(i) PROVE Turns'
  <2>1. Fair(lookups'[i], changes, n_dns_servers) BY <1>2, TurnTaken
  <2>2. Ids' = Ids /\ (\A j \in Ids \ {i} : lookups'[j] = lookups[j]) /\ UNCHANGED <<changes, n_dns_servers>>
    BY <1>2 DEF sender_timeout_callback
  <2> QED BY <1>0, <2>1, <2>2 DEF Turns
<1>3. ASSUME NEW i \in Ids, avahi_wide_area_lookup_free(i) PROVE Turns'
  <2>1. Fair([Stopped(lookups[i]) EXCEPT !.dead = TRUE], changes, n_dns_servers)
    BY <1>0, StoppedTurn
  <2> QED BY <1>0, <1>3, <2>1 DEF avahi_wide_area_lookup_free, Turns
<1>4. ASSUME avahi_wide_area_cleanup PROVE Turns'
  BY <1>0, <1>4 DEF avahi_wide_area_cleanup, Turns
<1>5. ASSUME NEW i \in Ids, NEW records \in SUBSET WideRecord, NEW freed \in SUBSET Ids,
             handle_packet(i, records, freed)
      PROVE  Turns'
  <2> DEFINE telling == Telling(records \ cache)
  <2>1. \A j \in Ids : telling[j] \in AvahiWideAreaLookup BY TellingTyped
  <2>2. \A j \in Ids : Fair(telling[j], changes, n_dns_servers)
    BY <1>0, SameTurn DEF Telling, AvahiWideAreaLookup
  <2>3. lookups' = [j \in Ids |-> IF j \in freed THEN [Stopped(telling[j]) EXCEPT !.dead = TRUE]
                                  ELSE IF j = i THEN Stopped(telling[j]) ELSE telling[j]]
        /\ UNCHANGED <<changes, n_dns_servers>>
    BY <1>5 DEF handle_packet
  <2> HIDE DEF telling
  <2>4. \A j \in Ids : /\ Fair([Stopped(telling[j]) EXCEPT !.dead = TRUE], changes, n_dns_servers)
                       /\ Fair(Stopped(telling[j]), changes, n_dns_servers)
    BY <2>1, <2>2, StoppedTurn
  <2> QED BY <2>2, <2>3, <2>4 DEF Turns
<1>6. ASSUME NEW x \in WideRecord, expiry_event(x) PROVE Turns'
  <2>1. \A i \in Ids : Fair([lookups[i] EXCEPT !.told = @ \ {x}], changes, n_dns_servers)
    BY <1>0, SameTurn DEF AvahiWideAreaLookup
  <2> QED BY <1>6, <2>1 DEF expiry_event, Turns
<1>7. ASSUME NEW list \in ServerLists, avahi_wide_area_set_servers(list) PROVE Turns'
  <2>1. ASSUME NEW i \in Ids PROVE Fair([lookups[i] EXCEPT !.told = {}], changes + 1, Len(list))
    <3>1. lookups[i].since <= changes /\ changes \in Nat /\ lookups[i].since \in Nat
      BY <1>0 DEF Fair, AvahiWideAreaLookup, WideTypeOK
    <3> QED BY <1>0, <3>1 DEF Fair, AvahiWideAreaLookup
  <2> QED BY <1>7, <2>1 DEF avahi_wide_area_set_servers, Turns
<1> QED BY <1>1, <1>2, <1>3, <1>4, <1>5, <1>6, <1>7 DEF WideNext

-------------------------------------------------------------------------------
(* Theorems. *)

LEMMA Begins == WideInit => IInv
<1> SUFFICES ASSUME WideInit PROVE IInv OBVIOUS
<1>1. Ids = {} BY DEF WideInit, Ids
<1>2. dns_servers \in ServerLists /\ n_dns_servers = Len(dns_servers) /\ current_dns_server = 1
  BY DEF WideInit
<1>3. InList BY <1>2, ListFacts DEF InList
<1> QED BY <1>1, <1>3, TypedInit DEF IInv, Turns, EndsInTime, CacheIsTold, Active

LEMMA Goes == IInv /\ [WideNext]_wideVars => IInv'
<1>1. IInv /\ WideNext => IInv'
  BY TypedNext, InListNext, TurnsNext, TimersNext, ToldNext DEF IInv
<1>2. IInv /\ UNCHANGED wideVars => IInv'
  <2> SUFFICES ASSUME IInv, UNCHANGED wideVars PROVE IInv' OBVIOUS
  <2>1. WideTypeOK' BY TypedNext DEF IInv
  <2>2. InList' BY DEF IInv, wideVars, InList
  <2>3. Turns' BY DEF IInv, wideVars, Turns, Ids, Fair, AskedTwo
  <2>4. EndsInTime' BY DEF IInv, wideVars, EndsInTime, Ids
  <2>5. CacheIsTold' BY DEF IInv, wideVars, CacheIsTold, Active, Ids
  <2> QED BY <2>1, <2>2, <2>3, <2>4, <2>5 DEF IInv
<1> QED BY <1>1, <1>2

LEMMA AsksNext ==
  IInv /\ [WideNext]_wideVars =>
    [\A i \in Ids : TimesOut(i) => AskedTwo(lookups[i]) \/ FollowsItself(lookups[i].dns_server_used)]_wideVars
BY TurnTaken DEF IInv, Active, TimesOut

\* A lookup by ordinary DNS ends, not before it asked a second server unless the
\* first follows itself in the list, and tells all the shared cache holds for it
\* (wide-area.c): for lists of any length, with any repetition.
THEOREM AlwaysAnswers == WideSpec => WideAnswers
<1>1. IInv => WideTypeOK /\ EndsInTime /\ CacheIsTold BY DEF IInv
<1>2. WideSpec => []IInv BY Begins, Goes, PTL DEF WideSpec
<1>3. WideSpec => AsksAnother BY <1>2, AsksNext, PTL DEF WideSpec, AsksAnother
<1> QED BY <1>1, <1>2, <1>3, PTL DEF WideAnswers

-------------------------------------------------------------------------------
(* NameClients: the resolvers.  While a resolver has no record, its time runs   *)
(* or its failure was told, and none it was told of since is one it could take. *)

NoneMissed == r.browsing /\ r.record = Nothing => \A x \in r.told : ~Eligible(x)
ResolverInv == ResolverTypeOK /\ Answers /\ NoneMissed

LEMMA ResolverStarts == ResolverInit => ResolverInv
<1> SUFFICES ASSUME ResolverInit PROVE ResolverTypeOK /\ Answers /\ NoneMissed
  BY DEF ResolverInv
<1>1. PICK link \in Link \cup {Nothing} :
        r \in {NewResolver("host", link, FALSE)} \cup {NewResolver("address", link, w) : w \in BOOLEAN}
  BY DEF ResolverInit
<1>2. \E kind \in {"host", "address"}, w \in BOOLEAN : r = NewResolver(kind, link, w)
  BY <1>1
<1>3. r \in AvahiSResolver /\ r.told = {} /\ r.time_event
  BY <1>2 DEF NewResolver, AvahiSResolver, Source
<1>4. there \in [Source -> SUBSET Record] /\ answer = "none"
  BY DEF ResolverInit
<1> QED BY <1>3, <1>4 DEF ResolverTypeOK, Answers, NoneMissed

LEMMA ResolverGoes == ResolverInv /\ [ResolverNext]_resolverVars => ResolverInv'
<1> SUFFICES ASSUME ResolverTypeOK, Answers, NoneMissed, [ResolverNext]_resolverVars
             PROVE ResolverInv'
  BY DEF ResolverInv
<1> USE DEF ResolverInv
<1>0. /\ r \in AvahiSResolver /\ there \in [Source -> SUBSET Record]
      /\ answer \in {"none", "found", "failure"}
      /\ r.told \in SUBSET Record /\ r.link \in Link \cup {Nothing} /\ r.source \in Source
      /\ r.record \in Record \cup {Nothing}
  BY DEF ResolverTypeOK, AvahiSResolver
<1>1. ASSUME NEW x \in Record, RecordNew(x) PROVE ResolverInv'
  <2> DEFINE takes == Eligible(x) /\ r.record = Nothing
  <2>1. /\ r' = [r EXCEPT !.told = @ \cup {x}, !.link = IF Eligible(x) THEN x.link ELSE @,
                          !.record = IF takes THEN x ELSE @, !.time_event = @ /\ ~takes]
        /\ answer' = IF takes THEN "found" ELSE answer
        /\ there' = there
    BY <1>1 DEF RecordNew
  <2>2. x.link \in Link /\ x # Nothing
    BY NameAssumption DEF Record
  <2>3. /\ r'.told = r.told \cup {x} /\ r'.link = IF Eligible(x) THEN x.link ELSE r.link
        /\ r'.record = IF takes THEN x ELSE r.record
        /\ r'.time_event = (r.time_event /\ ~takes) /\ r'.browsing = r.browsing
    BY <1>0, <2>1 DEF AvahiSResolver
  <2>4. r' \in AvahiSResolver
    BY <1>0, <2>1, <2>2 DEF AvahiSResolver, Eligible
  <2>5. Answers'
    BY <2>1, <2>2, <2>3 DEF Answers
  <2>6. NoneMissed'
    BY <2>2, <2>3 DEF NoneMissed, Eligible
  <2> QED BY <1>0, <2>1, <2>4, <2>5, <2>6 DEF ResolverTypeOK
<1>2. ASSUME NEW x \in Record, RecordRemoved(x) PROVE ResolverInv'
  <2>1. /\ r' \in {Lost(x), [r EXCEPT !.told = @ \ {x}]}
        /\ UNCHANGED <<there, answer>>
    BY <1>2 DEF RecordRemoved
  <2>2. r' \in AvahiSResolver
    <3>1. {} \in SUBSET Record /\ r.told \ {x} \in SUBSET Record
      BY <1>0
    <3>2. [r EXCEPT !.told = r.told \ {x}] \in AvahiSResolver
      BY <1>0, <3>1 DEF AvahiSResolver
    <3>3. Lost(x) \in AvahiSResolver
      BY <1>0, <3>1 DEF AvahiSResolver, Lost
    <3> QED BY <2>1, <3>2, <3>3
  <2>3. CASE r' = Lost(x)
    BY <1>0, <2>1, <2>2, <2>3 DEF Lost, AvahiSResolver, ResolverTypeOK, Answers, NoneMissed
  <2>4. CASE r' = [r EXCEPT !.told = @ \ {x}]
    BY <1>0, <2>1, <2>2, <2>4 DEF AvahiSResolver, ResolverTypeOK, Answers, NoneMissed, Eligible
  <2> QED BY <2>1, <2>3, <2>4
<1>3. CASE BrowserFails
  <2>1. there' = there
    BY <1>3 DEF BrowserFails
  <2>2. CASE r' = [r EXCEPT !.retry_with_multicast = FALSE, !.source = "local", !.told = {},
                            !.time_event = TRUE] /\ answer' = answer
    BY <1>0, <2>1, <2>2 DEF AvahiSResolver, ResolverTypeOK, Answers, NoneMissed, Source
  <2>3. CASE r' = [r EXCEPT !.browsing = FALSE, !.time_event = FALSE] /\ answer' = "failure"
    BY <1>0, <2>1, <2>3 DEF AvahiSResolver, ResolverTypeOK, Answers, NoneMissed
  <2> QED BY <1>3, <2>2, <2>3 DEF BrowserFails
<1>4. CASE ResolverTimeout
  BY <1>0, <1>4 DEF ResolverTimeout, AvahiSResolver, ResolverTypeOK, Answers, NoneMissed, Eligible
<1>5. ASSUME NEW x \in Record, RecordAppears(r.source, x) \/ RecordGoes(r.source, x)
      PROVE ResolverInv'
  BY <1>0, <1>5 DEF RecordAppears, RecordGoes, ResolverTypeOK, Answers, NoneMissed, Eligible
<1>6. CASE UNCHANGED resolverVars
  BY <1>6 DEF resolverVars, ResolverTypeOK, Answers, NoneMissed, Eligible
<1> QED BY <1>1, <1>2, <1>3, <1>4, <1>5, <1>6 DEF ResolverNext

LEMMA ResolverKeeps == ResolverSpec => [](ResolverTypeOK /\ Answers /\ FindsAnother)
<1>1. ResolverInv => ResolverTypeOK /\ Answers /\ FindsAnother
  BY DEF ResolverInv, NoneMissed, FindsAnother
<1> QED BY <1>1, ResolverStarts, ResolverGoes, PTL DEF ResolverSpec

-------------------------------------------------------------------------------
(* NameClients: the browser for DNS servers.  A server whose host name is still *)
(* being resolved was not found before.                                         *)

ServerInv ==
  /\ ServerTypeOK /\ KnowsServers /\ IsFiniteSet(Infos)
  /\ \A x \in Infos : info[x].resolving => ~info[x].found

LEMMA ServerStarts == ServerInit => ServerInv
<1> SUFFICES ASSUME ServerInit PROVE ServerInv
  OBVIOUS
<1>1. Infos = {}
  BY DEF ServerInit, Infos
<1>2. IsFiniteSet(Infos) /\ Cardinality(Infos) = 0
  BY <1>1, FS_EmptySet
<1> QED BY <1>1, <1>2, NameAssumption DEF ServerInit, ServerInv, ServerTypeOK, KnowsServers

LEMMA ServerGoes == ServerInv /\ [ServerNext]_serverVars => ServerInv'
<1> SUFFICES ASSUME ServerInv, [ServerNext]_serverVars PROVE ServerInv'
  OBVIOUS
<1>0. /\ Infos \subseteq SrvRecord /\ (\A x \in Infos : info[x] \in Info)
      /\ srv \cup told \cup known \subseteq SrvRecord
      /\ known = {x \in Infos : info[x].found} /\ Infos \subseteq told
      /\ Cardinality(Infos) <= MaxInfo /\ MaxInfo \in Nat
      /\ IsFiniteSet(Infos) /\ \A x \in Infos : info[x].resolving => ~info[x].found
      /\ Cardinality(Infos) \in Nat
  BY NameAssumption, FS_CardinalityType DEF ServerInv, ServerTypeOK, KnowsServers
<1>1. ASSUME NEW x \in SrvRecord, SrvNew(x) PROVE ServerInv'
  <2>1. told' = told \cup {x} /\ UNCHANGED <<srv, known>>
    BY <1>1 DEF SrvNew
  <2>2. CASE info' = info
    BY <1>0, <2>1, <2>2 DEF ServerInv, ServerTypeOK, KnowsServers, Infos
  <2>3. CASE /\ x \notin Infos /\ ~(Cardinality(Infos) >= MaxInfo)
             /\ info' = [y \in Infos \cup {x} |-> IF y = x THEN [resolving |-> TRUE, found |-> FALSE]
                                                  ELSE info[y]]
    <3>1. Infos' = Infos \cup {x}
      BY <2>3 DEF Infos
    <3>2. IsFiniteSet(Infos') /\ Cardinality(Infos') = Cardinality(Infos) + 1
      BY <1>0, <2>3, <3>1, FS_AddElement
    <3>3. Cardinality(Infos') <= MaxInfo
      BY <1>0, <2>3, <3>2
    <3>4. /\ info'[x] = [resolving |-> TRUE, found |-> FALSE]
          /\ \A y \in Infos : info'[y] = info[y]
      BY <2>3
    <3>5. [resolving |-> TRUE, found |-> FALSE] \in Info
      BY DEF Info
    <3>6. \A y \in Infos' : info'[y] \in Info /\ (info'[y].resolving => ~info'[y].found)
      BY <1>0, <3>1, <3>4, <3>5
    <3>7. known' = {y \in Infos' : info'[y].found}
      BY <1>0, <2>1, <2>3, <3>1, <3>4
    <3> QED BY <1>0, <2>1, <3>1, <3>2, <3>3, <3>6, <3>7 DEF ServerInv, ServerTypeOK, KnowsServers
  <2> QED BY <1>1, <2>2, <2>3 DEF SrvNew
<1>2. ASSUME NEW x \in SrvRecord, SrvRemove(x) PROVE ServerInv'
  <2>1. told' = told \ {x} /\ UNCHANGED srv
    BY <1>2 DEF SrvRemove
  <2>2. CASE x \notin Infos
    BY <1>0, <1>2, <2>1, <2>2 DEF SrvRemove, ServerInv, ServerTypeOK, KnowsServers, Infos
  <2>3. CASE x \in Infos
    <3>1. info' = [y \in Infos \ {x} |-> info[y]] /\ known' = IF info[x].resolving THEN known ELSE known \ {x}
      BY <1>2, <2>3 DEF SrvRemove, Without
    <3>2. Infos' = Infos \ {x} /\ \A y \in Infos \ {x} : info'[y] = info[y]
      BY <3>1 DEF Infos
    <3>3. IsFiniteSet(Infos') /\ Cardinality(Infos') = Cardinality(Infos) - 1
      BY <1>0, <2>3, <3>2, FS_RemoveElement
    <3>4. Cardinality(Infos') <= MaxInfo
      BY <1>0, <3>3
    <3>5. known' = {y \in Infos' : info'[y].found}
      BY <1>0, <2>3, <3>1, <3>2
    <3> QED BY <1>0, <2>1, <3>2, <3>3, <3>4, <3>5 DEF ServerInv, ServerTypeOK, KnowsServers
  <2> QED BY <2>2, <2>3
<1>3. ASSUME NEW x \in SrvRecord, NEW found \in BOOLEAN, HostNameResolved(x, found) PROVE ServerInv'
  <2>1. /\ x \in Infos /\ info[x].resolving /\ UNCHANGED <<srv, told>>
        /\ info' = [info EXCEPT ![x] = Resolved(info[x], found)]
        /\ known' = IF found THEN known \cup {x} ELSE known
    BY <1>3 DEF HostNameResolved
  <2>2. Infos' = Infos
    BY <2>1 DEF Infos
  <2>3. info'[x] = [resolving |-> FALSE, found |-> found] /\ \A y \in Infos \ {x} : info'[y] = info[y]
    BY <2>1 DEF Resolved, Infos
  <2>4. [resolving |-> FALSE, found |-> found] \in Info
    BY DEF Info
  <2>5. \A y \in Infos' : info'[y] \in Info /\ (info'[y].resolving => ~info'[y].found)
    BY <1>0, <2>2, <2>3, <2>4
  <2>6. known' = {y \in Infos' : info'[y].found}
    BY <1>0, <2>1, <2>2, <2>3
  <2> QED BY <1>0, <2>1, <2>2, <2>5, <2>6 DEF ServerInv, ServerTypeOK, KnowsServers
<1>4. ASSUME NEW x \in SrvRecord, SrvChanges(x) PROVE ServerInv'
  BY <1>0, <1>4 DEF SrvChanges, ServerInv, ServerTypeOK, KnowsServers, Infos
<1>5. CASE UNCHANGED serverVars
  BY <1>5 DEF serverVars, ServerInv, ServerTypeOK, KnowsServers, Infos
<1> QED BY <1>1, <1>2, <1>3, <1>4, <1>5 DEF ServerNext

LEMMA ServerKeeps == ServerSpec => [](ServerTypeOK /\ KnowsServers)
<1>1. ServerInv => ServerTypeOK /\ KnowsServers
  BY DEF ServerInv
<1> QED BY <1>1, ServerStarts, ServerGoes, PTL DEF ServerSpec

-------------------------------------------------------------------------------
(* NameClients: the browser for domains.  Its references are its user's and, in *)
(* defer_callback, the loop's own; once that has ended, every domain of the     *)
(* configuration was told of.                                                   *)

OnStack == calling \in {"loop", "static", "last"}
DomainInv ==
  /\ DomainTypeOK /\ StaticsFirst
  /\ b.ref = (IF b.owned THEN 1 ELSE 0) + (IF OnStack THEN 1 ELSE 0)
  /\ OnStack => ~b.defer_event
  /\ \A i \in 1 .. b.l : <<Static[i], "static">> \in listed
  /\ b.kind = "browse" =>
       /\ complete \/ calling = "last" => b.l = Len(Static)
       /\ b.owned /\ ~b.defer_event /\ calling \notin {"loop", "static"} => b.l = Len(Static)

(* avahi_s_domain_browser_free takes back one reference.                        *)
LEMMA UnrefTyped ==
  ASSUME NEW x \in AvahiSDomainBrowser, x.ref > 0
  PROVE  /\ Unref(x) \in AvahiSDomainBrowser /\ Unref(x).ref = x.ref - 1
         /\ Unref(x).owned = x.owned /\ Unref(x).l = x.l /\ Unref(x).kind = x.kind
         /\ Unref(x).defer_event => x.defer_event
<1> DEFINE n == x.ref - 1
           d == x.defer_event /\ x.ref > 1
<1>1. n \in 0 .. 2 /\ d \in BOOLEAN
  BY DEF AvahiSDomainBrowser
<1>2. Unref(x) = [x EXCEPT !.ref = n, !.defer_event = d]
  BY DEF Unref
<1>3. d => x.defer_event
  OBVIOUS
<1> HIDE DEF n, d
<1>4. Unref(x) \in AvahiSDomainBrowser
  BY <1>1, <1>2 DEF AvahiSDomainBrowser
<1>5. /\ Unref(x).ref = n /\ Unref(x).defer_event = d
      /\ Unref(x).owned = x.owned /\ Unref(x).l = x.l /\ Unref(x).kind = x.kind
  BY <1>2 DEF AvahiSDomainBrowser
<1> QED BY <1>3, <1>4, <1>5 DEF n

(* defer_callback takes one of its own.                                         *)
LEMMA ReferencedTyped ==
  ASSUME NEW x \in AvahiSDomainBrowser
  PROVE  [x EXCEPT !.defer_event = FALSE, !.ref = 2] \in AvahiSDomainBrowser
<1>1. [x EXCEPT !.ref = 2] \in AvahiSDomainBrowser
  BY DEF AvahiSDomainBrowser
<1>2. \A y \in AvahiSDomainBrowser : [y EXCEPT !.defer_event = FALSE] \in AvahiSDomainBrowser
  BY DEF AvahiSDomainBrowser
<1>3. [x EXCEPT !.defer_event = FALSE, !.ref = 2] = [[x EXCEPT !.ref = 2] EXCEPT !.defer_event = FALSE]
  BY DEF AvahiSDomainBrowser
<1> QED BY <1>1, <1>2, <1>3

LEMMA DomainStarts == DomainInit => DomainInv
<1> SUFFICES ASSUME DomainInit PROVE DomainInv
  OBVIOUS
<1>1. /\ b \in {NewTypeBrowser, NewDomainBrowser("browse"), NewDomainBrowser("other")}
      /\ domains = {} /\ listed = {} /\ complete = FALSE /\ calling = "nobody"
  BY DEF DomainInit
<1>2. Len(Static) \in Nat /\ (Static = <<>> => Len(Static) = 0)
  BY NameAssumption
<1>3. \E kind \in {"browse", "other", "types"}, d \in BOOLEAN :
        /\ b = [ref |-> 1, kind |-> kind, defer_event |-> d, all_for_now_scheduled |-> FALSE,
                owned |-> TRUE, l |-> 0]
        /\ kind = "browse" => (d <=> Static # <<>>)
  <2>1. b = NewTypeBrowser \/ b = NewDomainBrowser("browse") \/ b = NewDomainBrowser("other")
    BY <1>1
  <2>2. CASE b = NewTypeBrowser
    BY <2>2 DEF NewTypeBrowser
  <2>3. CASE b = NewDomainBrowser("browse") \/ b = NewDomainBrowser("other")
    BY <2>3 DEF NewDomainBrowser
  <2> QED BY <2>1, <2>2, <2>3
<1>4. /\ b \in AvahiSDomainBrowser /\ b.ref = 1 /\ b.owned /\ b.l = 0
      /\ b.kind = "browse" => (b.defer_event <=> Static # <<>>)
  BY <1>2, <1>3 DEF AvahiSDomainBrowser
<1>5. ~OnStack
  BY <1>1 DEF OnStack
<1>6. DomainTypeOK /\ StaticsFirst
  BY <1>1, <1>4 DEF DomainTypeOK, StaticsFirst
<1> QED BY <1>1, <1>2, <1>4, <1>5, <1>6 DEF DomainInv

(* What the actions find: a browser nobody calls has its user yet.              *)
LEMMA DomainFacts ==
  ASSUME DomainInv
  PROVE  /\ b \in AvahiSDomainBrowser /\ b.ref \in 0 .. 2 /\ b.owned \in BOOLEAN
         /\ b.defer_event \in BOOLEAN /\ b.l \in 0 .. Len(Static) /\ Len(Static) \in Nat
         /\ Idle => b.owned /\ ~OnStack
         /\ OnStack /\ Exists => b.owned
         /\ OnStack /\ ~Exists => ~b.owned /\ b.ref = 1
<1>1. /\ b \in AvahiSDomainBrowser /\ b.ref \in 0 .. 2 /\ b.owned \in BOOLEAN
      /\ b.defer_event \in BOOLEAN /\ b.l \in 0 .. Len(Static) /\ Len(Static) \in Nat
      /\ b.ref = (IF b.owned THEN 1 ELSE 0) + (IF OnStack THEN 1 ELSE 0)
  BY NameAssumption DEF DomainInv, DomainTypeOK, AvahiSDomainBrowser
<1> QED BY <1>1 DEF Idle, OnStack, Exists

LEMMA AllTold ==
  ASSUME DomainInv, b.l = Len(Static)
  PROVE  \A n \in Statics : <<n, "static">> \in listed
<1>1. DOMAIN Static = 1 .. Len(Static)
  BY NameAssumption
<1> QED BY <1>1 DEF DomainInv, Statics

(* Names told of by a record browser: none of them is one of the configuration. *)
LEMMA RecordTold ==
  ASSUME DomainInv, NEW n \in Domain, NameNew(n) \/ NameRemoved(n)
  PROVE  DomainInv'
<1>1. Idle /\ UNCHANGED <<b, complete>> /\ domains' \subseteq Domain
  BY DEF NameNew, NameRemoved, DomainInv, DomainTypeOK
<1>2. \/ UNCHANGED <<listed, calling>>
      \/ /\ Passes(n) /\ calling' = "records"
         /\ listed' = listed \cup {<<n, "record">>} \/ listed' = listed \ {<<n, "record">>}
  BY DEF NameNew, NameRemoved
<1>3. calling' = calling \/ calling' = "records"
  BY <1>2
<1>4. ~OnStack /\ ~OnStack' /\ calling = "nobody"
  BY <1>1, <1>3 DEF Idle, OnStack
<1>5. \A x : <<x, "static">> \in listed' <=> <<x, "static">> \in listed
  BY <1>2
<1>6. b.kind = "browse" => \A x \in Statics : <<x, "record">> \notin listed'
  <2>1. b.kind = "browse" /\ Passes(n) => n \notin Statics
    BY DEF Passes, DomainPasses
  <2>2. b.kind = "browse" => \A x \in Statics : <<x, "record">> \notin listed
    BY DEF DomainInv, StaticsFirst
  <2>3. \A x : <<x, "record">> \in listed' => <<x, "record">> \in listed \/ (x = n /\ Passes(n))
    BY <1>2
  <2> QED BY <2>1, <2>2, <2>3
<1>7. listed' \subseteq (Domain \cup Statics) \X {"record", "static"}
  BY <1>2 DEF DomainInv, DomainTypeOK
<1>8. DomainTypeOK'
  BY <1>1, <1>3, <1>7 DEF DomainInv, DomainTypeOK
<1>9. StaticsFirst'
  BY <1>1, <1>5, <1>6 DEF DomainInv, StaticsFirst
<1> QED BY <1>1, <1>3, <1>4, <1>5, <1>8, <1>9 DEF DomainInv

LEMMA DomainGoes == DomainInv /\ [DomainNext]_domainVars => DomainInv'
<1> SUFFICES ASSUME DomainInv, [DomainNext]_domainVars PROVE DomainInv'
  OBVIOUS
<1> USE DomainFacts
<1>1. ASSUME NEW n \in Domain, NameNew(n) \/ NameRemoved(n) PROVE DomainInv'
  BY <1>1, RecordTold
<1>2. CASE AllForNow
  <2>1. Idle /\ UNCHANGED <<domains, listed>>
    BY <1>2 DEF AllForNow
  <2>2. CASE b.defer_event
    <3>1. b' = [b EXCEPT !.all_for_now_scheduled = TRUE] /\ UNCHANGED <<complete, calling>>
      BY <1>2, <2>2 DEF AllForNow, Deferred
    <3>2. /\ b' \in AvahiSDomainBrowser /\ b'.ref = b.ref /\ b'.owned = b.owned /\ b'.l = b.l
          /\ b'.kind = b.kind /\ b'.defer_event = b.defer_event
      BY <3>1 DEF AvahiSDomainBrowser
    <3> QED BY <2>1, <3>1, <3>2 DEF DomainInv, DomainTypeOK, StaticsFirst, OnStack
  <2>3. CASE ~b.defer_event
    <3>1. complete' = TRUE /\ calling' = "records" /\ b' = b
      BY <1>2, <2>3 DEF AllForNow, Deferred
    <3>2. calling = "nobody" /\ b.owned
      BY <2>1 DEF Idle
    <3>3. b.kind = "browse" => b.l = Len(Static)
      BY <2>3, <3>2 DEF DomainInv
    <3>4. StaticsFirst'
      BY <2>1, <3>1, <3>3, AllTold DEF DomainInv, StaticsFirst
    <3> QED BY <2>1, <3>1, <3>2, <3>3, <3>4 DEF DomainInv, DomainTypeOK, OnStack
  <2> QED BY <2>2, <2>3
<1>3. CASE DeferCallback
  <2>1. /\ Idle /\ b.defer_event /\ calling = "nobody" /\ calling' = "loop"
        /\ b' = [b EXCEPT !.defer_event = FALSE, !.ref = @ + 1]
        /\ UNCHANGED <<domains, listed, complete>>
    BY <1>3 DEF DeferCallback, Idle
  <2>2. b.owned /\ b.ref = 1
    BY <2>1 DEF DomainInv, OnStack, Idle
  <2>3. /\ b' \in AvahiSDomainBrowser /\ b'.ref = 2 /\ b'.owned = b.owned /\ b'.l = b.l
        /\ b'.kind = b.kind /\ ~b'.defer_event
    <3>1. b' = [b EXCEPT !.defer_event = FALSE, !.ref = 2]
      BY <2>1, <2>2
    <3>2. b \in AvahiSDomainBrowser
      BY DomainFacts
    <3>3. b' \in AvahiSDomainBrowser
      BY <3>1, <3>2, ReferencedTyped
    <3>4. b'.ref = 2 /\ b'.owned = b.owned /\ b'.l = b.l /\ b'.kind = b.kind
      BY <3>1, <3>2 DEF AvahiSDomainBrowser
    <3>5. b'.defer_event = FALSE
      BY <3>1, <3>2 DEF AvahiSDomainBrowser
    <3> QED BY <3>3, <3>4, <3>5
  <2> QED BY <2>1, <2>2, <2>3 DEF DomainInv, DomainTypeOK, StaticsFirst, OnStack
<1>4. CASE TellStatic
  <2>1. /\ calling = "loop" /\ Exists /\ b.l < Len(Static) /\ calling' = "static"
        /\ b' = [b EXCEPT !.l = @ + 1] /\ listed' = listed \cup {<<Static[b.l + 1], "static">>}
        /\ UNCHANGED <<domains, complete>>
    BY <1>4 DEF TellStatic
  <2>2. OnStack /\ OnStack'
    BY <2>1 DEF OnStack
  <2>3. /\ b' \in AvahiSDomainBrowser /\ b'.ref = b.ref /\ b'.owned = b.owned /\ b'.l = b.l + 1
        /\ b'.kind = b.kind /\ b'.defer_event = b.defer_event
    BY <2>1 DEF AvahiSDomainBrowser
  <2>4. Static[b.l + 1] \in Statics
    BY <2>1, NameAssumption DEF Statics
  <2>5. b.kind = "browse" => ~complete
    BY <2>1 DEF DomainInv
  <2>6. DomainTypeOK'
    BY <2>1, <2>3, <2>4 DEF DomainInv, DomainTypeOK
  <2>7. StaticsFirst'
    BY <2>1, <2>3, <2>5 DEF DomainInv, StaticsFirst
  <2>8. \A i \in 1 .. b'.l : <<Static[i], "static">> \in listed'
    <3>1. \A i \in 1 .. b.l : <<Static[i], "static">> \in listed
      BY DEF DomainInv
    <3>2. \A i \in 1 .. b'.l : i \in 1 .. b.l \/ i = b.l + 1
      BY <2>3
    <3> QED BY <2>1, <3>1, <3>2
  <2> QED BY <2>1, <2>2, <2>3, <2>5, <2>6, <2>7, <2>8 DEF DomainInv
<1>5. CASE DeferEnds
  <2>1. /\ calling = "loop" /\ (b.l = Len(Static) \/ ~Exists) /\ UNCHANGED <<domains, listed>>
        /\ complete' = (complete \/ (Exists /\ b.all_for_now_scheduled))
        /\ calling' = IF Exists /\ b.all_for_now_scheduled THEN "last" ELSE "nobody"
        /\ b' = IF calling' = "last" THEN b ELSE Unref(b)
    BY <1>5 DEF DeferEnds
  <2>2. OnStack /\ ~b.defer_event
    BY <2>1 DEF OnStack, DomainInv
  <2>3. CASE Exists /\ b.all_for_now_scheduled
    <3>1. calling' = "last" /\ b' = b /\ complete' /\ b.l = Len(Static)
      BY <2>1, <2>3
    <3>2. StaticsFirst'
      BY <2>1, <3>1, AllTold DEF DomainInv, StaticsFirst
    <3> QED BY <2>1, <2>2, <3>1, <3>2 DEF DomainInv, DomainTypeOK, OnStack
  <2>4. CASE ~(Exists /\ b.all_for_now_scheduled)
    <3>1. calling' = "nobody" /\ complete' = complete
      BY <2>1, <2>4 DEF DomainInv, DomainTypeOK
    <3>2. b' = Unref(b)
      BY <2>1, <3>1
    <3>3. /\ b' \in AvahiSDomainBrowser /\ b'.ref = b.ref - 1 /\ b'.owned = b.owned /\ b'.l = b.l
          /\ b'.kind = b.kind /\ ~b'.defer_event
      BY <2>2, <3>2, UnrefTyped DEF DomainInv
    <3>4. b.owned => b.l = Len(Static)
      BY <2>1, <2>2
    <3>5. DomainTypeOK' /\ StaticsFirst'
      BY <2>1, <3>1, <3>3 DEF DomainInv, DomainTypeOK, StaticsFirst
    <3>6. b'.ref = (IF b'.owned THEN 1 ELSE 0) + (IF OnStack' THEN 1 ELSE 0)
      BY <2>2, <3>1, <3>3 DEF DomainInv, OnStack
    <3> QED BY <2>1, <3>1, <3>3, <3>4, <3>5, <3>6 DEF DomainInv
  <2> QED BY <2>3, <2>4
<1>6. CASE CallbackReturns
  <2>1. /\ calling \in {"records", "static", "last"} /\ UNCHANGED <<domains, listed, complete>>
        /\ calling' = IF calling = "static" THEN "loop" ELSE "nobody"
        /\ b' = IF calling = "last" THEN Unref(b) ELSE b
    BY <1>6 DEF CallbackReturns
  <2>2. CASE calling # "last"
    <3>1. b' = b
      BY <2>1, <2>2
    <3> QED BY <2>1, <2>2, <3>1 DEF DomainInv, DomainTypeOK, StaticsFirst, OnStack
  <2>3. CASE calling = "last"
    <3>1. OnStack /\ ~b.defer_event
      BY <2>3 DEF OnStack, DomainInv
    <3>2. /\ b' \in AvahiSDomainBrowser /\ b'.ref = b.ref - 1 /\ b'.owned = b.owned /\ b'.l = b.l
          /\ b'.kind = b.kind /\ ~b'.defer_event
      <4>1. b' = Unref(b) /\ b.ref > 0
        BY <2>1, <2>3, <3>1 DEF DomainInv
      <4> QED BY <3>1, <4>1, UnrefTyped
    <3>3. DomainTypeOK' /\ StaticsFirst'
      BY <2>1, <2>3, <3>2 DEF DomainInv, DomainTypeOK, StaticsFirst
    <3> QED BY <2>1, <2>3, <3>1, <3>2, <3>3 DEF DomainInv, OnStack
  <2> QED BY <2>2, <2>3
<1>7. CASE DomainBrowserFree
  <2>1. /\ b.owned /\ calling # "loop" /\ UNCHANGED <<domains, listed, complete, calling>>
        /\ b' = [Unref(b) EXCEPT !.owned = FALSE]
    BY <1>7 DEF DomainBrowserFree
  <2>2. b.ref = 1 + (IF OnStack THEN 1 ELSE 0)
    BY <2>1 DEF DomainInv
  <2>3. /\ b' \in AvahiSDomainBrowser /\ b'.ref = b.ref - 1 /\ ~b'.owned /\ b'.l = b.l
        /\ b'.kind = b.kind /\ (b'.defer_event => b.defer_event)
    <3>1. b.ref > 0
      BY <2>2
    <3>2. /\ Unref(b) \in AvahiSDomainBrowser /\ Unref(b).ref = b.ref - 1 /\ Unref(b).l = b.l
          /\ Unref(b).kind = b.kind /\ (Unref(b).defer_event => b.defer_event)
      BY <3>1, UnrefTyped
    <3> HIDE DEF Unref
    <3> QED BY <2>1, <3>2 DEF AvahiSDomainBrowser
  <2>4. DomainTypeOK' /\ StaticsFirst'
    BY <2>1, <2>3 DEF DomainInv, DomainTypeOK, StaticsFirst
  <2> QED BY <2>1, <2>2, <2>3, <2>4 DEF DomainInv, OnStack
<1>8. CASE UNCHANGED domainVars
  BY <1>8 DEF domainVars, DomainInv, DomainTypeOK, StaticsFirst, OnStack
<1> QED BY <1>1, <1>2, <1>3, <1>4, <1>5, <1>6, <1>7, <1>8 DEF DomainNext

LEMMA DomainOwner == DomainInv /\ [DomainNext]_domainVars =>
  [calling' \in {"records", "static", "last"} /\ calling # calling' => b.owned]_domainVars
<1> SUFFICES ASSUME DomainInv, DomainNext, calling' \in {"records", "static", "last"}, calling # calling'
             PROVE  b.owned
  OBVIOUS
<1>1. CASE Idle
  BY <1>1, DomainFacts
<1>2. CASE calling = "loop" /\ Exists
  BY <1>2, DomainFacts DEF OnStack
<1> QED BY <1>1, <1>2 DEF DomainNext, NameNew, NameRemoved, AllForNow, DeferCallback, TellStatic,
                          DeferEnds, CallbackReturns, DomainBrowserFree

(* The resolvers of names and the browser for DNS servers answer with what      *)
(* there is, through restarts, failures and removals.                           *)
THEOREM NamesAreAnswered == NameSpec => []NamesAnswered
<1>1. DomainInv => DomainTypeOK
  BY DEF DomainInv
<1>2. DomainSpec => []DomainTypeOK
  BY <1>1, DomainStarts, DomainGoes, PTL DEF DomainSpec
<1> QED BY <1>2, ResolverKeeps, ServerKeeps, PTL DEF NameSpec, NamesAnswered, NameTypeOK

(* The user of a browser for domains hears of those of the configuration first, *)
(* and nothing any more once it has freed the browser.                          *)
THEOREM DomainsComeInOrder == DomainSpec => DomainsInOrder
<1>1. DomainInv => StaticsFirst
  BY DEF DomainInv
<1>2. DomainSpec => []DomainInv
  BY DomainStarts, DomainGoes, PTL DEF DomainSpec
<1> QED BY <1>1, <1>2, DomainOwner, PTL DEF DomainSpec, DomainsInOrder, CallsOwner

-------------------------------------------------------------------------------
(* DaemonClient.  The numbers of a connection's subordinates only go up, so a    *)
(* reply or a task that a released operation left never has a living one's       *)
(* number; memory that is no connection has nothing of one; what the daemon      *)
(* closed it works on no more.                                                   *)

DaemonTyped ==
  /\ op \in [Op -> DNSServiceOp \cup {None}]
  /\ wire \in [Op -> Seq(Reply)] /\ \A o \in Op : Len(wire[o]) <= MaxReplies
  /\ served \in [Op -> SUBSET Task] /\ cancels \in [Op -> SUBSET (0 .. MaxUid)]
  /\ eof \subseteq Op /\ up \in BOOLEAN
  /\ proc \in Processing \cup {None}

Numbered ==
  \A o \in Op : Valid(o) /\ op[o].primary # None =>
    /\ op[o].primary \in Watched /\ op[op[o].primary].op = "connection"
    /\ op[o].uid \in 1 .. op[op[o].primary].uid /\ ~op[o].moreptr
    /\ \A x \in Op : Valid(x) /\ op[x].primary = op[o].primary /\ op[x].uid = op[o].uid => x = o

NothingLeft ==
  /\ \A c \in Op \ Watched : wire[c] = <<>> /\ served[c] = {} /\ cancels[c] = {}
  /\ eof \subseteq Watched /\ \A c \in eof : served[c] = {} /\ cancels[c] = {}

\* A reply or a task of a connection.
Mark(c, m) == IF op[c].op = "connection"
              THEN m.uid <= op[c].uid /\ \A o \in Subordinates(c) : op[o].uid = m.uid => m.live
              ELSE m.live
Marked ==
  \A c \in Watched : /\ \A t \in served[c] : Mark(c, t)
                     /\ \A i \in DOMAIN wire[c] : Mark(c, wire[c][i])

\* Only services have records.
Listing == \A o \in Op : Valid(o) /\ op[o].rec # {} => op[o].op = "register"

DaemonInv == /\ DaemonTyped /\ LoopIsTold /\ Numbered /\ NothingLeft /\ Marked
             /\ NoOrphans /\ RecordsKnown /\ Listing

LEMMA DaemonStarts == DaemonInit => DaemonInv
<1> SUFFICES ASSUME DaemonInit PROVE DaemonInv
  OBVIOUS
<1>1. /\ op = [o \in Op |-> None] /\ wire = [o \in Op |-> <<>>]
      /\ served = [o \in Op |-> {}] /\ cancels = [o \in Op |-> {}]
      /\ eof = {} /\ up = TRUE /\ proc = None
  BY DEF DaemonInit
<1>2. \A o \in Op : ~Valid(o)
  BY <1>1 DEF Valid
<1>3. DaemonTyped
  BY <1>1, DaemonAssumption DEF DaemonTyped
<1>4. LoopIsTold /\ Numbered /\ Marked /\ RecordsKnown /\ Listing
  BY <1>1, <1>2 DEF LoopIsTold, Numbered, Marked, RecordsKnown, Listing, Watched
<1>5. NothingLeft /\ NoOrphans
  BY <1>1 DEF NothingLeft, NoOrphans
<1> QED BY <1>3, <1>4, <1>5 DEF DaemonInv

(* The invariant says at least what the properties say.                         *)
LEMMA DaemonInvSays == DaemonInv => RepliesKept /\ SharingKept
<1> SUFFICES ASSUME DaemonInv PROVE RepliesKept /\ SharingKept
  OBVIOUS
<1> USE DEF DaemonInv
<1>1. DaemonTypeOK
  <2>1. Seq(Reply) \subseteq Seq(Reply \cup {Code})
    OBVIOUS
  <2> QED BY <2>1 DEF DaemonTyped, DaemonTypeOK
<1>2. WireIsReplies
  <2>1. \A c \in Op : \A i \in DOMAIN wire[c] : wire[c][i] \in Reply
    BY DEF DaemonTyped
  <2> QED BY <2>1, DaemonAssumption DEF WireIsReplies
<1>3. SharesLive
  BY DEF Numbered, SharesLive, Watched, Subordinates
<1>4. OwnReplies
  <2> SUFFICES ASSUME NEW o \in Op, Valid(o), NEW i \in DOMAIN wire[Socket(o)],
                      o \in Targets(Socket(o), wire[Socket(o)][i])
               PROVE  wire[Socket(o)][i].live
    BY DEF OwnReplies
  <2> DEFINE c == Socket(o)
             m == wire[c][i]
  <2>1. c \in Watched
    BY DEF Socket, Watched, Numbered
  <2>2. Mark(c, m)
    BY <2>1 DEF Marked
  <2>3. CASE op[c].op = "connection"
    BY <2>2, <2>3 DEF Targets, Mark
  <2>4. CASE op[c].op # "connection"
    BY <2>2, <2>4 DEF Mark
  <2> QED BY <2>3, <2>4
<1> QED BY <1>1, <1>2, <1>3, <1>4 DEF RepliesKept, SharingKept

LEMMA NewFacts ==
  ASSUME NEW kind \in {"connection", "register", "request"}, NEW p \in Op \cup {None},
         p # None => op[p].uid \in Nat /\ op[p].uid < MaxUid
  PROVE  /\ New(kind, p) \in DNSServiceOp /\ New(kind, p) # None
         /\ New(kind, p).primary = p /\ New(kind, p).op = kind /\ ~New(kind, p).moreptr
         /\ New(kind, p).rec = {}
         /\ New(kind, p).uid = (IF p = None THEN 0 ELSE op[p].uid + 1)
<1>1. MaxUid \in Nat /\ MaxIndex \in Nat
  BY DaemonAssumption
<1>2. (IF p = None THEN 0 ELSE op[p].uid + 1) \in 0 .. MaxUid
  BY <1>1
<1>3. New(kind, p) \in DNSServiceOp
  BY <1>1, <1>2 DEF New, DNSServiceOp
<1> QED BY <1>3, DaemonAssumption DEF New

(* What an operation is, and whom it shares a connection with.                  *)
LEMMA OpFacts ==
  ASSUME DaemonTyped, NEW o \in Op, Valid(o)
  PROVE  /\ op[o] \in DNSServiceOp /\ op[o].uid \in 0 .. MaxUid /\ op[o].primary \in Op \cup {None}
         /\ op[o].moreptr \in BOOLEAN /\ op[o].rec \subseteq 0 .. MaxIndex - 1
         /\ op[o].max_index \in 0 .. MaxIndex
BY DEF DaemonTyped, Valid, DNSServiceOp

LEMMA SocketWatched ==
  ASSUME Numbered, NEW o \in Op, Valid(o)
  PROVE  Socket(o) \in Watched
BY DEF Numbered, Socket, Watched

LEMMA ConnectKeeps ==
  ASSUME DaemonInv, NEW o \in Op, NEW kind \in {"connection", "register", "request"}, Connect(o, kind)
  PROVE  DaemonInv'
<1> USE DEF DaemonInv
<1> DEFINE new == New(kind, None)
           tasks == IF kind = "connection" THEN {} ELSE {[uid |-> 0, live |-> TRUE, recs |-> {}]}
<1>1. /\ ~Valid(o) /\ op' = [op EXCEPT ![o] = new] /\ served' = [served EXCEPT ![o] = tasks]
      /\ wire' = [wire EXCEPT ![o] = <<>>] /\ UNCHANGED <<cancels, eof, up, proc>>
  BY DEF Connect, Waiting, Separate
<1>2. /\ new \in DNSServiceOp /\ new # None /\ new.primary = None /\ new.op = kind
      /\ ~new.moreptr /\ new.uid = 0 /\ new.rec = {}
  <2>1. None \in Op \cup {None}
    OBVIOUS
  <2> QED BY <2>1, NewFacts
<1>3. tasks \in SUBSET Task
  BY DaemonAssumption DEF Task
<1>4. \A t \in tasks : t.live /\ t.uid = 0 /\ t.recs = {}
  OBVIOUS
<1>5. kind = "connection" => tasks = {}
  OBVIOUS
<1> HIDE DEF new, tasks
<1>6. /\ op'[o] = new /\ served'[o] = tasks /\ wire'[o] = <<>>
      /\ \A x \in Op \ {o} : op'[x] = op[x] /\ served'[x] = served[x] /\ wire'[x] = wire[x]
  BY <1>1 DEF DaemonTyped
<1>7. o \notin Watched /\ Watched' = Watched \cup {o}
  BY <1>1, <1>2, <1>6 DEF Watched, Valid
<1>8. DaemonTyped'
  <2>1. \A x \in Op : Len(wire'[x]) <= MaxReplies
    BY <1>6, DaemonAssumption DEF DaemonTyped
  <2> QED BY <1>1, <1>2, <1>3, <2>1 DEF DaemonTyped
<1>9. \A x \in Op : Valid(x) => (Valid(x)' /\ x # o)
  BY <1>1, <1>6 DEF Valid
<1>10. \A x \in Op : Valid(x)' => (x = o \/ Valid(x))
  BY <1>1, <1>6 DEF Valid
<1>11. LoopIsTold'
  <2>1. proc' = proc /\ (proc = None \/ proc.on \in Op)
    BY <1>1 DEF DaemonTyped, Processing
  <2> QED BY <1>2, <1>6, <1>9, <1>10, <2>1 DEF LoopIsTold
<1>12. \A x \in Op : Valid(x) => op[x].primary # o
  BY <1>2, <1>7, DaemonAssumption DEF Numbered
<1>13. Numbered'
  <2> SUFFICES ASSUME NEW x \in Op, Valid(x)', op'[x].primary # None
               PROVE  /\ op'[x].primary \in Watched' /\ op'[op'[x].primary].op = "connection"
                      /\ op'[x].uid \in 1 .. op'[op'[x].primary].uid /\ ~op'[x].moreptr
                      /\ \A y \in Op : Valid(y)' /\ op'[y].primary = op'[x].primary
                                         /\ op'[y].uid = op'[x].uid => y = x
    BY DEF Numbered
  <2>1. x # o /\ Valid(x) /\ op'[x] = op[x]
    BY <1>2, <1>6, <1>10
  <2>2. op[x].primary \in Watched /\ op'[op[x].primary] = op[op[x].primary]
    BY <1>6, <1>7, <2>1 DEF Numbered, Watched
  <2> QED BY <1>2, <1>6, <1>7, <1>10, <2>1, <2>2 DEF Numbered
<1>14. NothingLeft'
  BY <1>1, <1>6, <1>7 DEF NothingLeft, Watched
<1>15. \A c \in Watched : Subordinates(c)' = Subordinates(c)
  BY <1>2, <1>6, <1>9, <1>10, DaemonAssumption DEF Subordinates, Watched
<1>16. Marked'
  <2> SUFFICES ASSUME NEW c \in Watched'
               PROVE  /\ \A t \in served'[c] : Mark(c, t)'
                      /\ \A i \in DOMAIN wire'[c] : Mark(c, wire[c][i])'
    BY DEF Marked
  <2>1. CASE c = o
    BY <1>2, <1>4, <1>5, <1>6, <2>1 DEF Mark
  <2>2. CASE c \in Watched /\ c # o
    <3>1. op'[c] = op[c] /\ Subordinates(c)' = Subordinates(c)
      BY <1>6, <1>15, <2>2 DEF Watched
    <3>2. \A x \in Subordinates(c) : op'[x] = op[x]
      BY <1>1, <1>6 DEF Subordinates
    <3>3. \A m : Mark(c, m) => Mark(c, m)'
      BY <3>1, <3>2 DEF Mark
    <3> QED BY <1>6, <2>2, <3>3 DEF Marked, Watched
  <2> QED BY <1>7, <2>1, <2>2
<1>17. NoOrphans'
  BY <1>1, <1>4, <1>6 DEF NoOrphans
<1>18. RecordsKnown'
  <2> SUFFICES ASSUME NEW x \in Op, Valid(x)', op'[x].op = "register"
               PROVE  Known(x)' \subseteq op'[x].rec /\ \A i \in Known(x)' : i < op'[x].max_index
    BY DEF RecordsKnown
  <2>1. CASE x = o
    <3>1. Known(x)' = {}
      BY <1>2, <1>4, <1>6, <2>1 DEF Known, Socket
    <3> QED BY <3>1
  <2>2. CASE x # o
    <3>1. Valid(x) /\ op'[x] = op[x] /\ Socket(x) # o /\ Socket(x) \in Op
      BY <1>6, <1>7, <1>10, <2>2, SocketWatched DEF Watched
    <3>2. Known(x)' = Known(x)
      BY <1>6, <3>1 DEF Known, Socket
    <3> QED BY <3>1, <3>2 DEF RecordsKnown
  <2> QED BY <2>1, <2>2
<1>19. Listing'
  BY <1>2, <1>6, <1>10 DEF Listing
<1> QED BY <1>8, <1>11, <1>13, <1>14, <1>16, <1>17, <1>18, <1>19

(* A request over a socket made for its error code leaves the replies alone, and *)
(* the daemon reads the cancel requests before it.                               *)
LEMMA DeliveredFacts ==
  ASSUME DaemonTyped, NEW c \in Op, NEW tasks \in SUBSET Task, Delivered(c, tasks, TRUE)
  PROVE  /\ wire' = wire /\ served' \in [Op -> SUBSET Task] /\ cancels' \in [Op -> SUBSET (0 .. MaxUid)]
         /\ served'[c] = {t \in tasks : t.uid \notin cancels[c]} /\ cancels'[c] = {}
         /\ \A x \in Op \ {c} : served'[x] = served[x] /\ cancels'[x] = cancels[x]
<1>1. wire' = [wire EXCEPT ![c] = wire[c]]
  BY DEF Delivered, Waiting
<1>2. wire' = wire
  BY <1>1 DEF DaemonTyped
<1>3. {t \in tasks : t.uid \notin cancels[c]} \in SUBSET Task
  OBVIOUS
<1>4. served' = [served EXCEPT ![c] = {t \in tasks : t.uid \notin cancels[c]}]
      /\ cancels' = [cancels EXCEPT ![c] = {}]
  BY DEF Delivered
<1> QED BY <1>2, <1>3, <1>4 DEF DaemonTyped

LEMMA DeliveredNoOrphans ==
  ASSUME DaemonTyped, NoOrphans, NEW c \in Op, NEW tasks \in SUBSET Task, Delivered(c, tasks, TRUE),
         \A t \in tasks : t.live \/ t.uid \in cancels[c]
  PROVE  NoOrphans'
<1>1. \A x \in Op \ {c} : served'[x] = served[x] /\ cancels'[x] = cancels[x]
  BY DeliveredFacts
<1>2. \A t \in served'[c] : t.live
  <2>1. served'[c] = {t \in tasks : t.uid \notin cancels[c]}
    BY DeliveredFacts
  <2> QED BY <2>1
<1> QED BY <1>1, <1>2 DEF NoOrphans

(* A subordinate that the daemon refused, or that could not be asked for: its    *)
(* number is gone.                                                               *)
LEMMA CountedKeeps ==
  ASSUME DaemonInv, NEW p \in Watched, op[p].op = "connection", op[p].uid < MaxUid,
         op' = [op EXCEPT ![p].uid = @ + 1], UNCHANGED <<eof, up, proc>>,
         \/ UNCHANGED <<wire, served, cancels>>
         \/ p \notin eof /\ Delivered(p, served[p], TRUE)
  PROVE  DaemonInv'
<1> USE DEF DaemonInv
<1>1. p \in Op /\ op[p] \in DNSServiceOp /\ op[p].primary = None /\ Valid(p)
      /\ op[p].uid \in Nat /\ MaxUid \in Nat
  BY OpFacts, DaemonAssumption DEF Watched
<1>2. op'[p] = [op[p] EXCEPT !.uid = @ + 1] /\ \A x \in Op \ {p} : op'[x] = op[x]
  BY <1>1 DEF DaemonTyped
<1>3. /\ op'[p] \in DNSServiceOp /\ op'[p].uid = op[p].uid + 1 /\ op'[p].primary = None
      /\ op'[p].op = op[p].op /\ op'[p].moreptr = op[p].moreptr /\ op'[p].rec = op[p].rec
      /\ op'[p].max_index = op[p].max_index
  BY <1>1, <1>2 DEF DNSServiceOp
<1>4. \A x \in Op : Valid(x)' = Valid(x) /\ op'[x].primary = op[x].primary /\ op'[x].op = op[x].op
                   /\ op'[x].moreptr = op[x].moreptr /\ op'[x].rec = op[x].rec
                   /\ op'[x].max_index = op[x].max_index
                   /\ (x # p => op'[x].uid = op[x].uid)
  <2>1. Valid(p)'
    BY <1>3, DaemonAssumption DEF Valid
  <2> QED BY <1>1, <1>2, <1>3, <2>1 DEF Valid
<1>5. Watched' = Watched /\ \A c : Subordinates(c)' = Subordinates(c)
  BY <1>4 DEF Watched, Subordinates
<1>6. op' \in [Op -> DNSServiceOp \cup {None}]
  BY <1>1, <1>2, <1>3 DEF DaemonTyped
<1>7. /\ wire' = wire /\ served' \in [Op -> SUBSET Task] /\ cancels' \in [Op -> SUBSET (0 .. MaxUid)]
      /\ \A x \in Op : served'[x] \subseteq served[x] /\ cancels'[x] \subseteq cancels[x]
      /\ NoOrphans'
  <2>1. CASE UNCHANGED <<wire, served, cancels>>
    BY <2>1 DEF DaemonTyped, NoOrphans
  <2>2. CASE Delivered(p, served[p], TRUE)
    <3>1. served[p] \in SUBSET Task /\ \A t \in served[p] : t.live \/ t.uid \in cancels[p]
      BY <1>1 DEF DaemonTyped, NoOrphans
    <3>2. NoOrphans'
      BY <1>1, <2>2, <3>1, DeliveredNoOrphans
    <3>3. /\ wire' = wire /\ served' \in [Op -> SUBSET Task] /\ cancels' \in [Op -> SUBSET (0 .. MaxUid)]
          /\ served'[p] = {t \in served[p] : t.uid \notin cancels[p]} /\ cancels'[p] = {}
          /\ \A x \in Op \ {p} : served'[x] = served[x] /\ cancels'[x] = cancels[x]
      BY <1>1, <2>2, <3>1, DeliveredFacts
    <3> QED BY <3>2, <3>3
  <2> QED BY <2>1, <2>2
<1>8. DaemonTyped'
  BY <1>6, <1>7 DEF DaemonTyped
<1>9. LoopIsTold'
  <2>1. proc' = proc /\ (proc = None \/ proc.on \in Op)
    BY DEF DaemonTyped, Processing
  <2> QED BY <1>4, <2>1 DEF LoopIsTold
<1>10. Numbered'
  <2> SUFFICES ASSUME NEW x \in Op, Valid(x)', op'[x].primary # None
               PROVE  /\ op'[x].primary \in Watched' /\ op'[op'[x].primary].op = "connection"
                      /\ op'[x].uid \in 1 .. op'[op'[x].primary].uid /\ ~op'[x].moreptr
                      /\ \A y \in Op : Valid(y)' /\ op'[y].primary = op'[x].primary
                                         /\ op'[y].uid = op'[x].uid => y = x
    BY DEF Numbered
  <2> DEFINE c == op[x].primary
  <2>1. Valid(x) /\ x # p /\ op'[x] = op[x] /\ c \in Watched /\ c \in Op
    BY <1>1, <1>2, <1>4 DEF Numbered, Watched
  <2>2. op[c].uid \in Nat /\ op'[c].uid \in Nat /\ op'[c].uid >= op[c].uid
    BY <1>1, <1>3, <1>4, <2>1, OpFacts DEF Watched
  <2>3. op[x].uid \in 1 .. op[c].uid /\ op[c].op = "connection" /\ ~op[x].moreptr
    BY <2>1 DEF Numbered
  <2>4. \A y \in Op : op[y].primary = c => y # p
    BY <1>1, <2>1, DaemonAssumption
  <2> QED BY <1>1, <1>2, <1>3, <1>4, <1>5, <2>1, <2>2, <2>3, <2>4 DEF Numbered
<1>11. NothingLeft'
  <2>1. \A c \in Op : served[c] = {} /\ cancels[c] = {} => served'[c] = {} /\ cancels'[c] = {}
    BY <1>7
  <2> QED BY <1>5, <1>7, <2>1 DEF NothingLeft, Watched
<1>12. \A c \in Watched : \A m : m.uid \in Nat /\ Mark(c, m) => Mark(c, m)'
  <2> SUFFICES ASSUME NEW c \in Watched, NEW m, m.uid \in Nat, Mark(c, m) PROVE Mark(c, m)'
    OBVIOUS
  <2>1. c \in Op /\ op[c].uid \in Nat /\ op'[c].uid \in Nat /\ op'[c].uid >= op[c].uid /\ op'[c].op = op[c].op
    BY <1>1, <1>3, <1>4, OpFacts DEF Watched
  <2>2. \A x \in Subordinates(c) : op'[x].uid = op[x].uid
    BY <1>1, <1>4, DaemonAssumption DEF Subordinates, Watched
  <2> QED BY <1>5, <2>1, <2>2 DEF Mark
<1>13. Marked'
  <2> SUFFICES ASSUME NEW c \in Watched
               PROVE  /\ \A t \in served'[c] : Mark(c, t)'
                      /\ \A i \in DOMAIN wire'[c] : Mark(c, wire[c][i])'
    BY <1>5 DEF Marked
  <2>1. \A t \in served[c] : t.uid \in Nat
    BY DaemonAssumption DEF DaemonTyped, Task, Watched
  <2>2. \A i \in DOMAIN wire[c] : wire[c][i].uid \in Nat
    <3>1. \A i \in DOMAIN wire[c] : wire[c][i] \in Reply
      BY DEF DaemonTyped, Watched
    <3> QED BY <3>1, DaemonAssumption DEF Reply
  <2>3. wire'[c] = wire[c] /\ (wire[c])' = wire[c] /\ served'[c] \subseteq served[c]
    BY <1>7 DEF Watched
  <2>4. (\A t \in served[c] : Mark(c, t)) /\ \A i \in DOMAIN wire[c] : Mark(c, wire[c][i])
    BY DEF Marked
  <2>5. \A t \in served'[c] : Mark(c, t)'
    BY <1>12, <2>1, <2>3, <2>4
  <2>6. ASSUME NEW i \in DOMAIN wire'[c] PROVE Mark(c, wire[c][i])'
    <3> DEFINE m == wire[c][i]
    <3>1. m.uid \in Nat /\ Mark(c, m) /\ m' = m
      BY <2>2, <2>3, <2>4
    <3>2. ASSUME NEW n, n = m PROVE Mark(c, n)'
      BY <1>12, <3>1, <3>2
    <3> QED BY <3>1, <3>2
  <2> QED BY <2>5, <2>6
<1>14. RecordsKnown'
  <2> SUFFICES ASSUME NEW x \in Op, Valid(x)', op'[x].op = "register"
               PROVE  Known(x)' \subseteq op'[x].rec /\ \A i \in Known(x)' : i < op'[x].max_index
    BY DEF RecordsKnown
  <2>1. Valid(x) /\ op[x].op = "register" /\ x # p
    BY <1>4
  <2>2. Socket(x)' = Socket(x) /\ Socket(x) \in Op /\ op'[x].uid = op[x].uid
    BY <1>4, <2>1, SocketWatched DEF Socket, Watched
  <2>3. Known(x)' \subseteq Known(x)
    BY <1>7, <2>2 DEF Known
  <2> QED BY <1>4, <2>1, <2>3 DEF RecordsKnown
<1>15. Listing'
  BY <1>4 DEF Listing
<1> QED BY <1>7, <1>8, <1>9, <1>10, <1>11, <1>13, <1>14, <1>15

(* A subordinate that the daemon serves: no number of its connection is above    *)
(* its own.                                                                      *)
LEMMA JoinedKeeps ==
  ASSUME DaemonInv, NEW o \in Op, ~Valid(o), NEW p \in Watched, op[p].op = "connection", p \notin eof,
         op' \in [Op -> DNSServiceOp \cup {None}],
         op'[o] \in DNSServiceOp, op'[o].primary = p, ~op'[o].moreptr, op'[o].uid = op[p].uid + 1,
         op'[o].rec = {}, op'[p].rec = op[p].rec,
         op'[p] \in DNSServiceOp, op'[p].uid = op[p].uid + 1, op'[p].primary = None,
         op'[p].op = op[p].op, op'[p].moreptr = op[p].moreptr,
         \A x \in Op : x # o /\ x # p => op'[x] = op[x],
         NEW task \in Task, task.uid = op[p].uid + 1, task.live, task.recs = {},
         wire' = wire, served' \in [Op -> SUBSET Task], cancels' \in [Op -> SUBSET (0 .. MaxUid)],
         served'[p] \subseteq served[p] \cup {task}, cancels'[p] = {},
         \A x \in Op : x # p => served'[x] = served[x] /\ cancels'[x] = cancels[x],
         NoOrphans', UNCHANGED <<eof, up, proc>>
  PROVE  DaemonInv'
<1> USE DEF DaemonInv
<1>1. p \in Op /\ op[p] \in DNSServiceOp /\ op[p].primary = None /\ Valid(p) /\ p # o
      /\ op[p].uid \in Nat /\ MaxUid \in Nat /\ p # None
  BY OpFacts, DaemonAssumption DEF Watched
<1>11. /\ Valid(o)'
       /\ \A x \in Op : x # o => /\ Valid(x)' <=> Valid(x)
                                 /\ op'[x].primary = op[x].primary /\ op'[x].op = op[x].op
                                 /\ op'[x].moreptr = op[x].moreptr
  BY <1>1, DaemonAssumption DEF Valid
<1>12. Watched' = Watched /\ o \notin Watched
  <2>1. \A x \in Op : (Valid(x)' /\ op'[x].primary = None) <=> (Valid(x) /\ op[x].primary = None)
    BY <1>1, <1>11
  <2> QED BY <2>1 DEF Watched
<1>13. \A x \in Op : Valid(x) => op[x].primary # o
  BY <1>12, DaemonAssumption DEF Numbered
<1>14. DaemonTyped'
  BY DEF DaemonTyped
<1>15. LoopIsTold'
  <2>1. proc' = proc /\ (proc = None \/ proc.on \in Op)
    BY DEF DaemonTyped, Processing
  <2>2. \A x \in Op : Valid(x) => Valid(x)' /\ op'[x].moreptr = op[x].moreptr
    BY <1>11
  <2>3. \A x \in Op : Valid(x)' /\ op'[x].moreptr => Valid(x) /\ op[x].moreptr
    BY <1>11
  <2> QED BY <2>1, <2>2, <2>3 DEF LoopIsTold
<1>16. Numbered'
  <2> SUFFICES ASSUME NEW x \in Op, Valid(x)', op'[x].primary # None
               PROVE  /\ op'[x].primary \in Watched' /\ op'[op'[x].primary].op = "connection"
                      /\ op'[x].uid \in 1 .. op'[op'[x].primary].uid /\ ~op'[x].moreptr
                      /\ \A y \in Op : Valid(y)' /\ op'[y].primary = op'[x].primary
                                         /\ op'[y].uid = op'[x].uid => y = x
    BY DEF Numbered
  <2>1. \A y \in Op : Valid(y)' /\ y # o /\ op'[y].primary = p =>
          /\ Valid(y) /\ op'[y] = op[y] /\ op[y].primary = p
          /\ op[y].uid \in 1 .. op[p].uid
    BY <1>1, <1>11 DEF Numbered
  <2>2. CASE x = o
    <3>1. \A y \in Op : Valid(y)' /\ op'[y].primary = p /\ op'[y].uid = op[p].uid + 1 => y = o
      BY <1>1, <2>1
    <3> QED BY <1>1, <1>12, <2>2, <3>1
  <2>3. CASE x # o /\ op'[x].primary = p
    <3>1. Valid(x) /\ op'[x] = op[x] /\ op[x].primary = p /\ op[x].uid \in 1 .. op[p].uid /\ ~op[x].moreptr
      BY <1>1, <2>1, <2>3 DEF Numbered
    <3>2. \A y \in Op : Valid(y)' /\ op'[y].primary = p /\ op'[y].uid = op'[x].uid => y = x
      BY <1>1, <2>1, <3>1 DEF Numbered
    <3> QED BY <1>1, <1>12, <2>3, <3>1, <3>2
  <2>4. CASE x # o /\ op'[x].primary # p
    <3>1. Valid(x) /\ x # p /\ op'[x] = op[x] /\ op[x].primary # p
      BY <1>11, <2>4
    <3> DEFINE c == op[x].primary
    <3>2. c \in Watched /\ c # o /\ c # p /\ op'[c] = op[c]
      BY <1>12, <2>4, <3>1 DEF Numbered, Watched
    <3>3. \A y \in Op : Valid(y)' /\ op'[y].primary = c => Valid(y) /\ op'[y] = op[y]
      BY <1>11, <3>2, DaemonAssumption DEF Watched
    <3> QED BY <1>12, <3>1, <3>2, <3>3 DEF Numbered
  <2> QED BY <2>2, <2>3, <2>4
<1>17. NothingLeft'
  <2>1. \A c \in Op \ Watched : c # p /\ served'[c] = served[c] /\ cancels'[c] = cancels[c]
    OBVIOUS
  <2>2. \A c \in eof : c # p /\ c \in Op
    BY DEF NothingLeft, Watched
  <2> QED BY <1>12, <2>1, <2>2 DEF NothingLeft
<1>18. \A c \in Watched : c # p => \A m : Mark(c, m) => Mark(c, m)'
  <2> SUFFICES ASSUME NEW c \in Watched, c # p, NEW m, Mark(c, m) PROVE Mark(c, m)'
    OBVIOUS
  <2>1. c \in Op /\ c # o /\ op'[c] = op[c]
    BY <1>11, <1>12 DEF Watched
  <2>2. Subordinates(c)' = Subordinates(c)
    BY <1>11 DEF Subordinates
  <2>3. \A x \in Subordinates(c) : op'[x] = op[x]
    BY <1>1, <1>11, <2>1, DaemonAssumption DEF Subordinates, Valid
  <2> QED BY <2>1, <2>2, <2>3 DEF Mark
<1>19. \A m : m.uid \in Nat /\ Mark(p, m) => Mark(p, m)'
  <2> SUFFICES ASSUME NEW m, m.uid \in Nat, Mark(p, m) PROVE Mark(p, m)'
    OBVIOUS
  <2>1. m.uid <= op[p].uid /\ \A x \in Subordinates(p) : op[x].uid = m.uid => m.live
    BY DEF Mark
  <2>2. \A x \in Op : Valid(x)' /\ op'[x].primary = p /\ op'[x].uid = m.uid =>
          x \in Subordinates(p) /\ op[x].uid = m.uid
    BY <1>1, <1>11, <2>1 DEF Subordinates
  <2> QED BY <1>1, <2>1, <2>2 DEF Mark, Subordinates
<1>20. Mark(p, task)'
  BY <1>1 DEF Mark
<1>21. Marked'
  <2> SUFFICES ASSUME NEW c \in Watched
               PROVE  /\ \A t \in served'[c] : Mark(c, t)'
                      /\ \A i \in DOMAIN wire'[c] : Mark(c, wire[c][i])'
    BY <1>12 DEF Marked
  <2>1. (\A t \in served[c] : Mark(c, t)) /\ \A i \in DOMAIN wire[c] : Mark(c, wire[c][i])
    BY DEF Marked
  <2>2. \A t \in served[c] : t.uid \in Nat
    BY DaemonAssumption DEF DaemonTyped, Task, Watched
  <2>3. \A i \in DOMAIN wire[c] : wire[c][i].uid \in Nat
    <3>1. \A i \in DOMAIN wire[c] : wire[c][i] \in Reply
      BY DEF DaemonTyped, Watched
    <3> QED BY <3>1, DaemonAssumption DEF Reply
  <2>4. \A m : m.uid \in Nat /\ Mark(c, m) => Mark(c, m)'
    BY <1>18, <1>19
  <2>5. \A t \in served'[c] : Mark(c, t)'
    <3>1. CASE c = p
      BY <1>20, <2>1, <2>2, <2>4, <3>1
    <3>2. CASE c # p
      BY <2>1, <2>2, <2>4, <3>2 DEF Watched
    <3> QED BY <3>1, <3>2
  <2>6. ASSUME NEW i \in DOMAIN wire'[c] PROVE Mark(c, wire[c][i])'
    <3> DEFINE m == wire[c][i]
    <3>1. m.uid \in Nat /\ Mark(c, m) /\ m' = m
      BY <2>1, <2>3
    <3>2. ASSUME NEW n, n = m PROVE Mark(c, n)'
      BY <2>4, <3>1, <3>2
    <3> QED BY <3>1, <3>2
  <2> QED BY <2>5, <2>6
<1>22. RecordsKnown'
  <2> SUFFICES ASSUME NEW x \in Op, Valid(x)', op'[x].op = "register"
               PROVE  Known(x)' \subseteq op'[x].rec /\ \A i \in Known(x)' : i < op'[x].max_index
    BY DEF RecordsKnown
  <2>1. CASE x = o
    <3>1. Socket(x)' = p
      BY <1>1, <2>1 DEF Socket
    <3>2. \A t \in served[p] : t.uid # op[p].uid + 1
      BY <1>1 DEF Marked, Mark, DaemonTyped, Task
    <3>3. \A t \in served'[p] : t.uid = op'[x].uid => t.recs = {}
      BY <2>1, <3>2
    <3>4. Known(x)' = {}
      BY <3>1, <3>3 DEF Known
    <3> QED BY <3>4
  <2>2. CASE x # o
    <3>1. Valid(x) /\ x # p /\ op'[x] = op[x]
      BY <1>1, <1>11, <2>2
    <3>2. Socket(x)' = Socket(x) /\ Socket(x) \in Op
      BY <3>1, SocketWatched DEF Socket, Watched
    <3>3. Known(x)' \subseteq Known(x)
      <4>1. CASE Socket(x) # p
        BY <3>1, <3>2, <4>1 DEF Known
      <4>2. CASE Socket(x) = p
        BY <3>1, <3>2, <4>2 DEF Known
      <4> QED BY <4>1, <4>2
    <3> QED BY <3>1, <3>3 DEF RecordsKnown
  <2> QED BY <2>1, <2>2
<1>23. Listing'
  BY <1>1, <1>11 DEF Listing
<1> QED BY <1>14, <1>15, <1>16, <1>17, <1>21, <1>22, <1>23

LEMMA SharesKeeps ==
  ASSUME DaemonInv, NEW o \in Op, NEW kind \in {"connection", "register", "request"}, NEW p \in Op,
         Shares(o, kind, p)
  PROVE  DaemonInv'
<1> USE DEF DaemonInv
<1>1. /\ ~Valid(o) /\ p \in Watched /\ op[p].op = "connection" /\ op[p].uid < MaxUid
      /\ UNCHANGED <<eof, up, proc>>
  BY DEF Shares
<1> DEFINE counted == [op EXCEPT ![p].uid = @ + 1]
<1>2. \/ /\ p \notin eof /\ op' = [counted EXCEPT ![o] = New(kind, p)]
         /\ Delivered(p, served[p] \cup {[uid |-> New(kind, p).uid, live |-> TRUE, recs |-> {}]}, TRUE)
      \/ p \notin eof /\ op' = counted /\ Delivered(p, served[p], TRUE)
      \/ op' = counted /\ UNCHANGED <<wire, served, cancels>>
  BY DEF Shares, Separate
<1>3. CASE /\ op' = counted
           /\ (p \notin eof /\ Delivered(p, served[p], TRUE)) \/ UNCHANGED <<wire, served, cancels>>
  BY <1>1, <1>3, CountedKeeps
<1>4. CASE /\ p \notin eof /\ op' = [counted EXCEPT ![o] = New(kind, p)]
           /\ Delivered(p, served[p] \cup {[uid |-> New(kind, p).uid, live |-> TRUE, recs |-> {}]}, TRUE)
  <2>1. /\ op[p] \in DNSServiceOp /\ op[p].primary = None /\ Valid(p) /\ p # o
        /\ op[p].uid \in Nat /\ MaxUid \in Nat /\ p # None
    BY <1>1, OpFacts, DaemonAssumption DEF Watched
  <2>2. /\ New(kind, p) \in DNSServiceOp /\ New(kind, p).primary = p /\ New(kind, p).rec = {}
        /\ ~New(kind, p).moreptr /\ New(kind, p).uid = op[p].uid + 1
    BY <1>1, <2>1, NewFacts
  <2>3. [uid |-> New(kind, p).uid, live |-> TRUE, recs |-> {}] \in Task
    BY <1>1, <2>1, <2>2 DEF Task
  <2>4. PICK task \in Task : task = [uid |-> New(kind, p).uid, live |-> TRUE, recs |-> {}]
    BY <2>3
  <2>5. task.uid = op[p].uid + 1 /\ task.live /\ task.recs = {}
    BY <2>2, <2>4
  <2> DEFINE more == [op[p] EXCEPT !.uid = @ + 1]
  <2>6. /\ more \in DNSServiceOp /\ more.uid = op[p].uid + 1 /\ more.primary = None
        /\ more.op = op[p].op /\ more.moreptr = op[p].moreptr /\ more.rec = op[p].rec
    BY <1>1, <2>1 DEF DNSServiceOp
  <2>7. op' = [[op EXCEPT ![p] = more] EXCEPT ![o] = New(kind, p)]
    BY <1>4
  <2> HIDE DEF more
  <2>8. /\ op' \in [Op -> DNSServiceOp \cup {None}] /\ op'[o] = New(kind, p) /\ op'[p] = more
        /\ \A x \in Op : x # o /\ x # p => op'[x] = op[x]
    BY <2>1, <2>2, <2>6, <2>7 DEF DaemonTyped
  <2>9. served[p] \cup {task} \in SUBSET Task /\ Delivered(p, served[p] \cup {task}, TRUE)
    BY <1>4, <2>4 DEF DaemonTyped
  <2>10. /\ wire' = wire /\ served' \in [Op -> SUBSET Task] /\ cancels' \in [Op -> SUBSET (0 .. MaxUid)]
         /\ served'[p] \subseteq served[p] \cup {task} /\ cancels'[p] = {}
         /\ \A x \in Op : x # p => served'[x] = served[x] /\ cancels'[x] = cancels[x]
    BY <2>9, DeliveredFacts
  <2>11. NoOrphans'
    <3>1. \A t \in served[p] \cup {task} : t.live \/ t.uid \in cancels[p]
      BY <2>5 DEF NoOrphans
    <3> QED BY <2>9, <3>1, DeliveredNoOrphans
  <2> QED BY <1>1, <1>4, <2>2, <2>5, <2>6, <2>8, <2>10, <2>11, JoinedKeeps
<1> QED BY <1>2, <1>3, <1>4

(* A request about the records of one service changes what the daemon works on   *)
(* for it and for nobody else.                                                   *)
LEMMA RecordsKeep ==
  ASSUME DaemonInv, NEW o \in Op, Valid(o), op[o].op = "register", NEW c \in Op, c = Socket(o),
         op' \in [Op -> DNSServiceOp \cup {None}], op'[o] \in DNSServiceOp,
         op'[o].primary = op[o].primary, op'[o].uid = op[o].uid, op'[o].op = op[o].op,
         op'[o].moreptr = op[o].moreptr,
         \A x \in Op : x # o => op'[x] = op[x],
         wire' = wire, served' \in [Op -> SUBSET Task], cancels' \in [Op -> SUBSET (0 .. MaxUid)],
         \A x \in Op : x # c => served'[x] = served[x] /\ cancels'[x] = cancels[x],
         cancels'[c] \subseteq cancels[c],
         \A t \in served'[c] : \E t0 \in served[c] :
           /\ t.uid = t0.uid /\ t.live = t0.live
           /\ IF t.uid = op[o].uid
              THEN t.recs \subseteq op'[o].rec /\ \A i \in t.recs : i < op'[o].max_index
              ELSE t.recs = t0.recs,
         NoOrphans', UNCHANGED <<eof, up, proc>>
  PROVE  DaemonInv'
<1> USE DEF DaemonInv
<1>1. op[o] \in DNSServiceOp /\ c \in Watched
  BY OpFacts, SocketWatched
<1>2. \A x \in Op : /\ Valid(x)' <=> Valid(x)
                   /\ op'[x].primary = op[x].primary /\ op'[x].op = op[x].op
                   /\ op'[x].moreptr = op[x].moreptr /\ op'[x].uid = op[x].uid
  BY <1>1, DaemonAssumption DEF Valid
<1>3. Watched' = Watched /\ \A x \in Op : Socket(x)' = Socket(x)
  BY <1>2 DEF Watched, Socket
<1>4. \A x \in Op : Subordinates(x)' = Subordinates(x)
  BY <1>2 DEF Subordinates
<1>5. DaemonTyped'
  BY DEF DaemonTyped
<1>6. LoopIsTold'
  <2>1. proc' = proc /\ (proc = None \/ proc.on \in Op)
    BY DEF DaemonTyped, Processing
  <2> QED BY <1>2, <2>1 DEF LoopIsTold
<1>7. Numbered'
  <2> SUFFICES ASSUME NEW x \in Op, Valid(x)', op'[x].primary # None
               PROVE  /\ op'[x].primary \in Watched' /\ op'[op'[x].primary].op = "connection"
                      /\ op'[x].uid \in 1 .. op'[op'[x].primary].uid /\ ~op'[x].moreptr
                      /\ \A y \in Op : Valid(y)' /\ op'[y].primary = op'[x].primary
                                         /\ op'[y].uid = op'[x].uid => y = x
    BY DEF Numbered
  <2>1. Valid(x) /\ op[x].primary \in Watched /\ op[x].primary \in Op
    BY <1>2 DEF Numbered, Watched
  <2> QED BY <1>2, <1>3, <2>1 DEF Numbered
<1>8. NothingLeft'
  <2>1. \A x \in Op : served[x] = {} /\ cancels[x] = {} => served'[x] = {} /\ cancels'[x] = {}
    OBVIOUS
  <2> QED BY <1>3, <2>1 DEF NothingLeft, Watched
<1>9. \A x \in Watched : \A m : Mark(x, m)' <=> Mark(x, m)
  <2>1. \A x \in Watched : Subordinates(x)' = Subordinates(x) /\ op'[x].op = op[x].op /\ op'[x].uid = op[x].uid
    BY <1>2, <1>4 DEF Watched
  <2>2. \A x \in Watched : \A y \in Subordinates(x) : op'[y].uid = op[y].uid
    BY <1>2 DEF Subordinates
  <2> QED BY <2>1, <2>2 DEF Mark
<1>10. Marked'
  <2> SUFFICES ASSUME NEW x \in Watched
               PROVE  /\ \A t \in served'[x] : Mark(x, t)'
                      /\ \A i \in DOMAIN wire'[x] : Mark(x, wire[x][i])'
    BY <1>3 DEF Marked
  <2>1. (\A t \in served[x] : Mark(x, t)) /\ \A i \in DOMAIN wire[x] : Mark(x, wire[x][i])
    BY DEF Marked
  <2>2. \A t, t0 : t.uid = t0.uid /\ t.live = t0.live /\ Mark(x, t0) => Mark(x, t)
    BY DEF Mark
  <2>3. \A t \in served'[x] : Mark(x, t)
    BY <2>1, <2>2 DEF Watched
  <2>4. \A t \in served'[x] : Mark(x, t)'
    BY <1>9, <2>3
  <2>5. ASSUME NEW i \in DOMAIN wire'[x] PROVE Mark(x, wire[x][i])'
    <3> DEFINE m == wire[x][i]
    <3>1. Mark(x, m) /\ m' = m
      BY <2>1
    <3>2. ASSUME NEW n, n = m PROVE Mark(x, n)'
      BY <1>9, <3>1, <3>2
    <3> QED BY <3>1, <3>2
  <2> QED BY <2>4, <2>5
<1>11. RecordsKnown'
  <2> SUFFICES ASSUME NEW x \in Op, Valid(x)', op'[x].op = "register"
               PROVE  Known(x)' \subseteq op'[x].rec /\ \A i \in Known(x)' : i < op'[x].max_index
    BY DEF RecordsKnown
  <2>0. Known(x)' = UNION {t.recs : t \in {t \in served'[Socket(x)] : t.uid = op[x].uid}}
    BY <1>2, <1>3 DEF Known
  <2>1. CASE x = o
    BY <2>0, <2>1
  <2>2. CASE x # o
    <3>1. Valid(x) /\ op'[x] = op[x] /\ op[x].op = "register" /\ Socket(x) \in Op
      BY <1>2, <2>2, SocketWatched DEF Watched
    <3>2. Socket(x) = c => op[x].uid # op[o].uid
      BY <1>1, <2>2, <3>1 DEF Numbered, Socket
    <3>3. Known(x)' \subseteq Known(x)
      BY <2>0, <3>1, <3>2 DEF Known
    <3> QED BY <3>1, <3>3 DEF RecordsKnown
  <2> QED BY <2>1, <2>2
<1>12. Listing'
  BY <1>2 DEF Listing
<1> QED BY <1>5, <1>6, <1>7, <1>8, <1>10, <1>11, <1>12

(* What the daemon works on after a request about the records of one service.    *)
LEMMA RetaskedFacts ==
  ASSUME NEW o \in Op, NEW recs \in SUBSET (0 .. MaxIndex - 1), \A t \in served[Socket(o)] : t \in Task
  PROVE  \A t \in Retasked(o, recs) :
           /\ t \in Task
           /\ \E t0 \in served[Socket(o)] :
                /\ t.uid = t0.uid /\ t.live = t0.live
                /\ t.recs = IF t.uid = op[o].uid THEN recs ELSE t0.recs
<1> SUFFICES ASSUME NEW t0 \in served[Socket(o)],
                    NEW t, t = IF t0.uid = op[o].uid THEN [t0 EXCEPT !.recs = recs] ELSE t0
             PROVE  /\ t \in Task /\ t.uid = t0.uid /\ t.live = t0.live
                    /\ t.recs = IF t.uid = op[o].uid THEN recs ELSE t0.recs
  BY DEF Retasked
<1> QED BY DEF Task

LEMMA RetaskedKeeps ==
  ASSUME DaemonInv, NEW o \in Op, Valid(o), op[o].op = "register", NEW c \in Op, c = Socket(o),
         op' \in [Op -> DNSServiceOp \cup {None}], op'[o] \in DNSServiceOp,
         op'[o].primary = op[o].primary, op'[o].uid = op[o].uid, op'[o].op = op[o].op,
         op'[o].moreptr = op[o].moreptr,
         \A x \in Op : x # o => op'[x] = op[x],
         NEW recs \in SUBSET (0 .. MaxIndex - 1), Delivered(c, Retasked(o, recs), TRUE),
         recs \subseteq op'[o].rec, \A i \in recs : i < op'[o].max_index,
         UNCHANGED <<eof, up, proc>>
  PROVE  DaemonInv'
<1> USE DEF DaemonInv
<1> DEFINE tasks == Retasked(o, recs)
<1>1. (\A t \in served[c] : t \in Task) /\ \A t0 \in served[c] : t0.live \/ t0.uid \in cancels[c]
  BY DEF DaemonTyped, NoOrphans
<1>2. \A t \in tasks : /\ t \in Task
                       /\ \E t0 \in served[c] :
                            /\ t.uid = t0.uid /\ t.live = t0.live
                            /\ t.recs = IF t.uid = op[o].uid THEN recs ELSE t0.recs
  BY <1>1, RetaskedFacts
<1> HIDE DEF tasks
<1>3. tasks \in SUBSET Task
  BY <1>2
<1>4. \A t \in tasks : t.live \/ t.uid \in cancels[c]
  BY <1>1, <1>2
<1>5. Delivered(c, tasks, TRUE)
  BY DEF tasks
<1>6. NoOrphans'
  BY <1>3, <1>4, <1>5, DeliveredNoOrphans
<1>7. /\ wire' = wire /\ served' \in [Op -> SUBSET Task] /\ cancels' \in [Op -> SUBSET (0 .. MaxUid)]
      /\ served'[c] = {t \in tasks : t.uid \notin cancels[c]} /\ cancels'[c] = {}
      /\ \A x \in Op \ {c} : served'[x] = served[x] /\ cancels'[x] = cancels[x]
  BY <1>3, <1>5, DeliveredFacts
<1>8. ASSUME NEW t \in served'[c]
      PROVE  \E t0 \in served[c] :
               /\ t.uid = t0.uid /\ t.live = t0.live
               /\ IF t.uid = op[o].uid
                  THEN t.recs \subseteq op'[o].rec /\ \A i \in t.recs : i < op'[o].max_index
                  ELSE t.recs = t0.recs
  <2> HIDE DEF DaemonInv
  <2>1. t \in tasks
    BY <1>7
  <2>2. PICK t0 \in served[c] : /\ t.uid = t0.uid /\ t.live = t0.live
                                /\ t.recs = IF t.uid = op[o].uid THEN recs ELSE t0.recs
    BY <1>2, <2>1
  <2>3. CASE t.uid = op[o].uid
    BY <2>2, <2>3
  <2>4. CASE t.uid # op[o].uid
    BY <2>2, <2>4
  <2> QED BY <2>3, <2>4
<1> QED BY <1>6, <1>7, <1>8, RecordsKeep

LEMMA AddRecordKeeps ==
  ASSUME DaemonInv, NEW o \in Op, DNSServiceAddRecord(o)
  PROVE  DaemonInv'
<1> USE DEF DaemonInv
<1>1. /\ Valid(o) /\ op[o].op = "register" /\ op[o].max_index < MaxIndex
      /\ op' = [op EXCEPT ![o].max_index = @ + 1, ![o].rec = @ \cup {op[o].max_index}]
      /\ UNCHANGED <<eof, up, proc>>
  BY DEF DNSServiceAddRecord
<1>2. PICK c \in Watched : c = Socket(o)
  BY <1>1, SocketWatched
<1>3. c \in Op /\ op[o] \in DNSServiceOp /\ MaxIndex \in Nat /\ op[o].max_index \in Nat
  BY <1>1, OpFacts, DaemonAssumption DEF Watched
<1> DEFINE more == [op[o] EXCEPT !.max_index = @ + 1, !.rec = @ \cup {op[o].max_index}]
<1>4. /\ more \in DNSServiceOp /\ more.primary = op[o].primary /\ more.uid = op[o].uid
      /\ more.op = op[o].op /\ more.moreptr = op[o].moreptr
      /\ more.rec = op[o].rec \cup {op[o].max_index} /\ more.max_index = op[o].max_index + 1
  <2>1. op[o].rec \cup {op[o].max_index} \subseteq 0 .. MaxIndex - 1
    BY <1>1, <1>3, OpFacts
  <2>2. op[o].max_index + 1 \in 0 .. MaxIndex
    BY <1>1, <1>3
  <2> QED BY <1>3, <2>1, <2>2 DEF DNSServiceOp
<1>5. op' = [op EXCEPT ![o] = more]
  BY <1>1
<1> HIDE DEF more
<1>6. /\ op' \in [Op -> DNSServiceOp \cup {None}] /\ op'[o] = more
      /\ \A x \in Op : x # o => op'[x] = op[x]
  BY <1>4, <1>5 DEF DaemonTyped
<1>7. Known(o) \subseteq op[o].rec /\ \A i \in Known(o) : i \in Nat /\ i < op[o].max_index
  BY <1>1, <1>3, OpFacts DEF RecordsKnown
<1>8. \A t \in served[c] : t \in Task /\ (t.uid = op[o].uid => t.recs \subseteq Known(o))
  BY <1>2, <1>3 DEF Known, DaemonTyped
<1>9. \A i \in Known(o) \cup {op[o].max_index} : i < op[o].max_index + 1
  BY <1>3, <1>7
<1>10. CASE UNCHANGED <<wire, served, cancels>>
  <2>1. \A t \in served'[c] : /\ t \in served[c]
                             /\ t.uid = op[o].uid =>
                                  t.recs \subseteq op'[o].rec /\ \A i \in t.recs : i < op'[o].max_index
    BY <1>4, <1>6, <1>7, <1>8, <1>9, <1>10
  <2>2. served' \in [Op -> SUBSET Task] /\ cancels' \in [Op -> SUBSET (0 .. MaxUid)] /\ NoOrphans'
    BY <1>10 DEF DaemonTyped, NoOrphans
  <2> QED BY <1>1, <1>2, <1>3, <1>4, <1>6, <1>10, <2>1, <2>2, RecordsKeep
<1>11. ASSUME NEW add \in {{}, {op[o].max_index}}, Delivered(c, Retasked(o, Known(o) \cup add), TRUE)
       PROVE  DaemonInv'
  <2>1. PICK recs : recs = Known(o) \cup add
    OBVIOUS
  <2>2. recs \subseteq more.rec /\ (\A i \in recs : i < more.max_index) /\ recs \subseteq 0 .. MaxIndex - 1
    BY <1>4, <1>7, <1>9, <2>1 DEF DNSServiceOp
  <2>3. recs \in SUBSET (0 .. MaxIndex - 1) /\ Delivered(c, Retasked(o, recs), TRUE)
    BY <1>11, <2>1, <2>2
  <2> QED BY <1>1, <1>2, <1>3, <1>4, <1>6, <2>2, <2>3, RetaskedKeeps
<1>12. \/ UNCHANGED <<wire, served, cancels>>
       \/ \E add \in {{}, {op[o].max_index}} : Delivered(c, Retasked(o, Known(o) \cup add), TRUE)
  BY <1>2 DEF DNSServiceAddRecord, Separate
<1> QED BY <1>10, <1>11, <1>12

LEMMA RemoveRecordKeeps ==
  ASSUME DaemonInv, NEW o \in Op, NEW i \in 0 .. MaxIndex - 1, DNSServiceRemoveRecord(o, i)
  PROVE  DaemonInv'
<1> USE DEF DaemonInv
<1>1. /\ Valid(o) /\ i \in op[o].rec /\ op' = [op EXCEPT ![o] = Removed(op[o], i)]
      /\ Delivered(Socket(o), Retasked(o, Known(o) \ {i}), TRUE)
      /\ UNCHANGED <<eof, up, proc>>
  BY DEF DNSServiceRemoveRecord, Separate
<1>2. PICK c \in Watched : c = Socket(o)
  BY <1>1, SocketWatched
<1>3. c \in Op /\ op[o] \in DNSServiceOp /\ op[o].op = "register"
  BY <1>1, OpFacts DEF Watched, Listing
<1> DEFINE less == Removed(op[o], i)
<1>4. /\ less \in DNSServiceOp /\ less.primary = op[o].primary /\ less.uid = op[o].uid
      /\ less.op = op[o].op /\ less.moreptr = op[o].moreptr
      /\ less.rec = op[o].rec \ {i} /\ less.max_index = op[o].max_index
  <2>1. op[o].rec \ {i} \subseteq 0 .. MaxIndex - 1
    BY <1>1, OpFacts
  <2> QED BY <1>3, <2>1 DEF DNSServiceOp, Removed
<1> HIDE DEF less
<1>5. /\ op' \in [Op -> DNSServiceOp \cup {None}] /\ op'[o] = less
      /\ \A x \in Op : x # o => op'[x] = op[x]
  <2>1. op' = [op EXCEPT ![o] = less]
    BY <1>1 DEF less
  <2> QED BY <1>4, <2>1 DEF DaemonTyped
<1>6. PICK recs : recs = Known(o) \ {i}
  OBVIOUS
<1>7. /\ recs \subseteq less.rec /\ (\A n \in recs : n < less.max_index)
      /\ recs \in SUBSET (0 .. MaxIndex - 1)
  BY <1>1, <1>3, <1>4, <1>6, OpFacts DEF RecordsKnown
<1>8. Delivered(c, Retasked(o, recs), TRUE)
  BY <1>1, <1>2, <1>6
<1> QED BY <1>1, <1>2, <1>3, <1>4, <1>5, <1>7, <1>8, RetaskedKeeps

LEMMA UpdateRecordKeeps ==
  ASSUME DaemonInv, NEW o \in Op, DNSServiceUpdateRecord(o)
  PROVE  DaemonInv'
<1> USE DEF DaemonInv
<1>1. /\ Valid(o) /\ op[o].op = "register" /\ Delivered(Socket(o), served[Socket(o)], TRUE)
      /\ UNCHANGED <<op, eof, up, proc>>
  BY DEF DNSServiceUpdateRecord, Separate
<1>2. PICK c \in Watched : c = Socket(o)
  BY <1>1, SocketWatched
<1>3. /\ c \in Op /\ op[o] \in DNSServiceOp /\ served[c] \in SUBSET Task
      /\ \A t \in served[c] : t.live \/ t.uid \in cancels[c]
  BY <1>1, <1>2, OpFacts DEF Watched, DaemonTyped, NoOrphans
<1>4. Delivered(c, served[c], TRUE)
  BY <1>1, <1>2
<1>5. NoOrphans'
  BY <1>3, <1>4, DeliveredNoOrphans
<1>6. /\ wire' = wire /\ served' \in [Op -> SUBSET Task] /\ cancels' \in [Op -> SUBSET (0 .. MaxUid)]
      /\ served'[c] = {t \in served[c] : t.uid \notin cancels[c]} /\ cancels'[c] = {}
      /\ \A x \in Op \ {c} : served'[x] = served[x] /\ cancels'[x] = cancels[x]
  BY <1>3, <1>4, DeliveredFacts
<1>7. \A t \in served[c] :
        t.uid = op[o].uid => t.recs \subseteq op[o].rec /\ \A i \in t.recs : i < op[o].max_index
  <2>1. \A t \in served[c] : t.uid = op[o].uid => t.recs \subseteq Known(o)
    BY <1>2 DEF Known
  <2>2. Known(o) \subseteq op[o].rec /\ \A i \in Known(o) : i < op[o].max_index
    BY <1>1 DEF RecordsKnown
  <2> QED BY <2>1, <2>2
<1>8. \A t \in served'[c] : \E t0 \in served[c] :
        /\ t.uid = t0.uid /\ t.live = t0.live
        /\ IF t.uid = op[o].uid
           THEN t.recs \subseteq op'[o].rec /\ \A i \in t.recs : i < op'[o].max_index
           ELSE t.recs = t0.recs
  BY <1>1, <1>6, <1>7
<1>9. op' \in [Op -> DNSServiceOp \cup {None}]
  BY <1>1 DEF DaemonTyped
<1> QED BY <1>1, <1>2, <1>3, <1>5, <1>6, <1>8, <1>9, RecordsKeep

(* Steps that change no operation but for its reading, and give a connection     *)
(* nothing but what is marked.                                                   *)
LEMMA QuietKeeps ==
  ASSUME DaemonInv, DaemonTyped', LoopIsTold', NothingLeft', NoOrphans',
         \A x \in Op : /\ Valid(x)' <=> Valid(x)
                       /\ op'[x].primary = op[x].primary /\ op'[x].op = op[x].op
                       /\ op'[x].uid = op[x].uid /\ op'[x].rec = op[x].rec
                       /\ op'[x].max_index = op[x].max_index
                       /\ Valid(x) /\ op[x].primary # None => op'[x].moreptr = op[x].moreptr,
         \A x \in Op : served'[x] \subseteq served[x],
         \A x \in Watched : \A i \in DOMAIN wire'[x] : Mark(x, wire'[x][i])
  PROVE  DaemonInv'
<1> USE DEF DaemonInv
<1>1. Watched' = Watched /\ \A x \in Op : Socket(x)' = Socket(x)
  BY DEF Watched, Socket
<1>2. \A x \in Op : Subordinates(x)' = Subordinates(x)
  BY DEF Subordinates
<1>3. Numbered'
  <2> SUFFICES ASSUME NEW x \in Op, Valid(x)', op'[x].primary # None
               PROVE  /\ op'[x].primary \in Watched' /\ op'[op'[x].primary].op = "connection"
                      /\ op'[x].uid \in 1 .. op'[op'[x].primary].uid /\ ~op'[x].moreptr
                      /\ \A y \in Op : Valid(y)' /\ op'[y].primary = op'[x].primary
                                         /\ op'[y].uid = op'[x].uid => y = x
    BY DEF Numbered
  <2>1. Valid(x) /\ op[x].primary \in Watched /\ op[x].primary \in Op
    BY DEF Numbered, Watched
  <2> QED BY <1>1, <2>1 DEF Numbered
<1>4. \A x \in Watched : \A m : Mark(x, m)' <=> Mark(x, m)
  <2>1. \A x \in Watched : Subordinates(x)' = Subordinates(x) /\ op'[x].op = op[x].op /\ op'[x].uid = op[x].uid
    BY <1>2 DEF Watched
  <2>2. \A x \in Watched : \A y \in Subordinates(x) : op'[y].uid = op[y].uid
    BY DEF Subordinates
  <2> QED BY <2>1, <2>2 DEF Mark
<1>5. Marked'
  <2> SUFFICES ASSUME NEW x \in Watched
               PROVE  /\ \A t \in served'[x] : Mark(x, t)'
                      /\ \A i \in DOMAIN wire'[x] : Mark(x, wire[x][i])'
    BY <1>1 DEF Marked
  <2>1. \A t \in served'[x] : Mark(x, t)
    BY DEF Marked, Watched
  <2>2. \A t \in served'[x] : Mark(x, t)'
    BY <1>4, <2>1
  <2>3. ASSUME NEW i \in DOMAIN wire'[x] PROVE Mark(x, wire[x][i])'
    <3>1. PICK n : n = wire'[x][i]
      OBVIOUS
    <3>2. Mark(x, n)'
      BY <1>4, <3>1
    <3> QED BY <3>1, <3>2
  <2> QED BY <2>2, <2>3
<1>6. RecordsKnown'
  <2> SUFFICES ASSUME NEW x \in Op, Valid(x)', op'[x].op = "register"
               PROVE  Known(x)' \subseteq op'[x].rec /\ \A i \in Known(x)' : i < op'[x].max_index
    BY DEF RecordsKnown
  <2>1. Valid(x) /\ op[x].op = "register" /\ Socket(x) \in Op
    BY SocketWatched DEF Watched
  <2>2. Known(x)' \subseteq Known(x)
    BY <1>1, <2>1 DEF Known
  <2> QED BY <2>1, <2>2 DEF RecordsKnown
<1>7. Listing'
  BY DEF Listing
<1> QED BY <1>3, <1>5, <1>6, <1>7

LEMMA AnswerKeeps ==
  ASSUME DaemonInv, NEW c \in Op, Answer(c)
  PROVE  DaemonInv'
<1> USE DEF DaemonInv
<1>1. c \in Watched /\ c \notin eof /\ Len(wire[c]) < MaxReplies /\ UNCHANGED <<op, served, cancels, eof, up, proc>>
  BY DEF Answer
<1>2. PICK t \in served[c] : wire' = [wire EXCEPT ![c] = Append(@, [uid |-> t.uid, live |-> t.live])]
  BY DEF Answer
<1>3. t \in Task /\ Mark(c, t) /\ wire[c] \in Seq(Reply) /\ Len(wire[c]) \in Nat /\ MaxReplies \in Nat
  BY <1>1, DaemonAssumption DEF DaemonTyped, Marked
<1>4. PICK m \in Reply : m = [uid |-> t.uid, live |-> t.live]
  BY <1>3 DEF Task, Reply
<1>5. m.uid = t.uid /\ m.live = t.live
  BY <1>4
<1>6. Mark(c, m)
  BY <1>3, <1>5 DEF Mark
<1>7. /\ wire'[c] = Append(wire[c], m) /\ wire'[c] \in Seq(Reply) /\ Len(wire'[c]) = Len(wire[c]) + 1
      /\ \A x \in Op : x # c => wire'[x] = wire[x]
  BY <1>2, <1>3, <1>4 DEF DaemonTyped
<1>8. DaemonTyped'
  <2>1. wire' \in [Op -> Seq(Reply)]
    BY <1>2, <1>7 DEF DaemonTyped
  <2>2. ASSUME NEW x \in Op PROVE Len(wire'[x]) <= MaxReplies
    <3>1. CASE x = c
      BY <1>1, <1>3, <1>7, <3>1
    <3>2. CASE x # c
      BY <1>7, <3>2 DEF DaemonTyped
    <3> QED BY <3>1, <3>2
  <2> QED BY <1>1, <2>1, <2>2 DEF DaemonTyped
<1>9. LoopIsTold' /\ NoOrphans'
  BY <1>1 DEF LoopIsTold, NoOrphans, Valid
<1>10. NothingLeft'
  BY <1>1, <1>7 DEF NothingLeft, Watched, Valid
<1>11. ASSUME NEW x \in Watched, NEW i \in DOMAIN wire'[x] PROVE Mark(x, wire'[x][i])
  <2>1. \A n \in DOMAIN wire[x] : Mark(x, wire[x][n])
    BY DEF Marked
  <2>2. CASE x # c
    BY <1>7, <2>1, <2>2 DEF Watched
  <2>3. CASE x = c
    <3>1. wire'[c][i] = m \/ (i \in DOMAIN wire[c] /\ wire'[c][i] = wire[c][i])
      BY <1>3, <1>7, <2>3
    <3> QED BY <1>6, <2>1, <2>3, <3>1
  <2> QED BY <2>2, <2>3
<1> QED BY <1>1, <1>8, <1>9, <1>10, <1>11, QuietKeeps DEF Valid

LEMMA ReadsCancelsKeeps ==
  ASSUME DaemonInv, NEW c \in Op, ReadsCancels(c)
  PROVE  DaemonInv'
<1> USE DEF DaemonInv
<1>1. /\ served' = [served EXCEPT ![c] = {t \in @ : t.uid \notin cancels[c]}]
      /\ cancels' = [cancels EXCEPT ![c] = {}]
      /\ UNCHANGED <<op, wire, eof, up, proc>>
  BY DEF ReadsCancels
<1>2. /\ served'[c] = {t \in served[c] : t.uid \notin cancels[c]} /\ cancels'[c] = {}
      /\ \A x \in Op : x # c => served'[x] = served[x] /\ cancels'[x] = cancels[x]
  BY <1>1 DEF DaemonTyped
<1>3. \A x \in Op : served'[x] \subseteq served[x] /\ cancels'[x] \subseteq cancels[x]
  BY <1>2
<1>4. served' \in [Op -> SUBSET Task] /\ cancels' \in [Op -> SUBSET (0 .. MaxUid)]
  BY <1>1 DEF DaemonTyped
<1>5. DaemonTyped' /\ LoopIsTold'
  BY <1>1, <1>4 DEF DaemonTyped, LoopIsTold, Valid
<1>6. NothingLeft'
  <2>1. \A x \in Op : served[x] = {} /\ cancels[x] = {} => served'[x] = {} /\ cancels'[x] = {}
    BY <1>3
  <2> QED BY <1>1, <2>1 DEF NothingLeft, Watched, Valid
<1>7. NoOrphans'
  BY <1>2 DEF NoOrphans
<1>8. \A x \in Watched : \A i \in DOMAIN wire'[x] : Mark(x, wire'[x][i])
  BY <1>1 DEF Marked
<1> QED BY <1>1, <1>3, <1>5, <1>6, <1>7, <1>8, QuietKeeps DEF Valid

LEMMA DaemonKeeps ==
  ASSUME DaemonInv, Dies \/ Restarts
  PROVE  DaemonInv'
<1> USE DEF DaemonInv
<1>1. /\ UNCHANGED <<op, wire, proc>> /\ up' \in BOOLEAN
      /\ \/ eof' = Watched /\ served' = [x \in Op |-> {}] /\ cancels' = [x \in Op |-> {}]
         \/ UNCHANGED <<eof, served, cancels>>
  BY DEF Dies, Restarts
<1>2. DaemonTyped'
  BY <1>1 DEF DaemonTyped, Watched
<1>3. LoopIsTold' /\ NoOrphans'
  BY <1>1 DEF LoopIsTold, NoOrphans, Valid
<1>4. NothingLeft'
  BY <1>1 DEF NothingLeft, Watched, Valid
<1>5. \A x \in Op : served'[x] \subseteq served[x]
  BY <1>1
<1>6. \A x \in Watched : \A i \in DOMAIN wire'[x] : Mark(x, wire'[x][i])
  BY <1>1 DEF Marked
<1> QED BY <1>1, <1>2, <1>3, <1>4, <1>5, <1>6, QuietKeeps DEF Valid

(* DNSServiceProcessResult: the loop goes on only for an operation that it may   *)
(* touch, and what it reads is a reply.                                          *)
LEMMA ReadKeeps ==
  ASSUME DaemonInv, NEW c \in Watched, \/ proc = None
                                       \/ proc # None /\ proc.on = c /\ proc.more,
         Read(c), UNCHANGED <<served, cancels, eof, up>>
  PROVE  DaemonInv'
<1> USE DEF DaemonInv
<1>1. /\ c \in Op /\ Valid(c) /\ op[c] \in DNSServiceOp /\ op[c].primary = None
      /\ wire[c] \in Seq(Reply) /\ Len(wire[c]) \in Nat
      /\ \A i \in DOMAIN wire[c] : Mark(c, wire[c][i])
  BY OpFacts DEF Watched, DaemonTyped, Marked
<1>2. \A x \in Op : Valid(x) /\ op[x].moreptr => x = c
  BY <1>1 DEF LoopIsTold
<1>3. PICK new \in DNSServiceOp, rest \in Seq(Reply) :
        /\ op' = [op EXCEPT ![c] = new] /\ wire' = [wire EXCEPT ![c] = rest]
        /\ Len(rest) <= Len(wire[c])
        /\ \A i \in DOMAIN rest : i + 1 \in DOMAIN wire[c] /\ rest[i] = wire[c][i + 1]
        /\ new.primary = None /\ new.op = op[c].op /\ new.uid = op[c].uid
        /\ new.rec = op[c].rec /\ new.max_index = op[c].max_index
        /\ \/ proc' = None /\ ~new.moreptr
           \/ proc' \in Processing /\ proc'.on = c /\ proc'.more = new.moreptr
  <2>1. CASE wire[c] = <<>>
    <3> DEFINE new == [op[c] EXCEPT !.ProcessReply = FALSE, !.moreptr = FALSE]
    <3>1. /\ new \in DNSServiceOp /\ new.primary = None /\ new.op = op[c].op /\ new.uid = op[c].uid
          /\ new.rec = op[c].rec /\ new.max_index = op[c].max_index /\ ~new.moreptr
      BY <1>1 DEF DNSServiceOp
    <3>2. op' = [op EXCEPT ![c] = new] /\ wire' = [wire EXCEPT ![c] = <<>>] /\ proc' = None
      BY <2>1 DEF Read
    <3> HIDE DEF new
    <3>3. <<>> \in Seq(Reply) /\ Len(<<>>) <= Len(wire[c]) /\ DOMAIN <<>> = {}
      BY <1>1
    <3> QED BY <3>1, <3>2, <3>3
  <2>2. CASE wire[c] # <<>>
    <3>1. /\ Head(wire[c]) \in Reply /\ Tail(wire[c]) \in Seq(Reply)
          /\ Len(Tail(wire[c])) <= Len(wire[c])
          /\ \A i \in DOMAIN Tail(wire[c]) : i + 1 \in DOMAIN wire[c] /\ Tail(wire[c])[i] = wire[c][i + 1]
      BY <1>1, <2>2
    <3>2. Head(wire[c]) # Code
      BY <3>1, DaemonAssumption
    <3>3. PICK more \in BOOLEAN : more = (Len(wire[c]) > 1 \/ c \in eof)
      OBVIOUS
    <3>4. /\ wire' = [wire EXCEPT ![c] = Tail(wire[c])] /\ op' = [op EXCEPT ![c].moreptr = more]
          /\ proc' = [on |-> c, more |-> more, to |-> Targets(c, Head(wire[c]))]
      BY <2>2, <3>2, <3>3 DEF Read
    <3> DEFINE new == [op[c] EXCEPT !.moreptr = more]
    <3>5. /\ new \in DNSServiceOp /\ new.primary = None /\ new.op = op[c].op /\ new.uid = op[c].uid
          /\ new.rec = op[c].rec /\ new.max_index = op[c].max_index /\ new.moreptr = more
      BY <1>1 DEF DNSServiceOp
    <3>6. op' = [op EXCEPT ![c] = new]
      BY <3>4
    <3> HIDE DEF new
    <3>7. Targets(c, Head(wire[c])) \subseteq Op
      BY <1>1 DEF Targets, Subordinates
    <3>8. proc' \in Processing /\ proc'.on = c /\ proc'.more = more
      BY <1>1, <3>4, <3>7 DEF Processing
    <3> QED BY <3>1, <3>4, <3>5, <3>6, <3>8
  <2> QED BY <2>1, <2>2
<1>4. /\ op'[c] = new /\ wire'[c] = rest
      /\ \A x \in Op : x # c => op'[x] = op[x] /\ wire'[x] = wire[x]
  BY <1>1, <1>3 DEF DaemonTyped
<1>5. Valid(c)' /\ \A x \in Op : Valid(x)' <=> Valid(x)
  BY <1>1, <1>4, DaemonAssumption DEF Valid
<1>6. Watched' = Watched
  <2>1. \A x \in Op : Valid(x)' /\ op'[x].primary = None <=> Valid(x) /\ op[x].primary = None
    BY <1>1, <1>3, <1>4, <1>5
  <2> QED BY <2>1 DEF Watched
<1>7. DaemonTyped'
  <2>1. \A x \in Op : Len(wire'[x]) <= MaxReplies
    BY <1>1, <1>3, <1>4, DaemonAssumption DEF DaemonTyped
  <2> QED BY <1>3, <2>1 DEF DaemonTyped
<1>8. LoopIsTold'
  <2>1. \A x \in Op : Valid(x)' /\ op'[x].moreptr => x = c
    BY <1>2, <1>4, <1>5
  <2>2. proc' # None => proc'.on = c /\ proc'.more = op'[c].moreptr
    BY <1>3, <1>4
  <2>3. op'[c].moreptr => proc' # None
    BY <1>3, <1>4, DaemonAssumption
  <2> QED BY <1>5, <2>1, <2>2, <2>3 DEF LoopIsTold
<1>9. NothingLeft'
  BY <1>4, <1>6 DEF NothingLeft
<1>10. NoOrphans'
  BY DEF NoOrphans
<1>11. ASSUME NEW x \in Watched, NEW i \in DOMAIN wire'[x] PROVE Mark(x, wire'[x][i])
  BY <1>1, <1>3, <1>4 DEF Marked, Watched
<1> QED BY <1>1, <1>3, <1>4, <1>5, <1>7, <1>8, <1>9, <1>10, <1>11, QuietKeeps

LEMMA ResultsKeep ==
  ASSUME DaemonInv, Returns \/ \E c \in Op : DNSServiceProcessResult(c)
  PROVE  DaemonInv'
<1> USE DEF DaemonInv
<1>1. ASSUME NEW c \in Op, DNSServiceProcessResult(c) PROVE DaemonInv'
  BY <1>1, ReadKeeps DEF DNSServiceProcessResult
<1>2. CASE Returns /\ proc.more
  <2>1. proc # None /\ Read(proc.on) /\ UNCHANGED <<served, cancels, eof, up>>
    BY <1>2 DEF Returns
  <2>2. PICK c \in Op : c = proc.on
    BY <2>1 DEF DaemonTyped, Processing
  <2>3. Valid(c) /\ op[c].moreptr
    BY <1>2, <2>1, <2>2 DEF LoopIsTold
  <2>4. c \in Watched
    BY <2>3 DEF Numbered, Watched
  <2> QED BY <1>2, <2>1, <2>2, <2>4, ReadKeeps
<1>3. CASE Returns /\ ~proc.more
  <2>1. proc # None /\ proc' = None /\ UNCHANGED <<op, wire, served, cancels, eof, up>>
    BY <1>3 DEF Returns
  <2>2. \A x \in Op : Valid(x) => ~op[x].moreptr
    BY <1>3 DEF LoopIsTold
  <2>3. DaemonTyped' /\ LoopIsTold' /\ NothingLeft' /\ NoOrphans'
    BY <2>1, <2>2 DEF DaemonTyped, LoopIsTold, NothingLeft, NoOrphans, Watched, Valid
  <2>4. \A x \in Watched : \A i \in DOMAIN wire'[x] : Mark(x, wire'[x][i])
    BY <2>1 DEF Marked
  <2> QED BY <2>1, <2>3, <2>4, QuietKeeps DEF Valid
<1> QED BY <1>1, <1>2, <1>3

(* DNSServiceRefDeallocate of a subordinate: nothing that was asked by its       *)
(* number goes to another operation, now or later.                               *)
LEMMA UnaskedFacts ==
  ASSUME NEW T, T = Reply \/ T = Task, NEW x \in T, NEW u \in 0 .. MaxUid
  PROVE  /\ Unasked(x, u) \in T /\ Unasked(x, u).uid = x.uid
         /\ x.uid = u \/ Unasked(x, u) = x
         /\ T = Task => Unasked(x, u).recs = x.recs
<1>1. CASE T = Reply
  <2>1. x # Code
    BY <1>1, DaemonAssumption
  <2>2. [x EXCEPT !.live = FALSE] \in Reply /\ [x EXCEPT !.live = FALSE].uid = x.uid
    BY <1>1 DEF Reply
  <2>3. T = Task => x.recs = x.recs
    OBVIOUS
  <2>4. T = Task => Unasked(x, u).recs = x.recs
    BY DEF Unasked, Task
  <2> QED BY <1>1, <2>1, <2>2, <2>4 DEF Unasked
<1>2. CASE T = Task
  <2>1. [x EXCEPT !.live = FALSE] \in Task /\ [x EXCEPT !.live = FALSE].uid = x.uid
        /\ [x EXCEPT !.live = FALSE].recs = x.recs
    BY <1>2 DEF Task
  <2> QED BY <1>2, <2>1 DEF Unasked
<1> QED BY <1>1, <1>2

LEMMA SubordinateFreed ==
  ASSUME DaemonInv, NEW o \in Op, DNSServiceRefDeallocate(o), op[o].primary # None
  PROVE  DaemonInv'
<1> USE DEF DaemonInv
<1>1. PICK c \in Watched : c = op[o].primary
  BY DEF Numbered, DNSServiceRefDeallocate
<1>2. PICK u \in 0 .. MaxUid : u = op[o].uid
  BY OpFacts DEF DNSServiceRefDeallocate
<1>3. /\ Valid(o) /\ ~op[o].moreptr /\ c \in Op /\ c # o /\ op[c].op = "connection" /\ op[c].primary = None
      /\ \A x \in Op : Valid(x) /\ op[x].primary = c /\ op[x].uid = u => x = o
      /\ Valid(c) /\ c # None
  BY <1>1, <1>2, DaemonAssumption DEF Numbered, Watched, DNSServiceRefDeallocate
<1>4. /\ op' = [op EXCEPT ![o] = None] /\ proc' = proc /\ UNCHANGED <<eof, up>>
      /\ cancels' = Cancelled(c, u)
      /\ wire' = [wire EXCEPT ![c] = [i \in DOMAIN @ |-> Unasked(@[i], u)]]
      /\ served' = [served EXCEPT ![c] = {Unasked(t, u) : t \in @}]
  BY <1>1, <1>2, <1>3 DEF DNSServiceRefDeallocate, Stops
<1>5. ~Valid(o)' /\ \A x \in Op : x # o => (Valid(x)' <=> Valid(x)) /\ op'[x] = op[x]
  BY <1>4 DEF DaemonTyped, Valid
<1>6. Watched' = Watched /\ o \notin Watched
  <2>1. \A x \in Op : (Valid(x)' /\ op'[x].primary = None) <=> (Valid(x) /\ op[x].primary = None)
    BY <1>3, <1>5
  <2> QED BY <2>1 DEF Watched
<1>7. /\ \A t \in served[c] : /\ t \in Task /\ Unasked(t, u) \in Task /\ Unasked(t, u).uid = t.uid
                              /\ t.uid = u \/ Unasked(t, u) = t
                              /\ Unasked(t, u).recs = t.recs
      /\ \A i \in DOMAIN wire[c] : LET m == wire[c][i] IN
           m \in Reply /\ Unasked(m, u) \in Reply /\ Unasked(m, u).uid = m.uid
           /\ (m.uid = u \/ Unasked(m, u) = m)
  <2>1. (\A t \in served[c] : t \in Task) /\ \A i \in DOMAIN wire[c] : wire[c][i] \in Reply
    BY <1>3 DEF DaemonTyped
  <2>2. \A x \in Task : /\ Unasked(x, u) \in Task /\ Unasked(x, u).uid = x.uid
                        /\ x.uid = u \/ Unasked(x, u) = x
                        /\ Unasked(x, u).recs = x.recs
    BY UnaskedFacts
  <2>3. \A x \in Reply : /\ Unasked(x, u) \in Reply /\ Unasked(x, u).uid = x.uid
                         /\ x.uid = u \/ Unasked(x, u) = x
    BY UnaskedFacts
  <2> QED BY <2>1, <2>2, <2>3
<1>8. /\ wire'[c] = [i \in DOMAIN wire[c] |-> Unasked(wire[c][i], u)]
      /\ served'[c] = {Unasked(t, u) : t \in served[c]}
      /\ \A x \in Op : x # c => wire'[x] = wire[x] /\ served'[x] = served[x] /\ cancels'[x] = cancels[x]
      /\ cancels'[c] = IF c \in eof THEN cancels[c] ELSE cancels[c] \cup {u}
  BY <1>3, <1>4 DEF DaemonTyped, Cancelled
<1>9. DaemonTyped'
  <2>1. op' \in [Op -> DNSServiceOp \cup {None}]
    BY <1>4 DEF DaemonTyped
  <2>2. wire'[c] \in Seq(Reply) /\ Len(wire'[c]) = Len(wire[c])
    <3>1. wire[c] \in Seq(Reply)
      BY <1>3 DEF DaemonTyped
    <3> QED BY <1>7, <1>8, <3>1
  <2>3. wire' \in [Op -> Seq(Reply)] /\ \A x \in Op : Len(wire'[x]) <= MaxReplies
    <3>1. wire' = [wire EXCEPT ![c] = wire'[c]]
      BY <1>4, <1>8
    <3> QED BY <1>8, <2>2, <3>1 DEF DaemonTyped
  <2>4. served' \in [Op -> SUBSET Task]
    <3>1. served'[c] \in SUBSET Task
      BY <1>7, <1>8
    <3>2. served' = [served EXCEPT ![c] = served'[c]]
      BY <1>4, <1>8
    <3> QED BY <3>1, <3>2 DEF DaemonTyped
  <2>5. cancels' \in [Op -> SUBSET (0 .. MaxUid)]
    BY <1>4 DEF Cancelled, DaemonTyped
  <2> QED BY <1>4, <2>1, <2>3, <2>4, <2>5 DEF DaemonTyped
<1>10. LoopIsTold'
  <2>1. proc' = proc /\ (proc = None \/ proc.on \in Op)
    BY <1>4 DEF DaemonTyped, Processing
  <2>2. \A x \in Op : Valid(x) /\ op[x].moreptr => x # o
    BY <1>3
  <2> QED BY <1>5, <2>1, <2>2 DEF LoopIsTold
<1>11. Numbered'
  <2> SUFFICES ASSUME NEW x \in Op, Valid(x)', op'[x].primary # None
               PROVE  /\ op'[x].primary \in Watched' /\ op'[op'[x].primary].op = "connection"
                      /\ op'[x].uid \in 1 .. op'[op'[x].primary].uid /\ ~op'[x].moreptr
                      /\ \A y \in Op : Valid(y)' /\ op'[y].primary = op'[x].primary
                                         /\ op'[y].uid = op'[x].uid => y = x
    BY DEF Numbered
  <2>1. x # o /\ Valid(x) /\ op'[x] = op[x]
    BY <1>5
  <2>2. op[x].primary \in Watched /\ op[x].primary \in Op /\ op'[op[x].primary] = op[op[x].primary]
    BY <1>5, <1>6, <2>1 DEF Numbered, Watched
  <2>3. \A y \in Op : Valid(y)' => Valid(y) /\ op'[y] = op[y]
    BY <1>5
  <2> QED BY <1>6, <2>1, <2>2, <2>3 DEF Numbered
<1>12. NothingLeft'
  <2>1. c \in eof => served[c] = {} /\ cancels[c] = {}
    BY DEF NothingLeft
  <2>2. c \in eof => served'[c] = {} /\ cancels'[c] = {}
    BY <1>8, <2>1
  <2> QED BY <1>1, <1>4, <1>6, <1>8, <2>2 DEF NothingLeft, Watched
<1>13. \A x \in Watched : \A m : Mark(x, m) => Mark(x, m)'
  <2>1. \A x \in Watched : op'[x] = op[x]
    BY <1>5, <1>6 DEF Watched
  <2>2. \A x \in Watched : \A y \in Subordinates(x)' : y \in Subordinates(x) /\ op'[y] = op[y]
    BY <1>5 DEF Subordinates
  <2> QED BY <2>1, <2>2 DEF Mark
<1>14. \A m, n : Mark(c, m) /\ n.uid = m.uid /\ (m.uid = u \/ n = m) => Mark(c, n)'
  <2> SUFFICES ASSUME NEW m, NEW n, Mark(c, m), n.uid = m.uid, m.uid = u \/ n = m PROVE Mark(c, n)'
    OBVIOUS
  <2>1. op'[c] = op[c] /\ \A y \in Subordinates(c)' : y \in Subordinates(c) /\ op'[y] = op[y] /\ op[y].uid # u
    BY <1>3, <1>5 DEF Subordinates
  <2>2. CASE n = m
    BY <1>13, <2>2
  <2>3. CASE m.uid = u
    BY <1>3, <2>1, <2>3 DEF Mark
  <2> QED BY <2>2, <2>3
<1>15. Marked'
  <2> SUFFICES ASSUME NEW x \in Watched
               PROVE  /\ \A t \in served'[x] : Mark(x, t)'
                      /\ \A i \in DOMAIN wire'[x] : Mark(x, wire[x][i])'
    BY <1>6 DEF Marked
  <2>1. (\A t \in served[x] : Mark(x, t)) /\ \A i \in DOMAIN wire[x] : Mark(x, wire[x][i])
    BY DEF Marked
  <2>2. CASE x # c
    <3>1. \A t \in served'[x] : Mark(x, t)'
      BY <1>8, <1>13, <2>1, <2>2 DEF Watched
    <3>2. ASSUME NEW i \in DOMAIN wire'[x] PROVE Mark(x, wire[x][i])'
      <4>1. PICK n : n = wire'[x][i]
        OBVIOUS
      <4>2. Mark(x, n)
        BY <1>8, <2>1, <2>2, <4>1 DEF Watched
      <4>3. Mark(x, n)'
        BY <1>13, <4>2
      <4> QED BY <4>1, <4>3
    <3> QED BY <3>1, <3>2
  <2>3. CASE x = c
    <3>1. ASSUME NEW t \in served'[c] PROVE Mark(c, t)'
      <4>1. PICK t0 \in served[c] : t = Unasked(t0, u)
        BY <1>8
      <4> QED BY <1>7, <1>14, <2>1, <2>3, <4>1
    <3>2. ASSUME NEW i \in DOMAIN wire'[c] PROVE Mark(c, wire[c][i])'
      <4>1. PICK n : n = wire'[c][i]
        OBVIOUS
      <4>2. i \in DOMAIN wire[c] /\ n = Unasked(wire[c][i], u)
        BY <1>8, <4>1
      <4>3. Mark(c, n)'
        BY <1>7, <1>14, <2>1, <2>3, <4>2
      <4> QED BY <4>1, <4>3
    <3> QED BY <2>3, <3>1, <3>2
  <2> QED BY <2>2, <2>3
<1>16. NoOrphans'
  <2> SUFFICES ASSUME NEW x \in Op, NEW t \in served'[x] PROVE t.live \/ t.uid \in cancels'[x]
    BY DEF NoOrphans
  <2>1. CASE x # c
    BY <1>8, <2>1 DEF NoOrphans
  <2>2. CASE x = c
    <3>1. PICK t0 \in served[c] : t = Unasked(t0, u)
      BY <1>8, <2>2
    <3>2. c \notin eof
      BY <3>1 DEF NothingLeft
    <3>3. t0.live \/ t0.uid \in cancels[c]
      BY <1>3 DEF NoOrphans
    <3> QED BY <1>7, <1>8, <2>2, <3>1, <3>2, <3>3
  <2> QED BY <2>1, <2>2
<1>17. RecordsKnown'
  <2> SUFFICES ASSUME NEW x \in Op, Valid(x)', op'[x].op = "register"
               PROVE  Known(x)' \subseteq op'[x].rec /\ \A i \in Known(x)' : i < op'[x].max_index
    BY DEF RecordsKnown
  <2>1. x # o /\ Valid(x) /\ op'[x] = op[x]
    BY <1>5
  <2>2. Socket(x)' = Socket(x) /\ Socket(x) \in Op
    BY <2>1, SocketWatched DEF Socket, Watched
  <2>3. Known(x)' \subseteq Known(x)
    <3>1. Known(x)' = UNION {t.recs : t \in {t \in served'[Socket(x)] : t.uid = op[x].uid}}
      BY <2>1, <2>2 DEF Known
    <3>2. CASE Socket(x) # c
      BY <1>8, <2>2, <3>1, <3>2 DEF Known
    <3>3. CASE Socket(x) = c
      <4>1. \A t \in served'[c] : \E t0 \in served[c] : t.uid = t0.uid /\ t.recs = t0.recs
        BY <1>7, <1>8
      <4> QED BY <3>1, <3>3, <4>1 DEF Known
    <3> QED BY <3>2, <3>3
  <2> QED BY <2>1, <2>3 DEF RecordsKnown
<1>18. Listing'
  BY <1>5 DEF Listing
<1> QED BY <1>9, <1>10, <1>11, <1>12, <1>15, <1>16, <1>17, <1>18

(* ... and of a connection, with all that share it.                              *)
LEMMA ConnectionFreed ==
  ASSUME DaemonInv, NEW o \in Op, DNSServiceRefDeallocate(o), op[o].primary = None
  PROVE  DaemonInv'
<1> USE DEF DaemonInv
<1>1. /\ Valid(o) /\ proc' = Stops(o) /\ up' = up /\ eof' = eof \ {o}
      /\ op' = [x \in Op |-> IF x \in Freed(o) THEN None ELSE op[x]]
      /\ wire' = [wire EXCEPT ![o] = <<>>] /\ served' = [served EXCEPT ![o] = {}]
      /\ cancels' = [cancels EXCEPT ![o] = {}]
  BY DEF DNSServiceRefDeallocate
<1>2. /\ \A x \in Op : Valid(x)' => x # o /\ Valid(x) /\ op'[x] = op[x] /\ op[x].primary # o
      /\ \A x \in Op : x # o /\ Valid(x) /\ op[x].primary # o => Valid(x)'
  BY <1>1 DEF Freed, Subordinates, Valid
<1>3. /\ wire'[o] = <<>> /\ served'[o] = {} /\ cancels'[o] = {}
      /\ \A x \in Op : x # o => wire'[x] = wire[x] /\ served'[x] = served[x] /\ cancels'[x] = cancels[x]
  BY <1>1 DEF DaemonTyped
<1>4. o \in Watched /\ Watched' = Watched \ {o}
  <2>1. \A x \in Op : (Valid(x)' /\ op'[x].primary = None) <=> (Valid(x) /\ op[x].primary = None /\ x # o)
    BY <1>2, DaemonAssumption
  <2> QED BY <1>1, <2>1 DEF Watched
<1>5. proc' = proc \/ (proc # None /\ proc.on = o /\ proc' = [proc EXCEPT !.more = FALSE])
  BY <1>1 DEF Stops, LoopIsTold
<1>6. DaemonTyped'
  <2>1. proc' \in Processing \cup {None}
    BY <1>5 DEF DaemonTyped, Processing
  <2>2. op' \in [Op -> DNSServiceOp \cup {None}]
    BY <1>1 DEF DaemonTyped
  <2>3. wire' \in [Op -> Seq(Reply)]
    <3>1. <<>> \in Seq(Reply)
      OBVIOUS
    <3> QED BY <1>1, <3>1 DEF DaemonTyped
  <2>4. served' \in [Op -> SUBSET Task] /\ cancels' \in [Op -> SUBSET (0 .. MaxUid)]
    BY <1>1 DEF DaemonTyped
  <2>5. \A x \in Op : Len(wire'[x]) <= MaxReplies
    BY <1>3, DaemonAssumption DEF DaemonTyped
  <2>6. eof' \subseteq Op /\ up' \in BOOLEAN
    BY <1>1 DEF DaemonTyped
  <2> QED BY <2>1, <2>2, <2>3, <2>4, <2>5, <2>6 DEF DaemonTyped
<1>7. LoopIsTold'
  <2>1. CASE op[o].moreptr
    <3>1. proc # None /\ proc.on = o /\ proc' = [proc EXCEPT !.more = FALSE] /\ proc \in Processing
      BY <1>1, <2>1 DEF LoopIsTold, Stops, DaemonTyped
    <3>2. ~proc'.more
      BY <3>1 DEF Processing
    <3>3. \A x \in Op : Valid(x)' => ~op'[x].moreptr
      BY <1>2, <3>1 DEF LoopIsTold
    <3> QED BY <3>2, <3>3 DEF LoopIsTold
  <2>2. CASE ~op[o].moreptr
    <3>1. proc' = proc /\ (proc = None \/ proc.on \in Op)
      BY <1>1, <2>2 DEF Stops, DaemonTyped, Processing
    <3>2. \A x \in Op : Valid(x) /\ op[x].moreptr => Valid(x)'
      BY <1>2, <2>2, DaemonAssumption DEF Numbered
    <3> QED BY <1>2, <3>1, <3>2 DEF LoopIsTold
  <2> QED BY <2>1, <2>2
<1>8. Numbered'
  <2> SUFFICES ASSUME NEW x \in Op, Valid(x)', op'[x].primary # None
               PROVE  /\ op'[x].primary \in Watched' /\ op'[op'[x].primary].op = "connection"
                      /\ op'[x].uid \in 1 .. op'[op'[x].primary].uid /\ ~op'[x].moreptr
                      /\ \A y \in Op : Valid(y)' /\ op'[y].primary = op'[x].primary
                                         /\ op'[y].uid = op'[x].uid => y = x
    BY DEF Numbered
  <2>1. Valid(x) /\ op'[x] = op[x] /\ op[x].primary # o
    BY <1>2
  <2>2. op[x].primary \in Watched' /\ op[x].primary \in Op
    BY <1>4, <2>1 DEF Numbered, Watched
  <2>3. op'[op[x].primary] = op[op[x].primary]
    BY <1>2, <2>2 DEF Watched
  <2>4. \A y \in Op : Valid(y)' => Valid(y) /\ op'[y] = op[y]
    BY <1>2
  <2> QED BY <2>1, <2>2, <2>3, <2>4 DEF Numbered
<1>9. NothingLeft'
  BY <1>1, <1>3, <1>4 DEF NothingLeft, Watched
<1>10. \A x \in Watched' : \A m : Mark(x, m) => Mark(x, m)'
  <2>1. \A x \in Watched' : op'[x] = op[x]
    BY <1>2 DEF Watched
  <2>2. \A x \in Watched' : \A y \in Subordinates(x)' : y \in Subordinates(x) /\ op'[y] = op[y]
    BY <1>2 DEF Subordinates
  <2> QED BY <2>1, <2>2 DEF Mark
<1>11. Marked'
  <2> SUFFICES ASSUME NEW x \in Watched'
               PROVE  /\ \A t \in served'[x] : Mark(x, t)'
                      /\ \A i \in DOMAIN wire'[x] : Mark(x, wire[x][i])'
    BY DEF Marked
  <2>1. x \in Watched /\ x \in Op /\ x # o /\ wire'[x] = wire[x] /\ served'[x] = served[x]
    BY <1>3, <1>4 DEF Watched
  <2>2. (\A t \in served[x] : Mark(x, t)) /\ \A i \in DOMAIN wire[x] : Mark(x, wire[x][i])
    BY <2>1 DEF Marked
  <2>3. \A t \in served'[x] : Mark(x, t)'
    BY <1>10, <2>1, <2>2
  <2>4. ASSUME NEW i \in DOMAIN wire'[x] PROVE Mark(x, wire[x][i])'
    <3>1. PICK n : n = wire'[x][i]
      OBVIOUS
    <3>2. Mark(x, n)'
      BY <1>10, <2>1, <2>2, <3>1
    <3> QED BY <3>1, <3>2
  <2> QED BY <2>3, <2>4
<1>12. NoOrphans'
  BY <1>3 DEF NoOrphans
<1>13. RecordsKnown'
  <2> SUFFICES ASSUME NEW x \in Op, Valid(x)', op'[x].op = "register"
               PROVE  Known(x)' \subseteq op'[x].rec /\ \A i \in Known(x)' : i < op'[x].max_index
    BY DEF RecordsKnown
  <2>1. Valid(x) /\ op'[x] = op[x] /\ x # o /\ op[x].primary # o
    BY <1>2
  <2>2. Socket(x)' = Socket(x) /\ Socket(x) \in Op /\ Socket(x) # o
    BY <2>1, SocketWatched DEF Socket, Watched
  <2>3. Known(x)' = Known(x)
    BY <1>3, <2>1, <2>2 DEF Known
  <2> QED BY <2>1, <2>3 DEF RecordsKnown
<1>14. Listing'
  BY <1>2 DEF Listing
<1> QED BY <1>6, <1>7, <1>8, <1>9, <1>11, <1>12, <1>13, <1>14

LEMMA DaemonGoes == DaemonInv /\ [DaemonNext]_daemonVars => DaemonInv'
<1> SUFFICES ASSUME DaemonInv, [DaemonNext]_daemonVars PROVE DaemonInv'
  OBVIOUS
<1>1. CASE UNCHANGED daemonVars
  <2>1. UNCHANGED <<op, wire, served, cancels, eof, up, proc>>
    BY <1>1 DEF daemonVars
  <2>2. DaemonTyped' /\ LoopIsTold' /\ NothingLeft' /\ NoOrphans'
    BY <2>1 DEF DaemonInv, DaemonTyped, LoopIsTold, NothingLeft, NoOrphans, Watched, Valid
  <2>3. \A x \in Watched : \A i \in DOMAIN wire'[x] : Mark(x, wire'[x][i])
    BY <2>1 DEF DaemonInv, Marked
  <2> QED BY <2>1, <2>2, <2>3, QuietKeeps DEF Valid
<1>2. ASSUME NEW o \in Op, \/ DNSServiceCreateConnection(o) \/ DNSServiceResolve(o) \/ DNSServiceQueryRecord(o)
                           \/ DNSServiceGetAddrInfo(o) \/ DNSServiceBrowse(o) \/ DNSServiceEnumerateDomains(o)
                           \/ DNSServiceNATPortMappingCreate(o) \/ DNSServiceRegister(o)
      PROVE  DaemonInv'
  <2>1. \E kind \in {"connection", "register", "request"} :
          Connect(o, kind) \/ \E p \in Op : Shares(o, kind, p)
    BY <1>2 DEF DNSServiceCreateConnection, DNSServiceResolve, DNSServiceQueryRecord, DNSServiceGetAddrInfo,
                DNSServiceBrowse, DNSServiceEnumerateDomains, DNSServiceNATPortMappingCreate,
                DNSServiceRegister, Request
  <2> QED BY <2>1, ConnectKeeps, SharesKeeps
<1>3. ASSUME NEW o \in Op, \/ DNSServiceAddRecord(o) \/ DNSServiceUpdateRecord(o)
                           \/ \E i \in 0 .. MaxIndex - 1 : DNSServiceRemoveRecord(o, i)
      PROVE  DaemonInv'
  BY <1>3, AddRecordKeeps, UpdateRecordKeeps, RemoveRecordKeeps
<1>4. ASSUME NEW o \in Op, DNSServiceRefDeallocate(o) PROVE DaemonInv'
  BY <1>4, SubordinateFreed, ConnectionFreed
<1>5. ASSUME NEW o \in Op, Answer(o) \/ ReadsCancels(o) PROVE DaemonInv'
  BY <1>5, AnswerKeeps, ReadsCancelsKeeps
<1>6. CASE Dies \/ Restarts
  BY <1>6, DaemonKeeps
<1>7. CASE Returns \/ \E c \in Op : DNSServiceProcessResult(c)
  BY <1>7, ResultsKeep
<1> QED BY <1>1, <1>2, <1>3, <1>4, <1>5, <1>6, <1>7 DEF DaemonNext

(* Replies reach the operation they are for, or nobody: whatever callbacks       *)
(* release while more wait, and whatever the daemon does meanwhile.              *)
THEOREM RepliesAreKept == DaemonSpec => []RepliesKept
<1> QED BY DaemonStarts, DaemonGoes, DaemonInvSays, PTL DEF DaemonSpec

(* The operations that share a connection are the same here and at the daemon,   *)
(* with the same records, through refusals, releases and restarts.               *)
THEOREM SharingIsKept == DaemonSpec => []SharingKept
<1> QED BY DaemonStarts, DaemonGoes, DaemonInvSays, PTL DEF DaemonSpec

-------------------------------------------------------------------------------
(* BonjourBrowser.  As long as neither the browser nor the service was given     *)
(* the address the resolver's reference remembers: what is referred to and       *)
(* watched is open, and each reference is to an operation of its own; a stale    *)
(* one, which the resolver's may be, is nobody else's.                           *)

Apart(a, X) == a = NULL \/ a \notin X
Referred(p, o, v) ==
  /\ p \in QZeroConfPrivate /\ o \subseteq Ref /\ v \subseteq Service
  /\ p.bs = p.dnssRef /\ p.browserSocket = p.browser
  /\ {p.dnssRef, p.browser, p.resolverSocket, p.addressSocket} \subseteq o \cup {NULL}
  /\ Apart(p.dnssRef, {p.browser, p.resolver, p.resolverSocket, p.addressSocket})
  /\ Apart(p.browser, {p.resolver, p.resolverSocket, p.addressSocket})
HeadResolved(p, o, f) ==
  /\ f \subseteq {"resolve", "address"}
  /\ f # {} <=> p.work # <<>> /\ p.resolver = NULL
  /\ p.work # <<>> /\ f = {} => p.resolver \in o
  /\ p.resolver \in o => p.work # <<>>
Fine(x) == Referred(x.pri, x.open, x.services) /\ HeadResolved(x.pri, x.open, x.refused)
BonjourInv == mistaken \in BOOLEAN /\ (mistaken \/ Fine(Now))

LEMMA BonjourStarts == BonjourInit => BonjourInv
<1> SUFFICES ASSUME BonjourInit PROVE BonjourInv
  OBVIOUS
<1>1. /\ pri = [dnssRef |-> NULL, browser |-> NULL, resolver |-> NULL, bs |-> NULL, browserSocket |-> NULL,
                resolverSocket |-> NULL, addressSocket |-> NULL, work |-> <<>>, asks |-> "resolve"]
      /\ open = {} /\ services = {} /\ refused = {} /\ mistaken = FALSE
  BY DEF BonjourInit
<1>2. Now.pri = pri /\ Now.open = open /\ Now.services = services /\ Now.refused = refused
  BY DEF Now, State
<1>3. Referred(pri, open, services)
  BY <1>1 DEF Referred, Apart, QZeroConfPrivate
<1>4. pri.work = <<>> /\ pri.resolver \notin open /\ refused = {}
  BY <1>1
<1>5. HeadResolved(pri, open, refused)
  BY <1>4 DEF HeadResolved
<1> QED BY <1>1, <1>2, <1>3, <1>5 DEF BonjourInv, Fine

LEMMA BonjourInvSays == BonjourInv => BrowserSound
BY DEF BonjourInv, Fine, Now, State, Referred, HeadResolved, BrowserSound, BonjourTypeOK,
   NotifierWatchesOpen, HeadIsResolved

(* What is forgotten is referred to by nobody.                                   *)
LEMMA BecomesFine ==
  ASSUME NEW X, \A x \in X : Fine(x), Becomes(X)
  PROVE  Fine(Now)'
<1>1. PICK x \in X : /\ pri' = x.pri /\ services' = x.services /\ refused' = x.refused
                     /\ open' = x.open \cap Held(x.pri)
  BY DEF Becomes
<1>2. Referred(x.pri, x.open, x.services) /\ HeadResolved(x.pri, x.open, x.refused)
  BY DEF Fine
<1>3. Referred(x.pri, x.open \cap Held(x.pri), x.services)
  BY <1>2 DEF Referred, Held
<1>4. HeadResolved(x.pri, x.open \cap Held(x.pri), x.refused)
  BY <1>2 DEF HeadResolved, Held
<1> QED BY <1>1, <1>3, <1>4 DEF Fine, Now, State

LEMMA AllocatedNew ==
  ASSUME NEW p, NEW o, NEW v, Referred(p, o, v), NEW a \in Allocated(p, o)
  PROVE  a \in Ref /\ a \notin o /\ a # NULL
         /\ a \notin {p.dnssRef, p.browser, p.bs, p.browserSocket, p.resolverSocket, p.addressSocket}
<1>1. {p.dnssRef, p.browser, p.resolver, p.bs, p.browserSocket, p.resolverSocket, p.addressSocket}
      \subseteq Ref \cup {NULL}
  BY DEF Referred, QZeroConfPrivate
<1>2. a \in Ref /\ a \notin o /\ a # NULL
  BY <1>1, BonjourAssumption DEF Allocated, Held
<1> QED BY <1>2 DEF Referred

(* resolve: a new operation, or none.                                            *)
LEMMA ResolveFine ==
  ASSUME NEW p, NEW o, NEW v, NEW f, f = {}, Referred(p, o, v), p.work # <<>>,
         NEW y \in Resolve(State(p, o, v, f))
  PROVE  Fine(y) /\ (y.open = o \/ \E a \in Ref \ o : y.open = o \cup {a} /\ y.pri.resolver = a)
         /\ (y.pri.resolver = NULL \/ y.pri.resolver \notin o) /\ y.services = v
         /\ y.pri.dnssRef = p.dnssRef /\ y.pri.browser = p.browser
         /\ y.pri.addressSocket = p.addressSocket
         /\ y.pri.resolverSocket \in {p.resolverSocket, y.pri.resolver}
<1>1. p \in QZeroConfPrivate
  BY DEF Referred
<1>2. CASE \E a \in Allocated(p, o) :
             y = State([p EXCEPT !.resolver = a, !.resolverSocket = a, !.asks = "resolve"], o \cup {a}, v, f)
  <2>1. PICK a \in Allocated(p, o) :
          y = State([p EXCEPT !.resolver = a, !.resolverSocket = a, !.asks = "resolve"], o \cup {a}, v, f)
    BY <1>2
  <2>2. /\ a \in Ref /\ a \notin o /\ a # NULL
        /\ a \notin {p.dnssRef, p.browser, p.bs, p.browserSocket, p.resolverSocket, p.addressSocket}
    BY AllocatedNew
  <2> DEFINE n == [p EXCEPT !.resolver = a, !.resolverSocket = a, !.asks = "resolve"]
  <2>3. n \in QZeroConfPrivate
    BY <1>1, <2>2 DEF QZeroConfPrivate
  <2>4. /\ n.resolver = a /\ n.resolverSocket = a /\ n.addressSocket = p.addressSocket /\ n.work = p.work
        /\ n.dnssRef = p.dnssRef /\ n.browser = p.browser /\ n.bs = p.bs /\ n.browserSocket = p.browserSocket
    BY <1>1 DEF QZeroConfPrivate
  <2>5. y.pri = n /\ y.open = o \cup {a} /\ y.services = v /\ y.refused = f
    BY <2>1 DEF State
  <2> HIDE DEF n
  <2>6. Referred(n, o \cup {a}, v)
    BY <2>2, <2>3, <2>4 DEF Referred, Apart
  <2>7. HeadResolved(n, o \cup {a}, f)
    BY <2>2, <2>4 DEF HeadResolved
  <2> QED BY <2>2, <2>4, <2>5, <2>6, <2>7 DEF Fine
<1>3. CASE y = State([p EXCEPT !.resolver = NULL], o, v, f \cup {"resolve"})
  <2> DEFINE n == [p EXCEPT !.resolver = NULL]
  <2>1. n \in QZeroConfPrivate
    BY <1>1 DEF QZeroConfPrivate
  <2>2. /\ n.resolver = NULL /\ n.resolverSocket = p.resolverSocket /\ n.addressSocket = p.addressSocket
        /\ n.dnssRef = p.dnssRef /\ n.browser = p.browser /\ n.bs = p.bs /\ n.browserSocket = p.browserSocket
        /\ n.work = p.work
    BY <1>1 DEF QZeroConfPrivate
  <2>3. y.pri = n /\ y.open = o /\ y.services = v /\ y.refused = {"resolve"}
    BY <1>3 DEF State
  <2> HIDE DEF n
  <2>4. NULL \notin o
    BY BonjourAssumption DEF Referred
  <2>5. Referred(n, o, v)
    BY <2>1, <2>2 DEF Referred, Apart
  <2>6. HeadResolved(n, o, {"resolve"})
    BY <2>2, <2>4 DEF HeadResolved
  <2> QED BY <2>2, <2>3, <2>5, <2>6 DEF Fine
<1> QED BY <1>2, <1>3 DEF Resolve, State

(* cleanUp, of what is open: the resolver's reference is the stale one, and the  *)
(* queue goes on, or the browser's or the service's is NULL.                     *)
LEMMA ResolverCleaned ==
  ASSUME NEW p, NEW o, NEW v, NEW f, Referred(p, o, v), HeadResolved(p, o, f),
         p.resolver # NULL, NEW z \in CleanUp(State(p, o, v, f), p.resolver)
  PROVE  Fine(z)
<1> DEFINE q == [Unwatched(p) EXCEPT !.work = Dequeued(@)]
<1>1. p \in QZeroConfPrivate /\ p.work \in Seq(Service)
  BY DEF Referred, QZeroConfPrivate
<1>2. Dequeued(p.work) \in Seq(Service)
  BY <1>1 DEF Dequeued
<1>3. /\ q \in QZeroConfPrivate /\ q.resolver = p.resolver /\ q.resolverSocket = NULL /\ q.addressSocket = NULL
      /\ q.dnssRef = p.dnssRef /\ q.browser = p.browser /\ q.bs = p.bs /\ q.browserSocket = p.browserSocket
  <2>1. Unwatched(p) \in QZeroConfPrivate /\ Unwatched(p).work = p.work
    BY <1>1 DEF Unwatched, QZeroConfPrivate
  <2>2. q \in QZeroConfPrivate
    BY <1>2, <2>1 DEF QZeroConfPrivate
  <2> QED BY <1>1, <2>2 DEF Unwatched, QZeroConfPrivate
<1>0. f = {}
  BY DEF HeadResolved
<1>4. PICK y \in Continued(State(q, o, v, f)) : z = Deallocated(y, p.resolver)
  BY <1>0 DEF CleanUp, State
<1> HIDE DEF q
<1>5. Referred(q, o, v)
  BY <1>3 DEF Referred, Apart
<1>6. z.pri = y.pri /\ z.open = y.open \ {p.resolver} /\ z.services = y.services /\ z.refused = y.refused
  BY <1>4 DEF Deallocated, State
<1>7. CASE q.work = <<>>
  <2>1. y = State(q, o, v, f)
    BY <1>4, <1>7 DEF Continued, Unless, State
  <2>2. z.pri = q /\ z.open = o \ {p.resolver} /\ z.services = v /\ z.refused = f
    BY <1>6, <2>1 DEF State
  <2>3. Referred(q, o \ {p.resolver}, v)
    BY <1>3, <1>5 DEF Referred, Apart
  <2>4. HeadResolved(q, o \ {p.resolver}, f)
    BY <1>3, <1>7 DEF HeadResolved
  <2> QED BY <2>2, <2>3, <2>4 DEF Fine
<1>8. CASE q.work # <<>>
  <2>1. y \in Resolve(State(q, o, v, f))
    BY <1>4, <1>8 DEF Continued, Unless, State
  <2>2. /\ Fine(y) /\ y.pri.resolver # p.resolver
        /\ y.pri.dnssRef = p.dnssRef /\ y.pri.browser = p.browser /\ y.pri.addressSocket = NULL
        /\ y.pri.resolverSocket \in {NULL, y.pri.resolver}
    <3>1. CASE p.resolver \in o
      BY <1>0, <1>3, <1>5, <1>8, <2>1, <3>1, ResolveFine
    <3>2. CASE p.resolver \notin o
      <4>1. p.work = <<>>
        BY <3>2 DEF HeadResolved
      <4>2. q.work = <<>>
        BY <1>1, <4>1 DEF q, Dequeued, Unwatched, QZeroConfPrivate
      <4> QED BY <1>8, <4>2
    <3> QED BY <3>1, <3>2
  <2>3. Referred(y.pri, y.open, y.services) /\ HeadResolved(y.pri, y.open, y.refused)
    BY <2>2 DEF Fine
  <2>4. Apart(p.dnssRef, {p.resolver}) /\ Apart(p.browser, {p.resolver})
    BY DEF Referred, Apart
  <2>5. Referred(y.pri, y.open \ {p.resolver}, y.services)
    BY <2>2, <2>3, <2>4 DEF Referred, Apart
  <2>6. HeadResolved(y.pri, y.open \ {p.resolver}, y.refused)
    BY <2>2, <2>3 DEF HeadResolved
  <2> QED BY <1>6, <2>5, <2>6 DEF Fine
<1> QED BY <1>7, <1>8

LEMMA OtherCleaned ==
  ASSUME NEW p, NEW o, NEW v, NEW f, Referred(p, o, v), HeadResolved(p, o, f),
         NEW c \in {p.dnssRef, p.browser}, c # NULL, NEW z \in CleanUp(State(p, o, v, f), c)
  PROVE  Fine(z)
<1>1. p \in QZeroConfPrivate /\ c # p.resolver /\ c \notin {p.resolverSocket, p.addressSocket}
  BY DEF Referred, Apart
<1>2. z.pri = Cleared(p, c) /\ z.open = o \ {c} /\ z.services \in {{}, v} /\ z.refused = f
  BY <1>1 DEF CleanUp, Deallocated, State
<1> DEFINE n == Cleared(p, c)
<1>3. /\ n \in QZeroConfPrivate /\ n.resolver = p.resolver /\ n.resolverSocket = p.resolverSocket
      /\ n.addressSocket = p.addressSocket /\ n.work = p.work
      /\ n.bs = n.dnssRef /\ n.browserSocket = n.browser
      /\ n.dnssRef \in {NULL, p.dnssRef} \ {c} /\ n.browser \in {NULL, p.browser} \ {c}
  <2>1. p.bs = p.dnssRef /\ p.browserSocket = p.browser /\ Apart(p.dnssRef, {p.browser})
    BY DEF Referred, Apart
  <2>2. CASE c = p.browser
    <3>1. n = [p EXCEPT !.browser = NULL, !.browserSocket = NULL]
      BY <2>2 DEF Cleared
    <3>2. n \in QZeroConfPrivate
      BY <1>1, <3>1 DEF QZeroConfPrivate
    <3> HIDE DEF n
    <3> QED BY <1>1, <2>1, <2>2, <3>1, <3>2 DEF QZeroConfPrivate, Apart
  <2>3. CASE c # p.browser
    <3>1. n = [p EXCEPT !.dnssRef = NULL, !.bs = NULL] /\ c = p.dnssRef
      BY <2>3 DEF Cleared
    <3>2. n \in QZeroConfPrivate
      BY <1>1, <3>1 DEF QZeroConfPrivate
    <3> HIDE DEF n
    <3> QED BY <1>1, <2>1, <2>3, <3>1, <3>2 DEF QZeroConfPrivate, Apart
  <2> QED BY <2>2, <2>3
<1> HIDE DEF n
<1>4. Referred(n, o \ {c}, z.services)
  BY <1>1, <1>2, <1>3 DEF Referred, Apart
<1>5. HeadResolved(n, o \ {c}, f)
  BY <1>1, <1>3 DEF HeadResolved
<1> QED BY <1>2, <1>4, <1>5 DEF Fine, n

LEMMA CleanedFine ==
  ASSUME NEW v \in SUBSET Service, Referred(pri, open, v), HeadResolved(pri, open, refused),
         NEW c \in {pri.dnssRef, pri.browser, pri.resolver}, c # NULL,
         NEW z \in CleanUp(State(pri, open, v, refused), c)
  PROVE  Fine(z)
BY ResolverCleaned, OtherCleaned

(* Each operation, from here or called back.                                     *)
LEMMA BonjourGoes == BonjourInv /\ [BonjourNext]_bonjourVars => BonjourInv'
<1> SUFFICES ASSUME BonjourInv, [BonjourNext]_bonjourVars PROVE BonjourInv'
  OBVIOUS
<1>a. CASE mistaken
  BY <1>a DEF BonjourInv, BonjourNext, bonjourVars, Made, StartServicePublish, StopServicePublish, RegisterFails,
     StartBrowser, StopBrowser, BrowseFails, ServiceAppears, ServiceVanishes, ResolverCallback, AddressReply,
     ResolverFails
<1>b. SUFFICES ASSUME mistaken = FALSE PROVE BonjourInv'
  BY <1>a DEF BonjourInv
<1>c. ASSUME UNCHANGED mistaken, Fine(Now)' PROVE BonjourInv'
  BY <1>b, <1>c DEF BonjourInv
<1>1. /\ Referred(pri, open, services) /\ HeadResolved(pri, open, refused)
      /\ Now = State(pri, open, services, refused)
      /\ pri \in QZeroConfPrivate /\ services \in SUBSET Service /\ pri.work \in Seq(Service)
      /\ NULL \notin open
  BY <1>b, BonjourAssumption DEF BonjourInv, Fine, Now, State, Referred, QZeroConfPrivate
<1>2. CASE UNCHANGED bonjourVars
  BY <1>2 DEF BonjourInv, Now, bonjourVars
<1>3. ASSUME NEW c \in {pri.dnssRef, pri.browser, pri.resolver}, c # NULL,
             Becomes(CleanUp(Now, c)), UNCHANGED mistaken
      PROVE  BonjourInv'
  BY <1>1, <1>3, <1>c, CleanedFine, BecomesFine
<1>4. CASE StopServicePublish \/ RegisterFails \/ StopBrowser \/ BrowseFails \/ ResolverFails
  BY <1>1, <1>3, <1>4 DEF StopServicePublish, RegisterFails, StopBrowser, BrowseFails, Browsing,
                          ResolverFails
<1>5. CASE StartServicePublish
  <2> DEFINE n(a) == [pri EXCEPT !.dnssRef = a, !.bs = a]
  <2>1. PICK a \in Allocated(pri, open) : Made(a, n(a)) /\ pri.dnssRef = NULL
    <3>1. \E a \in Allocated(pri, open) : Made(a, n(a))
      BY <1>5 DEF StartServicePublish
    <3> QED BY <1>5, <3>1 DEF StartServicePublish
  <2>2. CASE a = pri.resolver
    BY <1>b, <2>1, <2>2 DEF Made, BonjourInv
  <2>3. CASE a # pri.resolver
    <3>1. a \in Ref /\ a \notin open /\ a # NULL
          /\ a \notin {pri.browser, pri.resolverSocket, pri.addressSocket}
      BY <1>1, AllocatedNew
    <3>2. n(a) \in QZeroConfPrivate
      BY <1>1, <3>1 DEF QZeroConfPrivate
    <3>3. /\ n(a).dnssRef = a /\ n(a).bs = a /\ n(a).browser = pri.browser /\ n(a).browserSocket = pri.browserSocket
          /\ n(a).resolver = pri.resolver /\ n(a).resolverSocket = pri.resolverSocket
          /\ n(a).addressSocket = pri.addressSocket /\ n(a).work = pri.work
      BY <1>1 DEF QZeroConfPrivate
    <3> HIDE DEF n
    <3>4. Referred(n(a), open \cup {a}, services)
      BY <1>1, <2>1, <2>3, <3>1, <3>2, <3>3 DEF Referred, Apart
    <3>5. HeadResolved(n(a), open \cup {a}, refused)
      BY <1>1, <2>3, <3>1, <3>3 DEF HeadResolved
    <3>6. Fine(State(n(a), open \cup {a}, services, refused))
      BY <3>4, <3>5 DEF Fine, State
    <3>7. Becomes({State(n(a), open \cup {a}, services, refused)}) /\ UNCHANGED mistaken
      BY <1>b, <2>1, <2>3 DEF Made
    <3> QED BY <1>c, <3>6, <3>7, BecomesFine
  <2> QED BY <2>2, <2>3
<1>6. CASE StartBrowser
  <2> DEFINE n(a) == [pri EXCEPT !.browser = a, !.browserSocket = a]
  <2>1. PICK a \in Allocated(pri, open) : Made(a, n(a)) /\ pri.browser = NULL
    BY <1>6 DEF StartBrowser
  <2>2. CASE a = pri.resolver
    BY <1>b, <2>1, <2>2 DEF Made, BonjourInv
  <2>3. CASE a # pri.resolver
    <3>1. a \in Ref /\ a \notin open /\ a # NULL
          /\ a \notin {pri.dnssRef, pri.resolverSocket, pri.addressSocket}
      BY <1>1, AllocatedNew
    <3>2. n(a) \in QZeroConfPrivate
      BY <1>1, <3>1 DEF QZeroConfPrivate
    <3>3. /\ n(a).browser = a /\ n(a).browserSocket = a /\ n(a).dnssRef = pri.dnssRef /\ n(a).bs = pri.bs
          /\ n(a).resolver = pri.resolver /\ n(a).resolverSocket = pri.resolverSocket
          /\ n(a).addressSocket = pri.addressSocket /\ n(a).work = pri.work
      BY <1>1 DEF QZeroConfPrivate
    <3> HIDE DEF n
    <3>4. Referred(n(a), open \cup {a}, services)
      BY <1>1, <2>1, <2>3, <3>1, <3>2, <3>3 DEF Referred, Apart
    <3>5. HeadResolved(n(a), open \cup {a}, refused)
      BY <1>1, <2>3, <3>1, <3>3 DEF HeadResolved
    <3>6. Fine(State(n(a), open \cup {a}, services, refused))
      BY <3>4, <3>5 DEF Fine, State
    <3>7. Becomes({State(n(a), open \cup {a}, services, refused)}) /\ UNCHANGED mistaken
      BY <1>b, <2>1, <2>3 DEF Made
    <3> QED BY <1>c, <3>6, <3>7, BecomesFine
  <2> QED BY <2>2, <2>3
<1>7. ASSUME NEW x \in Service, ServiceAppears(x) PROVE BonjourInv'
  <2> DEFINE n == [pri EXCEPT !.work = Append(@, x)]
  <2>1. n \in QZeroConfPrivate
    BY <1>1 DEF QZeroConfPrivate
  <2>2. /\ n.browser = pri.browser /\ n.browserSocket = pri.browserSocket /\ n.dnssRef = pri.dnssRef
        /\ n.bs = pri.bs /\ n.resolver = pri.resolver /\ n.resolverSocket = pri.resolverSocket
        /\ n.addressSocket = pri.addressSocket /\ n.work = Append(pri.work, x)
    BY <1>1 DEF QZeroConfPrivate
  <2>3. Becomes(Unless(pri.work = <<>>, Resolve(State(n, open, services, refused)), {State(n, open, services, refused)}))
    BY <1>7 DEF ServiceAppears, Enqueued, Now, State
  <2>0. UNCHANGED mistaken
    BY <1>7 DEF ServiceAppears
  <2> HIDE DEF n
  <2>4. n.work # <<>>
    BY <1>1, <2>2, AppendProperties
  <2>5. Referred(n, open, services)
    BY <1>1, <2>1, <2>2 DEF Referred
  <2>6. CASE pri.work = <<>>
    <3>0. refused = {}
      BY <1>1, <2>6 DEF HeadResolved
    <3>1. Becomes(Resolve(State(n, open, services, {})))
      BY <2>3, <2>6, <3>0 DEF Unless
    <3> QED BY <1>c, <2>0, <2>4, <2>5, <3>1, ResolveFine, BecomesFine
  <2>7. CASE pri.work # <<>>
    <3>1. Becomes({State(n, open, services, refused)})
      BY <2>3, <2>7 DEF Unless
    <3>2. HeadResolved(n, open, refused)
      BY <1>1, <2>2, <2>4, <2>7 DEF HeadResolved
    <3>3. Fine(State(n, open, services, refused))
      BY <2>5, <3>2 DEF Fine, State
    <3> QED BY <1>c, <2>0, <3>1, <3>3, BecomesFine
  <2> QED BY <2>6, <2>7
<1>8. ASSUME NEW x \in Service, ServiceVanishes(x) PROVE BonjourInv'
  <2>1. Becomes({State(pri, open, services \ {x}, refused)}) /\ UNCHANGED mistaken
    BY <1>8 DEF ServiceVanishes
  <2>2. Fine(State(pri, open, services \ {x}, refused))
    BY <1>1 DEF Fine, State, Referred
  <2> QED BY <1>c, <2>1, <2>2, BecomesFine
<1>9. CASE ResolverCallback
  <2> DEFINE n(a) == [pri EXCEPT !.resolver = a, !.addressSocket = a, !.asks = "address"]
             none == [pri EXCEPT !.resolver = NULL]
  <2>1. /\ Becomes({State(n(a), open \cup {a}, services, refused) : a \in Allocated(pri, open)}
                   \cup {State(none, open, services, refused \cup {"address"})})
        /\ pri.resolver \in open /\ UNCHANGED mistaken
    BY <1>9 DEF ResolverCallback, Resolving
  <2>2. ASSUME NEW a \in Allocated(pri, open) PROVE Fine(State(n(a), open \cup {a}, services, refused))
    <3>1. a \in Ref /\ a \notin open /\ a # NULL
          /\ a \notin {pri.dnssRef, pri.browser, pri.resolverSocket, pri.addressSocket}
      BY <1>1, AllocatedNew
    <3>2. n(a) \in QZeroConfPrivate
      BY <1>1, <3>1 DEF QZeroConfPrivate
    <3>3. /\ n(a).browser = pri.browser /\ n(a).browserSocket = pri.browserSocket /\ n(a).dnssRef = pri.dnssRef
          /\ n(a).bs = pri.bs /\ n(a).resolver = a /\ n(a).resolverSocket = pri.resolverSocket
          /\ n(a).addressSocket = a /\ n(a).work = pri.work
      BY <1>1 DEF QZeroConfPrivate
    <3> HIDE DEF n
    <3>4. Referred(n(a), open \cup {a}, services)
      BY <1>1, <3>1, <3>2, <3>3 DEF Referred, Apart
    <3>5. HeadResolved(n(a), open \cup {a}, refused)
      BY <1>1, <2>1, <3>1, <3>3 DEF HeadResolved
    <3> QED BY <3>4, <3>5 DEF Fine, State
  <2>3. Fine(State(none, open, services, refused \cup {"address"}))
    <3>1. none \in QZeroConfPrivate
      BY <1>1 DEF QZeroConfPrivate
    <3>2. /\ none.browser = pri.browser /\ none.browserSocket = pri.browserSocket /\ none.dnssRef = pri.dnssRef
          /\ none.bs = pri.bs /\ none.resolver = NULL /\ none.resolverSocket = pri.resolverSocket
          /\ none.addressSocket = pri.addressSocket /\ none.work = pri.work
      BY <1>1 DEF QZeroConfPrivate
    <3> HIDE DEF none
    <3>3. Referred(none, open, services)
      BY <1>1, <3>1, <3>2 DEF Referred, Apart
    <3>4. HeadResolved(none, open, refused \cup {"address"})
      BY <1>1, <2>1, <3>2 DEF HeadResolved
    <3> QED BY <3>3, <3>4 DEF Fine, State
  <2> HIDE DEF n, none
  <2> QED BY <1>c, <2>1, <2>2, <2>3, BecomesFine
<1>10. ASSUME NEW add \in BOOLEAN, NEW more \in BOOLEAN, AddressReply(add, more) PROVE BonjourInv'
  <2>1. PICK v : v = IF add THEN services \cup {Head(pri.work)} ELSE services
    OBVIOUS
  <2>2. /\ pri.resolver \in open /\ UNCHANGED mistaken
        /\ Becomes(Unless(more, {State(pri, open, v, refused)}, CleanUp(State(pri, open, v, refused), pri.resolver)))
    BY <1>10, <2>1 DEF AddressReply, Resolving
  <2>3. v \in SUBSET Service
    <3>1. pri.work # <<>>
      BY <1>1, <2>2 DEF HeadResolved
    <3>2. Head(pri.work) \in Service
      BY <1>1, <3>1
    <3> QED BY <1>1, <2>1, <3>2
  <2>4. Referred(pri, open, v) /\ pri.resolver # NULL
    BY <1>1, <2>2, <2>3 DEF Referred
  <2>5. CASE more
    <3>1. Becomes({State(pri, open, v, refused)})
      BY <2>2, <2>5 DEF Unless
    <3>2. Fine(State(pri, open, v, refused))
      BY <1>1, <2>4 DEF Fine, State
    <3> QED BY <1>c, <2>2, <3>1, <3>2, BecomesFine
  <2>6. CASE ~more
    <3>1. Becomes(CleanUp(State(pri, open, v, refused), pri.resolver))
      BY <2>2, <2>6 DEF Unless
    <3> QED BY <1>1, <1>c, <2>2, <2>3, <2>4, <3>1, CleanedFine, BecomesFine
  <2> QED BY <2>5, <2>6
<1> QED BY <1>2, <1>4, <1>5, <1>6, <1>7, <1>8, <1>9, <1>10 DEF BonjourNext

(* Unless the browser or the service was given the address that the resolver's   *)
(* reference remembers, QZeroConf keeps and watches what is open; and its queue  *)
(* goes on until a call is refused, when it stops for good: however memory is    *)
(* handed out otherwise, for any number of services and operations.              *)
THEOREM BrowserStaysSound == BonjourSpec => []BrowserSound
<1> QED BY BonjourStarts, BonjourGoes, BonjourInvSays, PTL DEF BonjourSpec

-------------------------------------------------------------------------------
(* SimplePoll.  The list holds each watch there is once; unless they are to be   *)
(* rebuilt, pollfds are those of the live watches; and while poll() is about to  *)
(* wait or waits, either nothing has changed or a byte is in the pipe.           *)

ListedOnce ==
  /\ \A w \in Watch : watch[w].dead => watch[w].used
  /\ \A w \in Watch : watch[w].used => \E i \in DOMAIN s.watches : s.watches[i] = w
  /\ \A i \in DOMAIN s.watches : watch[s.watches[i]].used
  /\ \A i, j \in DOMAIN s.watches : s.watches[i] = s.watches[j] => i = j

Exact ==
  ~s.rebuild_pollfds =>
    /\ \A w \in LiveWatches : watch[w].idx # -1
    /\ \A i \in DOMAIN s.pollfds : s.pollfds[i].fd \in LiveWatches /\ watch[s.pollfds[i].fd].idx = i

Wanted == {w \in LiveWatches : watch[w].events}
Settled ==
  s.state \in {"PREPARED", "RUNNING"} /\ ~pipe =>
    /\ ~s.quit /\ ~s.rebuild_pollfds /\ (Enabled # {} => s.prepared_timeout # "never")
    /\ s.state = "RUNNING" => polled = Wanted

PollInv == PollTypeOK /\ ListedOnce /\ IndexIsOwn /\ Exact /\ Settled

LEMMA PollStarts == PollInit => PollInv
<1> SUFFICES ASSUME PollInit PROVE PollInv
  OBVIOUS
<1>1. /\ s \in AvahiSimplePoll /\ s.state = "INIT" /\ s.watches = <<>> /\ s.pollfds = <<>>
      /\ s.rebuild_pollfds
  <2>1. <<>> \in Seq(Watch) /\ <<>> \in Seq([fd : Watch, events : BOOLEAN])
    OBVIOUS
  <2> QED BY <2>1 DEF PollInit, AvahiSimplePoll, States
<1>2. PollTypeOK
  <2>1. NoWatch \in AvahiWatch /\ NoTimeout \in AvahiTimeout
    BY DEF NoWatch, NoTimeout, AvahiWatch, AvahiTimeout
  <2> QED BY <1>1, <2>1 DEF PollInit, PollTypeOK
<1>3. \A w \in Watch : ~watch[w].dead /\ ~watch[w].used
  BY DEF PollInit, NoWatch
<1>4. ListedOnce /\ IndexIsOwn /\ Exact /\ Settled
  BY <1>1, <1>3 DEF ListedOnce, IndexIsOwn, Exact, Settled, Live
<1> QED BY <1>2, <1>4 DEF PollInv

LEMMA PollInvSays == PollInv => LoopWakes
BY DEF PollInv, LoopWakes, NoLostWakeup, Settled, Wanted, LiveWatches

(* The live watches, counted along the list: each has an index of its own, from  *)
(* one on, and none is left out.                                                 *)
LEMMA Places ==
  ASSUME PollTypeOK, ListedOnce, NEW w \in LiveWatches
  PROVE  /\ Place(w) \in DOMAIN s.watches /\ s.watches[Place(w)] = w
         /\ Place(w) \in Nat
<1>1. \E i \in DOMAIN s.watches : s.watches[i] = w
  BY DEF ListedOnce, LiveWatches, Live
<1>2. s.watches \in Seq(Watch)
  BY DEF PollTypeOK, AvahiSimplePoll
<1>3. DOMAIN s.watches \subseteq Nat
  BY <1>2
<1> QED BY <1>1, <1>3 DEF Place

LEMMA KeptFacts ==
  ASSUME PollTypeOK, ListedOnce
  PROVE  /\ Kept \in Seq(Watch) /\ DOMAIN Kept = 1 .. Cardinality(LiveWatches)
         /\ \A w \in LiveWatches : Index(w) \in DOMAIN Kept /\ Kept[Index(w)] = w
         /\ \A i \in DOMAIN Kept : Kept[i] \in LiveWatches /\ Index(Kept[i]) = i
<1> DEFINE n == Cardinality(LiveWatches)
<1>1. IsFiniteSet(LiveWatches) /\ n \in Nat
  <2>1. LiveWatches \in SUBSET Watch
    BY DEF LiveWatches
  <2> QED BY <2>1, PollAssumption, FS_Subset, FS_CardinalityType
<1>2. ASSUME NEW w \in LiveWatches
      PROVE  UpTo(w) \in SUBSET LiveWatches /\ IsFiniteSet(UpTo(w)) /\ Index(w) \in 1 .. n
  <2>1. UpTo(w) \in SUBSET LiveWatches /\ w \in UpTo(w)
    BY Places DEF UpTo
  <2>2. IsFiniteSet(UpTo(w)) /\ Cardinality(UpTo(w)) <= n
    BY <1>1, <2>1, FS_Subset
  <2>3. Cardinality(UpTo(w)) \in Nat /\ Cardinality(UpTo(w)) # 0
    BY <2>1, <2>2, FS_CardinalityType, FS_EmptySet
  <2> QED BY <1>1, <2>1, <2>2, <2>3 DEF Index
<1>3. ASSUME NEW v \in LiveWatches, NEW w \in LiveWatches, Index(v) = Index(w) PROVE v = w
  <2>1. Place(v) \in Nat /\ Place(w) \in Nat /\ (Place(v) = Place(w) => v = w)
    BY Places
  <2>2. ASSUME NEW x \in LiveWatches, NEW y \in LiveWatches, Place(x) \in Nat, Place(y) \in Nat,
               Place(x) < Place(y), Index(x) = Index(y)
        PROVE  FALSE
    <3>1. \A z \in LiveWatches : Place(z) \in Nat
      BY Places
    <3>2. UpTo(x) \in SUBSET UpTo(y) /\ y \in UpTo(y) /\ y \notin UpTo(x)
      BY <2>2, <3>1 DEF UpTo
    <3>3. UpTo(x) = UpTo(y)
      BY <1>2, <2>2, <3>2, FS_Subset DEF Index
    <3> QED BY <3>2, <3>3
  <2>3. ~(Place(v) < Place(w)) /\ ~(Place(w) < Place(v))
    BY <1>3, <2>1, <2>2
  <2> QED BY <2>1, <2>3
<1>4. \A i \in 1 .. n : \E w \in LiveWatches : Index(w) = i
  <2> DEFINE f == [w \in LiveWatches |-> Index(w)]
  <2>1. f \in Injection(LiveWatches, 1 .. n)
    BY <1>2, <1>3 DEF Injection, IsInjective
  <2>2. IsFiniteSet(1 .. n) /\ Cardinality(1 .. n) = n
    BY <1>1, FS_Interval
  <2>3. f \in Surjection(LiveWatches, 1 .. n)
    BY <2>1, <2>2, FS_Injection
  <2> QED BY <2>3 DEF Surjection
<1>5. ASSUME NEW i \in 1 .. n PROVE Kept[i] \in LiveWatches /\ Index(Kept[i]) = i
  <2>1. Kept[i] = CHOOSE w \in LiveWatches : Index(w) = i
    BY DEF Kept, Index
  <2> QED BY <1>4, <2>1
<1>6. DOMAIN Kept = 1 .. n
  BY DEF Kept
<1>7. ASSUME NEW w \in LiveWatches PROVE Index(w) \in DOMAIN Kept /\ Kept[Index(w)] = w
  BY <1>2, <1>3, <1>5, <1>6
<1>8. Kept \in Seq(Watch)
  <2>1. Kept = [i \in 1 .. n |-> Kept[i]]
    BY <1>6 DEF Kept
  <2>2. \A i \in 1 .. n : Kept[i] \in Watch
    BY <1>5 DEF LiveWatches
  <2> HIDE DEF n
  <2> QED BY <1>1, <2>1, <2>2, IsASeq
<1> QED BY <1>5, <1>6, <1>7, <1>8

(* What does not touch the watches, nor what pollfds are.                        *)
LEMMA WatchesAlone ==
  ASSUME PollInv, PollTypeOK', watch' = watch, s'.watches = s.watches, s'.pollfds = s.pollfds,
         s'.rebuild_pollfds = s.rebuild_pollfds, Settled'
  PROVE  PollInv'
<1>1. LiveWatches' = LiveWatches
  BY DEF LiveWatches, Live
<1>2. ListedOnce' /\ IndexIsOwn'
  BY DEF PollInv, ListedOnce, IndexIsOwn, Live
<1>3. Exact'
  BY <1>1 DEF PollInv, Exact
<1> QED BY <1>2, <1>3 DEF PollInv

(* avahi_simple_poll_wakeup: whatever was changed, a byte is in the pipe.        *)
LEMMA WakesFacts ==
  ASSUME NEW new \in AvahiSimplePoll, Wakes(new)
  PROVE  /\ s' \in AvahiSimplePoll /\ s'.state = new.state /\ s'.watches = new.watches
         /\ s'.pollfds = new.pollfds /\ s'.rebuild_pollfds = new.rebuild_pollfds
         /\ pipe' = TRUE /\ Settled'
<1>1. s' = [new EXCEPT !.wakeup_issued = TRUE] /\ pipe' = TRUE
  BY DEF Wakes
<1>2. s' \in AvahiSimplePoll /\ s'.state = new.state /\ s'.watches = new.watches
      /\ s'.pollfds = new.pollfds /\ s'.rebuild_pollfds = new.rebuild_pollfds
  BY <1>1 DEF AvahiSimplePoll
<1> QED BY <1>1, <1>2 DEF Settled

LEMMA WatchNewKeeps ==
  ASSUME PollInv, NEW w \in Watch, NEW events \in BOOLEAN, watch_new(w, events)
  PROVE  PollInv'
<1> USE DEF PollInv
<1> DEFINE new == [s EXCEPT !.rebuild_pollfds = TRUE, !.watches = <<w>> \o @]
           one == [used |-> TRUE, dead |-> FALSE, idx |-> -1, events |-> events]
<1>1. /\ ~watch[w].used /\ watch' = [watch EXCEPT ![w] = one] /\ Wakes(new)
      /\ UNCHANGED <<timer, polled, thread>>
  BY DEF watch_new
<1>2. s \in AvahiSimplePoll /\ s.watches \in Seq(Watch) /\ DOMAIN s.watches = 1 .. Len(s.watches)
      /\ Len(s.watches) \in Nat
  BY DEF PollTypeOK, AvahiSimplePoll
<1>3. PICK list \in Seq(Watch) :
        /\ list = <<w>> \o s.watches /\ DOMAIN list = 1 .. Len(s.watches) + 1 /\ list[1] = w
        /\ \A i \in 1 .. Len(s.watches) : list[i + 1] = s.watches[i]
        /\ \A i \in DOMAIN list : i = 1 \/ (i - 1 \in DOMAIN s.watches /\ list[i] = s.watches[i - 1])
  <2>1. <<w>> \in Seq(Watch) /\ Len(<<w>>) = 1 /\ <<w>>[1] = w
    OBVIOUS
  <2>2. /\ <<w>> \o s.watches \in Seq(Watch) /\ Len(<<w>> \o s.watches) = 1 + Len(s.watches)
        /\ \A i \in 1 .. 1 + Len(s.watches) :
             (<<w>> \o s.watches)[i] = IF i <= 1 THEN <<w>>[i] ELSE s.watches[i - 1]
    BY <1>2, <2>1, ConcatProperties
  <2>3. PICK list : list = <<w>> \o s.watches
    OBVIOUS
  <2>4. /\ list \in Seq(Watch) /\ DOMAIN list = 1 .. Len(s.watches) + 1
        /\ \A i \in 1 .. 1 + Len(s.watches) : list[i] = IF i <= 1 THEN <<w>>[i] ELSE s.watches[i - 1]
    BY <1>2, <2>2, <2>3
  <2>5. list[1] = w
    BY <1>2, <2>1, <2>4
  <2>6. \A i \in 1 .. Len(s.watches) : list[i + 1] = s.watches[i]
    <3> SUFFICES ASSUME NEW i \in 1 .. Len(s.watches) PROVE list[i + 1] = s.watches[i]
      OBVIOUS
    <3>1. i + 1 \in 1 .. 1 + Len(s.watches) /\ ~(i + 1 <= 1) /\ i + 1 - 1 = i
      BY <1>2
    <3> QED BY <2>4, <3>1
  <2>7. \A i \in DOMAIN list : i = 1 \/ (i - 1 \in DOMAIN s.watches /\ list[i] = s.watches[i - 1])
    BY <1>2, <2>4
  <2> QED BY <2>3, <2>4, <2>5, <2>6, <2>7
<1>4. new \in AvahiSimplePoll /\ new.watches = list /\ new.pollfds = s.pollfds /\ new.rebuild_pollfds
  BY <1>2, <1>3 DEF AvahiSimplePoll
<1> HIDE DEF new
<1>5. /\ s' \in AvahiSimplePoll /\ s'.watches = list /\ s'.pollfds = s.pollfds /\ s'.rebuild_pollfds
      /\ pipe' = TRUE /\ Settled'
  BY <1>1, <1>4, WakesFacts
<1>6. one \in AvahiWatch /\ one.used /\ ~one.dead /\ one.idx = -1
  BY DEF AvahiWatch
<1> HIDE DEF one
<1>7. watch'[w] = one /\ watch' \in [Watch -> AvahiWatch] /\ \A x \in Watch \ {w} : watch'[x] = watch[x]
  BY <1>1, <1>6 DEF PollTypeOK
<1>8. PollTypeOK'
  BY <1>1, <1>5, <1>7 DEF PollTypeOK
<1>9. ListedOnce'
  <2>1. \A x \in Watch : watch'[x].dead => watch'[x].used
    BY <1>6, <1>7 DEF ListedOnce
  <2>2. \A i \in DOMAIN s.watches : s.watches[i] \in Watch /\ s.watches[i] # w
    BY <1>1, <1>2 DEF ListedOnce
  <2>3. \A x \in Watch : watch'[x].used => \E i \in DOMAIN list : list[i] = x
    <3>1. \A i \in DOMAIN s.watches : i + 1 \in DOMAIN list /\ list[i + 1] = s.watches[i]
      BY <1>2, <1>3
    <3>2. 1 \in DOMAIN list
      BY <1>2, <1>3
    <3>3. ASSUME NEW x \in Watch \ {w}, watch'[x].used PROVE \E i \in DOMAIN list : list[i] = x
      <4>1. PICK i \in DOMAIN s.watches : s.watches[i] = x
        BY <1>7, <3>3 DEF ListedOnce
      <4> QED BY <3>1, <4>1
    <3> QED BY <1>3, <3>2, <3>3
  <2>4. ASSUME NEW i \in DOMAIN list PROVE watch'[list[i]].used
    <3>1. CASE i = 1
      BY <1>3, <1>6, <1>7, <3>1
    <3>2. CASE i # 1
      <4>1. i - 1 \in DOMAIN s.watches /\ list[i] = s.watches[i - 1]
        BY <1>3, <3>2
      <4> QED BY <1>7, <2>2, <4>1 DEF ListedOnce
    <3> QED BY <3>1, <3>2
  <2>5. \A i, j \in DOMAIN list : list[i] = list[j] => i = j
    <3> SUFFICES ASSUME NEW i \in DOMAIN list, NEW j \in DOMAIN list, list[i] = list[j] PROVE i = j
      OBVIOUS
    <3>1. i \in Nat /\ j \in Nat
      BY <1>2, <1>3
    <3>2. CASE i = 1 \/ j = 1
      BY <1>3, <2>2, <3>2
    <3>3. CASE i # 1 /\ j # 1
      <4>1. i - 1 \in DOMAIN s.watches /\ j - 1 \in DOMAIN s.watches /\ s.watches[i - 1] = s.watches[j - 1]
        BY <1>3, <3>3
      <4>2. i - 1 = j - 1
        BY <4>1 DEF ListedOnce
      <4> QED BY <3>1, <4>2
    <3> QED BY <3>2, <3>3
  <2> QED BY <1>5, <2>1, <2>3, <2>4, <2>5 DEF ListedOnce
<1>10. IndexIsOwn'
  <2> SUFFICES ASSUME NEW x \in Watch, Live(watch'[x]), watch'[x].idx # -1
               PROVE  /\ watch'[x].idx \in DOMAIN s'.pollfds
                      /\ s'.pollfds[watch'[x].idx].fd = x /\ s'.pollfds[watch'[x].idx].events = watch'[x].events
    BY DEF IndexIsOwn
  <2>1. x # w /\ watch'[x] = watch[x]
    BY <1>6, <1>7
  <2> QED BY <1>5, <2>1 DEF IndexIsOwn
<1>11. Exact'
  BY <1>5 DEF Exact
<1> QED BY <1>5, <1>8, <1>9, <1>10, <1>11

LEMMA WatchUpdateKeeps ==
  ASSUME PollInv, NEW w \in Watch, NEW events \in BOOLEAN, watch_update(w, events)
  PROVE  PollInv'
<1> USE DEF PollInv
<1>1. PICK n : n = watch[w].idx
  OBVIOUS
<1> DEFINE new == IF n # -1 THEN [s EXCEPT !.pollfds[n] = [fd |-> w, events |-> events]]
                  ELSE [s EXCEPT !.rebuild_pollfds = TRUE]
           one == [watch[w] EXCEPT !.events = events]
<1>2. /\ Live(watch[w]) /\ watch' = [watch EXCEPT ![w] = one] /\ Wakes(new)
      /\ polled' \subseteq polled /\ UNCHANGED <<timer, thread>>
  BY <1>1 DEF watch_update
<1>3. /\ s \in AvahiSimplePoll /\ s.pollfds \in Seq([fd : Watch, events : BOOLEAN])
      /\ watch[w] \in AvahiWatch
  BY DEF PollTypeOK, AvahiSimplePoll
<1>4. n # -1 => n \in DOMAIN s.pollfds
  BY <1>1, <1>2 DEF IndexIsOwn
<1>5. PICK fds \in Seq([fd : Watch, events : BOOLEAN]) :
        /\ n # -1 => fds = [s.pollfds EXCEPT ![n] = [fd |-> w, events |-> events]]
        /\ n = -1 => fds = s.pollfds
  <2>1. [fd |-> w, events |-> events] \in [fd : Watch, events : BOOLEAN]
    OBVIOUS
  <2>2. n # -1 => [s.pollfds EXCEPT ![n] = [fd |-> w, events |-> events]] \in Seq([fd : Watch, events : BOOLEAN])
    BY <1>3, <1>4, <2>1
  <2> QED BY <1>3, <2>2
<1>6. /\ new \in AvahiSimplePoll /\ new.watches = s.watches /\ new.pollfds = fds
      /\ new.rebuild_pollfds = (n = -1 \/ s.rebuild_pollfds)
  <2>1. CASE n = -1
    BY <1>3, <1>5, <2>1 DEF AvahiSimplePoll
  <2>2. CASE n # -1
    <3>1. new = [s EXCEPT !.pollfds = fds]
      BY <1>3, <1>5, <2>2
    <3>2. [s EXCEPT !.pollfds = fds] \in AvahiSimplePoll
      BY <1>3 DEF AvahiSimplePoll
    <3> QED BY <1>3, <2>2, <3>1, <3>2 DEF AvahiSimplePoll
  <2> QED BY <2>1, <2>2
<1> HIDE DEF new
<1>7. /\ s' \in AvahiSimplePoll /\ s'.watches = s.watches /\ s'.pollfds = fds
      /\ s'.rebuild_pollfds = (n = -1 \/ s.rebuild_pollfds) /\ pipe' = TRUE /\ Settled'
  BY <1>2, <1>6, WakesFacts
<1>8. /\ one \in AvahiWatch /\ one.used = watch[w].used /\ one.dead = watch[w].dead /\ one.idx = n
      /\ one.events = events
  BY <1>1, <1>3 DEF AvahiWatch
<1> HIDE DEF one
<1>9. watch'[w] = one /\ watch' \in [Watch -> AvahiWatch] /\ \A x \in Watch \ {w} : watch'[x] = watch[x]
  BY <1>2, <1>8 DEF PollTypeOK
<1>10. \A x \in Watch : watch'[x].used = watch[x].used /\ watch'[x].dead = watch[x].dead
                       /\ watch'[x].idx = watch[x].idx
  BY <1>1, <1>8, <1>9
<1>11. LiveWatches' = LiveWatches /\ w \in LiveWatches
  BY <1>2, <1>10 DEF LiveWatches, Live
<1>12. PollTypeOK'
  BY <1>2, <1>7, <1>9 DEF PollTypeOK
<1>13. ListedOnce'
  <2>1. \A i \in DOMAIN s.watches : s.watches[i] \in Watch
    BY DEF PollTypeOK, AvahiSimplePoll
  <2> QED BY <1>7, <1>10, <2>1 DEF ListedOnce
<1>14. /\ DOMAIN fds = DOMAIN s.pollfds
       /\ \A i \in DOMAIN fds : i # n => fds[i] = s.pollfds[i]
       /\ n # -1 => fds[n].fd = w /\ fds[n].events = events
  BY <1>3, <1>4, <1>5
<1>15. IndexIsOwn'
  <2> SUFFICES ASSUME NEW x \in Watch, Live(watch'[x]), watch'[x].idx # -1
               PROVE  /\ watch'[x].idx \in DOMAIN s'.pollfds
                      /\ s'.pollfds[watch'[x].idx].fd = x /\ s'.pollfds[watch'[x].idx].events = watch'[x].events
    BY DEF IndexIsOwn
  <2>1. Live(watch[x])
    BY <1>10 DEF Live
  <2>2. CASE x = w
    BY <1>4, <1>7, <1>8, <1>9, <1>14, <2>2
  <2>3. CASE x # w
    <3>1. watch[x].idx \in DOMAIN s.pollfds /\ s.pollfds[watch[x].idx].fd = x
          /\ s.pollfds[watch[x].idx].events = watch[x].events /\ watch'[x] = watch[x]
      BY <1>9, <1>10, <2>1, <2>3 DEF IndexIsOwn
    <3>2. watch[x].idx # n
      BY <1>1, <1>2, <2>3, <3>1 DEF IndexIsOwn
    <3> QED BY <1>7, <1>14, <3>1, <3>2
  <2> QED BY <2>2, <2>3
<1>16. Exact'
  <2> SUFFICES ASSUME ~s'.rebuild_pollfds
               PROVE  /\ \A x \in LiveWatches' : watch'[x].idx # -1
                      /\ \A i \in DOMAIN fds : fds[i].fd \in LiveWatches' /\ watch'[fds[i].fd].idx = i
    BY <1>7 DEF Exact
  <2>1. n # -1 /\ ~s.rebuild_pollfds
    BY <1>7
  <2>2. /\ \A x \in LiveWatches : watch[x].idx # -1
        /\ \A i \in DOMAIN s.pollfds : s.pollfds[i].fd \in LiveWatches /\ watch[s.pollfds[i].fd].idx = i
    BY <2>1 DEF Exact
  <2>3. \A x \in LiveWatches : x \in Watch
    BY DEF LiveWatches
  <2> QED BY <1>1, <1>10, <1>11, <1>14, <2>1, <2>2, <2>3
<1> QED BY <1>7, <1>12, <1>13, <1>15, <1>16

LEMMA WatchFreeKeeps ==
  ASSUME PollInv, NEW w \in Watch, watch_free(w)
  PROVE  PollInv'
<1> USE DEF PollInv
<1>1. PICK n : n = watch[w].idx
  OBVIOUS
<1> DEFINE new == [s EXCEPT !.rebuild_pollfds = @ \/ n # -1, !.watch_req_cleanup = TRUE]
           one == [watch[w] EXCEPT !.dead = TRUE]
<1>2. /\ Live(watch[w]) /\ watch' = [watch EXCEPT ![w] = one] /\ Wakes(new)
      /\ UNCHANGED <<timer, polled, thread>>
  BY <1>1 DEF watch_free
<1>3. s \in AvahiSimplePoll /\ watch[w] \in AvahiWatch
  BY DEF PollTypeOK
<1>4. s.rebuild_pollfds \/ n # -1
  BY <1>1, <1>2 DEF Exact, LiveWatches
<1>5. new \in AvahiSimplePoll /\ new.watches = s.watches /\ new.pollfds = s.pollfds /\ new.rebuild_pollfds
  <2>1. new = [s EXCEPT !.rebuild_pollfds = TRUE, !.watch_req_cleanup = TRUE]
    BY <1>3, <1>4 DEF AvahiSimplePoll
  <2> QED BY <1>3, <2>1 DEF AvahiSimplePoll
<1> HIDE DEF new
<1>6. /\ s' \in AvahiSimplePoll /\ s'.watches = s.watches /\ s'.pollfds = s.pollfds
      /\ s'.rebuild_pollfds /\ pipe' = TRUE /\ Settled'
  BY <1>2, <1>5, WakesFacts
<1>7. one \in AvahiWatch /\ one.used /\ one.dead
  BY <1>2, <1>3 DEF AvahiWatch, Live
<1> HIDE DEF one
<1>8. watch'[w] = one /\ watch' \in [Watch -> AvahiWatch] /\ \A x \in Watch \ {w} : watch'[x] = watch[x]
  BY <1>2, <1>7 DEF PollTypeOK
<1>9. PollTypeOK'
  BY <1>2, <1>6, <1>8 DEF PollTypeOK
<1>10. ListedOnce'
  <2>1. \A i \in DOMAIN s.watches : s.watches[i] \in Watch
    BY DEF PollTypeOK, AvahiSimplePoll
  <2>2. \A x \in Watch : watch'[x].used = watch[x].used /\ (x # w => watch'[x].dead = watch[x].dead)
    BY <1>2, <1>3, <1>7, <1>8 DEF Live, AvahiWatch
  <2> QED BY <1>6, <1>7, <1>8, <2>1, <2>2 DEF ListedOnce
<1>11. IndexIsOwn'
  <2> SUFFICES ASSUME NEW x \in Watch, Live(watch'[x]), watch'[x].idx # -1
               PROVE  /\ watch'[x].idx \in DOMAIN s'.pollfds
                      /\ s'.pollfds[watch'[x].idx].fd = x /\ s'.pollfds[watch'[x].idx].events = watch'[x].events
    BY DEF IndexIsOwn
  <2>1. x # w /\ watch'[x] = watch[x]
    BY <1>7, <1>8 DEF Live
  <2> QED BY <1>6, <2>1 DEF IndexIsOwn
<1>12. Exact'
  BY <1>6 DEF Exact
<1> QED BY <1>6, <1>9, <1>10, <1>11, <1>12

LEMMA TimersKeep ==
  ASSUME PollInv, NEW t \in Timeout, NEW enabled \in BOOLEAN, NEW due \in BOOLEAN,
         timeout_set(t, enabled, due) \/ timeout_free(t)
  PROVE  PollInv'
<1>1. s \in AvahiSimplePoll /\ timer[t] \in AvahiTimeout /\ PollTypeOK
  BY DEF PollInv, PollTypeOK
<1>2. PICK new \in AvahiSimplePoll :
        /\ Wakes(new) /\ new.watches = s.watches /\ new.pollfds = s.pollfds
        /\ new.rebuild_pollfds = s.rebuild_pollfds
  <2>1. CASE timeout_set(t, enabled, due)
    BY <1>1, <2>1 DEF timeout_set
  <2>2. CASE timeout_free(t)
    <3> DEFINE new == [s EXCEPT !.timeout_req_cleanup = TRUE]
    <3>1. Wakes(new)
      BY <2>2 DEF timeout_free
    <3>2. /\ new \in AvahiSimplePoll /\ new.watches = s.watches /\ new.pollfds = s.pollfds
          /\ new.rebuild_pollfds = s.rebuild_pollfds
      BY <1>1 DEF AvahiSimplePoll
    <3> HIDE DEF new
    <3> QED BY <3>1, <3>2
  <2> QED BY <2>1, <2>2
<1>3. /\ s' \in AvahiSimplePoll /\ s'.watches = s.watches /\ s'.pollfds = s.pollfds
      /\ s'.rebuild_pollfds = s.rebuild_pollfds /\ pipe' = TRUE /\ Settled'
  BY <1>2, WakesFacts
<1>4. UNCHANGED <<watch, polled, thread>>
  BY DEF timeout_set, timeout_free
<1>5. timer' \in [Timeout -> AvahiTimeout]
  <2>1. [used |-> TRUE, dead |-> FALSE, enabled |-> enabled, due |-> due] \in AvahiTimeout
        /\ [timer[t] EXCEPT !.dead = TRUE] \in AvahiTimeout
    BY <1>1 DEF AvahiTimeout
  <2>2. \/ timer' = [timer EXCEPT ![t] = [used |-> TRUE, dead |-> FALSE, enabled |-> enabled, due |-> due]]
        \/ timer' = [timer EXCEPT ![t] = [timer[t] EXCEPT !.dead = TRUE]]
    BY DEF timeout_set, timeout_free
  <2> QED BY <1>1, <2>1, <2>2 DEF PollTypeOK
<1>6. PollTypeOK'
  BY <1>1, <1>3, <1>4, <1>5 DEF PollTypeOK
<1> QED BY <1>3, <1>4, <1>6, WatchesAlone

LEMMA PollfdFacts ==
  ASSUME NEW fds \in Seq([fd : Watch, events : BOOLEAN])
  PROVE  \A i \in DOMAIN fds : fds[i].fd \in Watch
<1>1. DOMAIN fds = 1 .. Len(fds)
  BY LenProperties
<1>2. \A i \in 1 .. Len(fds) : fds[i] \in [fd : Watch, events : BOOLEAN]
  BY ElementOfSeq
<1> QED BY <1>1, <1>2

(* What the loop's thread and its callbacks do between two preparations.         *)
LEMMA LoopKeeps ==
  ASSUME PollInv,
         \/ avahi_simple_poll_quit \/ avahi_threaded_poll_start \/ avahi_threaded_poll_stop
         \/ Polls \/ (\E ready \in SUBSET Watch : PollReturns(ready)) \/ PollFails
         \/ WatchCallback \/ DispatchReturns
         \/ \E t \in Timeout : TimeoutCallback(t) \/ Elapses(t)
  PROVE  PollInv'
<1> USE DEF PollInv
<1>1. /\ s \in AvahiSimplePoll /\ PollTypeOK /\ s.state \in States
      /\ \A i \in DOMAIN s.pollfds : s.pollfds[i].fd \in Watch
  <2>1. PollTypeOK /\ s \in AvahiSimplePoll
    BY DEF PollTypeOK
  <2>2. s.state \in States /\ s.pollfds \in Seq([fd : Watch, events : BOOLEAN])
    BY <2>1 DEF AvahiSimplePoll
  <2> QED BY <2>1, <2>2, PollfdFacts
<1>2. \A state \in States : LET new == [s EXCEPT !.state = state] IN
        /\ new \in AvahiSimplePoll /\ new.state = state /\ new.quit = s.quit
        /\ new.watches = s.watches /\ new.pollfds = s.pollfds /\ new.rebuild_pollfds = s.rebuild_pollfds
        /\ new.prepared_timeout = s.prepared_timeout
  BY <1>1 DEF AvahiSimplePoll
<1>3. CASE avahi_simple_poll_quit
  <2> DEFINE new == [s EXCEPT !.quit = TRUE]
  <2>1. Wakes(new) /\ UNCHANGED <<watch, timer, polled, thread>>
    BY <1>3 DEF avahi_simple_poll_quit
  <2>2. /\ new \in AvahiSimplePoll /\ new.watches = s.watches /\ new.pollfds = s.pollfds
        /\ new.rebuild_pollfds = s.rebuild_pollfds
    BY <1>1 DEF AvahiSimplePoll
  <2> HIDE DEF new
  <2>3. /\ s' \in AvahiSimplePoll /\ s'.watches = s.watches /\ s'.pollfds = s.pollfds
        /\ s'.rebuild_pollfds = s.rebuild_pollfds /\ pipe' = TRUE /\ Settled'
    BY <2>1, <2>2, WakesFacts
  <2>4. PollTypeOK'
    BY <1>1, <2>1, <2>3 DEF PollTypeOK
  <2> QED BY <2>1, <2>3, <2>4, WatchesAlone
<1>4. ASSUME NEW state \in States \ {"PREPARED", "RUNNING"}, s' = [s EXCEPT !.state = state],
             UNCHANGED <<watch, pipe>>, timer' \in [Timeout -> AvahiTimeout], polled' \subseteq Watch,
             thread' \in BOOLEAN
      PROVE  PollInv'
  <2>1. /\ s' \in AvahiSimplePoll /\ s'.state = state /\ s'.watches = s.watches
        /\ s'.pollfds = s.pollfds /\ s'.rebuild_pollfds = s.rebuild_pollfds
    BY <1>2, <1>4
  <2>2. PollTypeOK' /\ Settled'
    BY <1>1, <1>4, <2>1 DEF PollTypeOK, Settled
  <2> QED BY <1>4, <2>1, <2>2, WatchesAlone
<1>5. timer \in [Timeout -> AvahiTimeout] /\ polled \subseteq Watch /\ thread \in BOOLEAN
  BY DEF PollTypeOK
<1>6. CASE avahi_threaded_poll_start
  <2>1. Started(s.state) \in States \ {"PREPARED", "RUNNING"}
    BY <1>6 DEF avahi_threaded_poll_start, Started, States
  <2>2. s' = [s EXCEPT !.state = Started(s.state)]
    BY <1>6 DEF avahi_threaded_poll_start
  <2> QED BY <1>4, <1>5, <1>6, <2>1, <2>2 DEF avahi_threaded_poll_start
<1>7. CASE avahi_threaded_poll_stop
  <2>1. UNCHANGED <<s, watch, timer, pipe, polled>> /\ thread' \in BOOLEAN
    BY <1>7 DEF avahi_threaded_poll_stop
  <2>2. PollTypeOK' /\ Settled'
    BY <2>1 DEF PollTypeOK, Settled, Enabled, Wanted, LiveWatches
  <2> QED BY <2>1, <2>2, WatchesAlone
<1>8. CASE PollFails \/ DispatchReturns
  <2>1. \E state \in {"FAILURE", "DISPATCHED"} : s' = [s EXCEPT !.state = state]
    BY <1>8 DEF PollFails, DispatchReturns
  <2>2. polled' \subseteq Watch /\ UNCHANGED <<watch, timer, pipe, thread>>
    BY <1>5, <1>8 DEF PollFails, DispatchReturns
  <2> QED BY <1>4, <1>5, <2>1, <2>2 DEF States
<1>9. ASSUME NEW ready \in SUBSET Watch, PollReturns(ready) PROVE PollInv'
  BY <1>4, <1>5, <1>9 DEF PollReturns, States
<1>10. CASE WatchCallback
  <2>1. \E state \in {"DISPATCHED", "ABORTED", "DISPATCHING"} : s' = [s EXCEPT !.state = state]
    BY <1>10 DEF WatchCallback
  <2>2. polled' = {} /\ UNCHANGED <<watch, timer, pipe, thread>>
    BY <1>10 DEF WatchCallback
  <2> QED BY <1>4, <1>5, <2>1, <2>2 DEF States
<1>11. ASSUME NEW t \in Timeout, TimeoutCallback(t) PROVE PollInv'
  <2>1. timer' = [timer EXCEPT ![t] = [timer[t] EXCEPT !.enabled = FALSE, !.due = FALSE]]
    BY <1>11 DEF TimeoutCallback
  <2>2. timer' \in [Timeout -> AvahiTimeout]
    <3>1. [timer[t] EXCEPT !.enabled = FALSE, !.due = FALSE] \in AvahiTimeout
      BY <1>5 DEF AvahiTimeout
    <3> QED BY <1>5, <2>1, <3>1
  <2> QED BY <1>4, <1>5, <1>11, <2>2 DEF TimeoutCallback, States
<1>12. ASSUME NEW t \in Timeout, Elapses(t) PROVE PollInv'
  <2>1. timer' = [timer EXCEPT ![t] = [timer[t] EXCEPT !.due = TRUE]] /\ UNCHANGED <<s, watch, pipe, polled, thread>>
    BY <1>12 DEF Elapses
  <2>2. /\ [timer[t] EXCEPT !.due = TRUE] \in AvahiTimeout
        /\ [timer[t] EXCEPT !.due = TRUE].used = timer[t].used
        /\ [timer[t] EXCEPT !.due = TRUE].dead = timer[t].dead
        /\ [timer[t] EXCEPT !.due = TRUE].enabled = timer[t].enabled
    BY <1>5 DEF AvahiTimeout
  <2>3. timer' \in [Timeout -> AvahiTimeout] /\ PollTypeOK'
    BY <1>5, <2>1, <2>2 DEF PollTypeOK
  <2>4. \A x \in Timeout : timer'[x].used = timer[x].used /\ timer'[x].dead = timer[x].dead
                          /\ timer'[x].enabled = timer[x].enabled
    BY <1>5, <2>1, <2>2
  <2>5. Enabled' = Enabled
    BY <2>4 DEF Enabled, Live
  <2>6. Settled'
    BY <2>1, <2>5 DEF Settled, Wanted, LiveWatches
  <2> QED BY <2>1, <2>3, <2>6, WatchesAlone
<1>13. CASE Polls
  <2>1. /\ s.state = "PREPARED" /\ s' = [s EXCEPT !.state = "RUNNING"] /\ UNCHANGED <<watch, timer, pipe, thread>>
        /\ polled' = {s.pollfds[i].fd : i \in {i \in DOMAIN s.pollfds : s.pollfds[i].events}}
    BY <1>13 DEF Polls
  <2>2. /\ s' \in AvahiSimplePoll /\ s'.state = "RUNNING" /\ s'.quit = s.quit /\ s'.watches = s.watches
        /\ s'.pollfds = s.pollfds /\ s'.rebuild_pollfds = s.rebuild_pollfds
        /\ s'.prepared_timeout = s.prepared_timeout
    BY <1>2, <2>1 DEF States
  <2>3. PollTypeOK'
    BY <1>1, <1>5, <2>1, <2>2 DEF PollTypeOK
  <2>4. Enabled' = Enabled /\ Wanted' = Wanted
    BY <2>1 DEF Enabled, Wanted, LiveWatches
  <2>5. ~s.rebuild_pollfds => polled' = Wanted
    <3> SUFFICES ASSUME ~s.rebuild_pollfds PROVE polled' = Wanted
      OBVIOUS
    <3>1. \A w \in Wanted : /\ watch[w].idx \in DOMAIN s.pollfds /\ s.pollfds[watch[w].idx].fd = w
                            /\ s.pollfds[watch[w].idx].events
      BY DEF Wanted, LiveWatches, Exact, IndexIsOwn
    <3>2. ASSUME NEW i \in DOMAIN s.pollfds, s.pollfds[i].events PROVE s.pollfds[i].fd \in Wanted
      <4>1. s.pollfds[i].fd \in LiveWatches /\ watch[s.pollfds[i].fd].idx = i
        BY DEF Exact
      <4>2. watch[s.pollfds[i].fd].idx # -1
        BY <4>1 DEF Exact
      <4>3. s.pollfds[i].events = watch[s.pollfds[i].fd].events
        BY <4>1, <4>2 DEF IndexIsOwn, LiveWatches
      <4> QED BY <3>2, <4>1, <4>3 DEF Wanted
    <3> QED BY <2>1, <3>1, <3>2
  <2>6. Settled'
    BY <2>1, <2>2, <2>4, <2>5 DEF Settled
  <2> QED BY <2>1, <2>2, <2>3, <2>6, WatchesAlone
<1> QED BY <1>3, <1>6, <1>7, <1>8, <1>9, <1>10, <1>11, <1>12, <1>13

(* The preparation of the loop: the list loses the dead ones, pollfds get the    *)
(* live ones, and what it waits for is what there is.                            *)
LEMMA PreparesKeeps ==
  ASSUME PollInv, Prepares
  PROVE  PollInv'
<1> USE DEF PollInv
<1>1. s \in AvahiSimplePoll /\ s.watches \in Seq(Watch) /\ s.pollfds \in Seq([fd : Watch, events : BOOLEAN])
      /\ s.quit \in BOOLEAN
  BY DEF PollTypeOK, AvahiSimplePoll
<1>2. /\ Kept \in Seq(Watch)
      /\ \A w \in LiveWatches : Index(w) \in DOMAIN Kept /\ Kept[Index(w)] = w
      /\ \A i \in DOMAIN Kept : Kept[i] \in LiveWatches /\ Index(Kept[i]) = i
      /\ DOMAIN Kept \subseteq Nat
  BY KeptFacts
<1>3. PICK list \in Seq(Watch) : list = IF s.watch_req_cleanup THEN Kept ELSE s.watches
  BY <1>1, <1>2
<1>4. PICK fds \in Seq([fd : Watch, events : BOOLEAN]) : fds = [i \in DOMAIN Kept |-> Pollfd(Kept[i])]
  <2>1. \A i \in DOMAIN Kept : Pollfd(Kept[i]) \in [fd : Watch, events : BOOLEAN]
    BY <1>2 DEF Pollfd, LiveWatches, PollTypeOK, AvahiWatch
  <2>2. Len(Kept) \in Nat /\ DOMAIN Kept = 1 .. Len(Kept)
    BY <1>2, LenProperties
  <2>3. [i \in 1 .. Len(Kept) |-> Pollfd(Kept[i])] \in Seq([fd : Watch, events : BOOLEAN])
    BY <2>1, <2>2, IsASeq
  <2> QED BY <2>2, <2>3
<1>5. PICK swept : swept = IF s.watch_req_cleanup THEN Swept(watch, NoWatch) ELSE watch
  OBVIOUS
<1> DEFINE clean == CleanedUp(s)
<1>6. /\ clean \in AvahiSimplePoll /\ clean.watches = list /\ clean.pollfds = s.pollfds
      /\ clean.rebuild_pollfds = s.rebuild_pollfds /\ clean.quit = s.quit
  BY <1>1, <1>3 DEF CleanedUp, AvahiSimplePoll
<1> DEFINE built == IF s.rebuild_pollfds THEN Rebuilt(clean) ELSE clean
           wait == IF Due # {} THEN "now" ELSE IF Enabled # {} THEN "until" ELSE "never"
<1>7. /\ pipe' \in BOOLEAN /\ UNCHANGED <<polled, thread>>
      /\ timer' = timer \/ timer' = Swept(timer, NoTimeout)
      /\ \/ s.quit /\ s' = [clean EXCEPT !.state = "QUIT"] /\ watch' = swept
         \/ /\ ~s.quit /\ s' = [built EXCEPT !.state = "PREPARED", !.prepared_timeout = wait]
            /\ watch' = IF s.rebuild_pollfds
                        THEN [w \in Watch |-> IF w \in LiveWatches THEN [swept[w] EXCEPT !.idx = Index(w)]
                                              ELSE swept[w]]
                        ELSE swept
  BY <1>5 DEF Prepares, PollTypeOK
<1> HIDE DEF clean
<1>8. /\ built \in AvahiSimplePoll /\ built.watches = list /\ built.quit = s.quit /\ ~built.rebuild_pollfds
      /\ built.pollfds = IF s.rebuild_pollfds THEN fds ELSE s.pollfds
  <2>1. Rebuilt(clean) = [clean EXCEPT !.rebuild_pollfds = FALSE, !.pollfds = fds]
    BY <1>4 DEF Rebuilt
  <2>2. LET new == [clean EXCEPT !.rebuild_pollfds = FALSE, !.pollfds = fds] IN
        /\ new \in AvahiSimplePoll /\ new.watches = list /\ new.quit = s.quit /\ ~new.rebuild_pollfds
        /\ new.pollfds = fds
    BY <1>6 DEF AvahiSimplePoll
  <2> QED BY <1>1, <1>6, <2>1, <2>2 DEF AvahiSimplePoll
<1> HIDE DEF built, wait
<1>9. /\ s' \in AvahiSimplePoll /\ s'.watches = list
      /\ \/ s.quit /\ s'.state = "QUIT" /\ s'.pollfds = s.pollfds /\ s'.rebuild_pollfds = s.rebuild_pollfds
         \/ /\ ~s.quit /\ s'.state = "PREPARED" /\ ~s'.quit /\ s'.prepared_timeout = wait /\ ~s'.rebuild_pollfds
            /\ s'.pollfds = IF s.rebuild_pollfds THEN fds ELSE s.pollfds
  <2>1. CASE s' = [clean EXCEPT !.state = "QUIT"] /\ s.quit
    BY <1>6, <2>1 DEF AvahiSimplePoll, States
  <2>2. CASE s' = [built EXCEPT !.state = "PREPARED", !.prepared_timeout = wait] /\ ~s.quit
    <3>1. wait \in {"never", "until", "now"}
      BY DEF wait
    <3> QED BY <1>8, <2>2, <3>1 DEF AvahiSimplePoll, States
  <2> QED BY <1>7, <2>1, <2>2
<1>10. \A w \in Watch :
         /\ swept[w] \in AvahiWatch
         /\ swept[w].used = (watch[w].used /\ (s.watch_req_cleanup => ~watch[w].dead))
         /\ swept[w].dead => swept[w].used /\ watch[w].dead
         /\ w \in LiveWatches => swept[w] = watch[w]
         /\ w \notin LiveWatches => ~Live(swept[w])
  <2>1. \A w \in Watch : watch[w] \in AvahiWatch /\ (watch[w].dead => watch[w].used) /\ DOMAIN watch = Watch
    BY DEF PollTypeOK, ListedOnce
  <2>2. \A w \in Watch : swept[w] = IF s.watch_req_cleanup /\ watch[w].dead THEN NoWatch ELSE watch[w]
    BY <1>5, <2>1 DEF Swept
  <2>3. NoWatch \in AvahiWatch /\ ~NoWatch.used /\ ~NoWatch.dead
    BY DEF NoWatch, AvahiWatch
  <2>4. \A w \in Watch : watch[w].used \in BOOLEAN /\ watch[w].dead \in BOOLEAN
    BY <2>1 DEF AvahiWatch
  <2>5. \A w \in Watch : w \in LiveWatches <=> watch[w].used /\ ~watch[w].dead
    BY DEF LiveWatches, Live
  <2> SUFFICES ASSUME NEW w \in Watch
               PROVE  /\ swept[w] \in AvahiWatch
                      /\ swept[w].used = (watch[w].used /\ (s.watch_req_cleanup => ~watch[w].dead))
                      /\ swept[w].dead => swept[w].used /\ watch[w].dead
                      /\ w \in LiveWatches => swept[w] = watch[w]
                      /\ w \notin LiveWatches => ~Live(swept[w])
    OBVIOUS
  <2>6. CASE s.watch_req_cleanup /\ watch[w].dead
    <3>1. swept[w] = NoWatch /\ w \notin LiveWatches
      BY <2>2, <2>5, <2>6
    <3>2. swept[w].used = FALSE /\ swept[w].dead = FALSE
      BY <3>1 DEF NoWatch
    <3> QED BY <2>3, <2>6, <3>1, <3>2 DEF Live
  <2>7. CASE ~(s.watch_req_cleanup /\ watch[w].dead)
    <3>1. swept[w] = watch[w]
      BY <2>2, <2>7
    <3>2. watch[w].used = (watch[w].used /\ (s.watch_req_cleanup => ~watch[w].dead))
      BY <2>4, <2>7
    <3> QED BY <2>1, <2>5, <3>1, <3>2 DEF Live
  <2> QED BY <2>6, <2>7
<1>11. PICK again \in BOOLEAN : again = (~s.quit /\ s.rebuild_pollfds)
  OBVIOUS
<1>12. \A w \in Watch :
         /\ watch'[w] \in AvahiWatch
         /\ watch'[w].used = swept[w].used /\ watch'[w].dead = swept[w].dead
         /\ w \in LiveWatches => /\ watch'[w].events = watch[w].events
                                 /\ watch'[w].idx = IF again THEN Index(w) ELSE watch[w].idx
  <2>1. swept \in [Watch -> AvahiWatch]
    <3>1. DOMAIN swept = Watch /\ swept = [w \in DOMAIN swept |-> swept[w]]
      BY <1>5 DEF Swept, PollTypeOK
    <3> QED BY <1>10, <3>1
  <2>2. ASSUME NEW w \in LiveWatches
        PROVE  LET one == [swept[w] EXCEPT !.idx = Index(w)] IN
               /\ one \in AvahiWatch /\ one.used = swept[w].used /\ one.dead = swept[w].dead
               /\ one.events = swept[w].events /\ one.idx = Index(w)
    <3>1. Index(w) \in Nat \ {0}
      BY <1>2, KeptFacts
    <3>2. swept[w] \in AvahiWatch
      BY <1>10 DEF LiveWatches
    <3> QED BY <3>1, <3>2 DEF AvahiWatch
  <2>3. CASE again
    <3>1. watch' = [w \in Watch |-> IF w \in LiveWatches THEN [swept[w] EXCEPT !.idx = Index(w)] ELSE swept[w]]
      BY <1>7, <1>11, <2>3
    <3> QED BY <1>10, <2>2, <2>3, <3>1
  <2>4. CASE ~again
    <3>1. watch' = swept
      BY <1>7, <1>11, <2>4
    <3> QED BY <1>10, <2>4, <3>1
  <2> QED BY <2>3, <2>4
<1>13. LiveWatches' = LiveWatches
  <2>1. \A w \in Watch : Live(watch'[w]) <=> w \in LiveWatches
    BY <1>10, <1>12 DEF Live, LiveWatches
  <2> QED BY <2>1 DEF LiveWatches
<1>14. PollTypeOK'
  <2>1. timer' \in [Timeout -> AvahiTimeout]
    <3>1. NoTimeout \in AvahiTimeout
      BY DEF NoTimeout, AvahiTimeout
    <3> QED BY <1>7, <3>1 DEF Swept, PollTypeOK
  <2>2. watch' \in [Watch -> AvahiWatch]
    <3>1. DOMAIN watch' = Watch /\ watch' = [w \in DOMAIN watch' |-> watch'[w]]
      BY <1>5, <1>7 DEF Swept, PollTypeOK
    <3> QED BY <1>12, <3>1
  <2> QED BY <1>7, <1>9, <2>1, <2>2 DEF PollTypeOK
<1>15. ListedOnce'
  <2>1. \A w \in Watch : watch'[w].dead => watch'[w].used
    BY <1>10, <1>12
  <2>2. CASE s.watch_req_cleanup
    <3>1. \A w \in Watch : watch'[w].used = (w \in LiveWatches)
      BY <1>10, <1>12, <2>2 DEF LiveWatches, Live, PollTypeOK, AvahiWatch
    <3>2. list = Kept /\ LiveWatches \subseteq Watch
      BY <1>3, <2>2 DEF LiveWatches
    <3>3. \A w \in Watch : watch'[w].used => \E i \in DOMAIN list : list[i] = w
      BY <1>2, <3>1, <3>2
    <3>4. \A i \in DOMAIN list : watch'[list[i]].used
      BY <1>2, <3>1, <3>2
    <3>5. \A i, j \in DOMAIN list : list[i] = list[j] => i = j
      BY <1>2, <3>2
    <3> QED BY <1>9, <2>1, <3>3, <3>4, <3>5 DEF ListedOnce
  <2>3. CASE ~s.watch_req_cleanup
    <3>1. \A w \in Watch : watch'[w].used = watch[w].used
      BY <1>10, <1>12, <2>3 DEF PollTypeOK, AvahiWatch
    <3>2. list = s.watches /\ \A i \in DOMAIN list : list[i] \in Watch
      BY <1>3, <2>3
    <3> QED BY <1>9, <2>1, <3>1, <3>2 DEF ListedOnce
  <2> QED BY <2>2, <2>3
<1>16. again => /\ s'.pollfds = fds
                /\ \A w \in LiveWatches : watch'[w].idx = Index(w) /\ Index(w) \in DOMAIN fds
                                          /\ fds[Index(w)].fd = w /\ fds[Index(w)].events = watch[w].events
                /\ \A i \in DOMAIN fds : fds[i].fd \in LiveWatches /\ Index(fds[i].fd) = i
  <2>1. \A i \in DOMAIN Kept : i \in DOMAIN fds /\ fds[i] = Pollfd(Kept[i])
    BY <1>4
  <2>2. DOMAIN fds = DOMAIN Kept
    BY <1>4
  <2>3. \A w : Pollfd(w).fd = w /\ Pollfd(w).events = watch[w].events
    BY DEF Pollfd
  <2>4. again => s'.pollfds = fds
    BY <1>9, <1>11
  <2>5. ASSUME again, NEW w \in LiveWatches
        PROVE  /\ watch'[w].idx = Index(w) /\ Index(w) \in DOMAIN fds
               /\ fds[Index(w)].fd = w /\ fds[Index(w)].events = watch[w].events
    <3>1. w \in Watch
      BY DEF LiveWatches
    <3>2. Index(w) \in DOMAIN Kept /\ Kept[Index(w)] = w
      BY <1>2
    <3>3. fds[Index(w)] = Pollfd(w)
      BY <2>1, <3>2
    <3>4. watch'[w].idx = Index(w)
      BY <1>12, <2>5, <3>1
    <3> QED BY <2>2, <2>3, <3>2, <3>3, <3>4
  <2>6. ASSUME NEW i \in DOMAIN fds PROVE fds[i].fd \in LiveWatches /\ Index(fds[i].fd) = i
    BY <1>2, <2>1, <2>2, <2>3
  <2> QED BY <2>4, <2>5, <2>6
<1>17. ~again => /\ s'.pollfds = s.pollfds /\ s'.rebuild_pollfds = s.rebuild_pollfds
                 /\ \A w \in LiveWatches : watch'[w].idx = watch[w].idx
  <2>1. ~again => s.quit \/ ~s.rebuild_pollfds
    BY <1>11
  <2>2. s.rebuild_pollfds \in BOOLEAN /\ s'.rebuild_pollfds \in BOOLEAN
    BY <1>1, <1>9 DEF AvahiSimplePoll
  <2>3. \A w \in LiveWatches : w \in Watch
    BY DEF LiveWatches
  <2> QED BY <1>9, <1>12, <2>1, <2>2, <2>3
<1>18. IndexIsOwn'
  <2> SUFFICES ASSUME NEW w \in LiveWatches, watch'[w].idx # -1
               PROVE  /\ watch'[w].idx \in DOMAIN s'.pollfds
                      /\ s'.pollfds[watch'[w].idx].fd = w /\ s'.pollfds[watch'[w].idx].events = watch'[w].events
    BY <1>13 DEF IndexIsOwn, LiveWatches
  <2>1. w \in Watch /\ Live(watch[w]) /\ watch'[w].events = watch[w].events
    BY <1>12 DEF LiveWatches
  <2>2. CASE again
    BY <1>16, <2>1, <2>2
  <2>3. CASE ~again
    BY <1>17, <2>1, <2>3 DEF IndexIsOwn
  <2> QED BY <2>2, <2>3
<1>19. Exact'
  <2> SUFFICES ASSUME ~s'.rebuild_pollfds
               PROVE  /\ \A w \in LiveWatches : watch'[w].idx # -1
                      /\ \A i \in DOMAIN s'.pollfds :
                           s'.pollfds[i].fd \in LiveWatches /\ watch'[s'.pollfds[i].fd].idx = i
    BY <1>13 DEF Exact
  <2>1. CASE again
    <3>1. \A w \in LiveWatches : Index(w) \in Nat
      BY <1>2
    <3> QED BY <1>16, <2>1, <3>1
  <2>2. CASE ~again
    BY <1>17, <2>2 DEF Exact
  <2> QED BY <2>1, <2>2
<1>20. Settled'
  <2>1. s'.state # "RUNNING"
    BY <1>9
  <2>2. Enabled' = Enabled
    <3>1. \A t \in Timeout : Live(timer'[t]) /\ timer'[t].enabled <=> Live(timer[t]) /\ timer[t].enabled
      BY <1>7 DEF Swept, NoTimeout, Live, PollTypeOK
    <3> QED BY <3>1 DEF Enabled
  <2>3. Enabled # {} => wait # "never"
    BY DEF wait
  <2> QED BY <1>9, <2>1, <2>2, <2>3 DEF Settled
<1> QED BY <1>14, <1>15, <1>18, <1>19, <1>20

LEMMA PollGoes == PollInv /\ [PollNext]_pollVars => PollInv'
<1> SUFFICES ASSUME PollInv, [PollNext]_pollVars PROVE PollInv'
  OBVIOUS
<1>1. CASE UNCHANGED pollVars
  <2>1. PollTypeOK' /\ Settled'
    BY <1>1 DEF pollVars, PollInv, PollTypeOK, Settled, Enabled, Wanted, LiveWatches
  <2> QED BY <1>1, <2>1, WatchesAlone DEF pollVars
<1>2. ASSUME NEW w \in Watch, NEW events \in BOOLEAN,
             watch_free(w) \/ watch_new(w, events) \/ watch_update(w, events)
      PROVE  PollInv'
  BY <1>2, WatchNewKeeps, WatchUpdateKeeps, WatchFreeKeeps
<1>3. ASSUME NEW t \in Timeout, NEW enabled \in BOOLEAN, NEW due \in BOOLEAN,
             timeout_free(t) \/ timeout_new(t, enabled, due) \/ timeout_update(t, enabled, due)
      PROVE  PollInv'
  BY <1>3, TimersKeep DEF timeout_new, timeout_update
<1>4. CASE Prepares
  BY <1>4, PreparesKeeps
<1> QED BY <1>1, <1>2, <1>3, <1>4, LoopKeeps DEF PollNext

(* The loop sees every change of its watches, timeouts and quit flag, from its   *)
(* own thread or from another, before or while it waits in poll().               *)
THEOREM LoopAlwaysWakes == PollSpec => []LoopWakes
<1> QED BY PollStarts, PollGoes, PollInvSays, PTL DEF PollSpec

-------------------------------------------------------------------------------
(* TimeEventQueue.  Each loop of avahi_prio_queue_shuffle has an invariant of    *)
(* its own: while the node rises, only it may be before what is above it         *)
(* (MayRise), while it sinks, only it may be after what is below it (MaySink).   *)
(* Both count their rounds, so what a loop reached is read off the value of a    *)
(* recursive function, a round at a time.  The invariant of the time events is   *)
(* that the queue is ordered and the timer is armed for the first of it.         *)

LEMMA Least ==
  ASSUME NEW T \in SUBSET Nat, T # {}
  PROVE  \E n \in T : \A m \in T : n <= m
<1>1. IsWellFoundedOn(OpToRel(<, Nat), Nat)
  BY NatLessThanWellFounded
<1>2. \A m, n \in Nat : m < n => <<m, n>> \in OpToRel(<, Nat)
  BY DEF OpToRel
<1> HIDE DEF OpToRel
<1>3. \A R : IsWellFoundedOn(R, Nat) => \E n \in T : \A m \in T : ~ (<<m, n>> \in R)
  BY WFMin, Zenon
<1>4. PICK n \in T : \A m \in T : ~ (<<m, n>> \in OpToRel(<, Nat))
  BY <1>1, <1>3, Zenon
<1>5. \A m \in T : m \in Nat /\ n \in Nat
  OBVIOUS
<1>6. \A m \in T : ~ (m < n)
  BY <1>2, <1>4, <1>5, Zenon
<1> QED BY <1>5, <1>6

LEMMA AllAlong ==
  ASSUME NEW N \in Nat, NEW T \in SUBSET (0 .. N), 0 \notin T,
         \A n \in 1 .. N : n - 1 \notin T => n \notin T
  PROVE  T = {}
<1>1. SUFFICES ASSUME T # {} PROVE FALSE
  OBVIOUS
<1>2. T \in SUBSET Nat
  OBVIOUS
<1>3. PICK n \in T : \A m \in T : n <= m
  BY <1>1, <1>2, Least
<1>4. n \in 1 .. N /\ n - 1 \notin T
  BY <1>3
<1> QED BY <1>4

Runs(f, N, a, g) == \A n \in 0 .. N : f[n] = IF n = 0 THEN a ELSE g[f[n-1]]
LEMMA Iterates ==
  ASSUME NEW N \in Nat, NEW S, NEW a \in S, NEW g \in [S -> S]
  PROVE  \E f \in [0 .. N -> S] : Runs(f, N, a, g)
<1> USE DEF Runs
<1> DEFINE Is(f, m) == f \in [0 .. m -> S] /\ Runs(f, m, a, g)
           T == {m \in 0 .. N : ~\E f : Is(f, m)}
<1>1. 0 \notin T
  <2>1. PICK f : f = [n \in 0 .. 0 |-> a]
    OBVIOUS
  <2>2. Is(f, 0)
    BY <2>1
  <2> QED BY <2>2
<1>2. ASSUME NEW m \in 1 .. N, m - 1 \notin T PROVE m \notin T
  <2>1. PICK f : Is(f, m - 1)
    BY <1>2
  <2>2. PICK h : h = [n \in 0 .. m |-> IF n = m THEN g[f[m-1]] ELSE f[n]]
    OBVIOUS
  <2>3. f[m-1] \in S /\ g[f[m-1]] \in S
    BY <2>1
  <2>4. h \in [0 .. m -> S]
    BY <2>1, <2>2, <2>3
  <2>5. ASSUME NEW n \in 0 .. m PROVE h[n] = IF n = 0 THEN a ELSE g[h[n-1]]
    <3>1. CASE n = m
      BY <2>2, <3>1
    <3>2. CASE n # m
      <4>1. n \in 0 .. m - 1 /\ h[n] = f[n]
        BY <2>2, <3>2
      <4>2. n # 0 => n - 1 \in 0 .. m /\ n - 1 # m /\ h[n-1] = f[n-1]
        BY <2>2, <3>2
      <4>3. f[n] = IF n = 0 THEN a ELSE g[f[n-1]]
        BY <2>1, <4>1
      <4> QED BY <4>1, <4>2, <4>3
    <3> QED BY <3>1, <3>2
  <2>6. Is(h, m)
    BY <2>4, <2>5
  <2> QED BY <2>6
<1> HIDE DEF Is
<1>3. T = {}
  <2>1. T \in SUBSET (0 .. N)
    OBVIOUS
  <2> HIDE DEF T
  <2> QED BY <1>1, <1>2, <2>1, AllAlong
<1>4. \E f : Is(f, N)
  <2>1. N \in 0 .. N
    OBVIOUS
  <2> QED BY <1>3, <2>1
<1> QED BY <1>4 DEF Is

\* A queue, and a node of it on its way.
Queues == Seq(AvahiTimeEvent)
Nodes == UNION {[q : {q}, at : 1 .. Len(q)] : q \in Queues}
InTime(a, d) == ~Earlier(d, a)
Ordered(q) == \A i \in 2 .. Len(q) : InTime(q[i \div 2], q[i])
\* The node may be before those above it, but nothing else is.
MayRise(x) ==
  /\ \A j \in 2 .. Len(x.q) : j # x.at /\ j \div 2 # x.at => InTime(x.q[j \div 2], x.q[j])
  /\ \A j \in 2 .. Len(x.q) : j \div 2 = x.at /\ x.at > 1 => InTime(x.q[x.at \div 2], x.q[j])
\* The node may be after those below it, but nothing else is.
MaySink(x) ==
  /\ \A j \in 2 .. Len(x.q) : j \div 2 # x.at => InTime(x.q[j \div 2], x.q[j])
  /\ \A j \in 2 .. Len(x.q) : j \div 2 = x.at /\ x.at > 1 => InTime(x.q[x.at \div 2], x.q[j])
\* The same events, in other places.
Shuffled(q, p) == p \in Queues /\ Len(p) = Len(q) /\ \A e \in AvahiTimeEvent : Copies(p, e) = Copies(q, e)

LEMMA Orders ==
  /\ \A a \in AvahiTimeEvent : InTime(a, a)
  /\ \A a, d \in AvahiTimeEvent : Earlier(a, d) => InTime(a, d)
  /\ \A a, d, c \in AvahiTimeEvent : InTime(a, d) /\ InTime(d, c) => InTime(a, c)
  /\ \A a, d \in AvahiTimeEvent : InTime(a, d) => a.expiry <= d.expiry /\ (a.expiry = d.expiry => a.last_run <= d.last_run)
<1>1. \A a \in AvahiTimeEvent : a.expiry \in Nat /\ a.last_run \in Nat
  BY TimeBounds DEF AvahiTimeEvent
<1> QED BY <1>1 DEF InTime, Earlier

LEMMA Halves ==
  ASSUME NEW N \in Nat, NEW i \in 2 .. N
  PROVE  /\ i \div 2 \in 1 .. N \div 2 /\ i \div 2 \in 1 .. N /\ i \div 2 < i
         /\ i = 2 * (i \div 2) \/ i = 2 * (i \div 2) + 1
OBVIOUS

LEMMA NodesAre ==
  ASSUME NEW x \in Nodes
  PROVE  /\ x = [q |-> x.q, at |-> x.at] /\ x.q \in Queues /\ Len(x.q) \in Nat /\ DOMAIN x.q = 1 .. Len(x.q)
         /\ x.at \in 1 .. Len(x.q) /\ \A j \in 1 .. Len(x.q) : x.q[j] \in AvahiTimeEvent
BY DEF Nodes, Queues

Swapped(q, a, d) == [q EXCEPT ![a] = q[d], ![d] = q[a]]
LEMMA ExchangedIs ==
  ASSUME NEW q \in Queues, NEW a \in 1 .. Len(q), NEW d \in 1 .. Len(q), NEW p, p = Swapped(q, a, d)
  PROVE  /\ p[a] = q[d] /\ p[d] = q[a]
         /\ \A j \in 1 .. Len(q) : j # a /\ j # d => p[j] = q[j]
         /\ Shuffled(q, p)
<1>1. /\ p \in Queues /\ Len(p) = Len(q) /\ p[a] = q[d] /\ p[d] = q[a]
      /\ \A j \in 1 .. Len(q) : j # a /\ j # d => p[j] = q[j]
  <2>1. p = [[q EXCEPT ![a] = q[d]] EXCEPT ![d] = q[a]]
    BY DEF Swapped
  <2>2. q[a] \in AvahiTimeEvent /\ q[d] \in AvahiTimeEvent
    BY DEF Queues
  <2> QED BY <2>1, <2>2 DEF Queues
<1>2. ASSUME NEW e \in AvahiTimeEvent PROVE Copies(p, e) = Copies(q, e)
  <2> DEFINE S == {i \in DOMAIN q : q[i] = e}
             T == {i \in DOMAIN p : p[i] = e}
  <2>1. DOMAIN q = 1 .. Len(q) /\ DOMAIN p = 1 .. Len(q)
    BY <1>1 DEF Queues
  <2>2. IsFiniteSet(S) /\ Cardinality(S) \in Nat
    <3>1. Len(q) \in Int
      BY DEF Queues
    <3>2. IsFiniteSet(1 .. Len(q))
      BY <3>1, FS_Interval
    <3>3. S \subseteq 1 .. Len(q)
      BY <2>1
    <3>4. IsFiniteSet(S)
      BY <3>2, <3>3, FS_Subset
    <3> QED BY <3>4, FS_CardinalityType
  <2>3. CASE q[a] = e /\ q[d] # e
    <3>1. T = (S \ {a}) \union {d} /\ a \in S /\ d \notin S \ {a}
      BY <1>1, <2>1, <2>3
    <3> HIDE DEF S, T
    <3>2. IsFiniteSet(S \ {a}) /\ Cardinality(S \ {a}) = Cardinality(S) - 1
      BY <2>2, <3>1, FS_RemoveElement
    <3>3. Cardinality((S \ {a}) \union {d}) = Cardinality(S \ {a}) + 1
      BY <3>1, <3>2, FS_AddElement
    <3>4. Cardinality(T) = Cardinality(S)
      BY <2>2, <3>1, <3>2, <3>3
    <3> QED BY <3>4 DEF Copies, S, T
  <2>4. CASE q[a] # e /\ q[d] = e
    <3>1. T = (S \ {d}) \union {a} /\ d \in S /\ a \notin S \ {d}
      BY <1>1, <2>1, <2>4
    <3> HIDE DEF S, T
    <3>2. IsFiniteSet(S \ {d}) /\ Cardinality(S \ {d}) = Cardinality(S) - 1
      BY <2>2, <3>1, FS_RemoveElement
    <3>3. Cardinality((S \ {d}) \union {a}) = Cardinality(S \ {d}) + 1
      BY <3>1, <3>2, FS_AddElement
    <3>4. Cardinality(T) = Cardinality(S)
      BY <2>2, <3>1, <3>2, <3>3
    <3> QED BY <3>4 DEF Copies, S, T
  <2>5. CASE q[a] = e <=> q[d] = e
    <3>1. T = S
      BY <1>1, <2>1, <2>5
    <3> QED BY <3>1 DEF Copies
  <2> QED BY <2>3, <2>4, <2>5
<1> QED BY <1>1, <1>2 DEF Shuffled

LEMMA ShuffledAlong ==
  ASSUME NEW q, NEW p, NEW w, Shuffled(q, p), Shuffled(p, w)
  PROVE  Shuffled(q, w)
BY DEF Shuffled

\* One round of the way up.
LEMMA RiseIs ==
  ASSUME NEW x \in Nodes, NEW y, y = Heap!Rise(x)
  PROVE  /\ y \in Nodes /\ Shuffled(x.q, y.q)
         /\ MayRise(x) => MayRise(y)
         /\ y = x \/ y.at = x.at \div 2
         /\ x.at = 1 => y = x
         /\ y = x /\ MayRise(x) => MaySink(x)
<1>1. PICK N \in Nat : N = Len(x.q)
  BY NodesAre
<1>2. x.q \in Queues /\ x.at \in 1 .. N /\ \A j \in 1 .. N : x.q[j] \in AvahiTimeEvent
  BY <1>1, NodesAre
<1>3. CASE x.at > 1 /\ Earlier(x.q[x.at], x.q[x.at \div 2])
  <2>1. PICK i \in 2 .. N : i = x.at
    BY <1>2, <1>3
  <2>2. PICK c \in 1 .. N : c = i \div 2 /\ c # i /\ c < i
    BY <1>1, <2>1, Halves
  <2>3. y.q = Swapped(x.q, i, c) /\ y = [q |-> y.q, at |-> c]
    BY <1>3, <2>1, <2>2 DEF Heap!Rise, Heap!Parent, Heap!Exchanged, Swapped
  <2>4. /\ y.q \in Queues /\ Len(y.q) = N /\ y.q[i] = x.q[c] /\ y.q[c] = x.q[i]
        /\ \A j \in 1 .. N : j # i /\ j # c => y.q[j] = x.q[j]
        /\ Shuffled(x.q, y.q)
    <3>1. PICK q : q = x.q
      OBVIOUS
    <3>2. PICK p : p = Swapped(q, i, c)
      OBVIOUS
    <3>3. q \in Queues /\ Len(q) = N
      BY <1>1, <1>2, <3>1
    <3>4. i \in 1 .. Len(q) /\ c \in 1 .. Len(q)
      BY <3>3
    <3>5. /\ p[i] = q[c] /\ p[c] = q[i]
          /\ \A j \in 1 .. Len(q) : j # i /\ j # c => p[j] = q[j]
          /\ Shuffled(q, p)
      BY ONLY <3>2, <3>3, <3>4, ExchangedIs
    <3>6. p \in Queues /\ Len(p) = N
      BY <3>3, <3>5 DEF Shuffled
    <3>7. p = y.q
      BY <2>3, <3>1, <3>2
    <3> QED BY <3>1, <3>3, <3>5, <3>6, <3>7
  <2>5. y \in Nodes
    BY <2>3, <2>4 DEF Nodes
  <2>6. ASSUME MayRise(x), NEW j \in 2 .. N, j # c, j \div 2 # c
        PROVE  InTime(y.q[j \div 2], y.q[j])
    <3>1. j # i /\ j \div 2 \in 1 .. N
      BY <2>2, <2>6, <1>1, Halves
    <3>2. CASE j \div 2 = i
      <4>1. y.q[j] = x.q[j] /\ y.q[j \div 2] = x.q[c]
        BY <2>4, <2>6, <3>1, <3>2
      <4>2. InTime(x.q[c], x.q[j])
        BY <1>1, <2>1, <2>2, <2>6, <3>2 DEF MayRise
      <4> QED BY <4>1, <4>2
    <3>3. CASE j \div 2 # i
      <4>1. y.q[j] = x.q[j] /\ y.q[j \div 2] = x.q[j \div 2]
        BY <2>4, <2>6, <3>1, <3>3
      <4>2. InTime(x.q[j \div 2], x.q[j])
        BY <1>1, <2>1, <2>2, <2>6, <3>1, <3>3 DEF MayRise
      <4> QED BY <4>1, <4>2
    <3> QED BY <3>2, <3>3
  <2>7. ASSUME MayRise(x), NEW j \in 2 .. N, j \div 2 = c, c > 1
        PROVE  InTime(y.q[c \div 2], y.q[j])
    <3>1. c \div 2 \in 1 .. N /\ c \div 2 # c /\ c \div 2 # i /\ c \in 2 .. N /\ c \div 2 < c
      BY <1>1, <2>2, <2>7, Halves
    <3>2. y.q[c \div 2] = x.q[c \div 2]
      BY <2>4, <3>1
    <3>3. InTime(x.q[c \div 2], x.q[c])
      BY <1>1, <2>1, <2>2, <2>7, <3>1 DEF MayRise
    <3>4. CASE j = i
      BY <2>4, <3>2, <3>3, <3>4
    <3>5. CASE j # i
      <4>1. j # c /\ y.q[j] = x.q[j]
        BY <2>4, <2>7, <3>1, <3>5
      <4>2. InTime(x.q[c], x.q[j])
        BY <1>1, <2>1, <2>2, <2>7, <3>5 DEF MayRise
      <4> QED BY <1>2, <3>1, <3>2, <3>3, <4>1, <4>2, Orders
    <3> QED BY <3>4, <3>5
  <2>8. MayRise(x) => MayRise(y)
    <3>1. y.at = c
      BY <2>3
    <3> QED BY <2>4, <2>6, <2>7, <3>1 DEF MayRise
  <2>9. y # x
    BY <2>1, <2>2, <2>3
  <2> QED BY <2>1, <2>2, <2>3, <2>4, <2>5, <2>8, <2>9
<1>4. CASE ~(x.at > 1 /\ Earlier(x.q[x.at], x.q[x.at \div 2]))
  <2>1. y = x
    BY <1>4 DEF Heap!Rise, Heap!Parent
  <2>2. Shuffled(x.q, x.q)
    BY <1>2 DEF Shuffled
  <2>3. MayRise(x) => MaySink(x)
    BY <1>1, <1>2, <1>4 DEF MayRise, MaySink, InTime
  <2> QED BY <2>1, <2>2, <2>3
<1> QED BY <1>3, <1>4

\* One round of the way down.
LEMMA SinkIs ==
  ASSUME NEW x \in Nodes, NEW y, y = Heap!Sink(x)
  PROVE  /\ y \in Nodes /\ Shuffled(x.q, y.q)
         /\ MaySink(x) => MaySink(y)
         /\ y = x \/ y.at > x.at
         /\ x.at > Len(x.q) \div 2 => y = x
         /\ y = x /\ MaySink(x) => Ordered(x.q)
<1>1. PICK N \in Nat : N = Len(x.q)
  BY NodesAre
<1>2. x.q \in Queues /\ x.at \in 1 .. N /\ \A j \in 1 .. N : x.q[j] \in AvahiTimeEvent
  BY <1>1, NodesAre
<1>3. PICK i \in 1 .. N : i = x.at
  BY <1>2
<1>4. PICK c : c = Heap!SmallerChild(x.q, i)
  OBVIOUS
<1>5. 2 * i <= N => /\ c \in 2 .. N /\ c \div 2 = i /\ c # i /\ c > i
                    /\ \A j \in 2 .. N : j \div 2 = i => InTime(x.q[c], x.q[j])
  <2> SUFFICES ASSUME 2 * i <= N
               PROVE  /\ c \in 2 .. N /\ c \div 2 = i /\ c # i /\ c > i
                      /\ \A j \in 2 .. N : j \div 2 = i => InTime(x.q[c], x.q[j])
    OBVIOUS
  <2>1. \A j \in 2 .. N : j \div 2 = i => j = 2 * i \/ (j = 2 * i + 1 /\ 2 * i < N)
    BY Halves
  <2>2. CASE 2 * i < N /\ Earlier(x.q[2 * i + 1], x.q[2 * i])
    <3>1. c = 2 * i + 1
      BY <1>1, <1>4, <2>2 DEF Heap!SmallerChild
    <3>2. 2 * i \in 1 .. N /\ 2 * i + 1 \in 1 .. N
      BY <2>2
    <3>3. x.q[2 * i] \in AvahiTimeEvent /\ x.q[2 * i + 1] \in AvahiTimeEvent
      BY <1>2, <3>2
    <3>4. InTime(x.q[2 * i + 1], x.q[2 * i]) /\ InTime(x.q[2 * i + 1], x.q[2 * i + 1])
      BY <2>2, <3>3, Orders
    <3>5. c \in 2 .. N /\ c \div 2 = i /\ c # i /\ c > i
      BY <2>2, <3>1
    <3> QED BY <2>1, <3>1, <3>4, <3>5
  <2>3. CASE ~(2 * i < N /\ Earlier(x.q[2 * i + 1], x.q[2 * i]))
    <3>1. c = 2 * i
      BY <1>1, <1>4, <2>3 DEF Heap!SmallerChild
    <3>2. x.q[2 * i] \in AvahiTimeEvent
      BY <1>2
    <3>3. InTime(x.q[2 * i], x.q[2 * i])
      BY <3>2, Orders
    <3>4. c \in 2 .. N /\ c \div 2 = i /\ c # i /\ c > i
      BY <3>1
    <3> QED BY <2>1, <2>3, <3>1, <3>3, <3>4 DEF InTime
  <2> QED BY <2>2, <2>3
<1>6. CASE 2 * i <= N /\ Earlier(x.q[c], x.q[i])
  <2>1. /\ c \in 2 .. N /\ c \div 2 = i /\ c # i /\ c > i
        /\ \A j \in 2 .. N : j \div 2 = i => InTime(x.q[c], x.q[j])
    BY <1>5, <1>6
  <2>2. y.q = Swapped(x.q, i, c) /\ y = [q |-> y.q, at |-> c]
    BY <1>1, <1>3, <1>4, <1>6 DEF Heap!Sink, Heap!Exchanged, Swapped
  <2>3. /\ y.q \in Queues /\ Len(y.q) = N /\ y.q[i] = x.q[c] /\ y.q[c] = x.q[i]
        /\ \A j \in 1 .. N : j # i /\ j # c => y.q[j] = x.q[j]
        /\ Shuffled(x.q, y.q)
    <3>1. PICK q : q = x.q
      OBVIOUS
    <3>2. PICK p : p = Swapped(q, i, c)
      OBVIOUS
    <3>3. q \in Queues /\ Len(q) = N
      BY <1>1, <1>2, <3>1
    <3>4. i \in 1 .. Len(q) /\ c \in 1 .. Len(q)
      BY <2>1, <3>3
    <3>5. /\ p[i] = q[c] /\ p[c] = q[i]
          /\ \A j \in 1 .. Len(q) : j # i /\ j # c => p[j] = q[j]
          /\ Shuffled(q, p)
      BY ONLY <3>2, <3>3, <3>4, ExchangedIs
    <3>6. p \in Queues /\ Len(p) = N
      BY <3>3, <3>5 DEF Shuffled
    <3>7. p = y.q
      BY <2>2, <3>1, <3>2
    <3> QED BY <3>1, <3>3, <3>5, <3>6, <3>7
  <2>4. y \in Nodes
    BY <2>1, <2>2, <2>3 DEF Nodes
  <2>5. InTime(x.q[c], x.q[i])
    BY <1>2, <1>6, <2>1, Orders
  <2>6. ASSUME MaySink(x), NEW j \in 2 .. N, j \div 2 # c
        PROVE  InTime(y.q[j \div 2], y.q[j])
    <3>1. j \div 2 \in 1 .. N /\ j \div 2 # j
      BY Halves
    <3>2. CASE j = c
      BY <2>1, <2>3, <2>5, <3>2
    <3>3. CASE j = i
      <4>1. i > 1 /\ j \div 2 # i
        BY <3>1, <3>3
      <4>2. InTime(x.q[i \div 2], x.q[c])
        BY <1>1, <1>3, <2>1, <2>6, <4>1 DEF MaySink
      <4>3. y.q[j \div 2] = x.q[i \div 2]
        BY <2>3, <2>6, <3>1, <3>3
      <4> QED BY <2>3, <3>3, <4>2, <4>3
    <3>4. CASE j # i /\ j # c
      <4>1. y.q[j] = x.q[j]
        BY <2>3, <3>4
      <4>2. CASE j \div 2 = i
        BY <2>1, <2>3, <4>1, <4>2
      <4>3. CASE j \div 2 # i
        <5>1. InTime(x.q[j \div 2], x.q[j])
          BY <1>1, <1>3, <2>6, <4>3 DEF MaySink
        <5> QED BY <2>3, <2>6, <3>1, <4>1, <4>3, <5>1
      <4> QED BY <4>2, <4>3
    <3> QED BY <3>2, <3>3, <3>4
  <2>7. ASSUME MaySink(x), NEW j \in 2 .. N, j \div 2 = c
        PROVE  InTime(y.q[c \div 2], y.q[j])
    <3>1. j # i /\ j # c
      BY <2>1, <2>7, Halves
    <3>2. InTime(x.q[c], x.q[j])
      BY <1>1, <1>3, <2>1, <2>7 DEF MaySink
    <3> QED BY <2>1, <2>3, <3>1, <3>2
  <2>8. MaySink(x) => MaySink(y)
    <3>1. y.at = c
      BY <2>2
    <3> QED BY <2>3, <2>6, <2>7, <3>1 DEF MaySink
  <2>9. y # x /\ y.at > x.at /\ ~(x.at > N \div 2)
    BY <1>3, <1>6, <2>1, <2>2
  <2> QED BY <1>1, <2>3, <2>4, <2>8, <2>9
<1>7. CASE ~(2 * i <= N /\ Earlier(x.q[c], x.q[i]))
  <2>1. y = x
    BY <1>1, <1>3, <1>4, <1>7 DEF Heap!Sink
  <2>2. Shuffled(x.q, x.q)
    BY <1>2 DEF Shuffled
  <2>3. ASSUME MaySink(x), NEW j \in 2 .. N PROVE InTime(x.q[j \div 2], x.q[j])
    <3>1. CASE j \div 2 # i
      BY <1>1, <1>3, <2>3, <3>1 DEF MaySink
    <3>2. CASE j \div 2 = i
      <4>1. 2 * i <= N
        BY <3>2, Halves
      <4>2. c \in 1 .. N /\ InTime(x.q[i], x.q[c]) /\ InTime(x.q[c], x.q[j])
        BY <1>5, <1>7, <3>2, <4>1 DEF InTime
      <4> QED BY <1>2, <3>2, <4>2, Orders
    <3> QED BY <3>1, <3>2
  <2>4. MaySink(x) => Ordered(x.q)
    BY <1>1, <2>3 DEF Ordered
  <2> QED BY <2>1, <2>2, <2>4
<1> QED BY <1>6, <1>7

\* The first loop ends where nothing above the node is after it.
LEMMA UpIs ==
  ASSUME NEW x \in Nodes, MayRise(x), NEW y, y = Heap!Rounds(x, Heap!Rise)
  PROVE  y \in Nodes /\ Shuffled(x.q, y.q) /\ MaySink(y)
<1>1. PICK L \in Nat : L = Len(x.q) /\ x.at \in 1 .. L /\ x.q \in Queues
  BY NodesAre
<1>0. PICK M \in Nat : M = L \div 2 /\ (L = 2 * M \/ L = 2 * M + 1)
  OBVIOUS
<1> DEFINE Body(f) == [n \in 0 .. M |-> IF n = 0 THEN x ELSE Heap!Rise(f[n-1])]
           At(n, u) == /\ u \in Nodes /\ Shuffled(x.q, u.q) /\ MayRise(u)
                       /\ Heap!Rise(u) = u \/ n = 0 \/ u.at <= M - (n - 1)
<1>2. y = (CHOOSE f : f = Body(f))[M]
  BY <1>1, <1>0 DEF Heap!Rounds
<1>3. \E f : f = Body(f)
  <2>1. PICK g : g = [u \in Nodes |-> Heap!Rise(u)]
    OBVIOUS
  <2>2. g \in [Nodes -> Nodes]
    BY <2>1, RiseIs
  <2>3. PICK f \in [0 .. M -> Nodes] : Runs(f, M, x, g)
    BY <2>2, Iterates
  <2>4. ASSUME NEW n \in 0 .. M PROVE f[n] = IF n = 0 THEN x ELSE Heap!Rise(f[n-1])
    <3>1. n # 0 => f[n-1] \in Nodes
      BY <2>3
    <3>2. f[n] = IF n = 0 THEN x ELSE g[f[n-1]]
      BY <2>3 DEF Runs
    <3> QED BY <2>1, <3>1, <3>2
  <2>5. f = Body(f)
    BY <2>3, <2>4
  <2> QED BY <2>5
<1>4. PICK f : f = Body(f) /\ y = f[M]
  BY <1>2, <1>3
<1>5. f[0] = x /\ \A n \in 1 .. M : f[n] = Heap!Rise(f[n-1])
  BY <1>4
<1>6. At(0, f[0])
  <2>1. Shuffled(x.q, x.q)
    BY <1>1 DEF Shuffled
  <2> QED BY <1>1, <1>5, <2>1
<1>7. ASSUME NEW n \in 1 .. M, At(n - 1, f[n-1]) PROVE At(n, f[n])
  <2>1. PICK u : u = f[n-1]
    OBVIOUS
  <2>2. PICK v : v = Heap!Rise(u)
    OBVIOUS
  <2>3. f[n] = v /\ u \in Nodes /\ Shuffled(x.q, u.q) /\ MayRise(u)
    BY <1>5, <1>7, <2>1, <2>2
  <2>4. /\ v \in Nodes /\ Shuffled(u.q, v.q) /\ MayRise(v)
        /\ v = u \/ v.at = u.at \div 2
    BY <2>2, <2>3, RiseIs
  <2>5. Shuffled(x.q, v.q)
    BY <2>3, <2>4, ShuffledAlong
  <2>6. Heap!Rise(v) = v \/ v.at <= M - (n - 1)
    <3>1. CASE v = u
      BY <2>2, <3>1
    <3>2. CASE v # u /\ n = 1
      <4>1. u = x
        BY <1>5, <2>1, <3>2
      <4>2. PICK i \in 1 .. L : i = x.at
        BY <1>1
      <4>3. i \div 2 <= M
        BY <1>0
      <4> QED BY <2>4, <3>2, <4>1, <4>2, <4>3
    <3>3. CASE v # u /\ n # 1
      <4>1. u.at <= M - (n - 2)
        BY <1>7, <2>1, <2>2, <3>3
      <4>2. u.at \in Nat /\ u.at >= 1
        BY <2>3, NodesAre
      <4>3. u.at \div 2 <= u.at - 1
        BY <4>2
      <4> QED BY <2>4, <3>3, <4>1, <4>2, <4>3
    <3> QED BY <3>1, <3>2, <3>3
  <2> QED BY <2>3, <2>4, <2>5, <2>6
<1> DEFINE T == {n \in 0 .. M : ~At(n, f[n])}
<1>8. T = {}
  <2>1. T \in SUBSET (0 .. M) /\ 0 \notin T
    BY <1>6
  <2>2. ASSUME NEW n \in 1 .. M, n - 1 \notin T PROVE n \notin T
    <3>1. n - 1 \in 0 .. M
      OBVIOUS
    <3> QED BY <1>7, <2>2, <3>1
  <2> HIDE DEF T
  <2> QED BY <2>1, <2>2, AllAlong
<1>9. At(M, y)
  <2> HIDE DEF At
  <2>1. M \in 0 .. M
    OBVIOUS
  <2> QED BY <1>4, <1>8, <2>1
<1>10. y.at \in 1 .. L
  <2>1. Len(y.q) = L /\ y.at \in 1 .. Len(y.q)
    BY <1>1, <1>9, NodesAre DEF Shuffled
  <2> QED BY <2>1
<1>11. Heap!Rise(y) = y
  <2>1. CASE Heap!Rise(y) = y
    BY <2>1
  <2>2. CASE y.at = 1
    BY <1>9, <2>2, RiseIs
  <2>3. CASE M = 0
    <3>1. L = 0 \/ L = 1
      BY <1>0, <2>3
    <3>2. y.at = 1
      BY <1>10, <3>1
    <3> QED BY <2>2, <3>2
  <2>4. CASE y.at <= M - (M - 1)
    <3>1. M - (M - 1) = 1
      OBVIOUS
    <3>2. y.at = 1
      BY <1>10, <2>4, <3>1
    <3> QED BY <2>2, <3>2
  <2> QED BY <1>9, <2>1, <2>3, <2>4
<1> QED BY <1>9, <1>11, RiseIs

\* The second loop ends with a heap.
LEMMA DownIs ==
  ASSUME NEW x \in Nodes, MaySink(x), NEW y, y = Heap!Rounds(x, Heap!Sink)
  PROVE  y \in Nodes /\ Shuffled(x.q, y.q) /\ Ordered(y.q)
<1>1. PICK L \in Nat : L = Len(x.q) /\ x.at \in 1 .. L /\ x.q \in Queues
  BY NodesAre
<1>0. PICK M \in Nat : M = L \div 2 /\ (L = 2 * M \/ L = 2 * M + 1)
  OBVIOUS
<1> DEFINE Body(f) == [n \in 0 .. M |-> IF n = 0 THEN x ELSE Heap!Sink(f[n-1])]
           At(n, u) == /\ u \in Nodes /\ Shuffled(x.q, u.q) /\ MaySink(u)
                       /\ Heap!Sink(u) = u \/ u.at > n
<1>2. y = (CHOOSE f : f = Body(f))[M]
  BY <1>1, <1>0 DEF Heap!Rounds
<1>3. \E f : f = Body(f)
  <2>1. PICK g : g = [u \in Nodes |-> Heap!Sink(u)]
    OBVIOUS
  <2>2. g \in [Nodes -> Nodes]
    BY <2>1, SinkIs
  <2>3. PICK f \in [0 .. M -> Nodes] : Runs(f, M, x, g)
    BY <2>2, Iterates
  <2>4. ASSUME NEW n \in 0 .. M PROVE f[n] = IF n = 0 THEN x ELSE Heap!Sink(f[n-1])
    <3>1. n # 0 => f[n-1] \in Nodes
      BY <2>3
    <3>2. f[n] = IF n = 0 THEN x ELSE g[f[n-1]]
      BY <2>3 DEF Runs
    <3> QED BY <2>1, <3>1, <3>2
  <2>5. f = Body(f)
    BY <2>3, <2>4
  <2> QED BY <2>5
<1>4. PICK f : f = Body(f) /\ y = f[M]
  BY <1>2, <1>3
<1>5. f[0] = x /\ \A n \in 1 .. M : f[n] = Heap!Sink(f[n-1])
  BY <1>4
<1>6. At(0, f[0])
  <2>1. Shuffled(x.q, x.q)
    BY <1>1 DEF Shuffled
  <2> QED BY <1>1, <1>5, <2>1
<1>7. ASSUME NEW n \in 1 .. M, At(n - 1, f[n-1]) PROVE At(n, f[n])
  <2>1. PICK u : u = f[n-1]
    OBVIOUS
  <2>2. PICK v : v = Heap!Sink(u)
    OBVIOUS
  <2>3. f[n] = v /\ u \in Nodes /\ Shuffled(x.q, u.q) /\ MaySink(u)
    BY <1>5, <1>7, <2>1, <2>2
  <2>4. /\ v \in Nodes /\ Shuffled(u.q, v.q) /\ MaySink(v)
        /\ v = u \/ v.at > u.at
    BY <2>2, <2>3, SinkIs
  <2>5. Shuffled(x.q, v.q)
    BY <2>3, <2>4, ShuffledAlong
  <2>6. Heap!Sink(v) = v \/ v.at > n
    <3>1. CASE v = u
      BY <2>2, <3>1
    <3>2. CASE v # u
      <4>1. u.at > n - 1
        BY <1>7, <2>1, <2>2, <3>2
      <4>2. u.at \in Nat /\ v.at \in Nat
        BY <2>3, <2>4, NodesAre
      <4> QED BY <2>4, <3>2, <4>1, <4>2
    <3> QED BY <3>1, <3>2
  <2> QED BY <2>3, <2>4, <2>5, <2>6
<1> DEFINE T == {n \in 0 .. M : ~At(n, f[n])}
<1>8. T = {}
  <2>1. T \in SUBSET (0 .. M) /\ 0 \notin T
    BY <1>6
  <2>2. ASSUME NEW n \in 1 .. M, n - 1 \notin T PROVE n \notin T
    <3>1. n - 1 \in 0 .. M
      OBVIOUS
    <3> QED BY <1>7, <2>2, <3>1
  <2> HIDE DEF T
  <2> QED BY <2>1, <2>2, AllAlong
<1>9. At(M, y)
  <2> HIDE DEF At
  <2>1. M \in 0 .. M
    OBVIOUS
  <2> QED BY <1>4, <1>8, <2>1
<1>10. Len(y.q) = L
  BY <1>1, <1>9 DEF Shuffled
<1>11. Heap!Sink(y) = y
  BY <1>0, <1>9, <1>10, SinkIs
<1> QED BY <1>9, <1>11, SinkIs

LEMMA ShuffleIs ==
  ASSUME NEW q \in Queues, NEW i \in 1 .. Len(q), MayRise([q |-> q, at |-> i]),
         NEW p, p = Heap!Shuffle(q, i)
  PROVE  Shuffled(q, p) /\ Ordered(p)
<1>1. PICK x : x = [q |-> q, at |-> i]
  OBVIOUS
<1>2. x \in Nodes /\ MayRise(x) /\ x.q = q
  BY <1>1 DEF Nodes
<1>3. PICK y : y = Heap!Rounds(x, Heap!Rise)
  OBVIOUS
<1>4. y \in Nodes /\ Shuffled(q, y.q) /\ MaySink(y)
  BY <1>2, <1>3, UpIs
<1>5. PICK z : z = Heap!Rounds(y, Heap!Sink)
  OBVIOUS
<1>6. Shuffled(y.q, z.q) /\ Ordered(z.q)
  BY <1>4, <1>5, DownIs
<1>7. p = z.q
  <2>1. y = [q |-> y.q, at |-> y.at]
    BY <1>4, NodesAre
  <2> QED BY <1>1, <1>3, <1>5, <2>1 DEF Heap!Shuffle, Heap!Up, Heap!Down
<1> QED BY <1>4, <1>6, <1>7, ShuffledAlong

LEMMA HeldByQueue ==
  ASSUME NEW q \in Queues
  PROVE  \A j \in 1 .. Len(q) : q[j] \in AvahiTimeEvent
BY DEF Queues

\* An ordered queue of which one event was replaced.
LEMMA Replaced ==
  ASSUME NEW q \in Queues, Ordered(q), NEW i \in 1 .. Len(q), NEW p \in Queues, NEW N \in Nat,
         N = Len(q), N = Len(p), \A j \in 1 .. N : j # i => p[j] = q[j]
  PROVE  MayRise([q |-> p, at |-> i])
<1>1. \A j \in 1 .. N : q[j] \in AvahiTimeEvent
  <2>1. \A j \in 1 .. Len(q) : q[j] \in AvahiTimeEvent
    BY ONLY HeldByQueue, q \in Queues
  <2> QED BY ONLY <2>1, N = Len(q)
<1>2. ASSUME NEW j \in 2 .. N, j # i, j \div 2 # i PROVE InTime(p[j \div 2], p[j])
  <2>1. j \div 2 \in 1 .. N
    BY Halves
  <2> QED BY <1>2, <2>1 DEF Ordered
<1>3. ASSUME NEW j \in 2 .. N, j \div 2 = i, i > 1 PROVE InTime(p[i \div 2], p[j])
  <2>1. i \in 2 .. N /\ j # i
    BY <1>3, Halves
  <2>2. i \div 2 \in 1 .. N /\ i \div 2 # i
    BY <2>1, Halves
  <2>3. InTime(q[i \div 2], q[i]) /\ InTime(q[i], q[j])
    BY <1>3, <2>1 DEF Ordered
  <2>4. InTime(q[i \div 2], q[j])
    BY <1>1, <2>1, <2>2, <2>3, Orders
  <2> QED BY <2>1, <2>2, <2>4
<1> QED BY <1>2, <1>3 DEF MayRise

LEMMA PutIs ==
  ASSUME NEW q \in Queues, Ordered(q), NEW e \in AvahiTimeEvent, NEW p, p = Heap!Put(q, e)
  PROVE  p \in Queues /\ Len(p) = Len(q) + 1 /\ Ordered(p)
<1>1. PICK N \in Nat : N = Len(q)
  BY DEF Queues
<1>2. PICK w : w = Append(q, e)
  OBVIOUS
<1>3. /\ w \in Queues /\ Len(w) = N + 1 /\ \A j \in 1 .. N : w[j] = q[j]
  BY <1>1, <1>2, AppendProperties DEF Queues
<1>4. MayRise([q |-> w, at |-> N + 1])
  <2>1. ASSUME NEW j \in 2 .. N + 1, j # N + 1 PROVE InTime(w[j \div 2], w[j])
    <3>1. j \in 2 .. N
      BY <2>1
    <3>2. j \div 2 \in 1 .. N
      BY <3>1, Halves
    <3> QED BY <1>1, <1>3, <3>1, <3>2 DEF Ordered
  <2>2. \A j \in 2 .. N + 1 : j \div 2 # N + 1
    OBVIOUS
  <2> QED BY <1>3, <2>1, <2>2 DEF MayRise
<1>5. p = Heap!Shuffle(w, N + 1)
  BY <1>1, <1>2 DEF Heap!Put
<1>6. N + 1 \in 1 .. Len(w)
  BY <1>3
<1>7. Shuffled(w, p) /\ Ordered(p)
  BY <1>3, <1>4, <1>5, <1>6, ShuffleIs
<1> QED BY <1>1, <1>3, <1>7 DEF Shuffled

LEMMA UpdateIs ==
  ASSUME NEW q \in Queues, Ordered(q), NEW i \in 1 .. Len(q), NEW e \in AvahiTimeEvent,
         NEW p, p = Heap!Shuffle([q EXCEPT ![i] = e], i)
  PROVE  p \in Queues /\ Len(p) = Len(q) /\ Ordered(p)
<1>1. PICK N \in Nat : N = Len(q)
  BY DEF Queues
<1>2. PICK w : w = [q EXCEPT ![i] = e]
  OBVIOUS
<1>3. w \in Queues /\ N = Len(w) /\ \A j \in 1 .. N : j # i => w[j] = q[j]
  BY <1>1, <1>2 DEF Queues
<1>4. MayRise([q |-> w, at |-> i])
  BY <1>1, <1>3, Replaced
<1>5. i \in 1 .. Len(w)
  BY <1>1, <1>3
<1>6. Shuffled(w, p) /\ Ordered(p)
  BY <1>2, <1>3, <1>4, <1>5, ShuffleIs
<1> QED BY <1>1, <1>3, <1>6 DEF Shuffled

LEMMA ShortenedIs ==
  ASSUME NEW q \in Queues, NEW N \in Nat, N = Len(q), N > 0, NEW p, p = Heap!Shortened(q)
  PROVE  /\ p \in Queues /\ Len(p) = N - 1 /\ \A j \in 1 .. N - 1 : p[j] = q[j]
         /\ Ordered(q) => Ordered(p)
         /\ \A e \in AvahiTimeEvent : Copies(q, e) = Copies(p, e) + (IF e = q[N] THEN 1 ELSE 0)
<1>1. /\ p \in Queues /\ Len(p) = N - 1 /\ \A j \in 1 .. N - 1 : p[j] = q[j]
      /\ DOMAIN p = 1 .. N - 1 /\ DOMAIN q = 1 .. N
  <2>1. p = SubSeq(q, 1, N - 1) /\ \A j \in 1 .. N - 1 : q[j] \in AvahiTimeEvent
    BY DEF Heap!Shortened, Queues
  <2>2. p \in Seq(AvahiTimeEvent) /\ Len(p) = IF 1 <= N - 1 THEN N - 1 - 1 + 1 ELSE 0
    BY <2>1, SubSeqProperties
  <2>3. \A j \in 1 .. N - 1 - 1 + 1 : p[j] = q[1 + j - 1]
    BY <2>1, SubSeqProperties
  <2>4. \A j \in 1 .. N - 1 : j \in 1 .. N - 1 - 1 + 1 /\ 1 + j - 1 = j
    OBVIOUS
  <2>5. Len(p) = N - 1
    BY <2>2
  <2> QED BY <2>2, <2>3, <2>4, <2>5 DEF Queues
<1>2. Ordered(q) => Ordered(p)
  <2> SUFFICES ASSUME Ordered(q), NEW j \in 2 .. N - 1 PROVE InTime(p[j \div 2], p[j])
    BY <1>1 DEF Ordered
  <2>1. j \div 2 \in 1 .. N - 1
    BY Halves
  <2> QED BY <1>1, <2>1 DEF Ordered
<1>3. ASSUME NEW e \in AvahiTimeEvent
      PROVE  Copies(q, e) = Copies(p, e) + (IF e = q[N] THEN 1 ELSE 0)
  <2> DEFINE S == {i \in DOMAIN q : q[i] = e}
             T == {i \in DOMAIN p : p[i] = e}
  <2>1. IsFiniteSet(T) /\ Cardinality(T) \in Nat
    <3>1. IsFiniteSet(1 .. N - 1)
      BY FS_Interval
    <3>2. T \subseteq 1 .. N - 1
      BY <1>1
    <3>3. IsFiniteSet(T)
      BY <3>1, <3>2, FS_Subset
    <3> QED BY <3>3, FS_CardinalityType
  <2>2. N \notin T
    BY <1>1
  <2>3. CASE e = q[N]
    <3>1. S = T \union {N}
      BY <1>1, <2>3
    <3> HIDE DEF S, T
    <3>2. Cardinality(S) = Cardinality(T) + 1
      BY <2>1, <2>2, <3>1, FS_AddElement
    <3> QED BY <2>3, <3>2 DEF Copies, S, T
  <2>4. CASE e # q[N]
    <3>1. S = T
      BY <1>1, <2>4
    <3>2. Copies(q, e) = Copies(p, e) /\ Copies(p, e) \in Nat
      BY <2>1, <3>1 DEF Copies
    <3> QED BY <2>4, <3>2
  <2> QED BY <2>3, <2>4
<1> QED BY <1>1, <1>2, <1>3

LEMMA RemoveIs ==
  ASSUME NEW q \in Queues, Ordered(q), NEW i \in 1 .. Len(q), NEW p, p = Heap!Remove(q, i)
  PROVE  /\ p \in Queues /\ Len(p) = Len(q) - 1 /\ Ordered(p)
         /\ \A e \in AvahiTimeEvent : Copies(q, e) = Copies(p, e) + (IF e = q[i] THEN 1 ELSE 0)
<1>1. PICK N \in Nat : N = Len(q) /\ N > 0
  <2>1. Len(q) \in Nat
    BY DEF Queues
  <2> QED BY <2>1
<1>2. CASE i = N
  <2>1. p = Heap!Shortened(q)
    BY <1>1, <1>2 DEF Heap!Remove
  <2> QED BY <1>1, <1>2, <2>1, ShortenedIs
<1>3. CASE i # N
  <2>1. PICK w : w = Swapped(q, i, N)
    OBVIOUS
  <2>2. N \in 1 .. Len(q) /\ i \in 1 .. N - 1
    BY <1>1, <1>3
  <2>3. w[N] = q[i] /\ (\A j \in 1 .. Len(q) : j # i /\ j # N => w[j] = q[j]) /\ Shuffled(q, w)
    BY <2>1, <2>2, ExchangedIs
  <2>4. w \in Queues /\ N = Len(w)
    BY <1>1, <2>3 DEF Shuffled
  <2>5. PICK t : t = Heap!Shortened(w)
    OBVIOUS
  <2>6. /\ t \in Queues /\ Len(t) = N - 1 /\ \A j \in 1 .. N - 1 : t[j] = w[j]
        /\ \A e \in AvahiTimeEvent : Copies(w, e) = Copies(t, e) + (IF e = w[N] THEN 1 ELSE 0)
    BY <1>1, <2>4, <2>5, ShortenedIs
  <2>7. MayRise([q |-> t, at |-> i])
    <3>1. PICK u : u = Heap!Shortened(q)
      OBVIOUS
    <3>2. u \in Queues /\ Len(u) = N - 1 /\ Ordered(u) /\ \A j \in 1 .. N - 1 : u[j] = q[j]
      BY <1>1, <3>1, ShortenedIs
    <3>3. i \in 1 .. Len(u) /\ N - 1 \in Nat
      BY <1>1, <2>2, <3>2
    <3>4. \A j \in 1 .. N - 1 : j # i => t[j] = u[j]
      BY <1>1, <2>3, <2>6, <3>2
    <3>5. PICK M \in Nat : M = N - 1
      BY <3>3
    <3>6. M = Len(u) /\ M = Len(t) /\ \A j \in 1 .. M : j # i => t[j] = u[j]
      BY <2>6, <3>2, <3>4, <3>5
    <3> QED BY <2>6, <3>2, <3>3, <3>6, Replaced
  <2>8. p = Heap!Shuffle(t, i)
    BY <1>1, <1>3, <2>1, <2>5 DEF Heap!Remove, Heap!Exchanged, Swapped
  <2>9. i \in 1 .. Len(t)
    BY <2>2, <2>6
  <2>10. Shuffled(t, p) /\ Ordered(p)
    BY <2>6, <2>7, <2>8, <2>9, ShuffleIs
  <2>11. p \in Queues /\ Len(p) = N - 1
    BY <2>6, <2>10 DEF Shuffled
  <2>12. \A e \in AvahiTimeEvent : Copies(q, e) = Copies(p, e) + (IF e = q[i] THEN 1 ELSE 0)
    BY <2>3, <2>6, <2>10 DEF Shuffled
  <2> QED BY <1>1, <2>10, <2>11, <2>12
<1> QED BY <1>2, <1>3

LEMMA FirstIsFirst ==
  ASSUME NEW q \in Queues, Ordered(q), NEW i \in 1 .. Len(q)
  PROVE  InTime(q[1], q[i])
<1>1. PICK N \in Nat : N = Len(q)
  BY DEF Queues
<1>2. \A j \in 1 .. N : q[j] \in AvahiTimeEvent
  BY <1>1 DEF Queues
<1> DEFINE T == {j \in 1 .. N : ~InTime(q[1], q[j])}
<1>3. SUFFICES ASSUME T # {} PROVE FALSE
  BY <1>1
<1>4. T \in SUBSET Nat
  OBVIOUS
<1>5. PICK n \in T : \A m \in T : n <= m
  <2> HIDE DEF T
  <2> QED BY <1>3, <1>4, Least
<1>6. n # 1
  BY <1>2, <1>5, Orders
<1>7. n \in 2 .. N
  BY <1>5, <1>6
<1>8. n \div 2 \in 1 .. N /\ n \div 2 < n
  BY <1>7, Halves
<1>9. InTime(q[1], q[n \div 2])
  BY <1>5, <1>7, <1>8
<1>10. InTime(q[n \div 2], q[n])
  BY <1>1, <1>7 DEF Ordered
<1>11. 1 \in 1 .. N /\ n \in 1 .. N
  BY <1>7
<1>12. InTime(q[1], q[n])
  BY <1>2, <1>8, <1>9, <1>10, <1>11, Orders
<1> QED BY <1>5, <1>12

TimeInv ==
  /\ now \in 0 .. MaxTime /\ timeout \in 0 .. NONE /\ running \in BOOLEAN
  /\ prioq \in Queues /\ Len(prioq) <= MaxEvents /\ Ordered(prioq)
  /\ ~running => timeout = update_timeout(prioq)

LEMMA FirstIs ==
  ASSUME NEW q \in Queues
  PROVE  /\ q = <<>> <=> Len(q) = 0
         /\ q # <<>> => 1 \in 1 .. Len(q) /\ Head(q) = q[1] /\ q[1] \in AvahiTimeEvent
BY DEF Queues

LEMMA TimeoutIs ==
  ASSUME NEW q \in Queues
  PROVE  update_timeout(q) \in 0 .. NONE
<1>1. q # <<>> => Head(q).expiry \in 0 .. MaxTime
  BY FirstIs DEF AvahiTimeEvent
<1> QED BY <1>1, TimeBounds DEF update_timeout, NONE

LEMMA TimeStarts == TimeInit => TimeInv
<1> SUFFICES ASSUME TimeInit PROVE TimeInv
  OBVIOUS
<1>1. <<>> \in Queues /\ Len(<<>>) = 0
  BY DEF Queues
<1>2. Ordered(<<>>)
  BY <1>1 DEF Ordered
<1>3. 0 \in 0 .. MaxTime /\ NONE \in 0 .. NONE /\ 0 <= MaxEvents
  BY TimeBounds DEF NONE
<1>4. update_timeout(<<>>) = NONE
  BY DEF update_timeout
<1> QED BY <1>1, <1>2, <1>3, <1>4 DEF TimeInit, TimeInv

LEMMA QueueKeeps ==
  ASSUME TimeInv, NEW q \in Queues, Len(q) <= MaxEvents, Ordered(q), Queue(q),
         now' = now, running' \in BOOLEAN
  PROVE  TimeInv'
BY TimeoutIs DEF TimeInv, Queue, update_timeout, NONE

LEMMA TimeGoes == TimeInv /\ [TimeNext]_timeVars => TimeInv'
<1> SUFFICES ASSUME TimeInv, [TimeNext]_timeVars PROVE TimeInv'
  OBVIOUS
<1> USE DEF TimeInv
<1>1. ASSUME NEW t \in 0 .. MaxTime, avahi_time_event_new(t) PROVE TimeInv'
  <2>1. PICK e : e = [expiry |-> t, last_run |-> 0]
    OBVIOUS
  <2>2. e \in AvahiTimeEvent
    BY <2>1, TimeBounds DEF AvahiTimeEvent
  <2>3. PICK q : q = Heap!Put(prioq, e)
    OBVIOUS
  <2>4. q \in Queues /\ Len(q) = Len(prioq) + 1 /\ Ordered(q)
    BY <2>2, <2>3, PutIs
  <2>5. Queue(q) /\ now' = now /\ running' = running /\ Len(prioq) < MaxEvents
    BY <1>1, <2>1, <2>3 DEF avahi_time_event_new
  <2>6. Len(q) <= MaxEvents
    BY <2>4, <2>5, TimeBounds DEF Queues
  <2> QED BY <2>4, <2>5, <2>6, QueueKeeps
<1>2. ASSUME NEW i \in DOMAIN prioq, avahi_time_event_free(i) PROVE TimeInv'
  <2>1. PICK q : q = Heap!Remove(prioq, i)
    OBVIOUS
  <2>2. i \in 1 .. Len(prioq)
    BY <1>2 DEF Queues
  <2>3. q \in Queues /\ Len(q) = Len(prioq) - 1 /\ Ordered(q)
    BY <2>1, <2>2, RemoveIs
  <2>4. Queue(q) /\ now' = now /\ running' = running
    BY <1>2, <2>1 DEF avahi_time_event_free
  <2>5. Len(q) <= MaxEvents
    BY <2>3, TimeBounds DEF Queues
  <2> QED BY <2>3, <2>4, <2>5, QueueKeeps
<1>3. ASSUME NEW i \in DOMAIN prioq, NEW t \in 0 .. MaxTime, avahi_time_event_update(i, t)
      PROVE  TimeInv'
  <2>1. i \in 1 .. Len(prioq)
    BY <1>3 DEF Queues
  <2>2. PICK e : e = [prioq[i] EXCEPT !.expiry = t]
    OBVIOUS
  <2>3. e \in AvahiTimeEvent
    <3>1. prioq[i] \in AvahiTimeEvent
      BY <2>1 DEF Queues
    <3> QED BY <2>2, <3>1 DEF AvahiTimeEvent
  <2>4. PICK q : q = Heap!Shuffle([prioq EXCEPT ![i] = e], i)
    OBVIOUS
  <2>5. q \in Queues /\ Len(q) = Len(prioq) /\ Ordered(q)
    BY <2>1, <2>3, <2>4, UpdateIs
  <2>6. Queue(q) /\ now' = now /\ running' = running
    BY <1>3, <2>2, <2>4 DEF avahi_time_event_update
  <2>7. Len(q) <= MaxEvents
    BY <2>5
  <2> QED BY <2>5, <2>6, <2>7, QueueKeeps
<1>4. CASE Expired
  <2>1. prioq # <<>> /\ prioq' = Run(prioq) /\ timeout' = NONE /\ running' = TRUE /\ now' = now
    BY <1>4 DEF Expired, Expires
  <2>2. 1 \in 1 .. Len(prioq)
    BY <2>1, FirstIs
  <2>3. PICK e : e = [prioq[1] EXCEPT !.last_run = now]
    OBVIOUS
  <2>4. e \in AvahiTimeEvent
    <3>1. prioq[1] \in AvahiTimeEvent
      BY <2>2 DEF Queues
    <3> QED BY <2>3, <3>1 DEF AvahiTimeEvent
  <2>5. prioq' = Heap!Shuffle([prioq EXCEPT ![1] = e], 1)
    BY <2>1, <2>3 DEF Run
  <2>6. prioq' \in Queues /\ Len(prioq') = Len(prioq) /\ Ordered(prioq')
    BY <2>2, <2>4, <2>5, UpdateIs
  <2>7. NONE \in 0 .. NONE
    BY TimeBounds DEF NONE
  <2> QED BY <2>1, <2>6, <2>7 DEF NONE
<1>5. CASE Early
  BY <1>5, QueueKeeps DEF Early
<1>6. CASE Returned
  BY <1>6, QueueKeeps DEF Returned
<1>7. CASE Tick
  <2>1. now' \in 0 .. MaxTime
    BY <1>7, TimeBounds DEF Tick
  <2> QED BY <1>7, <2>1 DEF Tick, NONE, update_timeout
<1>8. CASE UNCHANGED timeVars
  BY <1>8 DEF timeVars, NONE, update_timeout
<1> QED BY <1>1, <1>2, <1>3, <1>4, <1>5, <1>6, <1>7, <1>8 DEF TimeNext

LEMMA FirstComesFirst ==
  ASSUME TimeInv, NEW i \in DOMAIN prioq
  PROVE  /\ prioq # <<>> /\ 1 \in DOMAIN prioq /\ Head(prioq) = prioq[1]
         /\ prioq[1].expiry \in 0 .. MaxTime
         /\ prioq[1].expiry <= prioq[i].expiry
         /\ prioq[1].expiry = prioq[i].expiry => prioq[1].last_run <= prioq[i].last_run
<1>1. i \in 1 .. Len(prioq) /\ prioq \in Queues /\ Ordered(prioq) /\ DOMAIN prioq = 1 .. Len(prioq)
  BY DEF TimeInv, Queues
<1>2. prioq # <<>> /\ 1 \in DOMAIN prioq /\ Head(prioq) = prioq[1] /\ prioq[1] \in AvahiTimeEvent
  BY <1>1, FirstIs
<1>3. InTime(prioq[1], prioq[i]) /\ prioq[i] \in AvahiTimeEvent
  BY <1>1, FirstIsFirst DEF Queues
<1> QED BY <1>2, <1>3, Orders DEF AvahiTimeEvent

LEMMA TimeInvSays == TimeInv => TimeTypeOK /\ HeapOrder /\ ArmedForFirst
<1> SUFFICES ASSUME TimeInv PROVE TimeTypeOK /\ HeapOrder /\ ArmedForFirst
  OBVIOUS
<1>1. TimeTypeOK
  BY DEF TimeInv, TimeTypeOK, Queues
<1>2. HeapOrder
  BY DEF TimeInv, HeapOrder, Ordered, InTime
<1>3. ASSUME ~running PROVE /\ timeout = NONE <=> prioq = <<>>
                            /\ \A i \in DOMAIN prioq : timeout <= prioq[i].expiry
                            /\ prioq # <<>> => \E i \in DOMAIN prioq : timeout = prioq[i].expiry
  <2>1. timeout = IF prioq = <<>> THEN NONE ELSE Head(prioq).expiry
    BY <1>3 DEF TimeInv, update_timeout
  <2>2. CASE prioq = <<>>
    <3>1. DOMAIN prioq = {}
      BY <2>2
    <3> QED BY <2>1, <2>2, <3>1
  <2>3. CASE prioq # <<>>
    <3>1. 1 \in DOMAIN prioq
      BY <2>3, FirstIs DEF TimeInv, Queues
    <3>2. timeout = prioq[1].expiry /\ timeout # NONE
      BY <2>1, <2>3, <3>1, FirstComesFirst, TimeBounds DEF NONE
    <3>3. \A i \in DOMAIN prioq : timeout <= prioq[i].expiry
      BY <3>2, FirstComesFirst
    <3> QED BY <2>3, <3>1, <3>2, <3>3
  <2> QED BY <2>2, <2>3
<1> QED BY <1>1, <1>2, <1>3 DEF ArmedForFirst

LEMMA TurnsTaken ==
  TimeInv /\ [TimeNext]_timeVars =>
    [~running /\ running' =>
       \A i \in DOMAIN prioq :
         /\ Head(prioq).expiry <= prioq[i].expiry
         /\ Head(prioq).expiry = prioq[i].expiry => Head(prioq).last_run <= prioq[i].last_run]_timeVars
<1> SUFFICES ASSUME TimeInv, NEW i \in DOMAIN prioq
             PROVE  /\ Head(prioq).expiry <= prioq[i].expiry
                    /\ Head(prioq).expiry = prioq[i].expiry => Head(prioq).last_run <= prioq[i].last_run
  OBVIOUS
<1> QED BY FirstComesFirst

LEMMA OneIsFreed ==
  TimeInv /\ [TimeNext]_timeVars =>
    [\A i \in DOMAIN prioq : avahi_time_event_free(i) =>
       \A e \in Events(prioq) \union Events(prioq') :
         Copies(prioq, e) = Copies(prioq', e) + (IF e = prioq[i] THEN 1 ELSE 0)]_timeVars
<1> SUFFICES ASSUME TimeInv, NEW i \in DOMAIN prioq, avahi_time_event_free(i),
                    NEW e \in Events(prioq) \union Events(prioq')
             PROVE  Copies(prioq, e) = Copies(prioq', e) + (IF e = prioq[i] THEN 1 ELSE 0)
  OBVIOUS
<1>1. prioq' = Heap!Remove(prioq, i)
  BY DEF avahi_time_event_free, Queue
<1>2. i \in 1 .. Len(prioq) /\ prioq \in Queues /\ Ordered(prioq)
  BY DEF TimeInv, Queues
<1>3. /\ prioq' \in Queues
      /\ \A x \in AvahiTimeEvent : Copies(prioq, x) = Copies(prioq', x) + (IF x = prioq[i] THEN 1 ELSE 0)
  BY <1>1, <1>2, RemoveIs
<1>4. e \in AvahiTimeEvent
  BY <1>2, <1>3 DEF Events, Queues
<1> QED BY <1>3, <1>4

\* The queue of time events is a heap whatever is put, removed or changed, its
\* timer is armed for the first, events run in their order and each in its turn,
\* and to free one takes no other out (prioq.c, timeeventq.c).
THEOREM TimesAreKept == TimeSpec => TimesKept
<1>1. TimeSpec => []TimeInv
  BY TimeStarts, TimeGoes, PTL DEF TimeSpec
<1> QED
  BY <1>1, TimeInvSays, TurnsTaken, OneIsFreed, PTL DEF TimeSpec, TimesKept, TakesTurns, FreesTheOne
====
