---------------------------- MODULE RecordLookup ----------------------------
(***************************************************************************)
(* How the responder of avahicore.cpp finds records on one interface: the  *)
(* cache and its expiry (cache.c), the queriers that keep asking for a key *)
(* (querier.c), the scheduler that joins, suppresses and withdraws queries *)
(* (query-sched.c), the multicast lookups (multicast-lookup.c), and the    *)
(* record browsers that follow CNAMEs on top of them (browse.c).           *)
(*                                                                         *)
(* One record, lk, holds what the C structures hold; a C function is an    *)
(* operator from state to state, composed as its calls nest in the code.   *)
(* An assertion that fails ends the process: the state says aborted.       *)
(***************************************************************************)
EXTENDS Integers, Sequences, FiniteSets, SequencesExt

CONSTANTS
    Browser,      \* the record browsers
    BrowseKey,    \* BrowseKey[b]: the key browser b looks for
    Restarting,   \* those of a resolver, which restart when a record goes
    KeyOf,        \* KeyOf[r]: the key of record r, for the ordinary records
    Alias,        \* Alias[c]: the key whose name the CNAME record c renames
    Target,       \* Target[c]: the key of the name c points to
    MaxLookups,   \* AVAHI_LOOKUPS_PER_BROWSER_MAX
    CacheMax,     \* n_cache_entries_max
    PoofMax,      \* the 3 unanswered queries of start_poof_callback
    MaxDelay,     \* the longest delay of a querier, in doublings
    MaxEvents     \* bound: records received, first queries heard, browsers freed, interface changes

Cname == DOMAIN Alias
Record == DOMAIN KeyOf \union Cname
Key == Range(KeyOf) \union Range(Alias) \union Range(Target) \union Range(BrowseKey)

\* The code follows a chain of CNAMEs without looking where it leads, to
\* MaxLookups lookups; here an alias leads to a name that is no alias itself, so
\* that lookups are one below the other and no deeper.
ASSUME AliasesAreOneDeep == \A c \in Cname : Target[c] \notin Range(Alias)

ASSUME LookupAssumption ==
    /\ IsFiniteSet(Browser) /\ IsFiniteSet(Record) /\ IsFiniteSet(Key)
    /\ DOMAIN BrowseKey = Browser /\ DOMAIN Target = Cname /\ DOMAIN KeyOf \intersect Cname = {}
    /\ PoofMax \in Nat /\ MaxDelay \in Nat /\ MaxEvents \in Nat

VARIABLE lk

Absent == [st |-> "absent", age |-> "fresh", poof |-> 0]
NoQuerier == [used |-> -1, delay |-> 0, id |-> 0]

\* A loop of the code along a list: what Step makes of s, element by element.
\* A failed assertion ends it.
Along(s, seq, Step(_, _)) ==
    LET f[n \in 0 .. Len(seq)] ==
            IF n = 0 THEN s ELSE IF f[n - 1].aborted THEN f[n - 1] ELSE Step(f[n - 1], seq[n])
    IN  f[Len(seq)]

----------------------------------------------------------------------------
(* query-sched.c *)

Scheduled(s, k) == {j \in s.jobs : j.key = k /\ ~j.done}
History(s, k) == {j \in s.jobs : j.key = k /\ j.done}

\* The next id: the code counts up, so that no job and no querier has it.
NextId(s) ==
    LET used == {j.id : j \in s.jobs} \union {s.querier[k].id : k \in Key}
    IN  Min(1 .. Cardinality(used) + 1 \ used)

\* job_new
JobNew(s, k, done) ==
    [s EXCEPT !.jobs = @ \union {[id |-> NextId(s), key |-> k, posted |-> 1, done |-> done]}]

\* avahi_interface_post_query and avahi_query_scheduler_post; ret is the id of
\* the job, 0 when the query is not accepted.
PostQuery(s, k) ==
    IF ~s.announcing \/ History(s, k) # {} THEN [s EXCEPT !.ret = 0]
    ELSE IF Scheduled(s, k) # {}
    THEN LET j == CHOOSE x \in Scheduled(s, k) : TRUE
         IN  [s EXCEPT !.jobs = (@ \ {j}) \union {[j EXCEPT !.posted = @ + 1]}, !.ret = j.id]
    ELSE [JobNew(s, k, FALSE) EXCEPT !.ret = NextId(s)]

\* avahi_query_scheduler_withdraw_by_id; ret is 1 when the job is gone.
WithdrawQuery(s, id) ==
    LET mine == {j \in s.jobs : j.id = id /\ ~j.done}
        left == {[j EXCEPT !.posted = @ - 1] : j \in {x \in mine : x.posted > 1}}
    IN  [s EXCEPT !.jobs = (@ \ mine) \union left,
                  !.ret = IF mine # {} /\ left = {} THEN 1 ELSE 0]

\* mutant: a query heard is remembered beside the one that is scheduled
IncomingBeside(s, k) == JobNew(s, k, TRUE)

\* avahi_query_scheduler_incoming: somebody else has asked the same.
IncomingQuery(s, k) ==
    IF Scheduled(s, k) # {}
    THEN [s EXCEPT !.jobs = (@ \ Scheduled(s, k))
                              \union {[j EXCEPT !.done = TRUE] : j \in Scheduled(s, k)}]
    ELSE IF History(s, k) # {} THEN s
    ELSE JobNew(s, k, TRUE)

----------------------------------------------------------------------------
(* querier.c *)

\* avahi_querier_add
QuerierAdd(s, k) ==
    LET t == PostQuery(s, k)
    IN  IF s.querier[k] # NoQuerier THEN [s EXCEPT !.querier[k].used = @ + 1]
        ELSE [t EXCEPT !.querier[k] = [used |-> 1, delay |-> 0, id |-> t.ret]]

\* mutant: the querier stays used
QuerierLingers(s, k) ==
    IF s.querier[k].used <= 1 THEN s ELSE [s EXCEPT !.querier[k].used = @ - 1]

\* avahi_querier_remove: an unused querier goes at once when its query could
\* be withdrawn, and else at its next timer.
QuerierRemove(s, k) ==
    LET q == s.querier[k]
        t == [s EXCEPT !.querier[k].used = @ - 1]
        u == WithdrawQuery(t, q.id)
    IN  IF q.used <= 0 THEN s
        ELSE IF q.used > 1 \/ q.id = 0 THEN t
        ELSE IF u.ret = 1 THEN [u EXCEPT !.querier[k] = NoQuerier] ELSE u

\* mutant: an entry that nears its end is not asked for
RefreshNever(s, k) == s

\* avahi_querier_shall_refresh_cache, and the query elapse_func then posts
Refresh(s, k) ==
    LET q == s.querier[k]
    IN  IF q = NoQuerier THEN s
        ELSE IF q.used <= 0 THEN [s EXCEPT !.querier[k] = NoQuerier]
        ELSE PostQuery(s, k)

----------------------------------------------------------------------------
(* browse.c and multicast-lookup.c *)

\* The flags of a lookup (AVAHI_LOOKUP_USE_MULTICAST), and those that
\* lookup_multicast_callback passes to lookup_drop_cname.
LookupFlags == 1
DropFlags == 0

\* avahi_multicast_lookup_new: the querier, and ALL_FOR_NOW a second later
LookupNew(s, b, k) ==
    LET t == [s EXCEPT !.started[b] = @ \union {k}, !.afn[b] = @ \union {k}]
    IN  IF s.announcing THEN QuerierAdd(t, k) ELSE t

\* avahi_multicast_lookup_free
LookupFree(s, b, k) ==
    LET t == [s EXCEPT !.started[b] = @ \ {k}, !.afn[b] = @ \ {k}]
    IN  IF k \in s.started[b] /\ s.announcing THEN QuerierRemove(t, k) ELSE t

\* lookup_unref for a lookup that led to no other: it asserts that there is a
\* reference, and ends the lookup with the last one.
UnrefOne(s, b, k) ==
    LET t == [s EXCEPT !.ref[b][k] = @ - 1]
    IN  IF s.ref[b][k] < 1 THEN [s EXCEPT !.aborted = TRUE]
        ELSE IF s.ref[b][k] > 1 THEN t ELSE LookupFree(t, b, k)

\* lookup_unref: the last reference also lets go of those it led to.
Unref(s, b, k) ==
    LET last == s.ref[b][k] = 1
        next == {f[2] : f \in {f \in s.follows[b] : last /\ f[1] = k}}
        t == [s EXCEPT !.follows[b] = {f \in @ : ~(last /\ f[1] = k)}]
    IN  Along(UnrefOne(t, b, k), SetToSeq(next), LAMBDA u, n : UnrefOne(u, b, n))

\* browser_cancel
Cancel(s, b) == IF s.ref[b][BrowseKey[b]] > 0 THEN Unref(s, b, BrowseKey[b]) ELSE s

\* avahi_s_record_browser_restart; what is found is told again.
Restart(s, b) == [Cancel(s, b) EXCEPT !.br[b] = "deferred", !.told[b] = {}]

Cached(s) == {r \in Record : s.cache[r].st # "absent"}

\* mutant: only what comes later is told
TellNothing(s, b, k) == s

\* avahi_multicast_lookup_engine_scan_cache: the ordinary records it finds
Tell(s, b, k) == [s EXCEPT !.told[b] = @ \union {r \in Cached(s) \ Cname : KeyOf[r] = k}]

\* lookup_start, which asserts that the lookup has not started
Begin(s, b, k) == IF k \in s.started[b] THEN [s EXCEPT !.aborted = TRUE] ELSE LookupNew(s, b, k)

\* mutant: the alias does not keep the lookup it led to
FollowUnreferenced(s, b, c) ==
    LET t == [s EXCEPT !.follows[b] = @ \union {<<Alias[c], Target[c]>>}]
    IN  Begin(Tell(t, b, Target[c]), b, Target[c])

\* lookup_handle_cname: lookup_add, then lookup_go for the name pointed to,
\* which scans the cache and starts the lookup.
Follow(s, b, c) ==
    LET n == Target[c]
        full == Cardinality({k \in Key : s.ref[b][k] > 0}) >= MaxLookups
        t == [s EXCEPT !.ref[b][n] = @ + 1, !.follows[b] = @ \union {<<Alias[c], n>>}]
    IN  IF s.ref[b][n] = 0 /\ full THEN s ELSE Begin(Tell(t, b, n), b, n)

\* lookup_go for a browser's own name
Go(s, b, k) ==
    LET names == {c \in Cached(s) \intersect Cname : Alias[c] = k}
        t == Along(Tell(s, b, k), SetToSeq(names), LAMBDA u, c : Follow(u, b, c))
    IN  IF t.aborted THEN t ELSE Begin(t, b, k)

\* lookup_drop_cname
DropCname(s, b, c) ==
    LET f == <<Alias[c], Target[c]>>
    IN  IF f \in s.follows[b] /\ LookupFlags = DropFlags
        THEN UnrefOne([s EXCEPT !.follows[b] = @ \ {f}], b, Target[c]) ELSE s

\* The key of the lookups that hear of a record
Heard(r) == IF r \in Cname THEN Alias[r] ELSE KeyOf[r]

\* lookup_multicast_callback, AVAHI_BROWSER_NEW
Found(s, b, r) ==
    IF Heard(r) \notin s.started[b] THEN s
    ELSE IF r \in Cname THEN Follow(s, b, r) ELSE [s EXCEPT !.told[b] = @ \union {r}]

\* lookup_multicast_callback, AVAHI_BROWSER_REMOVE: it asserts that the lookup
\* is the browser's first.
Removed(s, b, r) ==
    IF Heard(r) \notin s.started[b] THEN s
    ELSE IF r \in Cname THEN DropCname(s, b, r)
    ELSE IF KeyOf[r] # BrowseKey[b] THEN [s EXCEPT !.aborted = TRUE]
    ELSE IF b \in Restarting /\ r \in s.told[b] THEN Restart(s, b)
    ELSE [s EXCEPT !.told[b] = @ \ {r}]

\* avahi_multicast_lookup_engine_notify
Notify(s, r, Event(_, _, _)) == Along(s, SetToSeq(Browser), LAMBDA t, b : Event(t, b, r))

----------------------------------------------------------------------------
(* cache.c *)

Final == {"EXPIRY_FINAL", "POOF_FINAL", "GOODBYE_FINAL", "REPLACE_FINAL"}

\* remove_entry
RemoveEntry(s, r) == Notify([s EXCEPT !.cache[r] = Absent], r, Removed)

\* expire_in_one_second
ExpireSoon(s, R, st) ==
    [s EXCEPT !.cache = [r \in Record |-> IF r \in R THEN [@[r] EXCEPT !.st = st] ELSE @[r]]]

\* A record that somebody sends again has not been asked for yet.
Valid(s, r) ==
    [s EXCEPT !.cache[r] = [st |-> "VALID", age |-> "fresh", poof |-> 0], !.asked = @ \ {r}]

\* mutant: what an update replaces is not looked up by its age
UpdateKeepsOld(s, r, cache_flush) ==
    IF r \in Cached(s) THEN Valid(s, r) ELSE Notify(Valid(s, r), r, Found)

\* avahi_cache_update for a record that is alive; a record that says it is
\* the only one drops those of its key that are older than a second.
CacheUpdate(s, r, cache_flush) ==
    LET same == {x \in Cached(s) : (x \in Cname) = (r \in Cname) /\ Heard(x) = Heard(r)}
        stale == {x \in same : cache_flush /\ s.cache[x].age # "fresh"}
        t == ExpireSoon(s, stale, "REPLACE_FINAL")
    IN  IF r \in Cached(s) THEN Valid(t, r)
        ELSE IF Cardinality(Cached(s)) >= CacheMax THEN t
        ELSE Notify(Valid(t, r), r, Found)

\* avahi_cache_update for a goodbye
CacheGoodbye(s, r) ==
    IF s.cache[r].st = "absent" THEN s ELSE ExpireSoon(s, {r}, "GOODBYE_FINAL")

\* start_poof_callback: one more query to which the entry was no answer
StartPoof(e) ==
    IF e.st = "VALID" THEN [e EXCEPT !.st = "POOF", !.poof = 0]
    ELSE IF e.st # "POOF" THEN e
    ELSE IF e.poof >= PoofMax THEN [e EXCEPT !.st = "POOF_FINAL"]
    ELSE [e EXCEPT !.poof = @ + 1]

\* mutant: whatever the entry is on its way to
StopPoofAlways(e) == IF e.st = "absent" THEN e ELSE [e EXCEPT !.st = "VALID"]

\* avahi_cache_stop_poof: who asks already knows the record.
StopPoof(e) == IF e.st \in {"POOF", "POOF_FINAL"} THEN [e EXCEPT !.st = "VALID"] ELSE e

\* elapse_func
NextState == [VALID |-> "EXPIRY1", POOF |-> "EXPIRY1", EXPIRY1 |-> "EXPIRY2",
              EXPIRY2 |-> "EXPIRY3", EXPIRY3 |-> "EXPIRY_FINAL"]
EntryElapses(s, r) ==
    IF s.cache[r].st \in Final THEN RemoveEntry(s, r)
    ELSE LET t == [s EXCEPT !.cache[r].st = NextState[@], !.cache[r].age = "half"]
         IN  IF r \in Cname THEN t ELSE Refresh(t, KeyOf[r])

----------------------------------------------------------------------------
(* The events *)

Init ==
    lk = [cache |-> [r \in Record |-> Absent], asked |-> {},
          querier |-> [k \in Key |-> NoQuerier], jobs |-> {}, ret |-> 0,
          br |-> [b \in Browser |-> "none"], ref |-> [b \in Browser |-> [k \in Key |-> 0]],
          started |-> [b \in Browser |-> {}], follows |-> [b \in Browser |-> {}],
          afn |-> [b \in Browser |-> {}], told |-> [b \in Browser |-> {}],
          announcing |-> TRUE, aborted |-> FALSE, events |-> 0]

Running == ~lk.aborted
Happens == [lk EXCEPT !.events = @ + 1]
MayHappen == Running /\ lk.events < MaxEvents
Does(s) == lk' = [s EXCEPT !.ret = 0]

\* The 100 ms that a query is put off, or remembered, are over before
\* anything that is measured in seconds.
Slow == Running /\ lk.jobs = {}

\* avahi_s_record_browser_new
BrowserNew(b) == Running /\ lk.br[b] = "none" /\ Does([lk EXCEPT !.br[b] = "deferred"])

\* defer_callback
Defer(b) ==
    /\ Running /\ lk.br[b] = "deferred"
    /\ Does(Go([lk EXCEPT !.br[b] = "live", !.ref[b][BrowseKey[b]] = 1], b, BrowseKey[b]))

\* avahi_s_record_browser_free, from outside a callback
BrowserFree(b) ==
    /\ MayHappen /\ lk.br[b] # "none"
    /\ Does([Cancel(Happens, b) EXCEPT !.br[b] = "none", !.told[b] = {}])

\* all_for_now_callback
AllForNow(b, k) == Slow /\ k \in lk.afn[b] /\ Does([lk EXCEPT !.afn[b] = @ \ {k}])

\* handle_response_packet, for one record
Receive(r, cache_flush) ==
    MayHappen /\ lk.announcing /\ Does(CacheUpdate(Happens, r, cache_flush))
Goodbye(r) ==
    /\ MayHappen /\ lk.announcing /\ lk.cache[r].st # "absent"
    /\ Does(CacheGoodbye(Happens, r))

\* handle_query_packet, for one question of another host: with known answers
\* it does not suppress our query, and they stop the observation of failure.
HearQuery(k, known) ==
    LET R == {r \in DOMAIN KeyOf : KeyOf[r] = k}
        s == [lk EXCEPT !.events = IF MayHappen THEN @ + 1 ELSE @,
                        !.cache = [r \in Record |->
                            IF r \in known THEN StopPoof(StartPoof(@[r]))
                            ELSE IF r \in R THEN StartPoof(@[r]) ELSE @[r]]]
        asked == [IncomingQuery(s, k) EXCEPT !.asked = @ \union (R \intersect Cached(lk))]
    IN  /\ Running /\ lk.announcing /\ known \subseteq R
        /\ MayHappen \/ \E r \in R : lk.cache[r].st = "POOF"
        /\ Does(IF known = {} THEN asked ELSE s)

\* elapse_callback of the query scheduler: every job that is scheduled goes
\* into the packet and into the history, or a job leaves the history.
JobElapses(j) ==
    LET sent == {x.key : x \in {x \in lk.jobs : ~x.done}}
    IN  /\ Running
        /\ \/ j.done /\ Does([lk EXCEPT !.jobs = @ \ {j}])
           \/ ~j.done /\ Does([lk EXCEPT !.jobs = {[x EXCEPT !.done = TRUE] : x \in @},
                                         !.asked = @ \union {r \in DOMAIN KeyOf : KeyOf[r] \in sent}])

\* mutant: the delay grows for ever
NextDelayUncapped(q) == q.delay + 1

\* The delay of a querier doubles up to an hour.
NextDelay(q) == IF q.delay < MaxDelay THEN q.delay + 1 ELSE q.delay

\* querier_elapse_callback
QuerierElapses(k) ==
    LET t == PostQuery(lk, k)
    IN  /\ Slow /\ lk.querier[k] # NoQuerier
        /\ IF lk.querier[k].used <= 0 THEN Does([lk EXCEPT !.querier[k] = NoQuerier])
           ELSE Does([t EXCEPT !.querier[k].id = IF t.ret # 0 THEN t.ret ELSE @,
                               !.querier[k].delay = NextDelay(lk.querier[k])])

\* The timer of an entry, and the first second of its life
EntryTimer(r) == Slow /\ lk.cache[r].st # "absent" /\ Does(EntryElapses(lk, r))
EntryAges(r) ==
    /\ Slow /\ lk.cache[r].st # "absent" /\ lk.cache[r].age = "fresh"
    /\ Does([lk EXCEPT !.cache[r].age = "old"])

\* avahi_interface_check_relevant: avahi_querier_free_all, the scheduler and
\* the cache, or avahi_multicast_lookup_engine_new_interface
InterfaceGoes ==
    LET s == [Happens EXCEPT !.querier = [k \in Key |-> NoQuerier], !.jobs = {}]
        t == Along(s, SetToSeq(Cached(lk)), RemoveEntry)
    IN  /\ MayHappen /\ lk.announcing
        /\ Does(IF t.aborted THEN t ELSE [t EXCEPT !.announcing = FALSE])
InterfaceComes ==
    LET s == [Happens EXCEPT !.announcing = TRUE]
        lookups == {l \in Browser \X Key : l[2] \in lk.started[l[1]]}
    IN  MayHappen /\ ~lk.announcing
        /\ Does(Along(s, SetToSeq(lookups), LAMBDA t, l : QuerierAdd(t, l[2])))

Next ==
    \/ \E b \in Browser : BrowserNew(b) \/ Defer(b) \/ BrowserFree(b) \/ \E k \in Key : AllForNow(b, k)
    \/ \E r \in Record : Goodbye(r) \/ EntryTimer(r) \/ EntryAges(r) \/ \E f \in BOOLEAN : Receive(r, f)
    \/ \E k \in Key : QuerierElapses(k) \/ \E known \in SUBSET DOMAIN KeyOf : HearQuery(k, known)
    \/ \E j \in lk.jobs : JobElapses(j)
    \/ InterfaceGoes \/ InterfaceComes

Spec == Init /\ [][Next]_lk

----------------------------------------------------------------------------
(* Properties *)

Entry == [st : {"absent", "VALID", "POOF", "EXPIRY1", "EXPIRY2", "EXPIRY3"} \union Final,
          age : {"fresh", "old", "half"}, poof : 0 .. PoofMax]

\* The type of every field.
LookupTypeOK ==
    /\ lk.cache \in [Record -> Entry] /\ lk.asked \subseteq Record
    /\ \A k \in Key : /\ lk.querier[k].used \in -1 .. Cardinality(Browser)
                     /\ lk.querier[k].delay \in 0 .. MaxDelay
    /\ \A j \in lk.jobs : j.id \in Nat /\ j.key \in Key /\ j.posted \in Nat
    /\ \A b \in Browser :
          /\ lk.br[b] \in {"none", "deferred", "live"} /\ lk.told[b] \subseteq Record
          /\ lk.ref[b] \in [Key -> Nat] /\ lk.started[b] \subseteq Key /\ lk.afn[b] \subseteq Key

\* A querier counts exactly the lookups that want its key: through lookups
\* that end, queriers that outlive them, and an interface that goes and comes
\* back while lookups stay (querier.c:154, multicast-lookup.c:285).
QueriersCounted ==
    ~lk.aborted => \A k \in Key :
        LET users == Cardinality({b \in Browser : k \in lk.started[b]})
        IN  IF lk.announcing THEN users = (IF lk.querier[k].used > 0 THEN lk.querier[k].used ELSE 0)
            ELSE lk.querier[k] = NoQuerier

\* What a browser was told and not told to forget is exactly what the cache
\* holds for the names it follows, whenever its lookups started, and however
\* records came, expired, were flushed or pushed out.
ToldIsCached ==
    ~lk.aborted => \A b \in Browser :
        lk.told[b] = {r \in DOMAIN KeyOf : KeyOf[r] \in lk.started[b] /\ lk.cache[r].st # "absent"}

\* A lookup lives while it is referenced, once from the browser or once from
\* every alias that led to it; one that is not started is not there at all.
LookupsReferenced ==
    ~lk.aborted => \A b \in Browser, k \in Key :
        /\ (lk.ref[b][k] > 0) = (k \in lk.started[b])
        /\ lk.ref[b][k] = Cardinality({f \in lk.follows[b] : f[2] = k})
                            + (IF lk.br[b] = "live" /\ k = BrowseKey[b] THEN 1 ELSE 0)

\* Duplicate suppression works on one job for a key: scheduled, or asked so
\* lately that nobody asks again (query-sched.c:361).
OneJob == \A i, j \in lk.jobs : i.key = j.key => i = j

\* While somebody uses a key, no entry of it expires for good before a query
\* for it has gone out, or was heard, since the record was last received: not
\* even when queries are suppressed, withdrawn, or posted by somebody else.
AskedBeforeExpiry ==
    \A r \in DOMAIN KeyOf :
        /\ ~lk.aborted /\ lk.announcing /\ lk.jobs = {}
        /\ lk.cache[r].st = "EXPIRY_FINAL" /\ lk.querier[KeyOf[r]].used > 0
        => r \in lk.asked

\* An entry that was said goodbye to, or replaced, is back only when the
\* record was received again, and nothing else saves it from its removal.
DroppedStaysDropped ==
    [][\A r \in Record :
         LET was == lk.cache[r].st
             is == lk'.cache[r].st
         IN  was \in {"GOODBYE_FINAL", "REPLACE_FINAL"} /\ is # was =>
                \/ is \in {"absent", "GOODBYE_FINAL", "REPLACE_FINAL"}
                \/ \E f \in BOOLEAN : Receive(r, f)]_lk

\* A unique record that is received leaves no older one of its key that is
\* not on its way out (cache.c:304, "drop all entries older than one second").
FlushReplaces ==
    [][\A r \in DOMAIN KeyOf : Receive(r, TRUE) =>
         \A x \in DOMAIN KeyOf \ {r} :
            KeyOf[x] = KeyOf[r] /\ lk.cache[x].age # "fresh" => lk'.cache[x].st \in Final \union {"absent"}]_lk

\* browse.c:294 says of a CNAME record that has gone: "so let's drop that
\* query!"
CnameDropped ==
    ~lk.aborted => \A b \in Browser, c \in Cname :
        <<Alias[c], Target[c]>> \in lk.follows[b] => lk.cache[c].st # "absent"

\* Browsers, lookups, queriers and query jobs, each of which refers to others
\* that have lives of their own, count each other right.
LookupsCounted == LookupTypeOK /\ QueriersCounted /\ LookupsReferenced /\ OneJob

\* What a later record supersedes goes, and nothing but the record brings it
\* back.
SupersededGoes == DroppedStaysDropped /\ FlushReplaces
=============================================================================
