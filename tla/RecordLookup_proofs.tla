-------------------------- MODULE RecordLookup_proofs --------------------------
(***************************************************************************)
(* Proofs about RecordLookup, for any number of browsers, records, keys    *)
(* and aliases, as long as no alias leads to the name of another one       *)
(* (AliasesAreOneDeep): chains of CNAMEs are not part of the model.        *)
(*                                                                         *)
(* The inductive invariant is Inv.  Whatever happens, also in the state in *)
(* which an assertion failed, there is one query job for a key, and an id  *)
(* that a querier remembers is that of a job for its own key (Sound).      *)
(* While the process runs (Whole), a querier counts the lookups of its key *)
(* (Served); an entry that nears its end has been asked for, or is about   *)
(* to be, as long as its key has a querier at all (Asked); the lookups of  *)
(* a browser hang on the one for its own name (Rooted); and a browser was  *)
(* told what the cache holds for them (Told).                              *)
(*                                                                         *)
(* These do not hold inside a loop over the browsers: what they say there  *)
(* of the browsers that are done and of those that are left is the         *)
(* invariant of the loop, and an assertion that fails ends it.             *)
(***************************************************************************)
EXTENDS RecordLookup, FiniteSetTheorems, WellFoundedInduction, TLAPS

QuerierType == {NoQuerier} \union [used : Nat, delay : 0 .. MaxDelay, id : Nat]
Job == [id : Nat \ {0}, key : Key, posted : Nat \ {0}, done : BOOLEAN]
Jobs == {J \in SUBSET Job : IsFiniteSet(J)}
Stage == {"none", "deferred", "live"}
LookupState ==
    [cache : [Record -> Entry], asked : SUBSET Record, querier : [Key -> QuerierType], jobs : Jobs,
     ret : Nat, br : [Browser -> Stage], ref : [Browser -> [Key -> Nat]],
     started : [Browser -> SUBSET Key], follows : [Browser -> SUBSET (Key \X Key)],
     afn : [Browser -> SUBSET Key], told : [Browser -> SUBSET Record],
     announcing : BOOLEAN, aborted : BOOLEAN, events : 0 .. MaxEvents]

\* The queries: one job for a key, and no querier has the id of another key's.
Singly(s) == \A i, j \in s.jobs : i.key = j.key => i = j
Ids(s) ==
    /\ \A i, j \in s.jobs : i.id = j.id => i.key = j.key
    /\ \A j \in s.jobs, k \in Key : j.id = s.querier[k].id => j.key = k
Queries(s) == s \in LookupState /\ Singly(s) /\ Ids(s)

\* An entry that nears its end was asked for, or its querier has a job.
Aging(e) == e.st \in {"EXPIRY1", "EXPIRY2", "EXPIRY3", "EXPIRY_FINAL"}
Asked(s) == \A r \in DOMAIN KeyOf : Aging(s.cache[r]) /\ r \notin s.asked =>
    /\ History(s, KeyOf[r]) = {}
    /\ s.querier[KeyOf[r]] # NoQuerier => Scheduled(s, KeyOf[r]) # {}

\* A querier counts the lookups of its key, and there is none on an interface
\* that announces nothing, or is about to go.
Used(q) == IF q.used > 0 THEN q.used ELSE 0

Users(s, k) == {b \in Browser : k \in s.started[b]}
Counted(s) == \A k \in Key : Cardinality(Users(s, k)) = Used(s.querier[k])
Idle(s) == \A k \in Key : s.querier[k] = NoQuerier
Served(s) == IF s.announcing THEN Counted(s) ELSE Idle(s)

\* The lookups of b, when R of its own are started: one for every alias that
\* its own name was found to be.
Leads(s, b) == {f[2] : f \in s.follows[b]}
Hangs(s, b, R) ==
    /\ s.started[b] = R \union Leads(s, b)
    /\ \A f \in s.follows[b] : \E d \in Cname : Alias[d] = BrowseKey[b] /\ f = <<Alias[d], Target[d]>>
    /\ \A k \in Key : s.ref[b][k] = IF k = BrowseKey[b] \/ k \in Leads(s, b) THEN 1 ELSE 0
Bare(s, b) == s.started[b] = {} /\ s.follows[b] = {} /\ \A k \in Key : s.ref[b][k] = 0
Rooted(s, b) == IF s.br[b] = "live" THEN Hangs(s, b, {BrowseKey[b]}) ELSE Bare(s, b)

ToldOf(s, b, C) == s.told[b] = {r \in DOMAIN KeyOf : KeyOf[r] \in s.started[b] /\ r \in C}
Whole(s) ==
    /\ Served(s) /\ Asked(s)
    /\ ~s.announcing => Cached(s) = {}
    /\ \A b \in Browser : Rooted(s, b) /\ ToldOf(s, b, Cached(s))
Inv(s) ==
    /\ Queries(s)
    /\ Served(s) \/ Idle(s)
    /\ ~s.aborted => Whole(s)

\* What a step leaves alone.
SameBrowsers(s, t) ==
    /\ t.br = s.br /\ t.ref = s.ref /\ t.started = s.started /\ t.follows = s.follows
    /\ t.afn = s.afn /\ t.told = s.told
SameCache(s, t) == t.cache = s.cache /\ t.asked = s.asked
SameRun(s, t) == t.announcing = s.announcing /\ t.aborted = s.aborted /\ t.events = s.events

-------------------------------------------------------------------------------
(* Loops along lists, as recursive functions.                                 *)

LEMMA Least ==
  ASSUME NEW T \in SUBSET Nat, T # {}
  PROVE  \E n \in T : \A m \in T : n <= m
<1>1. IsWellFoundedOn(OpToRel(<, Nat), Nat)
  BY NatLessThanWellFounded
<1>2. \A m, n \in Nat : m < n => <<m, n>> \in OpToRel(<, Nat)
  BY DEF OpToRel
<1> HIDE DEF OpToRel
<1>3. \A R : IsWellFoundedOn(R, Nat) => \E n \in T : \A m \in T : ~ (<<m, n>> \in R)
  BY WFMin, Zenon
<1>4. PICK n \in T : \A m \in T : ~ (<<m, n>> \in OpToRel(<, Nat))
  BY <1>1, <1>3, Zenon
<1>5. \A m \in T : m \in Nat /\ n \in Nat
  OBVIOUS
<1>6. \A m \in T : ~ (m < n)
  BY <1>2, <1>4, <1>5, Zenon
<1> QED BY <1>5, <1>6

\* By the least number for which it would fail.
LEMMA AllAlong ==
  ASSUME NEW N \in Nat, NEW T \in SUBSET (0 .. N), 0 \notin T,
         \A n \in 1 .. N : n - 1 \notin T => n \notin T
  PROVE  T = {}
<1>1. SUFFICES ASSUME T # {} PROVE FALSE
  OBVIOUS
<1>2. T \in SUBSET Nat
  OBVIOUS
<1>3. PICK n \in T : \A m \in T : n <= m
  BY <1>1, <1>2, Least
<1>4. n \in 1 .. N /\ n - 1 \in 0 .. N /\ n - 1 \notin T
  BY <1>3
<1> QED BY <1>4

\* A loop whose body takes what holds after n - 1 elements to what holds after
\* n is a function, and what holds after all of them holds at its end.
Values(Q, N) == UNION {Q[n] : n \in 0 .. N}
Runs(f, N, a, g) == \A n \in 0 .. N : f[n] = IF n = 0 THEN a ELSE g[n][f[n-1]]
LEMMA Loops ==
  ASSUME NEW N \in Nat, NEW Q, NEW a \in Q[0], NEW g,
         \A n \in 1 .. N : \A x \in Q[n-1] : g[n][x] \in Q[n]
  PROVE  \E f \in [0 .. N -> Values(Q, N)] : Runs(f, N, a, g) /\ \A n \in 0 .. N : f[n] \in Q[n]
<1> USE DEF Runs
<1> DEFINE V == Values(Q, N)
           Is(f, m) == /\ f \in [0 .. m -> V] /\ Runs(f, m, a, g)
                       /\ \A n \in 0 .. m : f[n] \in Q[n]
           T == {m \in 0 .. N : ~\E f : Is(f, m)}
<1>0. \A n \in 0 .. N : \A x \in Q[n] : x \in V
  BY DEF Values
<1> HIDE DEF V
<1>1. 0 \notin T
  <2>1. 0 .. 0 = {0} /\ a \in V
    BY <1>0
  <2>2. PICK f : f = [n \in 0 .. 0 |-> a]
    OBVIOUS
  <2>3. Is(f, 0)
    BY <2>1, <2>2
  <2> QED BY <2>3
<1>2. ASSUME NEW m \in 1 .. N, m - 1 \notin T PROVE m \notin T
  <2>1. m - 1 \in 0 .. N /\ m \in 0 .. N /\ m # 0 /\ m - 1 \in 0 .. m - 1
    OBVIOUS
  <2>2. PICK f : Is(f, m - 1)
    BY <1>2, <2>1
  <2>3. PICK h : h = [n \in 0 .. m |-> IF n = m THEN g[m][f[m-1]] ELSE f[n]]
    OBVIOUS
  <2>4. f[m-1] \in Q[m-1] /\ g[m][f[m-1]] \in Q[m] /\ g[m][f[m-1]] \in V
    BY <1>0, <2>1, <2>2
  <2>5. ASSUME NEW n \in 0 .. m
        PROVE  h[n] \in V /\ h[n] \in Q[n] /\ h[n] = IF n = 0 THEN a ELSE g[n][h[n-1]]
    <3>1. CASE n = m
      <4>1. h[n] = g[m][f[m-1]] /\ m - 1 \in 0 .. m /\ h[m-1] = f[m-1]
        BY <2>1, <2>3, <3>1
      <4> QED BY <2>1, <2>4, <3>1, <4>1
    <3>2. CASE n # m
      <4>1. n \in 0 .. m - 1 /\ h[n] = f[n]
        BY <2>3, <3>2
      <4>2. n # 0 => n - 1 \in 0 .. m /\ n - 1 # m /\ h[n-1] = f[n-1]
        BY <2>3, <3>2
      <4>3. f[n] = IF n = 0 THEN a ELSE g[n][f[n-1]]
        BY <2>2, <4>1
      <4>4. f[n] \in V /\ f[n] \in Q[n]
        BY <2>2, <4>1
      <4> QED BY <4>1, <4>2, <4>3, <4>4
    <3> QED BY <3>1, <3>2
  <2>6. h \in [0 .. m -> V]
    BY <2>3, <2>5
  <2>7. Is(h, m)
    BY <2>5, <2>6
  <2> QED BY <2>7
<1> HIDE DEF Is
<1>3. T = {}
  <2>1. T \in SUBSET (0 .. N)
    OBVIOUS
  <2> HIDE DEF T
  <2> QED BY <1>1, <1>2, <2>1, AllAlong
<1>4. \E f : Is(f, N)
  <2>1. N \in 0 .. N
    OBVIOUS
  <2> QED BY <1>3, <2>1, Zenon
<1> QED BY <1>4 DEF Is, V

LEMMA LoopEnds ==
  ASSUME NEW N \in Nat, NEW Q, NEW f, f[0] \in Q[0],
         \A n \in 1 .. N : f[n-1] \in Q[n-1] => f[n] \in Q[n]
  PROVE  f[N] \in Q[N]
<1> DEFINE T == {n \in 0 .. N : f[n] \notin Q[n]}
<1>1. T \in SUBSET (0 .. N) /\ 0 \notin T
  OBVIOUS
<1>2. ASSUME NEW n \in 1 .. N, n - 1 \notin T PROVE n \notin T
  <2>1. n - 1 \in 0 .. N
    BY <1>2
  <2> QED BY <1>2, <2>1
<1>3. N \in 0 .. N
  OBVIOUS
<1> HIDE DEF T
<1>4. T = {}
  BY <1>1, <1>2, AllAlong
<1> QED BY <1>3, <1>4 DEF T

\* A list of a set names each of its elements once.
IsList(seq, S) ==
    /\ Len(seq) \in Nat /\ seq \in [1 .. Len(seq) -> S]
    /\ \A i, j \in 1 .. Len(seq) : seq[i] = seq[j] => i = j
    /\ \A x \in S : \E i \in 1 .. Len(seq) : seq[i] = x
LEMMA ListIs ==
  ASSUME NEW S, IsFiniteSet(S)
  PROVE  IsList(SetToSeq(S), S)
<1>1. PICK n : n = Cardinality(S)
  OBVIOUS
<1>2. n \in Nat /\ ExistsBijection(1 .. n, S) /\ IsFiniteSet(1 .. n) /\ Cardinality(1 .. n) = n
  BY <1>1, FS_CardinalityType, FS_Interval
<1>3. PICK f \in [1 .. n -> S] : IsInjective(f)
  BY <1>2 DEF ExistsBijection, Bijection, Injection
<1>4. PICK seq : seq = SetToSeq(S)
  OBVIOUS
<1>5. seq \in [1 .. n -> S] /\ IsInjective(seq)
  BY <1>1, <1>3, <1>4 DEF SetToSeq
<1>6. Len(seq) = n
  BY <1>2, <1>5
<1>7. seq \in Injection(1 .. n, S)
  BY <1>5 DEF Injection
<1>8. seq \in Surjection(1 .. n, S)
  BY <1>1, <1>2, <1>7, FS_Injection
<1>9. \A x \in S : \E i \in 1 .. n : seq[i] = x
  BY <1>8 DEF Surjection
<1> QED BY <1>2, <1>4, <1>5, <1>6, <1>9 DEF IsList, IsInjective

-------------------------------------------------------------------------------
(* Constants, and the fields that the operators write together.               *)

LEMMA Consts ==
  /\ \A b \in Browser : BrowseKey[b] \in Key
  /\ \A r \in DOMAIN KeyOf : r \in Record /\ r \notin Cname /\ KeyOf[r] \in Key
  /\ \A c \in Cname : /\ c \in Record /\ c \notin DOMAIN KeyOf /\ Alias[c] \in Key /\ Target[c] \in Key
                      /\ \A d \in Cname : Target[c] # Alias[d]
  /\ \A r \in Record : r \notin Cname => r \in DOMAIN KeyOf
  /\ MaxDelay \in Nat /\ PoofMax \in Nat /\ MaxEvents \in Nat
<1>1. \A c \in Cname : \A d \in Cname : Target[c] # Alias[d]
  BY AliasesAreOneDeep DEF Range, Cname
<1> QED BY <1>1, LookupAssumption DEF Key, Record, Cname, Range

LEMMA QuerierIs ==
  /\ \A q \in QuerierType : /\ q.used \in Int /\ q.used >= -1 /\ q.delay \in 0 .. MaxDelay /\ q.id \in Nat
                            /\ q # NoQuerier => q.used \in Nat
  /\ NoQuerier.used = -1 /\ NoQuerier.id = 0
  /\ \A u \in Nat, d \in 0 .. MaxDelay, i \in Nat :
        /\ [used |-> u, delay |-> d, id |-> i] \in QuerierType
        /\ [used |-> u, delay |-> d, id |-> i] # NoQuerier
        /\ [used |-> u, delay |-> d, id |-> i].used = u
        /\ [used |-> u, delay |-> d, id |-> i].id = i
BY Consts DEF QuerierType, NoQuerier

WithQueries(s, q, J, r) == [s EXCEPT !.querier = q, !.jobs = J, !.ret = r]
LEMMA QueriesSet ==
  ASSUME NEW s \in LookupState, NEW q \in [Key -> QuerierType], NEW J \in Jobs, NEW r \in Nat,
         NEW t, t = WithQueries(s, q, J, r)
  PROVE  /\ t \in LookupState /\ t.querier = q /\ t.jobs = J /\ t.ret = r
         /\ SameBrowsers(s, t) /\ SameCache(s, t) /\ SameRun(s, t)
BY DEF LookupState, WithQueries, SameBrowsers, SameCache, SameRun

WithBrowsers(s, br, ref, st, fo, afn, told) ==
    [s EXCEPT !.br = br, !.ref = ref, !.started = st, !.follows = fo, !.afn = afn, !.told = told]
LEMMA BrowsersSet ==
  ASSUME NEW s \in LookupState, NEW br \in [Browser -> Stage], NEW ref \in [Browser -> [Key -> Nat]],
         NEW st \in [Browser -> SUBSET Key], NEW fo \in [Browser -> SUBSET (Key \X Key)],
         NEW afn \in [Browser -> SUBSET Key], NEW told \in [Browser -> SUBSET Record],
         NEW t, t = WithBrowsers(s, br, ref, st, fo, afn, told)
  PROVE  /\ t \in LookupState
         /\ t.br = br /\ t.ref = ref /\ t.started = st /\ t.follows = fo /\ t.told = told
         /\ t.querier = s.querier /\ t.jobs = s.jobs /\ SameCache(s, t) /\ SameRun(s, t)
BY DEF LookupState, WithBrowsers, SameCache, SameRun

WithCache(s, c, a) == [s EXCEPT !.cache = c, !.asked = a]
LEMMA CacheSet ==
  ASSUME NEW s \in LookupState, NEW c \in [Record -> Entry], NEW a \in SUBSET Record,
         NEW t, t = WithCache(s, c, a)
  PROVE  /\ t \in LookupState /\ t.cache = c /\ t.asked = a
         /\ t.querier = s.querier /\ t.jobs = s.jobs /\ SameBrowsers(s, t) /\ SameRun(s, t)
BY DEF LookupState, WithCache, SameBrowsers, SameRun

WithRun(s, r, an, ab, e) ==
    [s EXCEPT !.ret = r, !.announcing = an, !.aborted = ab, !.events = e]
LEMMA RunSet ==
  ASSUME NEW s \in LookupState, NEW r \in Nat, NEW an \in BOOLEAN, NEW ab \in BOOLEAN,
         NEW e \in 0 .. MaxEvents, NEW t, t = WithRun(s, r, an, ab, e)
  PROVE  /\ t \in LookupState /\ t.announcing = an /\ t.aborted = ab /\ t.events = e
         /\ t.querier = s.querier /\ t.jobs = s.jobs /\ SameBrowsers(s, t) /\ SameCache(s, t)
BY DEF LookupState, WithRun, SameBrowsers, SameCache

-------------------------------------------------------------------------------
(* query-sched.c                                                              *)

LEMMA ImageFinite ==
  ASSUME NEW f, IsFiniteSet(DOMAIN f)
  PROVE  IsFiniteSet({f[x] : x \in DOMAIN f})
<1>1. PICK S : S = DOMAIN f
  OBVIOUS
<1>2. PICK T : T = {f[x] : x \in DOMAIN f}
  OBVIOUS
<1>3. PICK g : g = [x \in S |-> f[x]]
  OBVIOUS
<1>4. g \in Surjection(S, T)
  BY <1>1, <1>2, <1>3 DEF Surjection
<1> QED BY <1>1, <1>2, <1>4, FS_Surjection

LEMMA NextIdIs ==
  ASSUME NEW s \in LookupState
  PROVE  /\ NextId(s) \in Nat \ {0}
         /\ \A j \in s.jobs : j.id # NextId(s)
         /\ \A k \in Key : s.querier[k].id # NextId(s)
<1>1. PICK used : used = {j.id : j \in s.jobs} \union {s.querier[k].id : k \in Key}
  OBVIOUS
<1>2. IsFiniteSet(used) /\ Cardinality(used) \in Nat
  <2>1. IsFiniteSet(s.jobs) /\ IsFiniteSet(Key)
    BY LookupAssumption DEF LookupState, Jobs
  <2>2. IsFiniteSet({j.id : j \in s.jobs})
    <3>1. PICK f : f = [j \in s.jobs |-> j.id]
      OBVIOUS
    <3>2. DOMAIN f = s.jobs /\ {f[x] : x \in DOMAIN f} = {j.id : j \in s.jobs}
      BY <3>1
    <3> QED BY <2>1, <3>2, ImageFinite
  <2>3. IsFiniteSet({s.querier[k].id : k \in Key})
    <3>1. PICK f : f = [k \in Key |-> s.querier[k].id]
      OBVIOUS
    <3>2. DOMAIN f = Key /\ {f[x] : x \in DOMAIN f} = {s.querier[k].id : k \in Key}
      BY <3>1
    <3> QED BY <2>1, <3>2, ImageFinite
  <2>4. IsFiniteSet(used)
    BY <1>1, <2>2, <2>3, FS_Union
  <2> QED BY <2>4, FS_CardinalityType
<1>3. PICK N \in Nat : N = Cardinality(used) + 1
  BY <1>2
<1>4. PICK free : free = (1 .. N) \ used
  OBVIOUS
<1>5. free # {}
  <2>1. IsFiniteSet(1 .. N) /\ Cardinality(1 .. N) = N
    BY <1>3, FS_Interval
  <2>2. 1 .. N \in SUBSET used => N <= Cardinality(used)
    BY <1>2, <2>1, FS_Subset
  <2> QED BY <1>2, <1>3, <1>4, <2>2
<1>6. free \in SUBSET Nat
  BY <1>4
<1>7. \E x \in free : \A y \in free : x <= y
  BY <1>5, <1>6, Least
<1>8. NextId(s) = Min(free)
  BY <1>1, <1>3, <1>4 DEF NextId
<1>9. NextId(s) \in free
  BY <1>7, <1>8 DEF Min
<1> QED BY <1>1, <1>4, <1>9

\* What a query that is posted does to the jobs, and what it returns.
Posts(s, t, k) ==
    /\ t \in LookupState /\ t.querier = s.querier
    /\ SameBrowsers(s, t) /\ SameCache(s, t) /\ SameRun(s, t)
    /\ Singly(t) /\ Ids(t)
    /\ \A x \in Key : History(t, x) = History(s, x) /\ (x # k => Scheduled(t, x) = Scheduled(s, x))
    /\ Scheduled(s, k) # {} => Scheduled(t, k) # {}
    /\ s.announcing /\ History(s, k) = {} => Scheduled(t, k) # {}
    /\ t.ret # 0 => \A j \in t.jobs : j.id = t.ret => j.key = k

LEMMA PostIs ==
  ASSUME NEW s, Queries(s), NEW k \in Key, NEW t, t = PostQuery(s, k)
  PROVE  Posts(s, t, k)
<1>1. s \in LookupState /\ Singly(s) /\ Ids(s)
  BY DEF Queries
<1>2. s.querier \in [Key -> QuerierType] /\ s.jobs \in Jobs /\ s.jobs \subseteq Job /\ IsFiniteSet(s.jobs)
  BY <1>1 DEF LookupState, Jobs
<1>3. CASE ~s.announcing \/ History(s, k) # {}
  <2>1. t = WithQueries(s, s.querier, s.jobs, 0)
    BY <1>1, <1>3 DEF PostQuery, WithQueries, LookupState
  <2>2. /\ t \in LookupState /\ t.querier = s.querier /\ t.jobs = s.jobs /\ t.ret = 0
        /\ SameBrowsers(s, t) /\ SameCache(s, t) /\ SameRun(s, t)
    BY <1>1, <1>2, <2>1, QueriesSet
  <2> QED BY <1>1, <1>3, <2>2 DEF Posts, Singly, Ids, History, Scheduled
<1>4. CASE ~(~s.announcing \/ History(s, k) # {}) /\ Scheduled(s, k) # {}
  <2>1. PICK j \in Scheduled(s, k) : j = CHOOSE x \in Scheduled(s, k) : TRUE
    BY <1>4
  <2>2. PICK i : i = [j EXCEPT !.posted = j.posted + 1]
    OBVIOUS
  <2>3. PICK J : J = (s.jobs \ {j}) \union {i}
    OBVIOUS
  <2>4. /\ j \in s.jobs /\ j \in Job /\ j.key = k /\ ~j.done
        /\ i \in Job /\ i.key = k /\ i.id = j.id /\ i.done = j.done /\ i \in J /\ j.id \in Nat \ {0}
    BY <1>2, <2>1, <2>2, <2>3 DEF Scheduled, Job
  <2>5. J \in Jobs
    BY <1>2, <2>3, <2>4, FS_RemoveElement, FS_AddElement DEF Jobs
  <2>6. t = WithQueries(s, s.querier, J, j.id)
    BY <1>1, <1>4, <2>1, <2>2, <2>3 DEF PostQuery, WithQueries, LookupState
  <2>7. /\ t \in LookupState /\ t.querier = s.querier /\ t.jobs = J /\ t.ret = j.id
        /\ SameBrowsers(s, t) /\ SameCache(s, t) /\ SameRun(s, t)
    BY <1>1, <1>2, <2>4, <2>5, <2>6, QueriesSet
  <2>8. \A x \in s.jobs : x.key = k => x = j
    BY <1>1, <2>4 DEF Singly
  <2>9. Singly(t)
    BY <1>1, <2>3, <2>4, <2>7, <2>8 DEF Singly
  <2>10. Ids(t)
    BY <1>1, <2>3, <2>4, <2>7 DEF Ids
  <2>11. \A x \in Key : History(t, x) = History(s, x) /\ (x # k => Scheduled(t, x) = Scheduled(s, x))
    BY <2>3, <2>4, <2>7 DEF History, Scheduled
  <2>12. Scheduled(t, k) # {}
    BY <2>4, <2>7 DEF Scheduled
  <2>13. \A x \in t.jobs : x.id = t.ret => x.key = k
    BY <2>4, <2>7, <2>10 DEF Ids
  <2> QED BY <2>7, <2>9, <2>10, <2>11, <2>12, <2>13 DEF Posts
<1>5. CASE ~(~s.announcing \/ History(s, k) # {}) /\ Scheduled(s, k) = {}
  <2>1. PICK n \in Nat \ {0} : n = NextId(s)
    BY <1>1, NextIdIs
  <2>2. (\A j \in s.jobs : j.id # n) /\ \A x \in Key : s.querier[x].id # n
    BY <1>1, <2>1, NextIdIs
  <2>3. PICK i : i = [id |-> n, key |-> k, posted |-> 1, done |-> FALSE]
    OBVIOUS
  <2>4. PICK J : J = s.jobs \union {i}
    OBVIOUS
  <2>5. i \in Job /\ i.key = k /\ i.id = n /\ ~i.done /\ i \in J
    BY <2>3, <2>4 DEF Job
  <2>6. J \in Jobs
    BY <1>2, <2>4, <2>5, FS_AddElement DEF Jobs
  <2>7. t = WithQueries(s, s.querier, J, n)
    BY <1>1, <1>5, <2>1, <2>3, <2>4 DEF PostQuery, JobNew, WithQueries, LookupState
  <2>8. /\ t \in LookupState /\ t.querier = s.querier /\ t.jobs = J /\ t.ret = n
        /\ SameBrowsers(s, t) /\ SameCache(s, t) /\ SameRun(s, t)
    BY <1>1, <1>2, <2>6, <2>7, QueriesSet
  <2>9. \A x \in s.jobs : x.key # k
    BY <1>2, <1>5 DEF History, Scheduled, Job
  <2>10. Singly(t)
    BY <1>1, <2>4, <2>5, <2>8, <2>9 DEF Singly
  <2>11. Ids(t)
    BY <1>1, <2>2, <2>4, <2>5, <2>8 DEF Ids
  <2>12. \A x \in Key : History(t, x) = History(s, x) /\ (x # k => Scheduled(t, x) = Scheduled(s, x))
    BY <2>4, <2>5, <2>8 DEF History, Scheduled
  <2>13. Scheduled(t, k) # {}
    BY <2>5, <2>8 DEF Scheduled
  <2>14. \A x \in t.jobs : x.id = t.ret => x.key = k
    BY <2>2, <2>4, <2>5, <2>8
  <2> QED BY <2>8, <2>10, <2>11, <2>12, <2>13, <2>14 DEF Posts
<1> QED BY <1>3, <1>4, <1>5

LEMMA PostKeepsAsked ==
  ASSUME NEW s, NEW t, NEW k \in Key, Posts(s, t, k), Asked(s)
  PROVE  Asked(t)
<1> SUFFICES ASSUME NEW r \in DOMAIN KeyOf, Aging(t.cache[r]), r \notin t.asked
             PROVE  /\ History(t, KeyOf[r]) = {}
                    /\ t.querier[KeyOf[r]] # NoQuerier => Scheduled(t, KeyOf[r]) # {}
  BY DEF Asked
<1>1. KeyOf[r] \in Key
  BY Consts
<1>2. Aging(s.cache[r]) /\ r \notin s.asked
  BY DEF Posts, SameCache
<1> QED BY <1>1, <1>2 DEF Asked, Posts

\* A query that is withdrawn: the jobs that stay, and the key's own.
LEMMA WithdrawIs ==
  ASSUME NEW s, Queries(s), NEW k \in Key, NEW t, t = WithdrawQuery(s, s.querier[k].id)
  PROVE  /\ t \in LookupState /\ t.querier = s.querier
         /\ SameBrowsers(s, t) /\ SameCache(s, t) /\ SameRun(s, t)
         /\ Singly(t) /\ Ids(t)
         /\ \A x \in Key : History(t, x) = History(s, x) /\ (x # k => Scheduled(t, x) = Scheduled(s, x))
         /\ t.ret # 1 /\ Scheduled(s, k) # {} => Scheduled(t, k) # {}
<1>1. s \in LookupState /\ Singly(s) /\ Ids(s)
  BY DEF Queries
<1>2. s.querier \in [Key -> QuerierType] /\ s.jobs \in Jobs /\ s.jobs \subseteq Job /\ IsFiniteSet(s.jobs)
  BY <1>1 DEF LookupState, Jobs
<1>3. PICK id : id = s.querier[k].id
  OBVIOUS
<1>4. PICK mine : mine = {j \in s.jobs : j.id = id /\ ~j.done}
  OBVIOUS
<1>5. PICK many : many = {x \in mine : x.posted > 1}
  OBVIOUS
<1>6. PICK left : left = {[j EXCEPT !.posted = j.posted - 1] : j \in many}
  OBVIOUS
<1>7. PICK J : J = (s.jobs \ mine) \union left
  OBVIOUS
<1>8. PICK r \in {0, 1} : r = IF mine # {} /\ left = {} THEN 1 ELSE 0
  OBVIOUS
<1>9. t = WithQueries(s, s.querier, J, r)
  BY <1>1, <1>3, <1>4, <1>5, <1>6, <1>7, <1>8 DEF WithdrawQuery, WithQueries, LookupState
<1>10. \A j \in left : /\ j \in Job /\ j.id = id /\ ~j.done
                       /\ \E i \in mine : i.key = j.key
  BY <1>2, <1>4, <1>5, <1>6 DEF Job
<1>11. \A j \in mine : j \in s.jobs /\ j.key = k /\ j.id = id /\ ~j.done
  BY <1>1, <1>3, <1>4 DEF Ids
<1>12. \A i, j \in mine : i = j
  BY <1>1, <1>11 DEF Singly
<1>13. \A j \in left : j.key = k
  BY <1>10, <1>11
<1>14. J \in Jobs
  <2>1. many \in SUBSET s.jobs
    BY <1>4, <1>5
  <2>2. IsFiniteSet(many)
    BY <1>2, <2>1, FS_Subset
  <2>3. IsFiniteSet(left)
    <3>1. PICK f : f = [j \in many |-> [j EXCEPT !.posted = j.posted - 1]]
      OBVIOUS
    <3>2. DOMAIN f = many /\ {f[x] : x \in DOMAIN f} = left
      BY <1>6, <3>1
    <3> QED BY <2>2, <3>2, ImageFinite
  <2>4. s.jobs \ mine \in SUBSET s.jobs
    OBVIOUS
  <2>5. IsFiniteSet(s.jobs \ mine)
    BY <1>2, <2>4, FS_Subset
  <2>6. IsFiniteSet(J)
    BY <1>7, <2>3, <2>5, FS_Union
  <2> QED BY <1>2, <1>7, <1>10, <2>6 DEF Jobs
<1>15. /\ t \in LookupState /\ t.querier = s.querier /\ t.jobs = J /\ t.ret = r
       /\ SameBrowsers(s, t) /\ SameCache(s, t) /\ SameRun(s, t)
  BY <1>1, <1>2, <1>9, <1>14, QueriesSet
<1>16. \A i, j \in left : i = j
  BY <1>5, <1>6, <1>12
<1>17. left # {} => mine # {}
  BY <1>5, <1>6
<1>18. \A j \in s.jobs \ mine : left # {} => j.key # k
  BY <1>1, <1>11, <1>17 DEF Singly
<1>19. Singly(t)
  BY <1>1, <1>7, <1>13, <1>15, <1>16, <1>18 DEF Singly
<1>20. Ids(t)
  <2>1. \A j \in left : \E i \in s.jobs : i.id = j.id /\ i.key = j.key
    BY <1>10, <1>11
  <2> QED BY <1>1, <1>7, <1>15, <2>1 DEF Ids
<1>21. \A x \in Key : History(t, x) = History(s, x)
  BY <1>7, <1>10, <1>11, <1>15 DEF History
<1>22. \A x \in Key : x # k => Scheduled(t, x) = Scheduled(s, x)
  BY <1>7, <1>11, <1>13, <1>15 DEF Scheduled
<1>23. ASSUME t.ret # 1, Scheduled(s, k) # {} PROVE Scheduled(t, k) # {}
  <2>1. CASE mine = {}
    <3>1. J = s.jobs
      BY <1>7, <1>17, <2>1
    <3> QED BY <1>15, <1>23, <3>1 DEF Scheduled
  <2>2. CASE mine # {}
    <3>1. PICK j \in left : TRUE
      BY <1>8, <1>15, <1>23, <2>2
    <3> QED BY <1>7, <1>10, <1>13, <1>15, <3>1 DEF Scheduled
  <2> QED BY <2>1, <2>2
<1> QED BY <1>15, <1>19, <1>20, <1>21, <1>22, <1>23

-------------------------------------------------------------------------------
(* querier.c                                                                  *)

\* What an operation on the querier of k does.
Manages(s, t, k) ==
    /\ Queries(t) /\ SameBrowsers(s, t) /\ SameCache(s, t) /\ SameRun(s, t)
    /\ Asked(s) => Asked(t)
    /\ \A x \in Key : x # k => t.querier[x] = s.querier[x]

\* One querier is replaced, by one whose id is that of a job for its key.
LEMMA QuerierSet ==
  ASSUME NEW s, Queries(s), NEW k \in Key, NEW q \in QuerierType,
         \A j \in s.jobs : j.id = q.id => j.key = k,
         q # NoQuerier /\ s.querier[k] = NoQuerier =>
             s.announcing /\ (History(s, k) = {} => Scheduled(s, k) # {}),
         NEW t, t = WithQueries(s, [s.querier EXCEPT ![k] = q], s.jobs, s.ret)
  PROVE  /\ Manages(s, t, k) /\ t.querier[k] = q
         /\ t.jobs = s.jobs
<1>1. s \in LookupState /\ Singly(s) /\ Ids(s)
  BY DEF Queries
<1>2. PICK x : x = [s.querier EXCEPT ![k] = q]
  OBVIOUS
<1>3. s.querier \in [Key -> QuerierType] /\ s.jobs \in Jobs /\ s.ret \in Nat
  BY <1>1 DEF LookupState
<1>4. x \in [Key -> QuerierType] /\ x[k] = q /\ \A y \in Key : y # k => x[y] = s.querier[y]
  BY <1>2, <1>3
<1>5. /\ t \in LookupState /\ t.querier = x /\ t.jobs = s.jobs
      /\ SameBrowsers(s, t) /\ SameCache(s, t) /\ SameRun(s, t)
  BY <1>1, <1>2, <1>3, <1>4, QueriesSet
<1>6. Singly(t) /\ Ids(t)
  BY <1>1, <1>4, <1>5 DEF Singly, Ids
<1>7. ASSUME Asked(s) PROVE Asked(t)
  <2> SUFFICES ASSUME NEW r \in DOMAIN KeyOf, Aging(t.cache[r]), r \notin t.asked
               PROVE  /\ History(t, KeyOf[r]) = {}
                      /\ t.querier[KeyOf[r]] # NoQuerier => Scheduled(t, KeyOf[r]) # {}
    BY DEF Asked
  <2>1. KeyOf[r] \in Key /\ Aging(s.cache[r]) /\ r \notin s.asked
    BY <1>5, Consts DEF SameCache
  <2>2. History(s, KeyOf[r]) = {} /\ (s.querier[KeyOf[r]] # NoQuerier => Scheduled(s, KeyOf[r]) # {})
    BY <1>7, <2>1 DEF Asked
  <2>3. History(t, KeyOf[r]) = History(s, KeyOf[r]) /\ Scheduled(t, KeyOf[r]) = Scheduled(s, KeyOf[r])
    BY <1>5 DEF History, Scheduled
  <2>4. CASE KeyOf[r] = k
    BY <1>4, <1>5, <2>2, <2>3, <2>4
  <2>5. CASE KeyOf[r] # k
    BY <1>4, <1>5, <2>1, <2>2, <2>3, <2>5
  <2> QED BY <2>4, <2>5
<1> QED BY <1>4, <1>5, <1>6, <1>7 DEF Manages, Queries

LEMMA ManagesBoth ==
  ASSUME NEW s, NEW t, NEW u, NEW k, Manages(s, t, k), Manages(t, u, k)
  PROVE  Manages(s, u, k)
BY DEF Manages, SameBrowsers, SameCache, SameRun

LEMMA PostManages ==
  ASSUME NEW s, NEW t, NEW k \in Key, Posts(s, t, k)
  PROVE  Manages(s, t, k)
<1>1. Asked(s) => Asked(t)
  BY PostKeepsAsked
<1> QED BY <1>1 DEF Manages, Posts, Queries

LEMMA AddIs ==
  ASSUME NEW s, Queries(s), s.announcing, NEW k \in Key, NEW t, t = QuerierAdd(s, k)
  PROVE  Manages(s, t, k) /\ t.querier[k].used = Used(s.querier[k]) + 1
<1>1. s \in LookupState /\ Singly(s) /\ Ids(s) /\ s.querier \in [Key -> QuerierType]
  BY DEF Queries, LookupState
<1>2. PICK q : q = s.querier[k]
  OBVIOUS
<1>3. q \in QuerierType
  BY <1>1, <1>2
<1>4. CASE q # NoQuerier
  <2>1. q.used \in Nat /\ q.delay \in 0 .. MaxDelay /\ q.id \in Nat
    BY <1>3, <1>4, QuerierIs
  <2>2. PICK p : p = [q EXCEPT !.used = q.used + 1]
    OBVIOUS
  <2>3. p = [used |-> q.used + 1, delay |-> q.delay, id |-> q.id]
    BY <1>3, <1>4, <2>2 DEF QuerierType
  <2>4. p \in QuerierType /\ p # NoQuerier /\ p.used = q.used + 1 /\ p.id = q.id
    BY <2>1, <2>3, QuerierIs
  <2>5. t = WithQueries(s, [s.querier EXCEPT ![k] = p], s.jobs, s.ret)
    BY <1>1, <1>2, <1>4, <2>2 DEF QuerierAdd, WithQueries, LookupState
  <2>6. \A j \in s.jobs : j.id = p.id => j.key = k
    BY <1>1, <1>2, <2>4 DEF Ids
  <2>7. Manages(s, t, k) /\ t.querier[k] = p
    BY <1>2, <1>4, <2>4, <2>5, <2>6, QuerierSet
  <2> QED BY <1>2, <2>1, <2>4, <2>7 DEF Used
<1>5. CASE q = NoQuerier
  <2>1. PICK u : u = PostQuery(s, k)
    OBVIOUS
  <2>2. Posts(s, u, k) /\ Manages(s, u, k) /\ Queries(u) /\ u.querier = s.querier /\ u.announcing
    <3>1. Posts(s, u, k)
      BY <2>1, PostIs
    <3>2. Manages(s, u, k)
      BY <3>1, PostManages
    <3> QED BY <3>1, <3>2 DEF Manages, Posts, SameRun
  <2>3. u \in LookupState /\ u.ret \in Nat /\ 0 \in 0 .. MaxDelay
    BY <2>2, Consts DEF Queries, LookupState
  <2>4. PICK p : p = [used |-> 1, delay |-> 0, id |-> u.ret]
    OBVIOUS
  <2>5. p \in QuerierType /\ p.used = 1 /\ p.id = u.ret
    BY <2>3, <2>4, QuerierIs
  <2>6. t = WithQueries(u, [u.querier EXCEPT ![k] = p], u.jobs, u.ret)
    BY <1>2, <1>5, <2>1, <2>3, <2>4 DEF QuerierAdd, WithQueries, LookupState
  <2>7. \A j \in u.jobs : j.id = p.id => j.key = k
    <3>1. \A j \in u.jobs : j.id # 0
      BY <2>3 DEF LookupState, Jobs, Job
    <3> QED BY <2>2, <2>5, <3>1 DEF Posts
  <2>8. History(u, k) = {} => Scheduled(u, k) # {}
    BY <2>2 DEF Posts
  <2>9. Manages(u, t, k) /\ t.querier[k] = p
    BY <2>2, <2>5, <2>6, <2>7, <2>8, QuerierSet
  <2>10. Manages(s, t, k)
    BY <2>2, <2>9, ManagesBoth
  <2>11. Used(q) = 0
    BY <1>5, QuerierIs DEF Used
  <2> QED BY <1>2, <2>5, <2>9, <2>10, <2>11
<1> QED BY <1>4, <1>5

LEMMA RemoveIs ==
  ASSUME NEW s, Queries(s), NEW k \in Key, NEW t, t = QuerierRemove(s, k)
  PROVE  /\ Manages(s, t, k)
         /\ Used(t.querier[k]) = IF s.querier[k].used > 0 THEN s.querier[k].used - 1 ELSE 0
         /\ s.querier[k].used <= 0 => t = s
         /\ t.querier[k].used <= s.querier[k].used
<1>1. s \in LookupState /\ Singly(s) /\ Ids(s) /\ s.querier \in [Key -> QuerierType]
  BY DEF Queries, LookupState
<1>2. PICK q : q = s.querier[k]
  OBVIOUS
<1>3. q \in QuerierType /\ q.used \in Int
  BY <1>1, <1>2, QuerierIs
<1>4. CASE q.used <= 0
  <2>1. t = s
    BY <1>2, <1>4 DEF QuerierRemove
  <2> QED BY <1>2, <1>3, <1>4, <2>1 DEF Manages, Used, SameBrowsers, SameCache, SameRun
<1>5. CASE q.used > 0
  <2>1. q # NoQuerier
    BY <1>5, QuerierIs
  <2>2. q.used \in Nat \ {0} /\ q.delay \in 0 .. MaxDelay /\ q.id \in Nat
    BY <1>3, <1>5, <2>1, QuerierIs
  <2>3. PICK p : p = [q EXCEPT !.used = q.used - 1]
    OBVIOUS
  <2>4. p = [used |-> q.used - 1, delay |-> q.delay, id |-> q.id]
    BY <1>3, <2>1, <2>3 DEF QuerierType
  <2>5. p \in QuerierType /\ p # NoQuerier /\ p.used = q.used - 1 /\ p.id = q.id
    BY <2>2, <2>4, QuerierIs
  <2>6. PICK u : u = [s EXCEPT !.querier[k].used = @ - 1]
    OBVIOUS
  <2>7. u = WithQueries(s, [s.querier EXCEPT ![k] = p], s.jobs, s.ret)
    BY <1>1, <1>2, <2>3, <2>6 DEF WithQueries, LookupState
  <2>8. \A j \in s.jobs : j.id = p.id => j.key = k
    BY <1>1, <1>2, <2>5 DEF Ids
  <2>9. Manages(s, u, k) /\ u.querier[k] = p /\ u.jobs = s.jobs
    BY <1>2, <2>1, <2>5, <2>7, <2>8, QuerierSet
  <2>10. Used(p) = q.used - 1 /\ p.used <= q.used /\ ~(q.used <= 0)
    BY <2>2, <2>5 DEF Used
  <2>11. PICK v : v = WithdrawQuery(u, q.id)
    OBVIOUS
  <2>12. t = IF q.used <= 0 THEN s
             ELSE IF q.used > 1 \/ q.id = 0 THEN u
             ELSE IF v.ret = 1 THEN [v EXCEPT !.querier[k] = NoQuerier] ELSE v
    BY <1>2, <2>6, <2>11 DEF QuerierRemove
  <2>13. CASE t = u
    <3>1. Manages(s, t, k) /\ t.querier[k] = p
      BY <2>9, <2>13
    <3> QED BY <1>2, <1>5, <2>10, <3>1
  <2>14. CASE t # u
    <3>1. v = WithdrawQuery(u, q.id) /\ ~(q.used > 1)
      BY <2>10, <2>11, <2>12, <2>14
    <3>2. t = IF v.ret = 1 THEN [v EXCEPT !.querier[k] = NoQuerier] ELSE v
      BY <2>10, <2>12, <2>14
    <3>3. v = WithdrawQuery(u, u.querier[k].id) /\ Queries(u)
      BY <2>5, <2>9, <3>1 DEF Manages
    <3>4. /\ v \in LookupState /\ v.querier = u.querier
          /\ SameBrowsers(u, v) /\ SameCache(u, v) /\ SameRun(u, v) /\ Singly(v) /\ Ids(v)
          /\ \A x \in Key : /\ History(v, x) = History(u, x)
                            /\ x # k => Scheduled(v, x) = Scheduled(u, x)
          /\ v.ret # 1 /\ Scheduled(u, k) # {} => Scheduled(v, k) # {}
      BY <3>3, WithdrawIs
    <3>5. CASE v.ret # 1
      <4>1. t = v
        BY <3>2, <3>5
      <4>2. ASSUME Asked(u) PROVE Asked(v)
        <5> SUFFICES ASSUME NEW r \in DOMAIN KeyOf, Aging(v.cache[r]), r \notin v.asked
                     PROVE  /\ History(v, KeyOf[r]) = {}
                            /\ v.querier[KeyOf[r]] # NoQuerier => Scheduled(v, KeyOf[r]) # {}
          BY DEF Asked
        <5>1. KeyOf[r] \in Key /\ Aging(u.cache[r]) /\ r \notin u.asked
          BY <3>4, Consts DEF SameCache
        <5>2. /\ History(u, KeyOf[r]) = {}
              /\ u.querier[KeyOf[r]] # NoQuerier => Scheduled(u, KeyOf[r]) # {}
          BY <4>2, <5>1 DEF Asked
        <5> QED BY <3>4, <3>5, <5>1, <5>2
      <4>3. Manages(u, v, k)
        BY <3>4, <4>2 DEF Manages, Queries
      <4>4. Manages(s, t, k)
        BY <2>9, <4>1, <4>3, ManagesBoth
      <4>5. t.querier[k] = p
        BY <2>9, <3>4, <4>1
      <4> QED BY <1>2, <1>5, <2>10, <4>4, <4>5
    <3>6. CASE v.ret = 1
      <4>1. t = WithQueries(v, [v.querier EXCEPT ![k] = NoQuerier], v.jobs, v.ret)
        BY <3>2, <3>4, <3>6 DEF WithQueries, LookupState
      <4>2. PICK y : y = [v.querier EXCEPT ![k] = NoQuerier]
        OBVIOUS
      <4>3. /\ v.querier \in [Key -> QuerierType] /\ v.jobs \in Jobs /\ v.ret \in Nat
            /\ NoQuerier \in QuerierType /\ \A j \in v.jobs : j.id # 0
        BY <3>4 DEF LookupState, QuerierType, Jobs, Job
      <4>4. y \in [Key -> QuerierType] /\ y[k] = NoQuerier /\ \A x \in Key : x # k => y[x] = v.querier[x]
        BY <4>2, <4>3
      <4>5. /\ t \in LookupState /\ t.querier = y /\ t.jobs = v.jobs
            /\ SameBrowsers(v, t) /\ SameCache(v, t) /\ SameRun(v, t)
        BY <3>4, <4>1, <4>2, <4>3, <4>4, QueriesSet
      <4>6. Singly(t) /\ Ids(t)
        BY <3>4, <4>3, <4>4, <4>5, QuerierIs DEF Singly, Ids
      <4>7. ASSUME Asked(u) PROVE Asked(t)
        <5> SUFFICES ASSUME NEW r \in DOMAIN KeyOf, Aging(t.cache[r]), r \notin t.asked
                     PROVE  /\ History(t, KeyOf[r]) = {}
                            /\ t.querier[KeyOf[r]] # NoQuerier => Scheduled(t, KeyOf[r]) # {}
          BY DEF Asked
        <5>1. KeyOf[r] \in Key /\ Aging(u.cache[r]) /\ r \notin u.asked
          BY <3>4, <4>5, Consts DEF SameCache
        <5>2. /\ History(u, KeyOf[r]) = {}
              /\ u.querier[KeyOf[r]] # NoQuerier => Scheduled(u, KeyOf[r]) # {}
          BY <4>7, <5>1 DEF Asked
        <5>3. \A x \in Key : History(t, x) = History(v, x) /\ Scheduled(t, x) = Scheduled(v, x)
          BY <4>5 DEF History, Scheduled
        <5> QED BY <3>4, <4>4, <4>5, <5>1, <5>2, <5>3
      <4>8. Manages(u, t, k)
        BY <3>4, <4>4, <4>5, <4>6, <4>7
           DEF Manages, Queries, SameBrowsers, SameCache, SameRun
      <4>9. Manages(s, t, k)
        BY <2>9, <4>8, ManagesBoth
      <4>10. t.querier[k].used = -1 /\ Used(t.querier[k]) = 0
        BY <4>4, <4>5, QuerierIs DEF Used
      <4> QED
        <5>1. q.used = 1
          BY <2>2, <3>1
        <5> QED BY <1>2, <4>9, <4>10, <5>1
    <3> QED BY <3>5, <3>6
  <2> QED BY <2>13, <2>14
<1> QED BY <1>3, <1>4, <1>5

-------------------------------------------------------------------------------
(* browse.c and multicast-lookup.c: the lookups of one browser.               *)

\* What a step on the lookups of b leaves to the other browsers and the cache.
Beside(s, t, b) ==
    /\ \A x \in Browser : x # b =>
          /\ t.br[x] = s.br[x] /\ t.ref[x] = s.ref[x] /\ t.started[x] = s.started[x]
          /\ t.follows[x] = s.follows[x] /\ t.told[x] = s.told[x]
    /\ SameCache(s, t) /\ t.announcing = s.announcing /\ t.events = s.events
Works(s, t, b) == Queries(t) /\ Beside(s, t, b) /\ (Asked(s) => Asked(t))
Serves(s, t) == (Served(s) => Served(t)) /\ (Idle(s) => Idle(t))

LEMMA WorksBoth ==
  ASSUME NEW s, NEW t, NEW u, NEW b, Works(s, t, b), Works(t, u, b)
  PROVE  Works(s, u, b)
BY DEF Works, Beside, SameCache

\* A step that leaves queriers, jobs and cache as they are.
LEMMA QueriesStay ==
  ASSUME NEW s, Queries(s), NEW t \in LookupState, t.querier = s.querier, t.jobs = s.jobs, SameCache(s, t)
  PROVE  Queries(t) /\ (Asked(s) => Asked(t))
<1>1. Queries(t)
  BY DEF Queries, Singly, Ids
<1>2. \A k : History(t, k) = History(s, k) /\ Scheduled(t, k) = Scheduled(s, k)
  BY DEF History, Scheduled
<1>3. ASSUME Asked(s) PROVE Asked(t)
  BY <1>2, <1>3 DEF Asked, SameCache
<1> QED BY <1>1, <1>3

\* The set of lookups that b has started.
Alters(s, t, b, S) ==
    /\ Queries(t) /\ (Asked(s) => Asked(t))
    /\ t.started[b] = S /\ \A x \in Browser : x # b => t.started[x] = s.started[x]
    /\ t.br = s.br /\ t.ref = s.ref /\ t.follows = s.follows /\ t.told = s.told
    /\ SameCache(s, t) /\ SameRun(s, t)

WithStarted(s, b, S, A) == [s EXCEPT !.started[b] = S, !.afn[b] = A]
LEMMA StartedSet ==
  ASSUME NEW s, Queries(s), NEW b \in Browser, NEW S \in SUBSET Key, NEW A \in SUBSET Key,
         NEW t, t = WithStarted(s, b, S, A)
  PROVE  Alters(s, t, b, S) /\ t.querier = s.querier
<1>1. s \in LookupState
  BY DEF Queries
<1>2. PICK st : st = [s.started EXCEPT ![b] = S]
  OBVIOUS
<1>3. PICK afn : afn = [s.afn EXCEPT ![b] = A]
  OBVIOUS
<1>4. st \in [Browser -> SUBSET Key] /\ afn \in [Browser -> SUBSET Key]
  BY <1>1, <1>2, <1>3 DEF LookupState
<1>9. st[b] = S /\ \A x \in Browser : x # b => st[x] = s.started[x]
  BY <1>1, <1>2 DEF LookupState
<1>5. t = WithBrowsers(s, s.br, s.ref, st, s.follows, afn, s.told)
  BY <1>1, <1>2, <1>3 DEF WithStarted, WithBrowsers, LookupState
<1>7. /\ t \in LookupState
      /\ t.br = s.br /\ t.ref = s.ref /\ t.started = st /\ t.follows = s.follows /\ t.told = s.told
      /\ t.querier = s.querier /\ t.jobs = s.jobs /\ SameCache(s, t) /\ SameRun(s, t)
  BY <1>1, <1>4, <1>5 DEF WithBrowsers, LookupState, SameCache, SameRun
<1>8. Queries(t) /\ (Asked(s) => Asked(t))
  BY <1>7, QueriesStay
<1> QED BY <1>7, <1>8, <1>9 DEF Alters

\* The queriers, when one more lookup starts or ends.
LEMMA UsersFinite ==
  ASSUME NEW s, NEW k
  PROVE  IsFiniteSet(Users(s, k)) /\ Cardinality(Users(s, k)) \in Nat
         /\ Cardinality(Users(s, k)) <= Cardinality(Browser)
<1>1. Users(s, k) \in SUBSET Browser /\ IsFiniteSet(Browser)
  BY LookupAssumption DEF Users
<1>2. IsFiniteSet(Users(s, k)) /\ Cardinality(Users(s, k)) <= Cardinality(Browser)
  BY <1>1, FS_Subset
<1> QED BY <1>2, FS_CardinalityType

LEMMA StartIs ==
  ASSUME NEW s, Queries(s), Served(s), NEW b \in Browser, NEW k \in Key, k \notin s.started[b],
         NEW t, t = LookupNew(s, b, k)
  PROVE  Alters(s, t, b, s.started[b] \union {k}) /\ Served(t)
<1>1. s \in LookupState
  BY DEF Queries
<1>2. PICK S : S = s.started[b] \union {k}
  OBVIOUS
<1>3. PICK A : A = s.afn[b] \union {k}
  OBVIOUS
<1>4. S \in SUBSET Key /\ A \in SUBSET Key
  BY <1>1, <1>2, <1>3 DEF LookupState
<1>5. PICK u : u = WithStarted(s, b, S, A)
  OBVIOUS
<1>6. t = IF s.announcing THEN QuerierAdd(u, k) ELSE u
  BY <1>1, <1>2, <1>3, <1>5 DEF LookupNew, WithStarted
<1>7. Alters(s, u, b, S) /\ u.querier = s.querier
  BY <1>4, <1>5, StartedSet
<1>8. CASE ~s.announcing
  <2>1. t = u
    BY <1>6, <1>8
  <2>2. Served(t)
    BY <1>7, <1>8, <2>1 DEF Served, Idle, Alters, SameRun
  <2> QED BY <1>2, <1>7, <2>1, <2>2
<1>9. CASE s.announcing
  <2>1. t = QuerierAdd(u, k) /\ Queries(u) /\ u.announcing
    BY <1>6, <1>7, <1>9 DEF Alters, SameRun
  <2>2. Manages(u, t, k) /\ t.querier[k].used = Used(u.querier[k]) + 1
    BY <2>1, AddIs
  <2>3. Alters(s, t, b, S)
    BY <1>7, <2>2 DEF Alters, Manages, SameBrowsers, SameCache, SameRun
  <2>4. \A x \in Key : x # k => Users(t, x) = Users(s, x) /\ t.querier[x] = s.querier[x]
    BY <1>2, <1>7, <2>2, <2>3 DEF Users, Alters, Manages
  <2>5. Users(t, k) = Users(s, k) \union {b} /\ b \notin Users(s, k)
    BY <1>2, <2>3 DEF Users, Alters
  <2>6. Cardinality(Users(t, k)) = Cardinality(Users(s, k)) + 1 /\ Cardinality(Users(s, k)) \in Nat
    BY <2>5, UsersFinite, FS_AddElement
  <2>7. Counted(s)
    BY <1>9 DEF Served
  <2>8. Cardinality(Users(s, k)) = Used(s.querier[k])
    BY <2>7 DEF Counted
  <2>9. Cardinality(Users(t, k)) = Used(t.querier[k])
    BY <1>7, <2>2, <2>6, <2>8 DEF Used
  <2>10. Counted(t)
    BY <2>4, <2>7, <2>9 DEF Counted
  <2>11. Served(t)
    BY <1>9, <2>3, <2>10 DEF Served, Alters, SameRun
  <2> QED BY <1>2, <2>3, <2>11
<1> QED BY <1>8, <1>9

LEMMA EndIs ==
  ASSUME NEW s, Queries(s), NEW b \in Browser, NEW k \in s.started[b],
         NEW t, t = LookupFree(s, b, k)
  PROVE  Alters(s, t, b, s.started[b] \ {k}) /\ Serves(s, t)
<1>1. s \in LookupState /\ k \in Key
  BY DEF Queries, LookupState
<1>2. PICK S : S = s.started[b] \ {k}
  OBVIOUS
<1>3. PICK A : A = s.afn[b] \ {k}
  OBVIOUS
<1>4. S \in SUBSET Key /\ A \in SUBSET Key
  BY <1>1, <1>2, <1>3 DEF LookupState
<1>5. PICK u : u = WithStarted(s, b, S, A)
  OBVIOUS
<1>6. t = IF s.announcing THEN QuerierRemove(u, k) ELSE u
  BY <1>1, <1>2, <1>3, <1>5 DEF LookupFree, WithStarted
<1>7. Alters(s, u, b, S) /\ u.querier = s.querier
  BY <1>4, <1>5, StartedSet
<1>8. CASE ~s.announcing
  <2>1. t = u
    BY <1>6, <1>8
  <2>2. Serves(s, t)
    BY <1>7, <1>8, <2>1 DEF Serves, Served, Idle, Alters, SameRun
  <2> QED BY <1>2, <1>7, <2>1, <2>2
<1>9. CASE s.announcing
  <2>1. t = QuerierRemove(u, k) /\ Queries(u)
    BY <1>6, <1>7, <1>9 DEF Alters
  <2>2. /\ Manages(u, t, k)
        /\ Used(t.querier[k]) = IF u.querier[k].used > 0 THEN u.querier[k].used - 1 ELSE 0
        /\ u.querier[k].used <= 0 => t = u
    BY <1>1, <2>1, RemoveIs
  <2>3. Alters(s, t, b, S)
    BY <1>7, <2>2 DEF Alters, Manages, SameBrowsers, SameCache, SameRun
  <2>4. \A x \in Key : x # k => Users(t, x) = Users(s, x) /\ t.querier[x] = s.querier[x]
    BY <1>2, <1>7, <2>2, <2>3 DEF Users, Alters, Manages
  <2>5. Users(t, k) = Users(s, k) \ {b} /\ b \in Users(s, k)
    BY <1>2, <2>3 DEF Users, Alters
  <2>6. /\ Cardinality(Users(t, k)) = Cardinality(Users(s, k)) - 1
        /\ Cardinality(Users(s, k)) \in Nat /\ Cardinality(Users(t, k)) \in Nat
    BY <2>5, UsersFinite, FS_RemoveElement
  <2>7. ASSUME Served(s) PROVE Served(t)
    <3>1. Counted(s)
      BY <1>9, <2>7 DEF Served
    <3>2. Cardinality(Users(s, k)) = Used(s.querier[k])
      BY <1>1, <3>1 DEF Counted
    <3>3. Cardinality(Users(t, k)) = Used(t.querier[k])
      BY <1>7, <2>2, <2>6, <3>2 DEF Used
    <3>4. Counted(t)
      BY <2>4, <3>1, <3>3 DEF Counted
    <3> QED BY <1>9, <2>3, <3>4 DEF Served, Alters, SameRun
  <2>8. ASSUME Idle(s) PROVE Idle(t)
    <3>1. u.querier[k].used = -1
      BY <1>1, <1>7, <2>8, QuerierIs DEF Idle
    <3>2. t = u
      BY <2>2, <3>1
    <3> QED BY <1>7, <2>8, <3>2 DEF Idle
  <2> QED BY <1>2, <2>3, <2>7, <2>8 DEF Serves
<1> QED BY <1>8, <1>9

\* What else is kept of a browser.
WithBrowser(s, b, st, R, F, T) ==
    [s EXCEPT !.br[b] = st, !.ref[b] = R, !.follows[b] = F, !.told[b] = T]
Puts(s, t, b, st, R, F, T) ==
    /\ Works(s, t, b) /\ Serves(s, t)
    /\ t.br[b] = st /\ t.ref[b] = R /\ t.follows[b] = F /\ t.told[b] = T
    /\ t.started = s.started /\ t.querier = s.querier /\ t.jobs = s.jobs /\ SameRun(s, t)

LEMMA BrowserSet ==
  ASSUME NEW s, Queries(s), NEW b \in Browser, NEW st \in Stage, NEW R \in [Key -> Nat],
         NEW F \in SUBSET (Key \X Key), NEW T \in SUBSET Record,
         NEW t, t = WithBrowser(s, b, st, R, F, T)
  PROVE  Puts(s, t, b, st, R, F, T)
<1>1. s \in LookupState
  BY DEF Queries
<1>2. PICK br : br = [s.br EXCEPT ![b] = st]
  OBVIOUS
<1>3. PICK ref : ref = [s.ref EXCEPT ![b] = R]
  OBVIOUS
<1>4. PICK fo : fo = [s.follows EXCEPT ![b] = F]
  OBVIOUS
<1>5. PICK told : told = [s.told EXCEPT ![b] = T]
  OBVIOUS
<1>6. br \in [Browser -> Stage] /\ ref \in [Browser -> [Key -> Nat]]
  BY <1>1, <1>2, <1>3 DEF LookupState
<1>7. fo \in [Browser -> SUBSET (Key \X Key)] /\ told \in [Browser -> SUBSET Record]
  BY <1>1, <1>4, <1>5 DEF LookupState
<1>8. br[b] = st /\ ref[b] = R /\ fo[b] = F /\ told[b] = T
  BY <1>1, <1>2, <1>3, <1>4, <1>5 DEF LookupState
<1>9. \A x \in Browser : x # b => /\ br[x] = s.br[x] /\ ref[x] = s.ref[x]
                                  /\ fo[x] = s.follows[x] /\ told[x] = s.told[x]
  BY <1>1, <1>2, <1>3, <1>4, <1>5 DEF LookupState
<1>10. t = WithBrowsers(s, br, ref, s.started, fo, s.afn, told)
  BY <1>1, <1>2, <1>3, <1>4, <1>5 DEF WithBrowser, WithBrowsers, LookupState
<1>11. /\ t \in LookupState
       /\ t.br = br /\ t.ref = ref /\ t.started = s.started /\ t.follows = fo /\ t.told = told
       /\ t.querier = s.querier /\ t.jobs = s.jobs /\ SameCache(s, t) /\ SameRun(s, t)
  <2>1. s.started \in [Browser -> SUBSET Key] /\ s.afn \in [Browser -> SUBSET Key]
    BY <1>1 DEF LookupState
  <2>2. t \in LookupState
    <3>1. /\ s.cache \in [Record -> Entry] /\ s.asked \in SUBSET Record /\ s.querier \in [Key -> QuerierType]
          /\ s.jobs \in Jobs /\ s.ret \in Nat /\ s.announcing \in BOOLEAN /\ s.aborted \in BOOLEAN
          /\ s.events \in 0 .. MaxEvents
      BY <1>1 DEF LookupState
    <3>2. t = [cache |-> s.cache, asked |-> s.asked, querier |-> s.querier, jobs |-> s.jobs, ret |-> s.ret,
               br |-> br, ref |-> ref, started |-> s.started, follows |-> fo, afn |-> s.afn,
               told |-> told, announcing |-> s.announcing, aborted |-> s.aborted, events |-> s.events]
      BY <1>1, <1>10 DEF WithBrowsers, LookupState
    <3> QED BY <1>6, <1>7, <2>1, <3>1, <3>2 DEF LookupState
  <2>3. /\ t.br = br /\ t.ref = ref /\ t.started = s.started /\ t.follows = fo /\ t.told = told
        /\ t.querier = s.querier /\ t.jobs = s.jobs /\ SameCache(s, t) /\ SameRun(s, t)
    BY <1>1, <1>10 DEF WithBrowsers, LookupState, SameCache, SameRun
  <2> QED BY <2>2, <2>3
<1>12. Queries(t) /\ (Asked(s) => Asked(t))
  BY <1>11, QueriesStay
<1>13. Beside(s, t, b)
  BY <1>9, <1>11 DEF Beside, SameRun
<1>14. Serves(s, t)
  <2>1. \A k : Users(t, k) = Users(s, k)
    BY <1>11 DEF Users
  <2> QED BY <1>11, <2>1 DEF Serves, Served, Counted, Idle, SameRun
<1> QED BY <1>8, <1>11, <1>12, <1>13, <1>14 DEF Puts, Works

\* The state of one browser.
LEMMA BrowserIs ==
  ASSUME NEW s \in LookupState, NEW b \in Browser
  PROVE  /\ s.br[b] \in Stage /\ s.ref[b] \in [Key -> Nat] /\ s.started[b] \in SUBSET Key
         /\ s.follows[b] \in SUBSET (Key \X Key) /\ s.told[b] \in SUBSET Record
BY DEF LookupState

\* The last reference to a lookup that led to no other
LEMMA UnrefIs ==
  ASSUME NEW s, Queries(s), NEW b \in Browser, NEW k \in s.started[b], s.ref[b][k] = 1,
         NEW t, t = UnrefOne(s, b, k)
  PROVE  /\ Works(s, t, b) /\ Serves(s, t) /\ SameRun(s, t)
         /\ t.started[b] = s.started[b] \ {k} /\ t.ref[b] = [s.ref[b] EXCEPT ![k] = 0]
         /\ t.br[b] = s.br[b] /\ t.follows[b] = s.follows[b] /\ t.told[b] = s.told[b]
<1>1. s \in LookupState /\ k \in Key
  BY DEF Queries, LookupState
<1>2. PICK R : R = [s.ref[b] EXCEPT ![k] = 0]
  OBVIOUS
<1>3. R \in [Key -> Nat]
  BY <1>1, <1>2, BrowserIs
<1>4. PICK u : u = WithBrowser(s, b, s.br[b], R, s.follows[b], s.told[b])
  OBVIOUS
<1>5. [s EXCEPT !.ref[b][k] = s.ref[b][k] - 1] = u
  <2>1. /\ s.br = [s.br EXCEPT ![b] = s.br[b]] /\ s.follows = [s.follows EXCEPT ![b] = s.follows[b]]
        /\ s.told = [s.told EXCEPT ![b] = s.told[b]]
    BY <1>1 DEF LookupState
  <2>2. [s.ref EXCEPT ![b][k] = s.ref[b][k] - 1] = [s.ref EXCEPT ![b] = R]
    BY <1>1, <1>2 DEF LookupState
  <2> QED BY <1>1, <1>4, <2>1, <2>2 DEF WithBrowser, LookupState
<1>6. t = LookupFree(u, b, k)
  BY <1>5 DEF UnrefOne
<1>7. Puts(s, u, b, s.br[b], R, s.follows[b], s.told[b])
  BY <1>1, <1>3, <1>4, BrowserIs, BrowserSet
<1>8. Queries(u) /\ u.started = s.started /\ k \in u.started[b]
  BY <1>7 DEF Puts, Works
<1>9. Alters(u, t, b, u.started[b] \ {k}) /\ Serves(u, t)
  BY <1>6, <1>8, EndIs
<1>10. Works(u, t, b)
  BY <1>9 DEF Works, Alters, Beside, SameRun
<1>11. Works(s, t, b)
  BY <1>7, <1>10, WorksBoth DEF Puts
<1>12. Serves(s, t) /\ SameRun(s, t)
  BY <1>7, <1>9 DEF Puts, Serves, Alters, SameRun
<1> QED BY <1>2, <1>7, <1>8, <1>9, <1>11, <1>12 DEF Puts, Alters

\* The lookups that the first one led to are let go of one after the other.
Unrefs(s, b, seq) == Along(s, seq, LAMBDA u, x : UnrefOne(u, b, x))
LEMMA UnrefsAre ==
  ASSUME NEW c, Queries(c), ~c.aborted, NEW b \in Browser, NEW L \in SUBSET Key, c.started[b] = L,
         \A k \in L : c.ref[b][k] = 1, NEW seq, IsList(seq, L),
         NEW t, t = Unrefs(c, b, seq)
  PROVE  /\ Works(c, t, b) /\ Serves(c, t) /\ SameRun(c, t)
         /\ t.started[b] = {} /\ \A k \in Key : t.ref[b][k] = IF k \in L THEN 0 ELSE c.ref[b][k]
         /\ t.br[b] = c.br[b] /\ t.follows[b] = c.follows[b] /\ t.told[b] = c.told[b]
<1>1. PICK N \in Nat : N = Len(seq)
  BY DEF IsList
<1> N \in Nat
  BY <1>1
<1>2. /\ \A i \in 1 .. N : seq[i] \in L
      /\ \A i, j \in 1 .. N : seq[i] = seq[j] => i = j
      /\ \A x \in L : \E i \in 1 .. N : seq[i] = x
  BY <1>1 DEF IsList
<1> DEFINE Left(n) == {seq[i] : i \in n + 1 .. N}
           At(n, u) ==
               /\ Works(c, u, b) /\ Serves(c, u) /\ SameRun(c, u) /\ u.started[b] = Left(n)
               /\ \A k \in Key : u.ref[b][k] = IF k \in L \ Left(n) THEN 0 ELSE c.ref[b][k]
               /\ u.br[b] = c.br[b] /\ u.follows[b] = c.follows[b] /\ u.told[b] = c.told[b]
           Body(f) == [n \in 0 .. N |-> IF n = 0 THEN c ELSE IF f[n-1].aborted THEN f[n-1]
                                       ELSE UnrefOne(f[n-1], b, seq[n])]
<1>3. t = (CHOOSE f : f = Body(f))[N]
  BY <1>1 DEF Unrefs, Along
<1>4. At(0, c)
  <2>1. Left(0) = L
    BY <1>2
  <2>2. Works(c, c, b) /\ Serves(c, c) /\ SameRun(c, c)
    BY DEF Works, Beside, Serves, SameCache, SameRun
  <2> QED BY <2>1, <2>2
<1>5. ASSUME NEW n \in 1 .. N, NEW u, At(n - 1, u)
      PROVE  ~u.aborted /\ At(n, UnrefOne(u, b, seq[n]))
  <2>1. PICK x : x = seq[n]
    OBVIOUS
  <2>2. PICK v : v = UnrefOne(u, b, x)
    OBVIOUS
  <2>3. n - 1 + 1 = n /\ x \in L /\ x \in Left(n - 1)
    BY <1>2, <2>1
  <2>4. Left(n) = Left(n - 1) \ {x} /\ L \ Left(n) = (L \ Left(n - 1)) \union {x}
    BY <1>2, <2>1, <2>3
  <2> HIDE DEF Left
  <2>5. x \in u.started[b] /\ u.ref[b][x] = 1 /\ Queries(u) /\ ~u.aborted
    BY <1>5, <2>3 DEF Works, SameRun
  <2>6. /\ Works(u, v, b) /\ Serves(u, v) /\ SameRun(u, v)
        /\ v.started[b] = u.started[b] \ {x} /\ v.ref[b] = [u.ref[b] EXCEPT ![x] = 0]
        /\ v.br[b] = u.br[b] /\ v.follows[b] = u.follows[b] /\ v.told[b] = u.told[b]
    <3> HIDE DEF At
    <3> QED BY <2>2, <2>5, UnrefIs
  <2>7. Works(c, v, b) /\ Serves(c, v) /\ SameRun(c, v)
    BY <1>5, <2>6, WorksBoth DEF Serves, SameRun
  <2>8. u.ref[b] \in [Key -> Nat]
    BY <2>5, BrowserIs DEF Queries
  <2>9. \A k \in Key : v.ref[b][k] = IF k \in L \ Left(n) THEN 0 ELSE c.ref[b][k]
    BY <1>5, <2>4, <2>6, <2>8
  <2> QED BY <1>5, <2>1, <2>2, <2>4, <2>5, <2>6, <2>7, <2>9
<1> HIDE DEF At
<1>6. PICK Q : Q = [n \in 0 .. N |-> {u \in LookupState : At(n, u)}]
  OBVIOUS
<1>7. \A n \in 0 .. N : \A u \in Q[n] : At(n, u)
  BY <1>6
<1>8. \A n \in 0 .. N : \A u : At(n, u) => u \in Q[n]
  BY <1>6 DEF At, Works, Queries
<1>9. PICK g : g = [n \in 1 .. N |-> [u \in Q[n-1] |-> UnrefOne(u, b, seq[n])]]
  OBVIOUS
<1>10. \A n \in 1 .. N : \A u \in Q[n-1] : /\ g[n][u] = UnrefOne(u, b, seq[n])
                                          /\ ~u.aborted /\ g[n][u] \in Q[n]
  <2> SUFFICES ASSUME NEW n \in 1 .. N, NEW u \in Q[n-1]
               PROVE  g[n][u] = UnrefOne(u, b, seq[n]) /\ ~u.aborted /\ g[n][u] \in Q[n]
    OBVIOUS
  <2>1. n - 1 \in 0 .. N /\ n \in 0 .. N
    OBVIOUS
  <2>2. At(n - 1, u)
    BY <1>7, <2>1
  <2>3. ~u.aborted /\ At(n, UnrefOne(u, b, seq[n]))
    BY <1>5, <2>2
  <2>4. g[n][u] = UnrefOne(u, b, seq[n])
    BY <1>9
  <2> QED BY <1>8, <2>1, <2>3, <2>4
<1>11. c \in Q[0]
  BY <1>4, <1>8
<1>12. \E f : f = Body(f)
  <2>1. PICK f \in [0 .. N -> Values(Q, N)] : Runs(f, N, c, g) /\ \A n \in 0 .. N : f[n] \in Q[n]
    BY <1>10, <1>11, Loops
  <2>2. ASSUME NEW n \in 0 .. N
        PROVE  f[n] = IF n = 0 THEN c ELSE IF f[n-1].aborted THEN f[n-1] ELSE UnrefOne(f[n-1], b, seq[n])
    <3>1. n # 0 => n \in 1 .. N /\ n - 1 \in 0 .. N /\ f[n-1] \in Q[n-1]
      BY <2>1
    <3>2. n # 0 => ~f[n-1].aborted /\ g[n][f[n-1]] = UnrefOne(f[n-1], b, seq[n])
      BY <1>10, <3>1
    <3> QED BY <2>1, <3>2 DEF Runs
  <2>3. f = Body(f)
    BY <2>1, <2>2
  <2> QED BY <2>3
<1>13. PICK f : f = Body(f) /\ t = f[N]
  BY <1>3, <1>12
<1>14. f[N] \in Q[N]
  <2>1. f[0] \in Q[0]
    BY <1>11, <1>13
  <2>2. ASSUME NEW n \in 1 .. N, f[n-1] \in Q[n-1] PROVE f[n] \in Q[n]
    <3>1. ~f[n-1].aborted /\ UnrefOne(f[n-1], b, seq[n]) \in Q[n]
      BY <1>10, <2>2
    <3>2. f[n] = IF f[n-1].aborted THEN f[n-1] ELSE UnrefOne(f[n-1], b, seq[n])
      BY <1>13
    <3> QED BY <3>1, <3>2
  <2> QED BY <2>1, <2>2, LoopEnds
<1>15. At(N, t)
  BY <1>7, <1>13, <1>14
<1>16. Left(N) = {}
  OBVIOUS
<1> QED BY <1>15, <1>16 DEF At

LEMMA Itself ==
  ASSUME NEW A, NEW B, NEW f \in [A -> B], NEW x
  PROVE  [f EXCEPT ![x] = f[x]] = f
OBVIOUS

LEMMA LeadsAre ==
  ASSUME NEW s, NEW b \in Browser, NEW R, Hangs(s, b, R)
  PROVE  /\ Leads(s, b) \in SUBSET Key /\ IsFiniteSet(Leads(s, b)) /\ BrowseKey[b] \notin Leads(s, b)
         /\ \A f \in s.follows[b] : f[1] = BrowseKey[b]
         /\ \A k \in Leads(s, b) : \E c \in Cname : Alias[c] = BrowseKey[b] /\ k = Target[c]
<1>1. \A f \in s.follows[b] : \E c \in Cname :
        Alias[c] = BrowseKey[b] /\ f = <<Alias[c], Target[c]>> /\ Target[c] \in Key
  BY Consts DEF Hangs
<1>2. \A f \in s.follows[b] : f[1] = BrowseKey[b]
  BY <1>1
<1>3. \A k \in Leads(s, b) : \E c \in Cname : Alias[c] = BrowseKey[b] /\ k = Target[c] /\ k \in Key
  BY <1>1 DEF Leads
<1>4. Leads(s, b) \in SUBSET Key
  BY <1>3
<1>5. IsFiniteSet(Leads(s, b))
  BY <1>4, LookupAssumption, FS_Subset
<1>6. BrowseKey[b] \notin Leads(s, b)
  BY <1>3, Consts
<1> QED BY <1>2, <1>3, <1>4, <1>5, <1>6

LEMMA UnrefFirst ==
  ASSUME NEW s, Queries(s), NEW b \in Browser, NEW R, Hangs(s, b, R), NEW t, t = Unref(s, b, BrowseKey[b])
  PROVE  t = Unrefs(UnrefOne(WithBrowser(s, b, s.br[b], s.ref[b], {}, s.told[b]), b, BrowseKey[b]),
                    b, SetToSeq(Leads(s, b)))
<1>1. s \in LookupState
  BY DEF Queries
<1>2. PICK k : k = BrowseKey[b]
  OBVIOUS
<1>3. s.ref[b][k] = 1
  BY <1>2, Consts DEF Hangs
<1>4. \A f \in s.follows[b] : f[1] = k
  BY <1>2, LeadsAre
<1>5. PICK a : a = WithBrowser(s, b, s.br[b], s.ref[b], {}, s.told[b])
  OBVIOUS
<1>6. /\ s.br = [s.br EXCEPT ![b] = s.br[b]] /\ s.ref = [s.ref EXCEPT ![b] = s.ref[b]]
      /\ s.told = [s.told EXCEPT ![b] = s.told[b]]
  BY <1>1 DEF LookupState
<1>7. [s EXCEPT !.follows[b] = {f \in s.follows[b] : ~(s.ref[b][k] = 1 /\ f[1] = k)}] = a
  <2>1. {f \in s.follows[b] : ~(s.ref[b][k] = 1 /\ f[1] = k)} = {}
    BY <1>3, <1>4
  <2>2. [s EXCEPT !.follows[b] = {}] = a
    BY <1>1, <1>5, <1>6 DEF WithBrowser, LookupState
  <2> QED BY <2>1, <2>2
<1>8. {f[2] : f \in {f \in s.follows[b] : s.ref[b][k] = 1 /\ f[1] = k}} = Leads(s, b)
  BY <1>3, <1>4 DEF Leads
<1> QED BY <1>2, <1>5, <1>7, <1>8 DEF Unref, Unrefs

LEMMA CancelIs ==
  ASSUME NEW s, Queries(s), ~s.aborted, NEW b \in Browser, Rooted(s, b), NEW t, t = Cancel(s, b)
  PROVE  /\ Works(s, t, b) /\ Serves(s, t) /\ SameRun(s, t) /\ Bare(t, b)
         /\ t.br[b] = s.br[b] /\ t.told[b] = s.told[b]
<1>1. PICK k \in Key : k = BrowseKey[b]
  BY Consts
<1>2. s \in LookupState
  BY DEF Queries
<1>3. CASE s.br[b] # "live"
  <2>1. Bare(s, b)
    BY <1>3 DEF Rooted
  <2>2. t = s
    BY <1>1, <2>1 DEF Cancel, Bare
  <2> QED BY <2>1, <2>2 DEF Works, Beside, Serves, SameCache, SameRun
<1>4. CASE s.br[b] = "live"
  <2>1. Hangs(s, b, {k})
    BY <1>1, <1>4 DEF Rooted
  <2>2. PICK L : L = Leads(s, b)
    OBVIOUS
  <2>3. L \in SUBSET Key /\ IsFiniteSet(L) /\ k \notin L
    BY <1>1, <2>1, <2>2, LeadsAre
  <2>4. /\ s.started[b] = {k} \union L
        /\ \A x \in Key : s.ref[b][x] = IF x = k \/ x \in L THEN 1 ELSE 0
    BY <1>1, <2>1, <2>2 DEF Hangs
  <2>5. s.ref[b][k] = 1
    BY <1>1, <2>4
  <2>6. PICK a : a = WithBrowser(s, b, s.br[b], s.ref[b], {}, s.told[b])
    OBVIOUS
  <2>7. PICK c : c = UnrefOne(a, b, k)
    OBVIOUS
  <2>8. PICK seq : seq = SetToSeq(L)
    OBVIOUS
  <2>9. t = Unrefs(c, b, seq)
    <3>1. t = Unref(s, b, BrowseKey[b])
      BY <1>1, <2>5 DEF Cancel
    <3> QED BY <1>1, <2>1, <2>2, <2>6, <2>7, <2>8, <3>1, UnrefFirst
  <2>10. Puts(s, a, b, s.br[b], s.ref[b], {}, s.told[b])
    <3>1. /\ s.br[b] \in Stage /\ s.ref[b] \in [Key -> Nat] /\ s.told[b] \in SUBSET Record
          /\ {} \in SUBSET (Key \X Key)
      BY <1>2, BrowserIs
    <3> QED BY <2>6, <3>1, BrowserSet
  <2>11. /\ Works(s, a, b) /\ Serves(s, a) /\ SameRun(s, a) /\ Queries(a)
         /\ a.br[b] = s.br[b] /\ a.ref[b] = s.ref[b] /\ a.follows[b] = {} /\ a.told[b] = s.told[b]
         /\ a.started[b] = s.started[b]
    BY <2>10 DEF Puts, Works
  <2>12. k \in a.started[b] /\ a.ref[b][k] = 1
    BY <2>4, <2>5, <2>11
  <2>13. /\ Works(a, c, b) /\ Serves(a, c) /\ SameRun(a, c)
         /\ c.started[b] = a.started[b] \ {k} /\ c.ref[b] = [a.ref[b] EXCEPT ![k] = 0]
         /\ c.br[b] = a.br[b] /\ c.follows[b] = a.follows[b] /\ c.told[b] = a.told[b]
    <3>1. Queries(a)
      BY <2>11
    <3> QED BY <2>7, <2>12, <3>1, UnrefIs
  <2>14. /\ Works(s, c, b) /\ Serves(s, c) /\ SameRun(s, c) /\ Queries(c) /\ ~c.aborted
         /\ c.started[b] = L
    <3>1. Works(s, c, b)
      BY <2>11, <2>13, WorksBoth
    <3>2. c.started[b] = L
      BY <2>3, <2>4, <2>11, <2>13
    <3> QED BY <2>11, <2>13, <3>1, <3>2 DEF Serves, SameRun, Works
  <2>15. \A x \in Key : c.ref[b][x] = IF x \in L THEN 1 ELSE 0
    <3>1. s.ref[b] \in [Key -> Nat]
      BY <1>2, BrowserIs
    <3> QED BY <2>3, <2>4, <2>11, <2>13, <3>1
  <2>16. \A x \in L : c.ref[b][x] = 1
    BY <2>3, <2>15
  <2>17. IsList(seq, L)
    BY <2>3, <2>8, ListIs
  <2>18. /\ Works(c, t, b) /\ Serves(c, t) /\ SameRun(c, t)
         /\ t.started[b] = {} /\ \A x \in Key : t.ref[b][x] = IF x \in L THEN 0 ELSE c.ref[b][x]
         /\ t.br[b] = c.br[b] /\ t.follows[b] = c.follows[b] /\ t.told[b] = c.told[b]
    BY <2>3, <2>9, <2>14, <2>16, <2>17, UnrefsAre
  <2>19. Works(s, t, b)
    BY <2>14, <2>18, WorksBoth
  <2>20. Bare(t, b)
    BY <2>11, <2>13, <2>15, <2>18 DEF Bare
  <2> QED BY <2>11, <2>13, <2>14, <2>18, <2>19, <2>20 DEF Serves, SameRun
<1> QED BY <1>3, <1>4

LEMMA CachedSame ==
  ASSUME NEW s, NEW t, SameCache(s, t)
  PROVE  Cached(t) = Cached(s)
BY DEF SameCache, Cached

\* An assertion that fails
LEMMA AbortIs ==
  ASSUME NEW s, Queries(s), NEW b, NEW t, t = [s EXCEPT !.aborted = TRUE]
  PROVE  Works(s, t, b) /\ Serves(s, t) /\ t.aborted /\ SameBrowsers(s, t)
<1>1. s \in LookupState
  BY DEF Queries
<1>2. /\ t \in LookupState /\ t.aborted /\ t.announcing = s.announcing /\ t.events = s.events
      /\ t.querier = s.querier /\ t.jobs = s.jobs /\ SameBrowsers(s, t) /\ SameCache(s, t)
  BY <1>1 DEF LookupState, SameBrowsers, SameCache
<1>3. Queries(t) /\ (Asked(s) => Asked(t))
  BY <1>2, QueriesStay
<1>4. \A k : Users(t, k) = Users(s, k)
  BY <1>2 DEF Users, SameBrowsers
<1>5. Serves(s, t)
  BY <1>2, <1>4 DEF Serves, Served, Counted, Idle
<1>6. Beside(s, t, b)
  BY <1>2 DEF Beside, SameBrowsers
<1> QED BY <1>2, <1>3, <1>5, <1>6 DEF Works

Retold(s, b, T) == [s EXCEPT !.told[b] = T]
LEMMA ToldSet ==
  ASSUME NEW s, Queries(s), NEW b \in Browser, NEW T \in SUBSET Record, NEW t, t = Retold(s, b, T)
  PROVE  Puts(s, t, b, s.br[b], s.ref[b], s.follows[b], T)
<1>1. s \in LookupState
  BY DEF Queries
<1>2. PICK told : told = [s.told EXCEPT ![b] = T]
  OBVIOUS
<1>3. t = [s EXCEPT !.told = told]
  BY <1>2 DEF Retold
<1>4. /\ s.br = [s.br EXCEPT ![b] = s.br[b]] /\ s.ref = [s.ref EXCEPT ![b] = s.ref[b]]
      /\ s.follows = [s.follows EXCEPT ![b] = s.follows[b]]
  BY <1>1 DEF LookupState
<1>5. WithBrowser(s, b, s.br[b], s.ref[b], s.follows[b], T)
        = [s EXCEPT !.br = s.br, !.ref = s.ref, !.follows = s.follows, !.told = told]
  BY <1>1, <1>2, <1>4 DEF WithBrowser, LookupState
<1>6. t = [s EXCEPT !.br = s.br, !.ref = s.ref, !.follows = s.follows, !.told = told]
  BY <1>1, <1>3 DEF LookupState
<1>7. t = WithBrowser(s, b, s.br[b], s.ref[b], s.follows[b], T)
  BY <1>5, <1>6
<1> QED BY <1>1, <1>7, BrowserIs, BrowserSet

Of(s, k) == {r \in DOMAIN KeyOf : KeyOf[r] = k /\ r \in Cached(s)}
LEMMA TellIs ==
  ASSUME NEW s, Queries(s), NEW b \in Browser, NEW k, NEW t, t = Tell(s, b, k)
  PROVE  Puts(s, t, b, s.br[b], s.ref[b], s.follows[b], s.told[b] \union Of(s, k))
<1>1. s \in LookupState
  BY DEF Queries
<1>2. {r \in Cached(s) \ Cname : KeyOf[r] = k} = Of(s, k)
  BY Consts DEF Of, Cached
<1>3. PICK T : T = s.told[b] \union Of(s, k)
  OBVIOUS
<1>4. T \in SUBSET Record
  <2>1. s.told[b] \in SUBSET Record
    BY <1>1, BrowserIs
  <2> QED BY <1>3, <2>1, Consts DEF Of
<1>5. t = Retold(s, b, T)
  BY <1>2, <1>3 DEF Tell, Retold
<1>6. Puts(s, t, b, s.br[b], s.ref[b], s.follows[b], T)
  BY <1>4, <1>5, ToldSet
<1> QED BY <1>3, <1>6

\* The lookups of b as they are while its own starts (R is empty) and after.
Shows(s, b) == s.told[b] = {r \in DOMAIN KeyOf :
                              (KeyOf[r] \in s.started[b] \/ KeyOf[r] = BrowseKey[b]) /\ r \in Cached(s)}
Grows(s, b, R) == Hangs(s, b, R) /\ Shows(s, b)

\* The new lookup of a name that an alias leads to
LEMMA FollowIs ==
  ASSUME NEW s, Queries(s), ~s.aborted, Served(s), NEW b \in Browser,
         NEW c \in Cname, Alias[c] = BrowseKey[b],
         NEW R \in SUBSET {BrowseKey[b]}, Grows(s, b, R), NEW t, t = Follow(s, b, c)
  PROVE  Works(s, t, b) /\ Served(t) /\ t.br[b] = s.br[b] /\ (~t.aborted => Grows(t, b, R))
<1>1. s \in LookupState
  BY DEF Queries
<1>2. PICK n \in Key : n = Target[c]
  BY Consts
<1>3. n \in Key /\ n # BrowseKey[b]
  BY <1>2, Consts
<1>4. PICK full : full = (Cardinality({k \in Key : s.ref[b][k] > 0}) >= MaxLookups)
  OBVIOUS
<1>5. CASE s.ref[b][n] = 0 /\ full
  <2>1. t = s
    BY <1>2, <1>4, <1>5 DEF Follow
  <2> QED BY <2>1 DEF Works, Beside, SameCache
<1>6. CASE ~(s.ref[b][n] = 0 /\ full)
  <2>1. PICK ref : ref = [s.ref[b] EXCEPT ![n] = s.ref[b][n] + 1]
    OBVIOUS
  <2>2. PICK fo : fo = s.follows[b] \union {<<Alias[c], n>>}
    OBVIOUS
  <2>3. /\ s.br[b] \in Stage /\ s.ref[b] \in [Key -> Nat] /\ s.follows[b] \in SUBSET (Key \X Key)
        /\ s.told[b] \in SUBSET Record
    BY <1>1, BrowserIs
  <2>4. ref \in [Key -> Nat] /\ fo \in SUBSET (Key \X Key)
    BY <1>3, <2>1, <2>2, <2>3, Consts
  <2>5. PICK a : a = WithBrowser(s, b, s.br[b], ref, fo, s.told[b])
    OBVIOUS
  <2>6. [s EXCEPT !.ref[b][n] = s.ref[b][n] + 1, !.follows[b] = s.follows[b] \union {<<Alias[c], n>>}] = a
    <3>1. s.br = [s.br EXCEPT ![b] = s.br[b]] /\ s.told = [s.told EXCEPT ![b] = s.told[b]]
      BY <1>1 DEF LookupState
    <3>2. [s.ref EXCEPT ![b][n] = s.ref[b][n] + 1] = [s.ref EXCEPT ![b] = ref]
      BY <1>1, <2>1 DEF LookupState
    <3> QED BY <1>1, <2>2, <2>5, <3>1, <3>2 DEF WithBrowser, LookupState
  <2>7. PICK d : d = Tell(a, b, n)
    OBVIOUS
  <2>8. t = Begin(d, b, n)
    BY <1>2, <1>4, <1>6, <2>6, <2>7 DEF Follow
  <2>9. Puts(s, a, b, s.br[b], ref, fo, s.told[b])
    BY <2>3, <2>4, <2>5, BrowserSet
  <2>10. Queries(a) /\ Cached(a) = Cached(s)
    BY <2>9, CachedSame DEF Puts, Works, Beside
  <2>11. Puts(a, d, b, a.br[b], a.ref[b], a.follows[b], a.told[b] \union Of(a, n))
    BY <2>7, <2>10, TellIs
  <2>12. /\ d.br[b] = s.br[b] /\ d.ref[b] = ref /\ d.follows[b] = fo
         /\ d.told[b] = s.told[b] \union Of(s, n) /\ d.started = s.started
         /\ SameRun(s, d) /\ Queries(d)
    BY <2>9, <2>10, <2>11 DEF Puts, SameRun, Works, Of
  <2>13. Works(s, d, b) /\ Served(d)
    BY <2>9, <2>11, WorksBoth DEF Puts, Serves
  <2>14. CASE n \in s.started[b]
    <3>1. t = [d EXCEPT !.aborted = TRUE]
      BY <2>8, <2>12, <2>14 DEF Begin
    <3>2. Works(d, t, b) /\ Serves(d, t) /\ t.aborted /\ SameBrowsers(d, t)
      BY <2>12, <3>1, AbortIs
    <3>3. Works(s, t, b)
      BY <2>13, <3>2, WorksBoth
    <3> QED BY <2>12, <2>13, <3>2, <3>3 DEF Serves, SameBrowsers
  <2>15. CASE n \notin s.started[b]
    <3>1. t = LookupNew(d, b, n) /\ n \notin d.started[b]
      BY <2>8, <2>12, <2>15 DEF Begin
    <3>2. Alters(d, t, b, d.started[b] \union {n}) /\ Served(t)
      BY <1>3, <2>12, <2>13, <3>1, StartIs
    <3>3. Works(d, t, b)
      BY <3>2 DEF Works, Alters, Beside, SameRun
    <3>4. Works(s, t, b)
      BY <2>13, <3>3, WorksBoth
    <3>5. /\ t.started[b] = s.started[b] \union {n} /\ t.br[b] = s.br[b] /\ t.ref[b] = ref
          /\ t.follows[b] = fo /\ t.told[b] = s.told[b] \union Of(s, n)
      BY <2>12, <3>2 DEF Alters
    <3>6. Cached(t) = Cached(s)
      BY <3>4, CachedSame DEF Works, Beside
    <3>7. Leads(t, b) = Leads(s, b) \union {n}
      <4>1. \A k : k \in Leads(t, b) <=> \E f \in fo : k = f[2]
        BY <3>5 DEF Leads
      <4>2. \A k : k \in Leads(s, b) <=> \E f \in s.follows[b] : k = f[2]
        BY DEF Leads
      <4>3. \A k : (\E f \in fo : k = f[2]) <=> (\E f \in s.follows[b] : k = f[2]) \/ k = n
        <5>1. <<Alias[c], n>>[2] = n
          OBVIOUS
        <5>2. \A f : f \in fo <=> f \in s.follows[b] \/ f = <<Alias[c], n>>
          BY <2>2
        <5> QED BY <5>1, <5>2
      <4> QED BY <4>1, <4>2, <4>3
    <3>8. s.ref[b][n] = 0
      BY <1>3, <2>15 DEF Grows, Hangs
    <3>9. \A k \in Key : t.ref[b][k] = IF k = BrowseKey[b] \/ k \in Leads(t, b) THEN 1 ELSE 0
      <4> SUFFICES ASSUME NEW k \in Key
                   PROVE  t.ref[b][k] = IF k = BrowseKey[b] \/ k \in Leads(t, b) THEN 1 ELSE 0
        OBVIOUS
      <4>1. s.ref[b][k] = IF k = BrowseKey[b] \/ k \in Leads(s, b) THEN 1 ELSE 0
        BY DEF Grows, Hangs
      <4>2. CASE k = n
        BY <1>3, <2>1, <2>3, <3>5, <3>7, <3>8, <4>2
      <4>3. CASE k # n
        BY <2>1, <2>3, <3>5, <3>7, <4>1, <4>3
      <4> QED BY <4>2, <4>3
    <3>10. Hangs(t, b, R)
      <4>1. \A f \in fo : \E e \in Cname : Alias[e] = BrowseKey[b] /\ f = <<Alias[e], Target[e]>>
        BY <1>2, <2>2 DEF Grows, Hangs
      <4>2. t.started[b] = R \union Leads(t, b)
        BY <3>5, <3>7 DEF Grows, Hangs
      <4> QED BY <3>5, <3>9, <4>1, <4>2 DEF Hangs
    <3>11. Shows(t, b)
      <4>1. \A r : r \in s.told[b] <=> /\ r \in DOMAIN KeyOf /\ r \in Cached(s)
                                       /\ KeyOf[r] \in s.started[b] \/ KeyOf[r] = BrowseKey[b]
        BY DEF Grows, Shows
      <4>2. \A r : r \in t.told[b] <=> r \in s.told[b] \/ r \in Of(s, n)
        BY <3>5
      <4>3. t.told[b] = {r \in DOMAIN KeyOf : (KeyOf[r] \in s.started[b] \union {n} \/ KeyOf[r] = BrowseKey[b])
                                              /\ r \in Cached(s)}
        BY <4>1, <4>2 DEF Of
      <4> QED BY <3>5, <3>6, <4>3 DEF Shows
    <3> QED BY <3>2, <3>4, <3>5, <3>10, <3>11 DEF Grows
  <2> QED BY <2>14, <2>15
<1> QED BY <1>5, <1>6

Follows(s, b, seq) == Along(s, seq, LAMBDA u, c : Follow(u, b, c))
LEMMA FollowsAre ==
  ASSUME NEW a, Queries(a), Served(a), NEW b \in Browser, Grows(a, b, {}),
         NEW S \in SUBSET Cname, \A c \in S : Alias[c] = BrowseKey[b], NEW seq, IsList(seq, S),
         NEW t, t = Follows(a, b, seq)
  PROVE  Works(a, t, b) /\ Served(t) /\ t.br[b] = a.br[b] /\ (~t.aborted => Grows(t, b, {}))
<1>1. PICK N : N = Len(seq) /\ N \in Nat
  BY DEF IsList
<1> N \in Nat
  BY <1>1
<1>2. \A i \in 1 .. N : seq[i] \in S
  BY <1>1 DEF IsList
<1> DEFINE At(n, u) == /\ Works(a, u, b) /\ Served(u) /\ u.br[b] = a.br[b]
                       /\ ~u.aborted => Grows(u, b, {})
           Turn(u, n) == IF u.aborted THEN u ELSE Follow(u, b, seq[n])
           Body(f) == [n \in 0 .. N |-> IF n = 0 THEN a ELSE Turn(f[n-1], n)]
<1>3. t = (CHOOSE f : f = Body(f))[N]
  BY <1>1 DEF Follows, Along
<1>4. At(0, a)
  BY DEF Works, Beside, SameCache
<1>5. ASSUME NEW n \in 1 .. N, NEW u, At(n - 1, u)
      PROVE  At(n, Turn(u, n))
  <2>1. CASE u.aborted
    BY <1>5, <2>1
  <2>2. CASE ~u.aborted
    <3>1. PICK c \in Cname : c = seq[n] /\ Alias[c] = BrowseKey[b]
      BY <1>2
    <3>2. PICK v : v = Follow(u, b, c)
      OBVIOUS
    <3>3. Queries(u) /\ Served(u) /\ Grows(u, b, {}) /\ {} \in SUBSET {BrowseKey[b]}
      BY <1>5, <2>2 DEF Works
    <3>4. Works(u, v, b) /\ Served(v) /\ v.br[b] = u.br[b] /\ (~v.aborted => Grows(v, b, {}))
      <4> HIDE DEF At, Turn, Body
      <4> QED BY <2>2, <3>1, <3>2, <3>3, FollowIs
    <3>5. Works(a, v, b)
      BY <1>5, <3>4, WorksBoth
    <3> QED BY <1>5, <2>2, <3>1, <3>2, <3>4, <3>5
  <2> QED BY <2>1, <2>2
<1> HIDE DEF Turn
<1> HIDE DEF At
<1>6. PICK Q : Q = [n \in 0 .. N |-> {u \in LookupState : At(n, u)}]
  OBVIOUS
<1>7. \A n \in 0 .. N : \A u \in Q[n] : At(n, u)
  BY <1>6
<1>8. \A n \in 0 .. N : \A u : At(n, u) => u \in Q[n]
  BY <1>6 DEF At, Works, Queries
<1>9. PICK g : g = [n \in 1 .. N |-> [u \in Q[n-1] |-> Turn(u, n)]]
  OBVIOUS
<1>10. \A n \in 1 .. N : \A u \in Q[n-1] : g[n][u] = Turn(u, n) /\ g[n][u] \in Q[n]
  <2> SUFFICES ASSUME NEW n \in 1 .. N, NEW u \in Q[n-1]
               PROVE  g[n][u] = Turn(u, n) /\ g[n][u] \in Q[n]
    OBVIOUS
  <2>1. n - 1 \in 0 .. N /\ n \in 0 .. N
    OBVIOUS
  <2>2. At(n, Turn(u, n))
    BY <1>5, <1>7, <2>1
  <2>3. g[n][u] = Turn(u, n)
    BY <1>9
  <2> QED BY <1>8, <2>1, <2>2, <2>3
<1>11. a \in Q[0]
  BY <1>4, <1>8
<1>12. PICK f : f = Body(f) /\ t = f[N]
  <2>1. PICK f \in [0 .. N -> Values(Q, N)] : Runs(f, N, a, g) /\ \A n \in 0 .. N : f[n] \in Q[n]
    BY <1>10, <1>11, Loops
  <2>2. ASSUME NEW n \in 0 .. N
        PROVE  f[n] = IF n = 0 THEN a ELSE Turn(f[n-1], n)
    <3>1. n # 0 => n \in 1 .. N /\ n - 1 \in 0 .. N /\ f[n-1] \in Q[n-1]
      BY <2>1
    <3>2. n # 0 => g[n][f[n-1]] = Turn(f[n-1], n)
      BY <1>10, <3>1
    <3> QED BY <2>1, <3>2 DEF Runs
  <2>3. f = Body(f)
    BY <2>1, <2>2
  <2>4. \E h : h = Body(h)
    BY <2>3
  <2> QED BY <1>3, <2>4
<1>13. At(N, t)
  <2>1. f[0] \in Q[0]
    BY <1>11, <1>12
  <2>2. ASSUME NEW n \in 1 .. N, f[n-1] \in Q[n-1] PROVE f[n] \in Q[n]
    <3>1. g[n][f[n-1]] = Turn(f[n-1], n) /\ g[n][f[n-1]] \in Q[n]
      BY <1>10, <2>2
    <3>2. f[n] = Turn(f[n-1], n)
      BY <1>12
    <3> QED BY <3>1, <3>2
  <2>3. f[N] \in Q[N]
    BY <2>1, <2>2, LoopEnds
  <2> QED BY <1>7, <1>12, <2>3
<1> QED BY <1>13 DEF At

\* The lookup of the browser's own name: what the cache has of it is told and
\* followed first.
LEMMA GoIs ==
  ASSUME NEW s, Queries(s), ~s.aborted, Served(s), NEW b \in Browser,
         s.started[b] = {}, s.follows[b] = {}, s.told[b] = {},
         \A k \in Key : s.ref[b][k] = IF k = BrowseKey[b] THEN 1 ELSE 0,
         NEW t, t = Go(s, b, BrowseKey[b])
  PROVE  Works(s, t, b) /\ Served(t) /\ t.br[b] = s.br[b] /\ (~t.aborted => Grows(t, b, {BrowseKey[b]}))
<1>1. PICK k \in Key : k = BrowseKey[b]
  BY Consts
<1>2. PICK S : S = {c \in Cached(s) \intersect Cname : Alias[c] = k}
  OBVIOUS
<1>3. S \in SUBSET Cname /\ S \in SUBSET Record /\ \A c \in S : Alias[c] = BrowseKey[b]
  BY <1>1, <1>2 DEF Cached
<1>4. IsList(SetToSeq(S), S)
  <2>1. IsFiniteSet(S)
    BY <1>3, LookupAssumption, FS_Subset
  <2> QED BY <2>1, ListIs
<1>5. PICK a : a = Tell(s, b, k)
  OBVIOUS
<1>6. PICK d : d = Follows(a, b, SetToSeq(S))
  OBVIOUS
<1>7. t = IF d.aborted THEN d ELSE Begin(d, b, k)
  BY <1>1, <1>2, <1>5, <1>6 DEF Go, Follows
<1>8. Puts(s, a, b, s.br[b], s.ref[b], s.follows[b], s.told[b] \union Of(s, k))
  BY <1>5, TellIs
<1>9. /\ Works(s, a, b) /\ Served(a) /\ Queries(a) /\ a.br[b] = s.br[b]
      /\ a.started[b] = {} /\ a.follows[b] = {} /\ a.ref[b] = s.ref[b] /\ a.told[b] = Of(s, k)
      /\ Cached(a) = Cached(s)
  BY <1>8, CachedSame DEF Puts, Works, Serves, Beside
<1>10. Grows(a, b, {})
  BY <1>1, <1>9 DEF Grows, Hangs, Shows, Leads, Of
<1>11. Works(a, d, b) /\ Served(d) /\ d.br[b] = a.br[b] /\ (~d.aborted => Grows(d, b, {}))
  BY <1>3, <1>4, <1>6, <1>9, <1>10, FollowsAre
<1>12. Works(s, d, b) /\ Queries(d) /\ d.br[b] = s.br[b]
  BY <1>9, <1>11, WorksBoth DEF Works
<1>13. CASE d.aborted
  BY <1>7, <1>11, <1>12, <1>13
<1>14. CASE ~d.aborted
  <2>1. Grows(d, b, {})
    BY <1>11, <1>14
  <2>2. k \notin d.started[b]
    BY <1>1, <2>1, LeadsAre DEF Grows, Hangs
  <2>3. t = LookupNew(d, b, k)
    BY <1>7, <1>14, <2>2 DEF Begin
  <2>4. Alters(d, t, b, d.started[b] \union {k}) /\ Served(t)
    BY <1>11, <1>12, <2>2, <2>3, StartIs
  <2>5. Works(d, t, b)
    BY <2>4 DEF Works, Alters, Beside, SameRun
  <2>6. Works(s, t, b)
    BY <1>12, <2>5, WorksBoth
  <2>7. Cached(t) = Cached(d)
    BY <2>5, CachedSame DEF Works, Beside
  <2>8. /\ t.started[b] = d.started[b] \union {k} /\ t.br[b] = d.br[b] /\ t.ref[b] = d.ref[b]
        /\ t.follows[b] = d.follows[b] /\ t.told[b] = d.told[b] /\ Leads(t, b) = Leads(d, b)
    BY <2>4 DEF Alters, Leads
  <2>9. Hangs(t, b, {k})
    BY <2>1, <2>8 DEF Grows, Hangs
  <2>10. Shows(t, b)
    BY <1>1, <2>1, <2>7, <2>8 DEF Grows, Shows
  <2> QED BY <1>1, <1>12, <2>4, <2>6, <2>8, <2>9, <2>10 DEF Grows
<1> QED BY <1>13, <1>14

-------------------------------------------------------------------------------
(* What browsers are told of a record that comes or goes.                     *)

LEMMA OthersStay ==
  ASSUME NEW s, NEW t, NEW b, Beside(s, t, b), NEW x \in Browser, x # b
  PROVE  Rooted(t, x) = Rooted(s, x) /\ \A C : ToldOf(t, x, C) = ToldOf(s, x, C)
<1>1. /\ t.br[x] = s.br[x] /\ t.ref[x] = s.ref[x] /\ t.started[x] = s.started[x]
      /\ t.follows[x] = s.follows[x] /\ t.told[x] = s.told[x]
  BY DEF Beside
<1>2. Leads(t, x) = Leads(s, x)
  BY <1>1 DEF Leads
<1>3. Rooted(t, x) = Rooted(s, x)
  BY <1>1, <1>2 DEF Rooted, Hangs, Bare
<1>4. \A C : ToldOf(t, x, C) = ToldOf(s, x, C)
  BY <1>1 DEF ToldOf
<1> QED BY <1>3, <1>4

LEMMA FoundIs ==
  ASSUME NEW s, Queries(s), ~s.aborted, Served(s), NEW b \in Browser, NEW r \in Cached(s),
         Rooted(s, b), ToldOf(s, b, Cached(s) \ {r}), NEW t, t = Found(s, b, r)
  PROVE  Works(s, t, b) /\ Served(t) /\ (~t.aborted => Rooted(t, b) /\ ToldOf(t, b, Cached(t)))
<1>1. s \in LookupState /\ r \in Record
  BY DEF Queries, Cached
<1>2. CASE Heard(r) \notin s.started[b]
  <2>1. t = s
    BY <1>2 DEF Found
  <2>2. r \in DOMAIN KeyOf => KeyOf[r] \notin s.started[b]
    BY <1>2, Consts DEF Heard
  <2>3. ToldOf(t, b, Cached(t))
    BY <2>1, <2>2 DEF ToldOf
  <2> QED BY <2>1, <2>3 DEF Works, Beside, SameCache
<1>3. CASE Heard(r) \in s.started[b] /\ r \in Cname
  <2>1. t = Follow(s, b, r) /\ Heard(r) = Alias[r] /\ r \notin DOMAIN KeyOf
    BY <1>3, Consts DEF Found, Heard
  <2>2. s.br[b] = "live" /\ Hangs(s, b, {BrowseKey[b]})
    BY <1>3 DEF Rooted, Bare
  <2>3. Alias[r] = BrowseKey[b]
    <3>1. Alias[r] \in {BrowseKey[b]} \union Leads(s, b)
      BY <1>3, <2>1, <2>2 DEF Hangs
    <3>2. Alias[r] \notin Leads(s, b)
      <4>1. \A k \in Leads(s, b) : \E c \in Cname : Alias[c] = BrowseKey[b] /\ k = Target[c]
        BY <2>2, LeadsAre
      <4> QED BY <1>3, <4>1, Consts
    <3> QED BY <3>1, <3>2
  <2>4. Grows(s, b, {BrowseKey[b]})
    <3>1. BrowseKey[b] \in s.started[b]
      BY <2>2 DEF Hangs
    <3>2. Shows(s, b)
      BY <2>1, <3>1 DEF Shows, ToldOf
    <3> QED BY <2>2, <3>2 DEF Grows
  <2>5. /\ Works(s, t, b) /\ Served(t) /\ t.br[b] = s.br[b]
        /\ ~t.aborted => Grows(t, b, {BrowseKey[b]})
    <3>1. {BrowseKey[b]} \in SUBSET {BrowseKey[b]}
      OBVIOUS
    <3> QED BY <1>3, <2>1, <2>3, <2>4, <3>1, FollowIs
  <2>6. ASSUME Grows(t, b, {BrowseKey[b]})
        PROVE  Rooted(t, b) /\ ToldOf(t, b, Cached(t))
    <3>1. BrowseKey[b] \in t.started[b]
      BY <2>6 DEF Grows, Hangs
    <3> QED BY <2>2, <2>5, <2>6, <3>1 DEF Rooted, Grows, Shows, ToldOf
  <2> QED BY <2>5, <2>6
<1>4. CASE Heard(r) \in s.started[b] /\ r \notin Cname
  <2>1. r \in DOMAIN KeyOf /\ KeyOf[r] \in s.started[b]
    BY <1>1, <1>4, Consts DEF Heard
  <2>2. PICK T : T = s.told[b] \union {r}
    OBVIOUS
  <2>3. T \in SUBSET Record
    BY <1>1, <2>2, BrowserIs
  <2>4. t = Retold(s, b, T)
    BY <1>4, <2>2 DEF Found, Retold
  <2>5. Puts(s, t, b, s.br[b], s.ref[b], s.follows[b], T)
    BY <2>3, <2>4, ToldSet
  <2>6. /\ Works(s, t, b) /\ Served(t) /\ t.br[b] = s.br[b] /\ t.ref[b] = s.ref[b] /\ t.told[b] = T
        /\ t.follows[b] = s.follows[b] /\ t.started[b] = s.started[b] /\ Cached(t) = Cached(s)
    BY <2>5, CachedSame DEF Puts, Serves, Works, Beside
  <2>7. Rooted(t, b)
    BY <2>6 DEF Rooted, Hangs, Bare, Leads
  <2>8. ToldOf(t, b, Cached(t))
    BY <2>1, <2>2, <2>6 DEF ToldOf
  <2> QED BY <2>6, <2>7, <2>8
<1> QED BY <1>2, <1>3, <1>4

LEMMA RestartIs ==
  ASSUME NEW s, Queries(s), ~s.aborted, NEW b \in Browser, Rooted(s, b), NEW st \in Stage \ {"live"},
         NEW t, t = [Cancel(s, b) EXCEPT !.br[b] = st, !.told[b] = {}]
  PROVE  /\ Works(s, t, b) /\ Serves(s, t) /\ SameRun(s, t)
         /\ Rooted(t, b) /\ \A C : ToldOf(t, b, C)
<1>1. PICK c : c = Cancel(s, b)
  OBVIOUS
<1>2. /\ Works(s, c, b) /\ Serves(s, c) /\ SameRun(s, c) /\ Bare(c, b)
      /\ c.br[b] = s.br[b] /\ c.told[b] = s.told[b]
  BY <1>1, CancelIs
<1>3. Queries(c) /\ c \in LookupState
  BY <1>2 DEF Works, Queries
<1>4. t = WithBrowser(c, b, st, c.ref[b], c.follows[b], {})
  <2>1. c.ref = [c.ref EXCEPT ![b] = c.ref[b]] /\ c.follows = [c.follows EXCEPT ![b] = c.follows[b]]
    BY <1>3 DEF LookupState
  <2>2. PICK br : br = [c.br EXCEPT ![b] = st]
    OBVIOUS
  <2>3. PICK told : told = [c.told EXCEPT ![b] = {}]
    OBVIOUS
  <2>4. WithBrowser(c, b, st, c.ref[b], c.follows[b], {})
          = [c EXCEPT !.br = br, !.ref = c.ref, !.follows = c.follows, !.told = told]
    BY <1>3, <2>1, <2>2, <2>3 DEF WithBrowser, LookupState
  <2>5. t = [c EXCEPT !.br = br, !.ref = c.ref, !.follows = c.follows, !.told = told]
    BY <1>1, <1>3, <2>2, <2>3 DEF LookupState
  <2> QED BY <2>4, <2>5
<1>5. Puts(c, t, b, st, c.ref[b], c.follows[b], {})
  <2>1. c.ref[b] \in [Key -> Nat] /\ c.follows[b] \in SUBSET (Key \X Key) /\ {} \in SUBSET Record /\ st \in Stage
    BY <1>3, BrowserIs
  <2> QED BY <1>3, <1>4, <2>1, BrowserSet
<1>6. Works(s, t, b) /\ Serves(s, t) /\ SameRun(s, t)
  <2>1. Works(s, t, b)
    BY <1>2, <1>5, WorksBoth DEF Puts
  <2> QED BY <1>2, <1>5, <2>1 DEF Puts, Serves, SameRun
<1>7. t.br[b] # "live" /\ Bare(t, b) /\ t.told[b] = {}
  BY <1>2, <1>5 DEF Puts, Bare
<1> QED BY <1>6, <1>7 DEF Rooted, Bare, ToldOf

LEMMA RemovedIs ==
  ASSUME NEW s, Queries(s), ~s.aborted, NEW b \in Browser, NEW r \in Record, r \notin Cached(s),
         Rooted(s, b), ToldOf(s, b, Cached(s) \union {r}), NEW t, t = Removed(s, b, r)
  PROVE  Works(s, t, b) /\ Serves(s, t) /\ (~t.aborted => Rooted(t, b) /\ ToldOf(t, b, Cached(t)))
<1>1. s \in LookupState
  BY DEF Queries
<1>2. CASE t = s /\ ~(r \in DOMAIN KeyOf /\ KeyOf[r] \in s.started[b])
  <2>1. ToldOf(t, b, Cached(t))
    BY <1>2 DEF ToldOf
  <2> QED BY <1>2, <2>1 DEF Works, Beside, Serves, SameCache
<1>3. CASE Heard(r) \notin s.started[b] \/ r \in Cname
  <2>1. t = s
    BY <1>3 DEF Removed, DropCname, LookupFlags, DropFlags
  <2>2. ~(r \in DOMAIN KeyOf /\ KeyOf[r] \in s.started[b])
    BY <1>3, Consts DEF Heard
  <2> QED BY <1>2, <2>1, <2>2
<1>4. CASE ~(Heard(r) \notin s.started[b] \/ r \in Cname)
  <2>1. CASE KeyOf[r] # BrowseKey[b]
    <3>1. t = [s EXCEPT !.aborted = TRUE]
      BY <1>4, <2>1 DEF Removed
    <3> QED BY <3>1, AbortIs
  <2>2. CASE KeyOf[r] = BrowseKey[b] /\ b \in Restarting /\ r \in s.told[b]
    <3>1. t = [Cancel(s, b) EXCEPT !.br[b] = "deferred", !.told[b] = {}]
      BY <1>4, <2>2 DEF Removed, Restart
    <3>2. "deferred" \in Stage \ {"live"}
      BY DEF Stage
    <3> QED BY <3>1, <3>2, RestartIs
  <2>3. CASE KeyOf[r] = BrowseKey[b] /\ ~(b \in Restarting /\ r \in s.told[b])
    <3>1. PICK T : T = s.told[b] \ {r}
      OBVIOUS
    <3>2. T \in SUBSET Record
      BY <1>1, <3>1, BrowserIs
    <3>3. t = Retold(s, b, T)
      BY <1>4, <2>3, <3>1 DEF Removed, Retold
    <3>4. Puts(s, t, b, s.br[b], s.ref[b], s.follows[b], T)
      BY <3>2, <3>3, ToldSet
    <3>5. /\ Works(s, t, b) /\ Serves(s, t) /\ t.br[b] = s.br[b] /\ t.ref[b] = s.ref[b] /\ t.told[b] = T
          /\ t.follows[b] = s.follows[b] /\ t.started[b] = s.started[b] /\ Cached(t) = Cached(s)
      BY <3>4, CachedSame DEF Puts, Works, Beside
    <3>6. Rooted(t, b)
      BY <3>5 DEF Rooted, Hangs, Bare, Leads
    <3>7. ToldOf(t, b, Cached(t))
      BY <3>1, <3>5 DEF ToldOf
    <3> QED BY <3>5, <3>6, <3>7
  <2> QED BY <2>1, <2>2, <2>3
<1> QED BY <1>3, <1>4

Tells(s) == \A b \in Browser : Rooted(s, b) /\ ToldOf(s, b, Cached(s))
\* What telling the browsers leaves alone
Goes(s, t) ==
    /\ Queries(t) /\ (Asked(s) => Asked(t)) /\ SameCache(s, t)
    /\ t.announcing = s.announcing /\ t.events = s.events

NotifyFound(s, r) == Notify(s, r, Found)
LEMMA AllFound ==
  ASSUME NEW a, Queries(a), Served(a), NEW r \in Cached(a),
         \A b \in Browser : Rooted(a, b) /\ ToldOf(a, b, Cached(a) \ {r}),
         NEW t, t = NotifyFound(a, r)
  PROVE  Goes(a, t) /\ Served(t) /\ (~t.aborted => Tells(t))
<1>1. PICK seq : seq = SetToSeq(Browser)
  OBVIOUS
<1>2. PICK N : N = Len(seq) /\ N \in Nat
  BY <1>1, LookupAssumption, ListIs DEF IsList
<1> N \in Nat
  BY <1>2
<1>3. /\ \A i \in 1 .. N : seq[i] \in Browser
      /\ \A i, j \in 1 .. N : seq[i] = seq[j] => i = j
      /\ \A b \in Browser : \E i \in 1 .. N : seq[i] = b
  <2>1. IsList(seq, Browser)
    BY <1>1, LookupAssumption, ListIs
  <2> QED BY <1>2, <2>1 DEF IsList
<1> DEFINE At(n, u) ==
               /\ Goes(a, u) /\ Served(u)
               /\ ~u.aborted => /\ \A b \in Browser : Rooted(u, b)
                                /\ \A i \in 1 .. N : ToldOf(u, seq[i], IF i <= n THEN Cached(a) ELSE Cached(a) \ {r})
           Turn(u, n) == IF u.aborted THEN u ELSE Found(u, seq[n], r)
           Body(f) == [n \in 0 .. N |-> IF n = 0 THEN a ELSE Turn(f[n-1], n)]
<1>4. t = (CHOOSE f : f = Body(f))[N]
  BY <1>1, <1>2 DEF NotifyFound, Notify, Along
<1>5. At(0, a)
  <2>1. \A i \in 1 .. N : ~(i <= 0)
    OBVIOUS
  <2> QED BY <1>3, <2>1 DEF Goes, SameCache, Serves
<1>6. ASSUME NEW n \in 1 .. N, NEW u, At(n - 1, u)
      PROVE  At(n, Turn(u, n))
  <2>1. CASE u.aborted
    BY <1>6, <2>1
  <2>2. CASE ~u.aborted
    <3>1. PICK b \in Browser : b = seq[n]
      BY <1>3
    <3>2. PICK v : v = Found(u, b, r)
      OBVIOUS
    <3>3. Goes(a, u) /\ Queries(u) /\ Served(u) /\ Cached(u) = Cached(a)
      BY <1>6, CachedSame DEF Goes
    <3>4. Rooted(u, b) /\ ToldOf(u, b, Cached(u) \ {r})
      <4>1. ~(n <= n - 1)
        OBVIOUS
      <4> QED BY <1>6, <2>2, <3>1, <3>3, <4>1
    <3>5. Works(u, v, b) /\ Served(v) /\ (~v.aborted => Rooted(v, b) /\ ToldOf(v, b, Cached(v)))
      <4> HIDE DEF At, Turn, Body
      <4>1. b \in Browser /\ Queries(u) /\ ~u.aborted
        BY <2>2, <3>1, <3>3
      <4> QED BY <3>2, <3>3, <3>4, <4>1, FoundIs
    <3>6. Goes(a, v) /\ Cached(v) = Cached(a)
      <4>1. Goes(a, v)
        BY <3>3, <3>5 DEF Goes, Works, Beside, SameCache
      <4> QED BY <4>1, CachedSame DEF Goes
    <3>7. Served(v)
      BY <3>3, <3>5 DEF Serves
    <3>8. ASSUME ~v.aborted, NEW x \in Browser PROVE Rooted(v, x)
      <4>1. CASE x = b
        BY <3>5, <3>8, <4>1
      <4>2. CASE x # b
        BY <1>6, <2>2, <3>5, <4>2, OthersStay DEF Works
      <4> QED BY <4>1, <4>2
    <3>9. ASSUME ~v.aborted, NEW i \in 1 .. N
          PROVE  ToldOf(v, seq[i], IF i <= n THEN Cached(a) ELSE Cached(a) \ {r})
      <4>1. CASE i = n
        BY <3>1, <3>5, <3>6, <3>9, <4>1
      <4>2. CASE i # n
        <5>1. seq[i] \in Browser /\ seq[i] # b
          BY <1>3, <3>1, <4>2
        <5>2. (i <= n) = (i <= n - 1)
          BY <4>2
        <5>3. ToldOf(u, seq[i], IF i <= n THEN Cached(a) ELSE Cached(a) \ {r})
          BY <1>6, <2>2, <5>2
        <5>4. Beside(u, v, b)
          BY <3>5 DEF Works
        <5> HIDE DEF At, Turn, Body
        <5> QED BY <5>1, <5>3, <5>4, OthersStay
      <4> QED BY <4>1, <4>2
    <3> QED BY <2>2, <3>1, <3>2, <3>6, <3>7, <3>8, <3>9
  <2> QED BY <2>1, <2>2
<1> HIDE DEF Turn
<1> HIDE DEF At
<1>7. PICK Q : Q = [n \in 0 .. N |-> {u \in LookupState : At(n, u)}]
  OBVIOUS
<1>8. \A n \in 0 .. N : \A u \in Q[n] : At(n, u)
  BY <1>7
<1>9. \A n \in 0 .. N : \A u : At(n, u) => u \in Q[n]
  BY <1>7 DEF At, Goes, Queries
<1>10. PICK g : g = [n \in 1 .. N |-> [u \in Q[n-1] |-> Turn(u, n)]]
  OBVIOUS
<1>11. \A n \in 1 .. N : \A u \in Q[n-1] : g[n][u] = Turn(u, n) /\ g[n][u] \in Q[n]
  <2> SUFFICES ASSUME NEW n \in 1 .. N, NEW u \in Q[n-1]
               PROVE  g[n][u] = Turn(u, n) /\ g[n][u] \in Q[n]
    OBVIOUS
  <2>1. n - 1 \in 0 .. N /\ n \in 0 .. N
    OBVIOUS
  <2>2. At(n, Turn(u, n))
    BY <1>6, <1>8, <2>1
  <2>3. g[n][u] = Turn(u, n)
    BY <1>10
  <2> QED BY <1>9, <2>1, <2>2, <2>3
<1>12. a \in Q[0]
  BY <1>5, <1>9
<1>13. PICK f : f = Body(f) /\ t = f[N]
  <2>1. PICK f \in [0 .. N -> Values(Q, N)] : Runs(f, N, a, g) /\ \A n \in 0 .. N : f[n] \in Q[n]
    BY <1>11, <1>12, Loops
  <2>2. ASSUME NEW n \in 0 .. N
        PROVE  f[n] = IF n = 0 THEN a ELSE Turn(f[n-1], n)
    <3>1. n # 0 => n \in 1 .. N /\ n - 1 \in 0 .. N /\ f[n-1] \in Q[n-1]
      BY <2>1
    <3>2. n # 0 => g[n][f[n-1]] = Turn(f[n-1], n)
      BY <1>11, <3>1
    <3> QED BY <2>1, <3>2 DEF Runs
  <2>3. f = Body(f)
    BY <2>1, <2>2
  <2>4. \E h : h = Body(h)
    BY <2>3
  <2> QED BY <1>4, <2>4
<1>14. At(N, t)
  <2>1. f[0] \in Q[0]
    BY <1>12, <1>13
  <2>2. ASSUME NEW n \in 1 .. N, f[n-1] \in Q[n-1] PROVE f[n] \in Q[n]
    <3>1. g[n][f[n-1]] = Turn(f[n-1], n) /\ g[n][f[n-1]] \in Q[n]
      BY <1>11, <2>2
    <3>2. f[n] = Turn(f[n-1], n)
      BY <1>13
    <3> QED BY <3>1, <3>2
  <2>3. f[N] \in Q[N]
    BY <2>1, <2>2, LoopEnds
  <2> QED BY <1>8, <1>13, <2>3
<1>15. ASSUME ~t.aborted PROVE Tells(t)
  <2> SUFFICES ASSUME NEW b \in Browser PROVE Rooted(t, b) /\ ToldOf(t, b, Cached(t))
    BY DEF Tells
  <2>1. PICK i \in 1 .. N : seq[i] = b
    BY <1>3
  <2>2. i <= N
    BY <2>1
  <2>3. Cached(t) = Cached(a)
    BY <1>14, CachedSame DEF At, Goes
  <2> QED BY <1>14, <1>15, <2>1, <2>2, <2>3 DEF At
<1> QED BY <1>14, <1>15 DEF At

NotifyRemoved(s, r) == Notify(s, r, Removed)
LEMMA AllRemoved ==
  ASSUME NEW a, Queries(a), NEW r \in Record, r \notin Cached(a),
         \A b \in Browser : Rooted(a, b) /\ ToldOf(a, b, Cached(a) \union {r}),
         NEW t, t = NotifyRemoved(a, r)
  PROVE  Goes(a, t) /\ Serves(a, t) /\ (~t.aborted => Tells(t))
<1>1. PICK seq : seq = SetToSeq(Browser)
  OBVIOUS
<1>2. PICK N : N = Len(seq) /\ N \in Nat
  BY <1>1, LookupAssumption, ListIs DEF IsList
<1> N \in Nat
  BY <1>2
<1>3. /\ \A i \in 1 .. N : seq[i] \in Browser
      /\ \A i, j \in 1 .. N : seq[i] = seq[j] => i = j
      /\ \A b \in Browser : \E i \in 1 .. N : seq[i] = b
  <2>1. IsList(seq, Browser)
    BY <1>1, LookupAssumption, ListIs
  <2> QED BY <1>2, <2>1 DEF IsList
<1> DEFINE At(n, u) ==
               /\ Goes(a, u) /\ Serves(a, u)
               /\ ~u.aborted => /\ \A b \in Browser : Rooted(u, b)
                                /\ \A i \in 1 .. N : ToldOf(u, seq[i], IF i <= n THEN Cached(a) ELSE Cached(a) \union {r})
           Turn(u, n) == IF u.aborted THEN u ELSE Removed(u, seq[n], r)
           Body(f) == [n \in 0 .. N |-> IF n = 0 THEN a ELSE Turn(f[n-1], n)]
<1>4. t = (CHOOSE f : f = Body(f))[N]
  BY <1>1, <1>2 DEF NotifyRemoved, Notify, Along
<1>5. At(0, a)
  <2>1. \A i \in 1 .. N : ~(i <= 0)
    OBVIOUS
  <2> QED BY <1>3, <2>1 DEF Goes, SameCache, Serves
<1>6. ASSUME NEW n \in 1 .. N, NEW u, At(n - 1, u)
      PROVE  At(n, Turn(u, n))
  <2>1. CASE u.aborted
    BY <1>6, <2>1
  <2>2. CASE ~u.aborted
    <3>1. PICK b \in Browser : b = seq[n]
      BY <1>3
    <3>2. PICK v : v = Removed(u, b, r)
      OBVIOUS
    <3>3. Goes(a, u) /\ Queries(u) /\ Serves(a, u) /\ Cached(u) = Cached(a)
      BY <1>6, CachedSame DEF Goes
    <3>4. Rooted(u, b) /\ ToldOf(u, b, Cached(u) \union {r})
      <4>1. ~(n <= n - 1)
        OBVIOUS
      <4> QED BY <1>6, <2>2, <3>1, <3>3, <4>1
    <3>5. Works(u, v, b) /\ Serves(u, v) /\ (~v.aborted => Rooted(v, b) /\ ToldOf(v, b, Cached(v)))
      <4> HIDE DEF At, Turn, Body
      <4>1. b \in Browser /\ Queries(u) /\ ~u.aborted
        BY <2>2, <3>1, <3>3
      <4> QED BY <3>2, <3>3, <3>4, <4>1, RemovedIs
    <3>6. Goes(a, v) /\ Cached(v) = Cached(a)
      <4>1. Goes(a, v)
        BY <3>3, <3>5 DEF Goes, Works, Beside, SameCache
      <4> QED BY <4>1, CachedSame DEF Goes
    <3>7. Serves(a, v)
      BY <3>3, <3>5 DEF Serves
    <3>8. ASSUME ~v.aborted, NEW x \in Browser PROVE Rooted(v, x)
      <4>1. CASE x = b
        BY <3>5, <3>8, <4>1
      <4>2. CASE x # b
        BY <1>6, <2>2, <3>5, <4>2, OthersStay DEF Works
      <4> QED BY <4>1, <4>2
    <3>9. ASSUME ~v.aborted, NEW i \in 1 .. N
          PROVE  ToldOf(v, seq[i], IF i <= n THEN Cached(a) ELSE Cached(a) \union {r})
      <4>1. CASE i = n
        BY <3>1, <3>5, <3>6, <3>9, <4>1
      <4>2. CASE i # n
        <5>1. seq[i] \in Browser /\ seq[i] # b
          BY <1>3, <3>1, <4>2
        <5>2. (i <= n) = (i <= n - 1)
          BY <4>2
        <5>3. ToldOf(u, seq[i], IF i <= n THEN Cached(a) ELSE Cached(a) \union {r})
          BY <1>6, <2>2, <5>2
        <5>4. Beside(u, v, b)
          BY <3>5 DEF Works
        <5> HIDE DEF At, Turn, Body
        <5> QED BY <5>1, <5>3, <5>4, OthersStay
      <4> QED BY <4>1, <4>2
    <3> QED BY <2>2, <3>1, <3>2, <3>6, <3>7, <3>8, <3>9
  <2> QED BY <2>1, <2>2
<1> HIDE DEF Turn
<1> HIDE DEF At
<1>7. PICK Q : Q = [n \in 0 .. N |-> {u \in LookupState : At(n, u)}]
  OBVIOUS
<1>8. \A n \in 0 .. N : \A u \in Q[n] : At(n, u)
  BY <1>7
<1>9. \A n \in 0 .. N : \A u : At(n, u) => u \in Q[n]
  BY <1>7 DEF At, Goes, Queries
<1>10. PICK g : g = [n \in 1 .. N |-> [u \in Q[n-1] |-> Turn(u, n)]]
  OBVIOUS
<1>11. \A n \in 1 .. N : \A u \in Q[n-1] : g[n][u] = Turn(u, n) /\ g[n][u] \in Q[n]
  <2> SUFFICES ASSUME NEW n \in 1 .. N, NEW u \in Q[n-1]
               PROVE  g[n][u] = Turn(u, n) /\ g[n][u] \in Q[n]
    OBVIOUS
  <2>1. n - 1 \in 0 .. N /\ n \in 0 .. N
    OBVIOUS
  <2>2. At(n, Turn(u, n))
    BY <1>6, <1>8, <2>1
  <2>3. g[n][u] = Turn(u, n)
    BY <1>10
  <2> QED BY <1>9, <2>1, <2>2, <2>3
<1>12. a \in Q[0]
  BY <1>5, <1>9
<1>13. PICK f : f = Body(f) /\ t = f[N]
  <2>1. PICK f \in [0 .. N -> Values(Q, N)] : Runs(f, N, a, g) /\ \A n \in 0 .. N : f[n] \in Q[n]
    BY <1>11, <1>12, Loops
  <2>2. ASSUME NEW n \in 0 .. N
        PROVE  f[n] = IF n = 0 THEN a ELSE Turn(f[n-1], n)
    <3>1. n # 0 => n \in 1 .. N /\ n - 1 \in 0 .. N /\ f[n-1] \in Q[n-1]
      BY <2>1
    <3>2. n # 0 => g[n][f[n-1]] = Turn(f[n-1], n)
      BY <1>11, <3>1
    <3> QED BY <2>1, <3>2 DEF Runs
  <2>3. f = Body(f)
    BY <2>1, <2>2
  <2>4. \E h : h = Body(h)
    BY <2>3
  <2> QED BY <1>4, <2>4
<1>14. At(N, t)
  <2>1. f[0] \in Q[0]
    BY <1>12, <1>13
  <2>2. ASSUME NEW n \in 1 .. N, f[n-1] \in Q[n-1] PROVE f[n] \in Q[n]
    <3>1. g[n][f[n-1]] = Turn(f[n-1], n) /\ g[n][f[n-1]] \in Q[n]
      BY <1>11, <2>2
    <3>2. f[n] = Turn(f[n-1], n)
      BY <1>13
    <3> QED BY <3>1, <3>2
  <2>3. f[N] \in Q[N]
    BY <2>1, <2>2, LoopEnds
  <2> QED BY <1>8, <1>13, <2>3
<1>15. ASSUME ~t.aborted PROVE Tells(t)
  <2> SUFFICES ASSUME NEW b \in Browser PROVE Rooted(t, b) /\ ToldOf(t, b, Cached(t))
    BY DEF Tells
  <2>1. PICK i \in 1 .. N : seq[i] = b
    BY <1>3
  <2>2. i <= N
    BY <2>1
  <2>3. Cached(t) = Cached(a)
    BY <1>14, CachedSame DEF At, Goes
  <2> QED BY <1>14, <1>15, <2>1, <2>2, <2>3 DEF At
<1> QED BY <1>14, <1>15 DEF At

-------------------------------------------------------------------------------
(* cache.c                                                                    *)

\* A step that touches neither browsers nor queries.
LEMMA TellsStay ==
  ASSUME NEW s, NEW t, SameBrowsers(s, t)
  PROVE  /\ \A b \in Browser : Rooted(t, b) = Rooted(s, b) /\ \A C : ToldOf(t, b, C) = ToldOf(s, b, C)
         /\ Cached(t) = Cached(s) => Tells(t) = Tells(s)
         /\ t.querier = s.querier /\ t.announcing = s.announcing => Serves(s, t)
<1>1. \A b : Leads(t, b) = Leads(s, b)
  BY DEF SameBrowsers, Leads
<1>2. ASSUME NEW b \in Browser PROVE Rooted(t, b) = Rooted(s, b)
  <2>1. /\ t.br[b] = s.br[b] /\ t.ref[b] = s.ref[b] /\ t.started[b] = s.started[b]
        /\ t.follows[b] = s.follows[b] /\ Leads(t, b) = Leads(s, b)
    BY <1>1 DEF SameBrowsers
  <2> QED BY <2>1 DEF Rooted, Hangs, Bare
<1>3. \A b \in Browser : \A C : ToldOf(t, b, C) = ToldOf(s, b, C)
  BY DEF SameBrowsers, ToldOf
<1>4. Cached(t) = Cached(s) => Tells(t) = Tells(s)
  BY <1>2, <1>3 DEF Tells
<1>5. \A k : Users(t, k) = Users(s, k)
  BY DEF Users, SameBrowsers
<1>6. t.querier = s.querier /\ t.announcing = s.announcing => Serves(s, t)
  BY <1>5 DEF Serves, Served, Counted, Idle
<1> QED BY <1>2, <1>3, <1>4, <1>6

LEMMA EntriesSet ==
  ASSUME NEW s, Queries(s), NEW c \in [Record -> Entry], NEW A \in SUBSET Record, NEW t, t = WithCache(s, c, A)
  PROVE  /\ Queries(t) /\ t.cache = c /\ t.asked = A /\ t.querier = s.querier /\ t.jobs = s.jobs
         /\ SameBrowsers(s, t) /\ SameRun(s, t) /\ Serves(s, t)
         /\ Asked(s) /\ (\A r \in DOMAIN KeyOf : Aging(c[r]) /\ r \notin A => Aging(s.cache[r]) /\ r \notin s.asked)
              => Asked(t)
<1>1. s \in LookupState
  BY DEF Queries
<1>2. /\ t \in LookupState /\ t.cache = c /\ t.asked = A
      /\ t.querier = s.querier /\ t.jobs = s.jobs /\ SameBrowsers(s, t) /\ SameRun(s, t)
  BY <1>1, CacheSet
<1>3. Queries(t)
  BY <1>2 DEF Queries, Singly, Ids
<1>4. Serves(s, t)
  BY <1>2, TellsStay DEF SameRun
<1>5. \A k : History(t, k) = History(s, k) /\ Scheduled(t, k) = Scheduled(s, k)
  BY <1>2 DEF History, Scheduled
<1>6. ASSUME Asked(s), \A r \in DOMAIN KeyOf : Aging(c[r]) /\ r \notin A => Aging(s.cache[r]) /\ r \notin s.asked
      PROVE  Asked(t)
  BY <1>2, <1>5, <1>6 DEF Asked
<1> QED BY <1>2, <1>3, <1>4, <1>6

LEMMA EntryIs ==
  /\ Absent \in Entry /\ Absent.st = "absent" /\ ~Aging(Absent)
  /\ [st |-> "VALID", age |-> "fresh", poof |-> 0] \in Entry
  /\ \A e \in Entry : \A st \in Final : [e EXCEPT !.st = st] \in Entry /\ [e EXCEPT !.st = st].st = st
  /\ \A e \in Entry : e.st # "absent" /\ e.st \notin Final =>
        LET d == [e EXCEPT !.st = NextState[e.st], !.age = "half"]
        IN  d \in Entry /\ d.st = NextState[e.st] /\ d.st # "absent"
  /\ \A e \in Entry : [e EXCEPT !.age = "old"] \in Entry /\ [e EXCEPT !.age = "old"].st = e.st
<1>1. PoofMax \in Nat /\ 0 \in 0 .. PoofMax
  BY Consts
<1>2. Absent \in Entry /\ Absent.st = "absent" /\ ~Aging(Absent)
  BY <1>1 DEF Absent, Entry, Aging
<1>3. [st |-> "VALID", age |-> "fresh", poof |-> 0] \in Entry
  BY <1>1 DEF Entry
<1>4. \A e \in Entry : \A st \in Final : [e EXCEPT !.st = st] \in Entry /\ [e EXCEPT !.st = st].st = st
  BY DEF Entry
<1>5. \A e \in Entry : [e EXCEPT !.age = "old"] \in Entry /\ [e EXCEPT !.age = "old"].st = e.st
  BY DEF Entry
<1>6. ASSUME NEW e \in Entry, e.st # "absent", e.st \notin Final,
             NEW d, d = [e EXCEPT !.st = NextState[e.st], !.age = "half"]
      PROVE  d \in Entry /\ d.st = NextState[e.st] /\ d.st # "absent"
  <2>1. e.st \in {"VALID", "POOF", "EXPIRY1", "EXPIRY2", "EXPIRY3"}
    BY <1>6 DEF Entry
  <2>2. NextState[e.st] \in {"EXPIRY1", "EXPIRY2", "EXPIRY3", "EXPIRY_FINAL"}
    BY <2>1 DEF NextState
  <2>3. d.st = NextState[e.st] /\ d.age = "half" /\ d.poof = e.poof
        /\ d = [st |-> NextState[e.st], age |-> "half", poof |-> e.poof]
    BY <1>6 DEF Entry
  <2>4. e.poof \in 0 .. PoofMax
    BY DEF Entry
  <2> QED BY <2>2, <2>3, <2>4 DEF Entry, Final
<1> QED BY <1>2, <1>3, <1>4, <1>5, <1>6

\* The suppression of failures does not touch what is dropped or nears its end.
LEMMA PoofIs ==
  ASSUME NEW e \in Entry, NEW d, d \in {StartPoof(e), StopPoof(StartPoof(e))}
  PROVE  /\ d \in Entry /\ (d.st = "absent") = (e.st = "absent") /\ (Aging(d) => Aging(e))
         /\ e.st \in {"GOODBYE_FINAL", "REPLACE_FINAL"} => d.st = e.st
<1> DEFINE Fits(x) == /\ x \in Entry /\ (x.st = "absent") = (e.st = "absent") /\ (Aging(x) => Aging(e))
                      /\ e.st \in {"GOODBYE_FINAL", "REPLACE_FINAL"} => x.st = e.st
<1>1. PICK c : c = StartPoof(e)
  OBVIOUS
<1>2. e.poof \in 0 .. PoofMax /\ PoofMax \in Nat /\ 0 \in 0 .. PoofMax
  BY Consts DEF Entry
<1>3. Fits(c)
  <2>1. CASE e.st = "VALID"
    <3>1. c = [e EXCEPT !.st = "POOF", !.poof = 0]
      BY <1>1, <2>1 DEF StartPoof
    <3>2. c \in Entry /\ c.st = "POOF"
      BY <1>2, <3>1 DEF Entry
    <3> QED BY <2>1, <3>2 DEF Aging
  <2>2. CASE e.st # "VALID" /\ e.st # "POOF"
    BY <1>1, <2>2 DEF StartPoof
  <2>3. CASE e.st = "POOF" /\ e.poof >= PoofMax
    <3>1. c = [e EXCEPT !.st = "POOF_FINAL"]
      BY <1>1, <2>3 DEF StartPoof
    <3>2. c \in Entry /\ c.st = "POOF_FINAL"
      BY <3>1 DEF Entry, Final
    <3> QED BY <2>3, <3>2 DEF Aging
  <2>4. CASE e.st = "POOF" /\ ~(e.poof >= PoofMax)
    <3>1. c = [e EXCEPT !.poof = e.poof + 1]
      BY <1>1, <2>4 DEF StartPoof
    <3>2. c \in Entry /\ c.st = "POOF"
      BY <1>2, <2>4, <3>1 DEF Entry
    <3> QED BY <2>4, <3>2 DEF Aging
  <2> QED BY <2>1, <2>2, <2>3, <2>4
<1>4. ASSUME d = StopPoof(c) PROVE Fits(d)
  <2>1. CASE c.st \in {"POOF", "POOF_FINAL"}
    <3>1. d = [c EXCEPT !.st = "VALID"]
      BY <1>4, <2>1 DEF StopPoof
    <3>2. d \in Entry /\ d.st = "VALID"
      BY <1>3, <3>1 DEF Entry
    <3> QED BY <1>3, <2>1, <3>2 DEF Aging
  <2>2. CASE c.st \notin {"POOF", "POOF_FINAL"}
    BY <1>3, <1>4, <2>2 DEF StopPoof
  <2> QED BY <2>1, <2>2
<1> QED BY <1>1, <1>3, <1>4

\* What an operation of the cache leaves of the rest, and what holds after it:
\* C is what it makes of the cache.
Caches(s, t, C) ==
    /\ Queries(t) /\ Serves(s, t) /\ t.cache = C
    /\ t.announcing = s.announcing /\ t.events = s.events

LEMMA RemoveEntryIs ==
  ASSUME NEW s, Queries(s), NEW r \in Cached(s), Tells(s), NEW t, t = RemoveEntry(s, r)
  PROVE  /\ Caches(s, t, [s.cache EXCEPT ![r] = Absent]) /\ (Asked(s) => Asked(t))
         /\ Cached(t) = Cached(s) \ {r} /\ (~t.aborted => Tells(t))
<1>1. s \in LookupState /\ r \in Record /\ s.cache \in [Record -> Entry] /\ s.asked \in SUBSET Record
  BY DEF Queries, Cached, LookupState
<1>2. PICK C : C = [s.cache EXCEPT ![r] = Absent]
  OBVIOUS
<1>3. C \in [Record -> Entry] /\ C[r] = Absent /\ \A x \in Record : x # r => C[x] = s.cache[x]
  BY <1>1, <1>2, EntryIs
<1>4. PICK a : a = WithCache(s, C, s.asked)
  OBVIOUS
<1>5. /\ Queries(a) /\ a.cache = C /\ a.asked = s.asked /\ a.querier = s.querier /\ a.jobs = s.jobs
      /\ SameBrowsers(s, a) /\ SameRun(s, a) /\ Serves(s, a) /\ (Asked(s) => Asked(a))
  <2>1. \A x \in DOMAIN KeyOf : Aging(C[x]) /\ x \notin s.asked => Aging(s.cache[x]) /\ x \notin s.asked
    BY <1>3, Consts, EntryIs
  <2> QED BY <1>1, <1>3, <1>4, <2>1, EntriesSet
<1>6. t = NotifyRemoved(a, r)
  <2>1. a = [s EXCEPT !.cache[r] = Absent]
    BY <1>1, <1>2, <1>4 DEF WithCache, LookupState
  <2> QED BY <2>1 DEF RemoveEntry, NotifyRemoved
<1>7. Cached(a) = Cached(s) \ {r} /\ r \notin Cached(a) /\ Cached(a) \union {r} = Cached(s)
  <2>1. \A x : x \in Cached(a) <=> x \in Record /\ C[x].st # "absent"
    BY <1>5 DEF Cached
  <2>2. \A x : x \in Cached(s) <=> x \in Record /\ s.cache[x].st # "absent"
    BY DEF Cached
  <2>3. C[r].st = "absent"
    BY <1>3, EntryIs
  <2>4. \A x : x \in Cached(a) <=> x \in Cached(s) /\ x # r
    BY <1>3, <2>1, <2>2, <2>3
  <2> QED BY <2>4
<1>8. \A b \in Browser : Rooted(a, b) /\ ToldOf(a, b, Cached(a) \union {r})
  BY <1>5, <1>7, TellsStay DEF Tells
<1>9. Goes(a, t) /\ Serves(a, t) /\ (~t.aborted => Tells(t))
  BY <1>1, <1>5, <1>6, <1>7, <1>8, AllRemoved
<1>10. Cached(t) = Cached(a)
  BY <1>9, CachedSame DEF Goes
<1> QED BY <1>2, <1>5, <1>7, <1>9, <1>10 DEF Caches, Goes, Serves, SameRun, SameCache

LEMMA ExpireSoonIs ==
  ASSUME NEW s, Queries(s), NEW R \in SUBSET Cached(s), NEW st \in Final \ {"EXPIRY_FINAL"},
         NEW t, t = ExpireSoon(s, R, st)
  PROVE  /\ Caches(s, t, [x \in Record |-> IF x \in R THEN [s.cache[x] EXCEPT !.st = st] ELSE s.cache[x]])
         /\ (Asked(s) => Asked(t)) /\ t.asked = s.asked /\ SameBrowsers(s, t) /\ SameRun(s, t)
         /\ Cached(t) = Cached(s)
<1>1. s \in LookupState /\ s.cache \in [Record -> Entry] /\ s.asked \in SUBSET Record
  BY DEF Queries, LookupState
<1>2. PICK C : C = [x \in Record |-> IF x \in R THEN [s.cache[x] EXCEPT !.st = st] ELSE s.cache[x]]
  OBVIOUS
<1>3. \A x \in Record : /\ C[x] \in Entry /\ (x \notin R => C[x] = s.cache[x])
                        /\ x \in R => C[x].st = st
  <2> SUFFICES ASSUME NEW x \in Record
               PROVE  C[x] \in Entry /\ (x \notin R => C[x] = s.cache[x]) /\ (x \in R => C[x].st = st)
    OBVIOUS
  <2>1. s.cache[x] \in Entry
    BY <1>1
  <2>2. PICK d : d = [s.cache[x] EXCEPT !.st = st]
    OBVIOUS
  <2>3. d \in Entry /\ d.st = st
    BY <2>1, <2>2 DEF Entry
  <2>4. C[x] = IF x \in R THEN d ELSE s.cache[x]
    BY <1>2, <2>2
  <2> QED BY <2>1, <2>3, <2>4
<1>4. C \in [Record -> Entry]
  BY <1>2, <1>3
<1>5. t = WithCache(s, C, s.asked)
  <2>1. t = [s EXCEPT !.cache = C]
    BY <1>2 DEF ExpireSoon
  <2> QED BY <1>1, <2>1 DEF WithCache, LookupState
<1>6. st # "absent" /\ st \notin {"EXPIRY1", "EXPIRY2", "EXPIRY3", "EXPIRY_FINAL"}
  BY DEF Final
<1>7. \A x \in DOMAIN KeyOf : Aging(C[x]) /\ x \notin s.asked => Aging(s.cache[x]) /\ x \notin s.asked
  BY <1>3, <1>6, Consts DEF Aging
<1>8. /\ Queries(t) /\ t.cache = C /\ t.asked = s.asked /\ t.querier = s.querier /\ t.jobs = s.jobs
      /\ SameBrowsers(s, t) /\ SameRun(s, t) /\ Serves(s, t) /\ (Asked(s) => Asked(t))
  BY <1>1, <1>4, <1>5, <1>7, EntriesSet
<1>9. Cached(t) = Cached(s)
  BY <1>3, <1>6, <1>8 DEF Cached
<1> QED BY <1>2, <1>8, <1>9 DEF Caches, SameRun

LEMMA ValidIs ==
  ASSUME NEW s, Queries(s), NEW r \in Record, NEW t, t = Valid(s, r)
  PROVE  /\ Caches(s, t, [s.cache EXCEPT ![r] = [st |-> "VALID", age |-> "fresh", poof |-> 0]])
         /\ (Asked(s) => Asked(t)) /\ SameBrowsers(s, t) /\ SameRun(s, t)
         /\ Cached(t) = Cached(s) \union {r}
<1>1. s \in LookupState /\ s.cache \in [Record -> Entry] /\ s.asked \in SUBSET Record
  BY DEF Queries, LookupState
<1>2. PICK e \in Entry : e = [st |-> "VALID", age |-> "fresh", poof |-> 0]
  BY EntryIs
<1>3. PICK C : C = [s.cache EXCEPT ![r] = e]
  OBVIOUS
<1>4. C \in [Record -> Entry] /\ C[r] = e /\ \A x \in Record : x # r => C[x] = s.cache[x]
  BY <1>1, <1>2, <1>3
<1>5. e.st = "VALID" /\ ~Aging(e)
  BY <1>2 DEF Aging
<1>6. t = WithCache(s, C, s.asked \ {r})
  BY <1>1, <1>2, <1>3 DEF Valid, WithCache, LookupState
<1>7. \A x \in DOMAIN KeyOf : Aging(C[x]) /\ x \notin s.asked \ {r} => Aging(s.cache[x]) /\ x \notin s.asked
  BY <1>4, <1>5, Consts
<1>8. /\ Queries(t) /\ t.cache = C /\ t.asked = s.asked \ {r} /\ t.querier = s.querier /\ t.jobs = s.jobs
      /\ SameBrowsers(s, t) /\ SameRun(s, t) /\ Serves(s, t) /\ (Asked(s) => Asked(t))
  <2>1. s.asked \ {r} \in SUBSET Record
    BY <1>1
  <2> QED BY <1>4, <1>6, <1>7, <2>1, EntriesSet
<1>9. Cached(t) = Cached(s) \union {r}
  BY <1>4, <1>5, <1>8 DEF Cached
<1> QED BY <1>2, <1>3, <1>8, <1>9 DEF Caches, SameRun

Fresh == [st |-> "VALID", age |-> "fresh", poof |-> 0]
Stale(s, r, cache_flush) ==
    {x \in Cached(s) : (x \in Cname) = (r \in Cname) /\ Heard(x) = Heard(r) /\ cache_flush /\ s.cache[x].age # "fresh"}
Replaced(s, R) ==
    [x \in Record |-> IF x \in R THEN [s.cache[x] EXCEPT !.st = "REPLACE_FINAL"] ELSE s.cache[x]]

LEMMA UpdateIs ==
  ASSUME NEW s, Queries(s), ~s.aborted, Served(s), Asked(s), Tells(s), NEW r \in Record, NEW fl \in BOOLEAN,
         NEW t, t = CacheUpdate(s, r, fl)
  PROVE  /\ Queries(t) /\ Served(t) /\ Asked(t) /\ (~t.aborted => Tells(t))
         /\ t.announcing = s.announcing /\ t.events = s.events
         /\ LET E == Replaced(s, Stale(s, r, fl)) IN t.cache \in {E, [E EXCEPT ![r] = Fresh]}
<1>1. PICK R : R = Stale(s, r, fl)
  OBVIOUS
<1>2. R \in SUBSET Cached(s)
  BY <1>1 DEF Stale
<1>3. PICK E : E = Replaced(s, R)
  OBVIOUS
<1>4. PICK a : a = ExpireSoon(s, R, "REPLACE_FINAL")
  OBVIOUS
<1>5. /\ Caches(s, a, E) /\ (Asked(s) => Asked(a)) /\ SameBrowsers(s, a) /\ SameRun(s, a)
      /\ Cached(a) = Cached(s)
  <2>1. "REPLACE_FINAL" \in Final \ {"EXPIRY_FINAL"}
    BY DEF Final
  <2> QED BY <1>2, <1>3, <1>4, <2>1, ExpireSoonIs DEF Replaced
<1>6. Queries(a) /\ Served(a) /\ Asked(a) /\ Tells(a) /\ a.cache = E
  BY <1>5, TellsStay DEF Caches, Serves
<1>7. PICK v : v = Valid(a, r)
  OBVIOUS
<1>8. /\ Caches(a, v, [E EXCEPT ![r] = Fresh]) /\ (Asked(a) => Asked(v)) /\ SameBrowsers(a, v)
      /\ SameRun(a, v) /\ Cached(v) = Cached(a) \union {r}
  BY <1>6, <1>7, ValidIs DEF Fresh
<1>9. Queries(v) /\ Served(v) /\ Asked(v) /\ ~v.aborted /\ v.cache = [E EXCEPT ![r] = Fresh]
      /\ v.announcing = s.announcing /\ v.events = s.events
  BY <1>5, <1>6, <1>8 DEF Caches, Serves, SameRun
<1>10. t = IF r \in Cached(s) THEN v
           ELSE IF Cardinality(Cached(s)) >= CacheMax THEN a ELSE NotifyFound(v, r)
  <2>1. {x \in {x \in Cached(s) : (x \in Cname) = (r \in Cname) /\ Heard(x) = Heard(r)} :
           fl /\ s.cache[x].age # "fresh"} = R
    BY <1>1 DEF Stale
  <2> QED BY <1>4, <1>7, <2>1 DEF CacheUpdate, NotifyFound
<1>11. CASE r \in Cached(s)
  <2>1. t = v
    BY <1>10, <1>11
  <2>2. Cached(v) = Cached(a)
    BY <1>5, <1>8, <1>11
  <2>3. Tells(v)
    BY <1>6, <1>8, <2>2, TellsStay
  <2> QED BY <1>1, <1>3, <1>9, <2>1, <2>3
<1>12. CASE r \notin Cached(s) /\ Cardinality(Cached(s)) >= CacheMax
  <2>1. t = a
    BY <1>10, <1>12
  <2> QED BY <1>1, <1>3, <1>5, <1>6, <2>1 DEF Caches
<1>13. CASE r \notin Cached(s) /\ ~(Cardinality(Cached(s)) >= CacheMax)
  <2>1. t = NotifyFound(v, r)
    BY <1>10, <1>13
  <2>2. r \in Cached(v) /\ Cached(v) \ {r} = Cached(a)
    BY <1>5, <1>8, <1>13
  <2>3. \A b \in Browser : Rooted(v, b) /\ ToldOf(v, b, Cached(v) \ {r})
    BY <1>6, <1>8, <2>2, TellsStay DEF Tells
  <2>4. Goes(v, t) /\ Served(t) /\ (~t.aborted => Tells(t))
    BY <1>9, <2>1, <2>2, <2>3, AllFound
  <2> QED BY <1>1, <1>3, <1>9, <2>4 DEF Goes, SameCache
<1> QED BY <1>11, <1>12, <1>13

\* A querier posts its query again when an entry of its key nears its end.
LEMMA RefreshIs ==
  ASSUME NEW s, Queries(s), s.announcing, s.jobs = {}, NEW k \in Key,
         \A r \in DOMAIN KeyOf : KeyOf[r] # k /\ Aging(s.cache[r]) /\ r \notin s.asked => s.querier[KeyOf[r]] = NoQuerier,
         NEW t, t = Refresh(s, k)
  PROVE  /\ Queries(t) /\ Asked(t) /\ Serves(s, t) /\ SameBrowsers(s, t) /\ SameCache(s, t) /\ SameRun(s, t)
<1>1. s \in LookupState /\ s.querier \in [Key -> QuerierType] /\ s.jobs \in Jobs
  BY DEF Queries, LookupState
<1>2. PICK q \in QuerierType : q = s.querier[k]
  BY <1>1
<1>3. \A x : History(s, x) = {} /\ Scheduled(s, x) = {}
  BY DEF History, Scheduled
<1>4. CASE q = NoQuerier
  <2>1. t = s
    BY <1>2, <1>4 DEF Refresh
  <2>2. Asked(s)
    BY <1>2, <1>3, <1>4 DEF Asked
  <2> QED BY <2>1, <2>2 DEF Serves, SameBrowsers, SameCache, SameRun
<1>5. CASE q # NoQuerier /\ q.used <= 0
  <2>1. t = WithQueries(s, [s.querier EXCEPT ![k] = NoQuerier], s.jobs, s.ret)
    BY <1>1, <1>2, <1>5 DEF Refresh, WithQueries, LookupState
  <2>2. NoQuerier \in QuerierType
    BY DEF QuerierType
  <2>3. Manages(s, t, k) /\ t.querier[k] = NoQuerier /\ t.jobs = s.jobs
    <3>1. \A j \in s.jobs : j.id = NoQuerier.id => j.key = k
      OBVIOUS
    <3> QED BY <2>1, <2>2, <3>1, QuerierSet
  <2>4. Asked(t)
    <3>1. \A x : History(t, x) = {}
      BY <2>3 DEF History
    <3>2. \A x \in Key : x # k => t.querier[x] = s.querier[x]
      BY <2>3 DEF Manages
    <3> QED BY <2>3, <3>1, <3>2, Consts DEF Asked, Manages, SameCache
  <2>5. q.used = 0 /\ Used(q) = 0 /\ Used(NoQuerier) = 0
    BY <1>5, QuerierIs DEF Used
  <2>6. \A x \in Key : Used(t.querier[x]) = Used(s.querier[x])
    BY <1>2, <2>3, <2>5 DEF Manages
  <2>7. \A x : Users(t, x) = Users(s, x)
    BY <2>3 DEF Manages, SameBrowsers, Users
  <2>8. Served(s) => Served(t)
    BY <2>3, <2>6, <2>7 DEF Served, Counted, Manages, SameRun
  <2>9. Idle(s) => Idle(t)
    BY <1>2, <1>5 DEF Idle
  <2> QED BY <2>3, <2>4, <2>8, <2>9 DEF Manages, Serves
<1>6. CASE q # NoQuerier /\ ~(q.used <= 0)
  <2>1. t = PostQuery(s, k)
    BY <1>2, <1>6 DEF Refresh
  <2>2. Posts(s, t, k)
    BY <2>1, PostIs
  <2>3. Scheduled(t, k) # {} /\ \A x \in Key : History(t, x) = {}
    BY <1>3, <2>2 DEF Posts
  <2>4. Asked(t)
    <3> SUFFICES ASSUME NEW r \in DOMAIN KeyOf, Aging(t.cache[r]), r \notin t.asked,
                        t.querier[KeyOf[r]] # NoQuerier
                 PROVE  Scheduled(t, KeyOf[r]) # {}
      BY <2>3, Consts DEF Asked
    <3>1. s.querier[KeyOf[r]] # NoQuerier /\ Aging(s.cache[r]) /\ r \notin s.asked
      BY <2>2 DEF Posts, SameCache
    <3>2. KeyOf[r] = k
      BY <3>1
    <3> QED BY <2>3, <3>2
  <2>5. Serves(s, t)
    BY <2>2, TellsStay DEF Posts, SameRun
  <2> QED BY <2>2, <2>4, <2>5 DEF Posts, Queries
<1> QED BY <1>4, <1>5, <1>6

\* What becomes of the entry whose timer it was.
Elapsed(c, d, r) == \E e \in Entry : d = [c EXCEPT ![r] = e] /\ (c[r].st \in Final => e = Absent)

LEMMA ElapsesIs ==
  ASSUME NEW s, Queries(s), ~s.aborted, Served(s), Asked(s), Tells(s), s.announcing, s.jobs = {},
         NEW r \in Cached(s), NEW t, t = EntryElapses(s, r)
  PROVE  /\ Queries(t) /\ Served(t) /\ Asked(t) /\ (~t.aborted => Tells(t))
         /\ t.announcing = s.announcing /\ t.events = s.events
         /\ Elapsed(s.cache, t.cache, r)
<1>1. s \in LookupState /\ r \in Record /\ s.cache \in [Record -> Entry] /\ s.asked \in SUBSET Record
      /\ s.cache[r] \in Entry /\ s.cache[r].st # "absent"
  BY DEF Queries, Cached, LookupState
<1>2. CASE s.cache[r].st \in Final
  <2>1. t = RemoveEntry(s, r)
    BY <1>2 DEF EntryElapses
  <2>2. /\ Caches(s, t, [s.cache EXCEPT ![r] = Absent]) /\ (Asked(s) => Asked(t))
        /\ Cached(t) = Cached(s) \ {r} /\ (~t.aborted => Tells(t))
    BY <2>1, RemoveEntryIs
  <2> QED BY <2>2, EntryIs DEF Caches, Serves, Elapsed
<1>3. CASE s.cache[r].st \notin Final
  <2>1. PICK e : e = [s.cache[r] EXCEPT !.st = NextState[s.cache[r].st], !.age = "half"]
    OBVIOUS
  <2>2. e \in Entry /\ e.st # "absent"
    <3>1. \A c \in Entry : c.st # "absent" /\ c.st \notin Final =>
            LET d == [c EXCEPT !.st = NextState[c.st], !.age = "half"]
            IN  d \in Entry /\ d.st = NextState[c.st] /\ d.st # "absent"
      BY EntryIs
    <3> QED BY <1>1, <1>3, <2>1, <3>1
  <2>3. PICK C : C = [s.cache EXCEPT ![r] = e]
    OBVIOUS
  <2>4. C \in [Record -> Entry] /\ C[r] = e /\ \A x \in Record : x # r => C[x] = s.cache[x]
    BY <1>1, <2>2, <2>3
  <2>5. PICK a : a = WithCache(s, C, s.asked)
    OBVIOUS
  <2>6. t = IF r \in Cname THEN a ELSE Refresh(a, KeyOf[r])
    <3>1. [s EXCEPT !.cache[r].st = NextState[s.cache[r].st], !.cache[r].age = "half"] = a
      <4>1. [s EXCEPT !.cache[r].st = NextState[s.cache[r].st], !.cache[r].age = "half"] = [s EXCEPT !.cache = C]
        BY <1>1, <2>1, <2>3 DEF LookupState
      <4> QED BY <1>1, <2>5, <4>1 DEF WithCache, LookupState
    <3> QED BY <1>3, <3>1 DEF EntryElapses
  <2>7. /\ Queries(a) /\ a.cache = C /\ a.asked = s.asked /\ a.querier = s.querier /\ a.jobs = s.jobs
        /\ SameBrowsers(s, a) /\ SameRun(s, a) /\ Serves(s, a)
    BY <1>1, <2>4, <2>5, EntriesSet
  <2>8. Cached(a) = Cached(s)
    BY <1>1, <2>2, <2>4, <2>7 DEF Cached
  <2>9. Served(a) /\ Tells(a) /\ a.announcing /\ a.jobs = {}
    BY <2>7, <2>8, TellsStay DEF Serves, SameRun
  <2>10. CASE r \in Cname
    <3>1. t = a
      BY <2>6, <2>10
    <3>2. \A x \in DOMAIN KeyOf : x # r
      BY <2>10, Consts
    <3>3. \A x \in DOMAIN KeyOf : Aging(C[x]) /\ x \notin s.asked => Aging(s.cache[x]) /\ x \notin s.asked
      BY <2>4, <3>2, Consts
    <3>4. Asked(a)
      BY <1>1, <2>4, <2>5, <3>3, EntriesSet
    <3> QED BY <1>3, <2>2, <2>3, <2>7, <2>9, <3>1, <3>4 DEF SameRun, Elapsed
  <2>11. CASE r \notin Cname
    <3>1. t = Refresh(a, KeyOf[r]) /\ r \in DOMAIN KeyOf /\ KeyOf[r] \in Key
      BY <1>1, <2>6, <2>11, Consts
    <3>2. ASSUME NEW x \in DOMAIN KeyOf, KeyOf[x] # KeyOf[r], Aging(a.cache[x]), x \notin a.asked
          PROVE  a.querier[KeyOf[x]] = NoQuerier
      <4>1. x \in Record /\ x # r
        BY <3>2, Consts
      <4>2. Aging(s.cache[x]) /\ x \notin s.asked
        BY <2>4, <2>7, <3>2, <4>1
      <4>3. Scheduled(s, KeyOf[x]) = {}
        BY DEF Scheduled
      <4> QED BY <2>7, <4>2, <4>3 DEF Asked
    <3>3. /\ Queries(t) /\ Asked(t) /\ Serves(a, t) /\ SameBrowsers(a, t) /\ SameCache(a, t) /\ SameRun(a, t)
      <4>1. \A x \in DOMAIN KeyOf : KeyOf[x] # KeyOf[r] /\ Aging(a.cache[x]) /\ x \notin a.asked
                                      => a.querier[KeyOf[x]] = NoQuerier
        BY <3>2
      <4> QED BY <2>7, <2>9, <3>1, <4>1, RefreshIs
    <3>4. Tells(t)
      BY <2>9, <3>3, CachedSame, TellsStay
    <3>5. t.cache = C /\ t.announcing = s.announcing /\ t.events = s.events /\ Served(t)
      BY <2>7, <2>9, <3>3 DEF SameCache, SameRun, Serves
    <3> QED BY <1>3, <2>2, <2>3, <3>3, <3>4, <3>5 DEF Elapsed
  <2> QED BY <2>10, <2>11
<1> QED BY <1>2, <1>3

-------------------------------------------------------------------------------
(* Events.                                                                    *)

Alike(s, t) ==
    /\ t \in LookupState /\ t.querier = s.querier /\ t.jobs = s.jobs
    /\ SameBrowsers(s, t) /\ SameCache(s, t) /\ t.announcing = s.announcing /\ t.aborted = s.aborted

LEMMA WholeIs ==
  ASSUME NEW s
  PROVE  Whole(s) = /\ Served(s) /\ Asked(s) /\ Tells(s)
                    /\ ~s.announcing => Cached(s) = {}
BY DEF Whole, Tells

LEMMA InvStays ==
  ASSUME NEW s, Inv(s), NEW t, Alike(s, t)
  PROVE  Inv(t)
<1>1. Queries(t) /\ (Asked(s) => Asked(t))
  BY QueriesStay DEF Alike, Inv
<1>2. Serves(s, t) /\ Tells(t) = Tells(s) /\ Cached(t) = Cached(s)
  BY CachedSame, TellsStay DEF Alike
<1>3. t.announcing = s.announcing /\ t.aborted = s.aborted
  BY DEF Alike
<1> QED BY <1>1, <1>2, <1>3, WholeIs DEF Inv, Serves

LEMMA RetIs ==
  ASSUME NEW s \in LookupState, NEW t, t = [s EXCEPT !.ret = 0]
  PROVE  Alike(s, t) /\ t.events = s.events
BY DEF LookupState, Alike, SameBrowsers, SameCache

LEMMA HappensIs ==
  ASSUME NEW s \in LookupState, s.events < MaxEvents, NEW t, t = [s EXCEPT !.events = s.events + 1]
  PROVE  Alike(s, t)
<1>1. s.events + 1 \in 0 .. MaxEvents
  BY Consts DEF LookupState
<1> QED BY <1>1 DEF LookupState, Alike, SameBrowsers, SameCache

\* What an entry that was superseded may become.
Dropped == {"GOODBYE_FINAL", "REPLACE_FINAL"}
StayDropped(c, d) == \A r \in Record : c[r].st \in Dropped => d[r].st \in Dropped \union {"absent"}
Fine(s) == Inv(s) /\ ~s.aborted

LEMMA FineIs ==
  ASSUME NEW s, Fine(s)
  PROVE  /\ Queries(s) /\ s \in LookupState /\ ~s.aborted /\ Served(s) /\ Asked(s) /\ Tells(s)
         /\ s.cache \in [Record -> Entry] /\ s.asked \in SUBSET Record
         /\ s.querier \in [Key -> QuerierType] /\ s.jobs \in Jobs /\ s.ret \in Nat
         /\ ~s.announcing => Cached(s) = {}
BY WholeIs DEF Fine, Inv, Queries, LookupState

LEMMA DoesIs ==
  ASSUME NEW s, Inv(s), Does(s)
  PROVE  Inv(lk') /\ lk'.cache = s.cache
<1>1. s \in LookupState /\ lk' = [s EXCEPT !.ret = 0]
  BY DEF Inv, Queries, Does
<1>2. Alike(s, lk')
  BY <1>1, RetIs
<1> QED BY <1>2, InvStays DEF Alike, SameCache

LEMMA HappeningIs ==
  ASSUME Inv(lk), MayHappen
  PROVE  Fine(Happens) /\ Alike(lk, Happens)
<1>1. lk \in LookupState /\ lk.events < MaxEvents /\ ~lk.aborted
  BY DEF MayHappen, Running, Inv, Queries
<1>2. Alike(lk, Happens)
  BY <1>1, HappensIs DEF Happens
<1> QED BY <1>1, <1>2, InvStays DEF Fine, Alike

\* A step on the lookups of one browser.
LEMMA OneBrowser ==
  ASSUME NEW s, Fine(s), NEW b \in Browser, NEW t, Works(s, t, b), Served(t),
         ~t.aborted => Rooted(t, b) /\ ToldOf(t, b, Cached(t))
  PROVE  Inv(t) /\ t.cache = s.cache
<1>1. Queries(t) /\ Beside(s, t, b) /\ Asked(t) /\ SameCache(s, t) /\ t.announcing = s.announcing
  BY FineIs DEF Works, Beside
<1>2. Cached(t) = Cached(s)
  BY <1>1, CachedSame
<1>3. ASSUME ~t.aborted PROVE Tells(t)
  <2> SUFFICES ASSUME NEW x \in Browser PROVE Rooted(t, x) /\ ToldOf(t, x, Cached(t))
    BY DEF Tells
  <2>1. CASE x = b
    BY <1>3, <2>1
  <2>2. CASE x # b
    <3>1. Rooted(s, x) /\ ToldOf(s, x, Cached(s))
      BY FineIs DEF Tells
    <3> QED BY <1>1, <1>2, <2>2, <3>1, OthersStay
  <2> QED BY <2>1, <2>2
<1> QED BY <1>1, <1>2, <1>3, FineIs, WholeIs DEF Inv, SameCache

LEMMA BrowserNewKeeps ==
  ASSUME Inv(lk), NEW b \in Browser, BrowserNew(b)
  PROVE  Inv(lk') /\ lk'.cache = lk.cache
<1>1. Fine(lk) /\ lk \in LookupState /\ Queries(lk)
  BY FineIs DEF Fine, BrowserNew, Running
<1>2. PICK br : br = [lk.br EXCEPT ![b] = "deferred"]
  OBVIOUS
<1>3. PICK t : t = WithBrowser(lk, b, "deferred", lk.ref[b], lk.follows[b], lk.told[b])
  OBVIOUS
<1>4. [lk EXCEPT !.br[b] = "deferred"] = t
  <2>1. /\ lk.told = [lk.told EXCEPT ![b] = lk.told[b]] /\ lk.ref = [lk.ref EXCEPT ![b] = lk.ref[b]]
        /\ lk.follows = [lk.follows EXCEPT ![b] = lk.follows[b]]
    BY <1>1 DEF LookupState
  <2> QED BY <1>1, <1>2, <1>3, <2>1 DEF WithBrowser, LookupState
<1>5. Puts(lk, t, b, "deferred", lk.ref[b], lk.follows[b], lk.told[b])
  <2>1. "deferred" \in Stage
    BY DEF Stage
  <2> QED BY <1>1, <1>3, <2>1, BrowserIs, BrowserSet
<1>6. lk.br[b] = "none" /\ Rooted(lk, b) /\ ToldOf(lk, b, Cached(lk))
  BY <1>1, FineIs DEF BrowserNew, Tells
<1>7. Cached(t) = Cached(lk)
  BY <1>5, CachedSame DEF Puts, Works, Beside
<1>8. Rooted(t, b) /\ ToldOf(t, b, Cached(t))
  BY <1>5, <1>6, <1>7 DEF Puts, Rooted, Bare, ToldOf
<1>9. Served(t)
  BY <1>1, <1>5, FineIs DEF Puts, Serves
<1>10. Inv(t) /\ t.cache = lk.cache
  BY <1>1, <1>5, <1>8, <1>9, OneBrowser DEF Puts
<1>11. Does(t)
  BY <1>4 DEF BrowserNew
<1> QED BY <1>10, <1>11, DoesIs

LEMMA DeferKeeps ==
  ASSUME Inv(lk), NEW b \in Browser, Defer(b)
  PROVE  Inv(lk') /\ lk'.cache = lk.cache
<1>1. Fine(lk) /\ lk \in LookupState /\ Queries(lk)
  BY FineIs DEF Fine, Defer, Running
<1>2. PICK k \in Key : k = BrowseKey[b]
  BY Consts
<1>3. PICK ref : ref = [lk.ref[b] EXCEPT ![k] = 1]
  OBVIOUS
<1>4. PICK a : a = WithBrowser(lk, b, "live", ref, lk.follows[b], lk.told[b])
  OBVIOUS
<1>5. [lk EXCEPT !.br[b] = "live", !.ref[b][BrowseKey[b]] = 1] = a
  <2>1. /\ lk.told = [lk.told EXCEPT ![b] = lk.told[b]]
        /\ lk.follows = [lk.follows EXCEPT ![b] = lk.follows[b]]
    BY <1>1 DEF LookupState
  <2>2. [lk.ref EXCEPT ![b][BrowseKey[b]] = 1] = [lk.ref EXCEPT ![b] = ref]
    BY <1>1, <1>2, <1>3 DEF LookupState
  <2> QED BY <1>1, <1>4, <2>1, <2>2 DEF WithBrowser, LookupState
<1>6. lk.ref[b] \in [Key -> Nat] /\ ref \in [Key -> Nat]
  BY <1>1, <1>3, BrowserIs
<1>7. Puts(lk, a, b, "live", ref, lk.follows[b], lk.told[b])
  <2>1. "live" \in Stage
    BY DEF Stage
  <2> QED BY <1>1, <1>4, <1>6, <2>1, BrowserIs, BrowserSet
<1>8. lk.br[b] = "deferred" /\ Bare(lk, b) /\ lk.told[b] = {}
  <2>1. lk.br[b] = "deferred" /\ Rooted(lk, b) /\ ToldOf(lk, b, Cached(lk))
    BY <1>1, FineIs DEF Defer, Tells
  <2> QED BY <2>1 DEF Rooted, Bare, ToldOf
<1>9. /\ Works(lk, a, b) /\ Queries(a) /\ ~a.aborted /\ Served(a) /\ a.br[b] = "live"
      /\ a.started[b] = {} /\ a.follows[b] = {} /\ a.told[b] = {}
  BY <1>1, <1>7, <1>8, FineIs DEF Puts, Works, Serves, Bare, SameRun
<1>10. \A x \in Key : a.ref[b][x] = IF x = BrowseKey[b] THEN 1 ELSE 0
  BY <1>2, <1>3, <1>6, <1>7, <1>8 DEF Puts, Bare
<1>11. PICK t : t = Go(a, b, BrowseKey[b])
  OBVIOUS
<1>12. Works(a, t, b) /\ Served(t) /\ t.br[b] = a.br[b] /\ (~t.aborted => Grows(t, b, {BrowseKey[b]}))
  BY <1>9, <1>10, <1>11, GoIs
<1>13. Works(lk, t, b)
  BY <1>9, <1>12, WorksBoth
<1>14. ASSUME ~t.aborted PROVE Rooted(t, b) /\ ToldOf(t, b, Cached(t))
  <2>1. Grows(t, b, {BrowseKey[b]}) /\ BrowseKey[b] \in t.started[b]
    BY <1>12, <1>14 DEF Grows, Hangs
  <2> QED BY <1>9, <1>12, <2>1 DEF Rooted, Grows, Shows, ToldOf
<1>15. Inv(t) /\ t.cache = lk.cache
  BY <1>1, <1>12, <1>13, <1>14, OneBrowser
<1>16. Does(t)
  BY <1>5, <1>11 DEF Defer
<1> QED BY <1>15, <1>16, DoesIs

LEMMA BrowserFreeKeeps ==
  ASSUME Inv(lk), NEW b \in Browser, BrowserFree(b)
  PROVE  Inv(lk') /\ lk'.cache = lk.cache
<1>1. PICK a : a = Happens
  OBVIOUS
<1>2. Fine(a) /\ Alike(lk, a)
  BY <1>1, HappeningIs DEF BrowserFree
<1>3. PICK t : t = [Cancel(a, b) EXCEPT !.br[b] = "none", !.told[b] = {}]
  OBVIOUS
<1>4. /\ Works(a, t, b) /\ Serves(a, t) /\ Rooted(t, b) /\ \A C : ToldOf(t, b, C)
  <2>1. Queries(a) /\ ~a.aborted /\ Rooted(a, b) /\ "none" \in Stage \ {"live"}
    BY <1>2, FineIs DEF Tells, Stage
  <2> QED BY <1>3, <2>1, RestartIs
<1>5. Served(t)
  BY <1>2, <1>4, FineIs DEF Serves
<1>6. Inv(t) /\ t.cache = a.cache
  BY <1>2, <1>4, <1>5, OneBrowser
<1>7. Does(t)
  BY <1>1, <1>3 DEF BrowserFree
<1> QED BY <1>2, <1>6, <1>7, DoesIs DEF Alike, SameCache

LEMMA AllForNowKeeps ==
  ASSUME Inv(lk), NEW b \in Browser, NEW k \in Key, AllForNow(b, k)
  PROVE  Inv(lk') /\ lk'.cache = lk.cache
<1>1. lk \in LookupState
  BY DEF Inv, Queries
<1>2. PICK t : t = WithStarted(lk, b, lk.started[b], lk.afn[b] \ {k})
  OBVIOUS
<1>3. Fine(lk) /\ Queries(lk)
  BY FineIs DEF Fine, AllForNow, Slow, Running
<1>4. [lk EXCEPT !.afn[b] = lk.afn[b] \ {k}] = t
  <2>1. lk.started = [lk.started EXCEPT ![b] = lk.started[b]]
    BY <1>1 DEF LookupState
  <2> QED BY <1>1, <1>2, <2>1 DEF WithStarted, LookupState
<1>5. Alters(lk, t, b, lk.started[b]) /\ t.querier = lk.querier
  <2>1. lk.started[b] \in SUBSET Key /\ lk.afn[b] \ {k} \in SUBSET Key
    BY <1>1 DEF LookupState
  <2> QED BY <1>2, <1>3, <2>1, StartedSet
<1>6. Works(lk, t, b) /\ Cached(t) = Cached(lk)
  BY <1>5, CachedSame DEF Works, Alters, Beside, SameRun
<1>7. /\ t.br[b] = lk.br[b] /\ t.ref[b] = lk.ref[b] /\ t.started[b] = lk.started[b]
      /\ t.follows[b] = lk.follows[b] /\ t.told[b] = lk.told[b] /\ Leads(t, b) = Leads(lk, b)
  BY <1>5 DEF Alters, Leads
<1>8. Rooted(t, b) /\ ToldOf(t, b, Cached(t))
  <2>1. Rooted(lk, b) /\ ToldOf(lk, b, Cached(lk))
    BY <1>3, FineIs DEF Tells
  <2> QED BY <1>6, <1>7, <2>1 DEF Rooted, Hangs, Bare, ToldOf
<1>9. Served(t)
  <2>1. \A x : Users(t, x) = Users(lk, x)
    BY <1>5 DEF Users, Alters
  <2>2. Served(lk)
    BY <1>3, FineIs
  <2> QED BY <1>5, <2>1, <2>2 DEF Served, Counted, Idle, Alters, SameRun
<1>10. Inv(t) /\ t.cache = lk.cache
  BY <1>3, <1>6, <1>8, <1>9, OneBrowser
<1>11. Does(t)
  BY <1>4 DEF AllForNow
<1> QED BY <1>10, <1>11, DoesIs

LEMMA ReceiveKeeps ==
  ASSUME Inv(lk), NEW r \in Record, NEW fl \in BOOLEAN, Receive(r, fl)
  PROVE  /\ Inv(lk')
         /\ LET E == Replaced(lk, Stale(lk, r, fl)) IN lk'.cache \in {E, [E EXCEPT ![r] = Fresh]}
<1>1. PICK a : a = Happens
  OBVIOUS
<1>2. Fine(a) /\ Alike(lk, a) /\ a.cache = lk.cache
  BY <1>1, HappeningIs DEF Receive, Alike, SameCache
<1>3. PICK t : t = CacheUpdate(a, r, fl)
  OBVIOUS
<1>4. a.announcing
  BY <1>2 DEF Receive, Alike
<1>5. /\ Queries(t) /\ Served(t) /\ Asked(t) /\ (~t.aborted => Tells(t)) /\ t.announcing = a.announcing
      /\ LET E == Replaced(a, Stale(a, r, fl)) IN t.cache \in {E, [E EXCEPT ![r] = Fresh]}
  <2>1. Queries(a) /\ ~a.aborted /\ Served(a) /\ Asked(a) /\ Tells(a)
    BY <1>2, FineIs
  <2> QED BY <1>3, <2>1, UpdateIs
<1>6. Inv(t)
  BY <1>4, <1>5, WholeIs DEF Inv
<1>7. Replaced(a, Stale(a, r, fl)) = Replaced(lk, Stale(lk, r, fl))
  BY <1>2 DEF Replaced, Stale, Cached
<1>8. Does(t)
  BY <1>1, <1>3 DEF Receive
<1>9. lk'.cache = t.cache /\ Inv(lk')
  BY <1>6, <1>8, DoesIs
<1> QED BY <1>5, <1>7, <1>9

LEMMA GoodbyeKeeps ==
  ASSUME Inv(lk), NEW r \in Record, Goodbye(r)
  PROVE  Inv(lk') /\ StayDropped(lk.cache, lk'.cache)
<1>1. PICK a : a = Happens
  OBVIOUS
<1>2. Fine(a) /\ Alike(lk, a) /\ a.cache = lk.cache
  BY <1>1, HappeningIs DEF Goodbye, Alike, SameCache
<1>3. PICK t : t = CacheGoodbye(a, r)
  OBVIOUS
<1>4. a.announcing /\ {r} \in SUBSET Cached(a)
  BY <1>2 DEF Goodbye, Alike, Cached
<1>5. t = ExpireSoon(a, {r}, "GOODBYE_FINAL")
  BY <1>3, <1>4 DEF CacheGoodbye, Cached
<1>6. /\ Caches(a, t, [x \in Record |-> IF x \in {r} THEN [a.cache[x] EXCEPT !.st = "GOODBYE_FINAL"] ELSE a.cache[x]])
      /\ (Asked(a) => Asked(t)) /\ SameBrowsers(a, t) /\ SameRun(a, t) /\ Cached(t) = Cached(a)
  <2>1. "GOODBYE_FINAL" \in Final \ {"EXPIRY_FINAL"} /\ Queries(a)
    BY <1>2, FineIs DEF Final
  <2> QED BY <1>4, <1>5, <2>1, ExpireSoonIs
<1>7. Inv(t)
  <2>1. Queries(t) /\ Served(t) /\ Asked(t) /\ Tells(t) /\ t.announcing
    BY <1>2, <1>4, <1>6, FineIs, TellsStay DEF Caches, Serves
  <2> QED BY <2>1, WholeIs DEF Inv
<1>8. StayDropped(a.cache, t.cache)
  <2> SUFFICES ASSUME NEW x \in Record, a.cache[x].st \in Dropped
               PROVE  t.cache[x].st \in Dropped \union {"absent"}
    BY DEF StayDropped
  <2>1. a.cache[x] \in Entry
    BY <1>2, FineIs
  <2>2. PICK d : d = [a.cache[x] EXCEPT !.st = "GOODBYE_FINAL"]
    OBVIOUS
  <2>3. d.st = "GOODBYE_FINAL"
    BY <2>1, <2>2 DEF Entry
  <2>4. t.cache[x] = IF x \in {r} THEN d ELSE a.cache[x]
    BY <1>6, <2>2 DEF Caches
  <2> QED BY <2>3, <2>4 DEF Dropped
<1>9. Does(t)
  BY <1>1, <1>3 DEF Goodbye
<1> QED BY <1>2, <1>7, <1>8, <1>9, DoesIs

LEMMA EntryTimerKeeps ==
  ASSUME Inv(lk), NEW r \in Record, EntryTimer(r)
  PROVE  Inv(lk') /\ StayDropped(lk.cache, lk'.cache)
<1>1. Fine(lk) /\ lk.jobs = {} /\ r \in Cached(lk)
  BY DEF Fine, EntryTimer, Slow, Running, Cached
<1>2. /\ Queries(lk) /\ ~lk.aborted /\ Served(lk) /\ Asked(lk) /\ Tells(lk) /\ lk.announcing
      /\ lk.cache \in [Record -> Entry]
  BY <1>1, FineIs
<1>3. PICK t : t = EntryElapses(lk, r)
  OBVIOUS
<1>4. /\ Queries(t) /\ Served(t) /\ Asked(t) /\ (~t.aborted => Tells(t)) /\ t.announcing = lk.announcing
      /\ Elapsed(lk.cache, t.cache, r)
  BY <1>1, <1>2, <1>3, ElapsesIs
<1>5. Inv(t)
  BY <1>2, <1>4, WholeIs DEF Inv
<1>6. PICK e \in Entry : /\ t.cache = [lk.cache EXCEPT ![r] = e]
                         /\ lk.cache[r].st \in Final => e = Absent
  BY <1>4 DEF Elapsed
<1>7. StayDropped(lk.cache, t.cache)
  <2> SUFFICES ASSUME NEW x \in Record, lk.cache[x].st \in Dropped
               PROVE  t.cache[x].st \in Dropped \union {"absent"}
    BY DEF StayDropped
  <2>1. x = r => e.st = "absent"
    BY <1>6, EntryIs DEF Dropped, Final
  <2> QED BY <1>2, <1>6, <2>1
<1>8. Does(t)
  BY <1>3 DEF EntryTimer
<1> QED BY <1>5, <1>7, <1>8, DoesIs

LEMMA EntryAgesKeeps ==
  ASSUME Inv(lk), NEW r \in Record, EntryAges(r)
  PROVE  Inv(lk') /\ StayDropped(lk.cache, lk'.cache)
<1>1. Fine(lk) /\ r \in Cached(lk) /\ lk.cache[r].st # "absent"
  BY DEF Fine, EntryAges, Slow, Running, Cached
<1>2. /\ Queries(lk) /\ lk \in LookupState /\ Served(lk) /\ Asked(lk) /\ Tells(lk) /\ lk.announcing
      /\ lk.cache \in [Record -> Entry] /\ lk.asked \in SUBSET Record
  BY <1>1, FineIs
<1>3. PICK e : e = [lk.cache[r] EXCEPT !.age = "old"]
  OBVIOUS
<1>4. e \in Entry /\ e.st = lk.cache[r].st
  <2>1. lk.cache[r] \in Entry
    BY <1>2
  <2> QED BY <1>3, <2>1 DEF Entry
<1>5. PICK C : C = [lk.cache EXCEPT ![r] = e]
  OBVIOUS
<1>6. C \in [Record -> Entry] /\ \A x \in Record : C[x].st = lk.cache[x].st
  BY <1>2, <1>4, <1>5
<1>7. PICK t : t = WithCache(lk, C, lk.asked)
  OBVIOUS
<1>8. [lk EXCEPT !.cache[r].age = "old"] = t
  <2>1. [lk EXCEPT !.cache[r].age = "old"] = [lk EXCEPT !.cache = C]
    BY <1>2, <1>3, <1>5 DEF LookupState
  <2> QED BY <1>2, <1>7, <2>1 DEF WithCache, LookupState
<1>9. /\ Queries(t) /\ t.cache = C /\ SameBrowsers(lk, t) /\ SameRun(lk, t) /\ Serves(lk, t)
      /\ (Asked(lk) => Asked(t))
  <2>1. \A x \in DOMAIN KeyOf : Aging(C[x]) /\ x \notin lk.asked => Aging(lk.cache[x]) /\ x \notin lk.asked
    BY <1>6, Consts DEF Aging
  <2> QED BY <1>2, <1>6, <1>7, <2>1, EntriesSet
<1>10. Cached(t) = Cached(lk)
  BY <1>6, <1>9 DEF Cached
<1>11. Inv(t)
  <2>1. Served(t) /\ Asked(t) /\ Tells(t) /\ t.announcing
    BY <1>2, <1>9, <1>10, TellsStay DEF Serves, SameRun
  <2> QED BY <1>9, <2>1, WholeIs DEF Inv
<1>12. StayDropped(lk.cache, t.cache)
  BY <1>6, <1>9 DEF StayDropped
<1>13. Does(t)
  BY <1>8 DEF EntryAges
<1> QED BY <1>11, <1>12, <1>13, DoesIs


\* A query that is heard: the key's job is in the history.
LEMMA IncomingIs ==
  ASSUME NEW s, Queries(s), NEW k \in Key, NEW t, t = IncomingQuery(s, k)
  PROVE  /\ Queries(t) /\ t.querier = s.querier
         /\ SameBrowsers(s, t) /\ SameCache(s, t) /\ SameRun(s, t)
         /\ \A x \in Key : x # k => History(t, x) = History(s, x) /\ Scheduled(t, x) = Scheduled(s, x)
<1>1. s \in LookupState /\ Singly(s) /\ Ids(s)
  BY DEF Queries
<1>2. s.querier \in [Key -> QuerierType] /\ s.jobs \in Jobs /\ s.jobs \subseteq Job /\ IsFiniteSet(s.jobs) /\ s.ret \in Nat
  BY <1>1 DEF LookupState, Jobs
<1>3. CASE Scheduled(s, k) # {}
  <2>1. PICK S : S = Scheduled(s, k)
    OBVIOUS
  <2>2. PICK left : left = {[j EXCEPT !.done = TRUE] : j \in S}
    OBVIOUS
  <2>3. PICK J : J = (s.jobs \ S) \union left
    OBVIOUS
  <2>4. \A j \in S : j \in s.jobs /\ j \in Job /\ j.key = k
    BY <1>2, <2>1 DEF Scheduled
  <2>5. \A j \in left : j \in Job /\ j.done /\ j.key = k /\ \E i \in S : i.id = j.id
    BY <2>2, <2>4 DEF Job
  <2>6. J \in Jobs
    <3>1. S \in SUBSET s.jobs /\ s.jobs \ S \in SUBSET s.jobs
      BY <2>4
    <3>2. IsFiniteSet(S) /\ IsFiniteSet(s.jobs \ S)
      BY <1>2, <3>1, FS_Subset
    <3>3. IsFiniteSet(left)
      <4>1. PICK f : f = [j \in S |-> [j EXCEPT !.done = TRUE]]
        OBVIOUS
      <4>2. DOMAIN f = S /\ {f[x] : x \in DOMAIN f} = left
        BY <2>2, <4>1
      <4> QED BY <3>2, <4>2, ImageFinite
    <3>4. IsFiniteSet(J)
      BY <2>3, <3>2, <3>3, FS_Union
    <3> QED BY <1>2, <2>3, <2>5, <3>4 DEF Jobs
  <2>7. t = WithQueries(s, s.querier, J, s.ret)
    BY <1>1, <1>3, <2>1, <2>2, <2>3 DEF IncomingQuery, WithQueries, LookupState
  <2>8. /\ t \in LookupState /\ t.querier = s.querier /\ t.jobs = J
        /\ SameBrowsers(s, t) /\ SameCache(s, t) /\ SameRun(s, t)
    BY <1>1, <1>2, <2>6, <2>7, QueriesSet
  <2>9. \A i, j \in S : i = j
    BY <1>1, <2>4 DEF Singly
  <2>10. \A i, j \in left : i = j
    BY <2>2, <2>9
  <2>11. left # {} => S # {}
    BY <2>2
  <2>12. \A j \in s.jobs \ S : left # {} => j.key # k
    BY <1>1, <2>4, <2>11 DEF Singly
  <2>13. Singly(t)
    BY <1>1, <2>3, <2>5, <2>8, <2>10, <2>12 DEF Singly
  <2>14. Ids(t)
    <3>1. \A j \in left : \E i \in s.jobs : i.id = j.id /\ i.key = j.key
      BY <2>4, <2>5
    <3> QED BY <1>1, <2>3, <2>8, <3>1 DEF Ids
  <2>15. \A x \in Key : x # k => History(t, x) = History(s, x) /\ Scheduled(t, x) = Scheduled(s, x)
    BY <2>3, <2>4, <2>5, <2>8 DEF History, Scheduled
  <2> QED BY <2>8, <2>13, <2>14, <2>15 DEF Queries
<1>4. CASE Scheduled(s, k) = {} /\ History(s, k) # {}
  BY <1>4 DEF IncomingQuery, SameBrowsers, SameCache, SameRun
<1>5. CASE Scheduled(s, k) = {} /\ History(s, k) = {}
  <2>1. PICK n \in Nat \ {0} : n = NextId(s)
    BY <1>1, NextIdIs
  <2>2. (\A j \in s.jobs : j.id # n) /\ \A x \in Key : s.querier[x].id # n
    BY <1>1, <2>1, NextIdIs
  <2>3. PICK i : i = [id |-> n, key |-> k, posted |-> 1, done |-> TRUE]
    OBVIOUS
  <2>4. PICK J : J = s.jobs \union {i}
    OBVIOUS
  <2>5. i \in Job /\ i.key = k /\ i.id = n /\ i.done /\ i \in J
    BY <2>3, <2>4 DEF Job
  <2>6. J \in Jobs
    BY <1>2, <2>4, <2>5, FS_AddElement DEF Jobs
  <2>7. t = WithQueries(s, s.querier, J, s.ret)
    BY <1>1, <1>5, <2>1, <2>3, <2>4 DEF IncomingQuery, JobNew, WithQueries, LookupState
  <2>8. /\ t \in LookupState /\ t.querier = s.querier /\ t.jobs = J
        /\ SameBrowsers(s, t) /\ SameCache(s, t) /\ SameRun(s, t)
    BY <1>1, <1>2, <2>6, <2>7, QueriesSet
  <2>9. \A x \in s.jobs : x.key # k
    BY <1>2, <1>5 DEF History, Scheduled, Job
  <2>10. Singly(t)
    BY <1>1, <2>4, <2>5, <2>8, <2>9 DEF Singly
  <2>11. Ids(t)
    BY <1>1, <2>2, <2>4, <2>5, <2>8 DEF Ids
  <2>12. \A x \in Key : x # k => History(t, x) = History(s, x) /\ Scheduled(t, x) = Scheduled(s, x)
    BY <2>4, <2>5, <2>8 DEF History, Scheduled
  <2> QED BY <2>8, <2>10, <2>11, <2>12 DEF Queries
<1> QED BY <1>3, <1>4, <1>5

\* Failures that are observed, or no longer observed, when k is asked for.
Observed(c, R, known) ==
    [r \in Record |-> IF r \in known THEN StopPoof(StartPoof(c[r]))
                      ELSE IF r \in R THEN StartPoof(c[r]) ELSE c[r]]
LEMMA ObservedIs ==
  ASSUME NEW c \in [Record -> Entry], NEW R, NEW known
  PROVE  LET d == Observed(c, R, known)
         IN  /\ d \in [Record -> Entry] /\ StayDropped(c, d)
             /\ \A r \in Record : (d[r].st = "absent") = (c[r].st = "absent") /\ (Aging(d[r]) => Aging(c[r]))
<1>1. PICK d : d = Observed(c, R, known)
  OBVIOUS
<1>2. ASSUME NEW r \in Record
      PROVE  /\ d[r] \in Entry /\ (d[r].st = "absent") = (c[r].st = "absent") /\ (Aging(d[r]) => Aging(c[r]))
             /\ c[r].st \in Dropped => d[r].st = c[r].st
  <2>1. c[r] \in Entry
    OBVIOUS
  <2>2. d[r] = c[r] \/ d[r] \in {StartPoof(c[r]), StopPoof(StartPoof(c[r]))}
    BY <1>1 DEF Observed
  <2>3. CASE d[r] = c[r]
    BY <2>1, <2>3
  <2>4. CASE d[r] \in {StartPoof(c[r]), StopPoof(StartPoof(c[r]))}
    BY <2>1, <2>4, PoofIs DEF Dropped
  <2> QED BY <2>2, <2>3, <2>4
<1>3. d \in [Record -> Entry]
  BY <1>1, <1>2 DEF Observed
<1>4. StayDropped(c, d)
  BY <1>2 DEF StayDropped
<1> QED BY <1>1, <1>2, <1>3, <1>4

LEMMA HearQueryKeeps ==
  ASSUME Inv(lk), NEW k \in Key, NEW known \in SUBSET DOMAIN KeyOf, HearQuery(k, known)
  PROVE  Inv(lk') /\ StayDropped(lk.cache, lk'.cache)
<1>1. Fine(lk) /\ lk \in LookupState /\ lk.announcing
  BY FineIs DEF Fine, HearQuery, Running
<1>2. PICK R : R = {r \in DOMAIN KeyOf : KeyOf[r] = k}
  OBVIOUS
<1>3. PICK C : C = Observed(lk.cache, R, known)
  OBVIOUS
<1>4. /\ C \in [Record -> Entry] /\ StayDropped(lk.cache, C)
      /\ \A r \in Record : (C[r].st = "absent") = (lk.cache[r].st = "absent") /\ (Aging(C[r]) => Aging(lk.cache[r]))
  <2>1. lk.cache \in [Record -> Entry]
    BY <1>1, FineIs
  <2> QED BY <1>3, <2>1, ObservedIs
<1>5. PICK a : a = IF MayHappen THEN Happens ELSE lk
  OBVIOUS
<1>6. Fine(a) /\ Alike(lk, a)
  <2>1. CASE MayHappen
    BY <1>1, <1>5, <2>1, HappeningIs DEF Fine
  <2>2. CASE ~MayHappen
    BY <1>1, <1>5, <2>2 DEF Alike, SameBrowsers, SameCache, Fine, Inv, Queries
  <2> QED BY <2>1, <2>2
<1>7. PICK s : s = WithCache(a, C, a.asked)
  OBVIOUS
<1>8. [lk EXCEPT !.events = IF MayHappen THEN lk.events + 1 ELSE lk.events, !.cache = C] = s
  BY <1>1, <1>5, <1>7 DEF WithCache, Happens, LookupState
<1>9. /\ Queries(a) /\ Served(a) /\ Asked(a) /\ Tells(a) /\ a.announcing /\ a.asked \in SUBSET Record
      /\ a.cache = lk.cache
  BY <1>1, <1>6, FineIs DEF Alike, SameCache
<1>10. /\ Queries(s) /\ s.cache = C /\ s.asked = a.asked /\ s.querier = a.querier /\ s.jobs = a.jobs
       /\ SameBrowsers(a, s) /\ SameRun(a, s) /\ Serves(a, s) /\ Asked(s)
  <2>1. \A x \in DOMAIN KeyOf : Aging(C[x]) /\ x \notin a.asked => Aging(a.cache[x]) /\ x \notin a.asked
    BY <1>4, <1>9, Consts
  <2> QED BY <1>4, <1>7, <1>9, <2>1, EntriesSet
<1>11. Cached(s) = Cached(a) /\ Cached(a) = Cached(lk)
  BY <1>4, <1>9, <1>10 DEF Cached
<1>12. Served(s) /\ Tells(s) /\ s.announcing
  BY <1>9, <1>10, <1>11, TellsStay DEF Serves, SameRun
<1>13. Inv(s)
  BY <1>10, <1>12, WholeIs DEF Inv
<1>14. PICK u : u = IncomingQuery(s, k)
  OBVIOUS
<1>15. /\ Queries(u) /\ u.querier = s.querier
       /\ SameBrowsers(s, u) /\ SameCache(s, u) /\ SameRun(s, u)
       /\ \A x \in Key : x # k => History(u, x) = History(s, x) /\ Scheduled(u, x) = Scheduled(s, x)
  BY <1>10, <1>14, IncomingIs
<1>16. PICK A : A = u.asked \union (R \intersect Cached(lk))
  OBVIOUS
<1>17. A \in SUBSET Record /\ u.cache \in [Record -> Entry] /\ u \in LookupState
  BY <1>2, <1>15, <1>16, Consts DEF Queries, LookupState
<1>18. PICK v : v = WithCache(u, u.cache, A)
  OBVIOUS
<1>19. [u EXCEPT !.asked = A] = v
  BY <1>17, <1>18 DEF WithCache, LookupState
<1>20. /\ Queries(v) /\ v.cache = u.cache /\ v.asked = A /\ v.querier = u.querier /\ v.jobs = u.jobs
       /\ SameBrowsers(u, v) /\ SameRun(u, v) /\ Serves(u, v)
  BY <1>15, <1>17, <1>18, EntriesSet
<1>21. Asked(v)
  <2> SUFFICES ASSUME NEW r \in DOMAIN KeyOf, Aging(v.cache[r]), r \notin v.asked
               PROVE  /\ History(v, KeyOf[r]) = {}
                      /\ v.querier[KeyOf[r]] # NoQuerier => Scheduled(v, KeyOf[r]) # {}
    BY DEF Asked
  <2>1. v.cache = s.cache /\ v.querier = s.querier /\ r \in Record /\ KeyOf[r] \in Key
    BY <1>15, <1>20, Consts DEF SameCache
  <2>2. KeyOf[r] # k
    <3>1. s.cache[r].st # "absent"
      BY <2>1 DEF Aging
    <3>2. r \in Cached(lk)
      BY <1>11, <2>1, <3>1 DEF Cached
    <3> QED BY <1>2, <1>16, <1>20, <3>2
  <2>3. r \notin s.asked
    BY <1>15, <1>16, <1>20 DEF SameCache
  <2>4. History(v, KeyOf[r]) = History(u, KeyOf[r]) /\ Scheduled(v, KeyOf[r]) = Scheduled(u, KeyOf[r])
    BY <1>20 DEF History, Scheduled
  <2>5. History(v, KeyOf[r]) = History(s, KeyOf[r]) /\ Scheduled(v, KeyOf[r]) = Scheduled(s, KeyOf[r])
    BY <1>15, <2>1, <2>2, <2>4
  <2> QED BY <1>10, <2>1, <2>3, <2>5 DEF Asked
<1>22. Inv(v)
  <2>1. SameBrowsers(s, v) /\ v.announcing = s.announcing /\ v.querier = s.querier /\ v.cache = s.cache
    BY <1>15, <1>20 DEF SameBrowsers, SameRun, SameCache
  <2>2. Cached(v) = Cached(s)
    BY <2>1 DEF Cached
  <2>3. Served(v) /\ Tells(v) /\ v.announcing
    BY <1>12, <2>1, <2>2, TellsStay DEF Serves
  <2> QED BY <1>20, <1>21, <2>3, WholeIs DEF Inv
<1>23. Does(IF known = {} THEN v ELSE s)
  <2>1. [lk EXCEPT !.events = IF MayHappen THEN lk.events + 1 ELSE lk.events,
                   !.cache = [r \in Record |->
                            IF r \in known THEN StopPoof(StartPoof(lk.cache[r]))
                            ELSE IF r \in R THEN StartPoof(lk.cache[r]) ELSE lk.cache[r]]] = s
    BY <1>3, <1>8 DEF Observed
  <2> QED BY <1>2, <1>14, <1>16, <1>19, <2>1 DEF HearQuery
<1>24. v.cache = C
  BY <1>10, <1>15, <1>20 DEF SameCache
<1>25. PICK w : w = IF known = {} THEN v ELSE s
  OBVIOUS
<1>26. Inv(w) /\ w.cache = C /\ Does(w)
  BY <1>10, <1>13, <1>22, <1>23, <1>24, <1>25
<1> QED BY <1>4, <1>26, DoesIs

LEMMA JobElapsesKeeps ==
  ASSUME Inv(lk), NEW j \in lk.jobs, JobElapses(j)
  PROVE  Inv(lk') /\ lk'.cache = lk.cache
<1>1. Fine(lk) /\ lk \in LookupState /\ Queries(lk) /\ Singly(lk) /\ Ids(lk)
  BY FineIs DEF Fine, JobElapses, Running, Queries
<1>2. /\ lk.querier \in [Key -> QuerierType] /\ lk.jobs \in Jobs /\ lk.jobs \subseteq Job /\ IsFiniteSet(lk.jobs)
      /\ lk.ret \in Nat /\ lk.cache \in [Record -> Entry] /\ lk.asked \in SUBSET Record
  BY <1>1 DEF LookupState, Jobs
<1>3. Asked(lk) /\ Served(lk) /\ Tells(lk) /\ (~lk.announcing => Cached(lk) = {})
  BY <1>1, FineIs
<1>4. CASE j.done /\ Does([lk EXCEPT !.jobs = lk.jobs \ {j}])
  <2>1. PICK J : J = lk.jobs \ {j}
    OBVIOUS
  <2>2. J \in Jobs
    <3>1. J \in SUBSET lk.jobs
      BY <2>1
    <3>2. IsFiniteSet(J)
      BY <1>2, <3>1, FS_Subset
    <3> QED BY <1>2, <3>1, <3>2 DEF Jobs
  <2>3. PICK t : t = WithQueries(lk, lk.querier, J, lk.ret)
    OBVIOUS
  <2>4. [lk EXCEPT !.jobs = J] = t
    BY <1>1, <2>3 DEF WithQueries, LookupState
  <2>5. /\ t \in LookupState /\ t.querier = lk.querier /\ t.jobs = J
        /\ SameBrowsers(lk, t) /\ SameCache(lk, t) /\ SameRun(lk, t)
    BY <1>1, <1>2, <2>2, <2>3, QueriesSet
  <2>6. Queries(t)
    BY <1>1, <2>1, <2>5 DEF Queries, Singly, Ids
  <2>7. Asked(t)
    <3>1. \A k : History(t, k) \subseteq History(lk, k) /\ Scheduled(t, k) = Scheduled(lk, k)
      BY <1>4, <2>1, <2>5 DEF History, Scheduled
    <3> QED BY <1>3, <2>5, <3>1 DEF Asked, SameCache
  <2>8. Cached(t) = Cached(lk)
    BY <2>5, CachedSame
  <2>9. Served(t) /\ Tells(t) /\ t.announcing = lk.announcing
    BY <1>3, <2>5, <2>8, TellsStay DEF Serves, SameRun
  <2>10. Inv(t)
    BY <1>3, <2>6, <2>7, <2>8, <2>9, WholeIs DEF Inv
  <2>11. Does(t)
    BY <1>4, <2>1, <2>4
  <2> QED BY <2>5, <2>10, <2>11, DoesIs DEF SameCache
<1>5. ASSUME NEW sent, sent = {x.key : x \in {x \in lk.jobs : ~x.done}},
             Does([lk EXCEPT !.jobs = {[x EXCEPT !.done = TRUE] : x \in lk.jobs},
                             !.asked = lk.asked \union {r \in DOMAIN KeyOf : KeyOf[r] \in sent}])
      PROVE  Inv(lk') /\ lk'.cache = lk.cache
  <2>1. PICK J : J = {[x EXCEPT !.done = TRUE] : x \in lk.jobs}
    OBVIOUS
  <2>2. PICK A : A = lk.asked \union {r \in DOMAIN KeyOf : KeyOf[r] \in sent}
    OBVIOUS
  <2>3. A \in SUBSET Record
    BY <1>2, <2>2, Consts
  <2>4. \A x \in J : x \in Job /\ x.done /\ \E i \in lk.jobs : i.id = x.id /\ i.key = x.key /\ x = [i EXCEPT !.done = TRUE]
    BY <1>2, <2>1 DEF Job
  <2>5. J \in Jobs
    <3>1. PICK f : f = [x \in lk.jobs |-> [x EXCEPT !.done = TRUE]]
      OBVIOUS
    <3>2. DOMAIN f = lk.jobs /\ {f[x] : x \in DOMAIN f} = J
      BY <2>1, <3>1
    <3>3. IsFiniteSet(J)
      BY <1>2, <3>2, ImageFinite
    <3> QED BY <2>4, <3>3 DEF Jobs
  <2>6. PICK a : a = WithQueries(lk, lk.querier, J, lk.ret)
    OBVIOUS
  <2>7. /\ a \in LookupState /\ a.querier = lk.querier /\ a.jobs = J
        /\ SameBrowsers(lk, a) /\ SameCache(lk, a) /\ SameRun(lk, a)
    BY <1>1, <1>2, <2>5, <2>6, QueriesSet
  <2>8. Singly(a)
    <3> SUFFICES ASSUME NEW x \in J, NEW y \in J, x.key = y.key
                 PROVE  x = y
      BY <2>7 DEF Singly
    <3>1. PICK i \in lk.jobs : i.key = x.key /\ x = [i EXCEPT !.done = TRUE]
      BY <2>4
    <3>2. PICK l \in lk.jobs : l.key = y.key /\ y = [l EXCEPT !.done = TRUE]
      BY <2>4
    <3>3. i = l
      BY <1>1, <3>1, <3>2 DEF Singly
    <3> QED BY <3>1, <3>2, <3>3
  <2>9. Ids(a)
    BY <1>1, <2>4, <2>7 DEF Ids
  <2>10. Queries(a)
    BY <2>7, <2>8, <2>9 DEF Queries
  <2>11. PICK t : t = WithCache(a, a.cache, A)
    OBVIOUS
  <2>12. [lk EXCEPT !.jobs = J, !.asked = A] = t
    BY <1>1, <2>6, <2>7, <2>11 DEF WithCache, WithQueries, LookupState
  <2>13. /\ Queries(t) /\ t.cache = lk.cache /\ t.asked = A /\ t.querier = lk.querier /\ t.jobs = J
         /\ SameBrowsers(a, t) /\ SameRun(a, t)
    <3>1. a.cache = lk.cache /\ a.cache \in [Record -> Entry]
      BY <1>2, <2>7 DEF SameCache
    <3> QED BY <2>3, <2>7, <2>10, <2>11, <3>1, EntriesSet
  <2>14. Asked(t)
    <3> SUFFICES ASSUME NEW r \in DOMAIN KeyOf, Aging(t.cache[r]), r \notin t.asked
                 PROVE  /\ History(t, KeyOf[r]) = {}
                        /\ t.querier[KeyOf[r]] # NoQuerier => Scheduled(t, KeyOf[r]) # {}
      BY DEF Asked
    <3>1. r \notin lk.asked /\ KeyOf[r] \notin sent
      BY <2>2, <2>13
    <3>2. Scheduled(lk, KeyOf[r]) = {}
      BY <1>5, <3>1 DEF Scheduled
    <3>3. History(lk, KeyOf[r]) = {} /\ lk.querier[KeyOf[r]] = NoQuerier
      BY <1>3, <2>13, <3>1, <3>2 DEF Asked
    <3>4. \A i \in lk.jobs : i.key # KeyOf[r]
      BY <1>2, <3>2, <3>3 DEF History, Scheduled, Job
    <3>5. History(t, KeyOf[r]) = {}
      BY <2>4, <2>13, <3>4 DEF History
    <3> QED BY <2>13, <3>3, <3>5
  <2>15. Cached(t) = Cached(lk)
    BY <2>13 DEF Cached
  <2>16. SameBrowsers(lk, t) /\ t.announcing = lk.announcing
    BY <2>7, <2>13 DEF SameBrowsers, SameRun
  <2>17. Served(t) /\ Tells(t)
    BY <1>3, <2>13, <2>15, <2>16, TellsStay DEF Serves
  <2>18. Inv(t)
    BY <1>3, <2>13, <2>14, <2>15, <2>16, <2>17, WholeIs DEF Inv
  <2>19. Does(t)
    BY <1>5, <2>1, <2>2, <2>12
  <2> QED BY <2>13, <2>18, <2>19, DoesIs
<1> QED BY <1>4, <1>5 DEF JobElapses

LEMMA DelayIs ==
  ASSUME NEW q \in QuerierType
  PROVE  NextDelay(q) \in 0 .. MaxDelay
BY QuerierIs, Consts DEF NextDelay

LEMMA QuerierElapsesKeeps ==
  ASSUME Inv(lk), NEW k \in Key, QuerierElapses(k)
  PROVE  Inv(lk') /\ lk'.cache = lk.cache
<1>1. Fine(lk) /\ lk \in LookupState /\ Queries(lk) /\ lk.jobs = {} /\ lk.querier[k] # NoQuerier
  BY FineIs DEF Fine, QuerierElapses, Slow, Running
<1>2. /\ lk.querier \in [Key -> QuerierType] /\ lk.querier[k] \in QuerierType
      /\ Asked(lk) /\ Served(lk) /\ Tells(lk)
  BY <1>1, FineIs
<1>3. lk.announcing
  BY <1>1, <1>2 DEF Served, Idle
<1>4. PICK a : a = Refresh(lk, k)
  OBVIOUS
<1>5. Queries(a) /\ Asked(a) /\ Serves(lk, a) /\ SameBrowsers(lk, a) /\ SameCache(lk, a) /\ SameRun(lk, a)
  <2>1. \A r \in DOMAIN KeyOf : KeyOf[r] # k /\ Aging(lk.cache[r]) /\ r \notin lk.asked => lk.querier[KeyOf[r]] = NoQuerier
    <3>1. \A x : Scheduled(lk, x) = {}
      BY <1>1 DEF Scheduled
    <3> QED BY <1>2, <3>1 DEF Asked
  <2> QED BY <1>1, <1>3, <1>4, <2>1, RefreshIs
<1>6. Cached(a) = Cached(lk) /\ Served(a) /\ a.announcing
  BY <1>2, <1>3, <1>5, CachedSame DEF Serves, SameRun
<1>7. Tells(a)
  BY <1>2, <1>5, <1>6, TellsStay
<1>8. Inv(a)
  BY <1>5, <1>6, <1>7, WholeIs DEF Inv
<1>9. CASE lk.querier[k].used <= 0
  <2>1. Does(a)
    BY <1>1, <1>4, <1>9 DEF QuerierElapses, Refresh
  <2> QED BY <1>5, <1>8, <2>1, DoesIs DEF SameCache
<1>10. CASE ~(lk.querier[k].used <= 0)
  <2>1. a = PostQuery(lk, k)
    BY <1>1, <1>4, <1>10 DEF Refresh
  <2>2. Posts(lk, a, k)
    BY <1>1, <2>1, PostIs
  <2>3. PICK q : q = lk.querier[k]
    OBVIOUS
  <2>4. q \in QuerierType /\ q # NoQuerier /\ q.used \in Nat /\ q.id \in Nat /\ a.querier[k] = q /\ a.querier = lk.querier
        /\ a \in LookupState /\ a.ret \in Nat
    <3>1. q \in QuerierType /\ q # NoQuerier /\ a.querier = lk.querier /\ a \in LookupState
      BY <1>1, <1>2, <2>2, <2>3 DEF Posts
    <3> QED BY <2>3, <3>1, QuerierIs DEF LookupState
  <2>5. PICK id : id = IF a.ret # 0 THEN a.ret ELSE q.id
    OBVIOUS
  <2>6. PICK p : p = [used |-> q.used, delay |-> NextDelay(q), id |-> id]
    OBVIOUS
  <2>7. p \in QuerierType /\ p.used = q.used /\ p.id = id
    <3>1. id \in Nat /\ NextDelay(q) \in 0 .. MaxDelay
      BY <2>4, <2>5, DelayIs
    <3> QED BY <2>4, <2>6, <3>1, QuerierIs
  <2>8. PICK t : t = WithQueries(a, [a.querier EXCEPT ![k] = p], a.jobs, a.ret)
    OBVIOUS
  <2>9. [a EXCEPT !.querier[k].id = id, !.querier[k].delay = NextDelay(q)] = t
    <3>1. q \in [used : Nat, delay : 0 .. MaxDelay, id : Nat]
      BY <2>4 DEF QuerierType
    <3>2. [a.querier EXCEPT ![k].id = id, ![k].delay = NextDelay(q)] = [a.querier EXCEPT ![k] = p]
      <4>1. a.querier \in [Key -> QuerierType]
        BY <1>2, <2>4
      <4>2. [[q EXCEPT !.id = id] EXCEPT !.delay = NextDelay(q)] = p
        <5>1. PICK d : d = NextDelay(q)
          OBVIOUS
        <5>2. [[q EXCEPT !.id = id] EXCEPT !.delay = d] = [used |-> q.used, delay |-> d, id |-> id]
          <6>1. PICK e : e = [q EXCEPT !.id = id]
            OBVIOUS
          <6>2. e = [used |-> q.used, delay |-> q.delay, id |-> id]
            BY <3>1, <6>1
          <6>3. [e EXCEPT !.delay = d] = [used |-> q.used, delay |-> d, id |-> id]
            BY <6>2
          <6> QED BY <6>1, <6>3
        <5> QED BY <2>6, <5>1, <5>2
      <4>3. [a.querier EXCEPT ![k].id = id, ![k].delay = NextDelay(q)]
              = [a.querier EXCEPT ![k] = [[q EXCEPT !.id = id] EXCEPT !.delay = NextDelay(q)]]
        BY <2>4, <4>1
      <4> QED BY <4>2, <4>3
    <3>3. [a EXCEPT !.querier[k].id = id, !.querier[k].delay = NextDelay(q)]
             = [a EXCEPT !.querier = [a.querier EXCEPT ![k].id = id, ![k].delay = NextDelay(q)]]
      BY <1>2, <2>4 DEF LookupState
    <3> QED BY <2>4, <2>8, <3>2, <3>3 DEF WithQueries, LookupState
  <2>10. \A j \in a.jobs : j.id = p.id => j.key = k
    <3>1. a.ret = 0 => \A j \in a.jobs : j.id = q.id => j.key = k
      BY <1>5, <2>4 DEF Queries, Ids
    <3>2. a.ret # 0 => \A j \in a.jobs : j.id = a.ret => j.key = k
      BY <2>2 DEF Posts
    <3> QED BY <2>5, <2>7, <3>1, <3>2
  <2>11. Manages(a, t, k) /\ t.querier[k] = p
    BY <1>5, <2>4, <2>7, <2>8, <2>10, QuerierSet
  <2>12. \A x \in Key : Used(t.querier[x]) = Used(a.querier[x])
    BY <2>4, <2>7, <2>11 DEF Manages, Used
  <2>13. Served(t)
    <3>1. \A x : Users(t, x) = Users(a, x)
      BY <2>11 DEF Manages, SameBrowsers, Users
    <3>2. t.announcing /\ Counted(a)
      BY <1>6, <2>11 DEF Manages, SameRun, Served
    <3> QED BY <2>12, <3>1, <3>2 DEF Served, Counted
  <2>14. Cached(t) = Cached(a) /\ t.announcing /\ t.cache = lk.cache
    BY <1>5, <1>6, <2>11, CachedSame DEF Manages, SameRun, SameCache
  <2>15. Tells(t)
    BY <1>7, <2>11, <2>14, TellsStay DEF Manages
  <2>16. Inv(t)
    BY <1>5, <2>11, <2>13, <2>14, <2>15, WholeIs DEF Inv, Manages
  <2>17. Does(t)
    <3>1. Does([a EXCEPT !.querier[k].id = IF a.ret # 0 THEN a.ret ELSE a.querier[k].id,
                         !.querier[k].delay = NextDelay(lk.querier[k])])
      BY <1>10, <2>1 DEF QuerierElapses
    <3>2. a.querier[k].id = q.id
      BY <2>4
    <3> QED BY <2>3, <2>5, <2>9, <3>1, <3>2
  <2> QED BY <2>14, <2>16, <2>17, DoesIs
<1> QED BY <1>9, <1>10, QuerierIs
-------------------------------------------------------------------------------
(* The interface goes, and comes back.                                        *)

Removes(s, seq) == Along(s, seq, RemoveEntry)
LEMMA RemovesAre ==
  ASSUME NEW a, Queries(a), ~a.aborted, Idle(a), Asked(a), Tells(a), NEW seq, IsList(seq, Cached(a)),
         NEW t, t = Removes(a, seq)
  PROVE  /\ Queries(t) /\ Idle(t) /\ Asked(t) /\ t.announcing = a.announcing /\ t.events = a.events
         /\ StayDropped(a.cache, t.cache)
         /\ ~t.aborted => Tells(t) /\ Cached(t) = {}
<1>1. PICK N : N = Len(seq) /\ N \in Nat
  BY DEF IsList
<1> N \in Nat
  BY <1>1
<1>2. /\ \A i \in 1 .. N : seq[i] \in Cached(a)
      /\ \A i, j \in 1 .. N : seq[i] = seq[j] => i = j
      /\ \A r \in Cached(a) : \E i \in 1 .. N : seq[i] = r
  BY <1>1 DEF IsList
<1> DEFINE Left(n) == {seq[i] : i \in n + 1 .. N}
           At(n, u) == /\ Queries(u) /\ Idle(u) /\ Asked(u)
                       /\ u.announcing = a.announcing /\ u.events = a.events
                       /\ \A x \in Record : u.cache[x] \in {a.cache[x], Absent}
                       /\ ~u.aborted => Tells(u) /\ Cached(u) = Left(n)
           Turn(u, n) == IF u.aborted THEN u ELSE RemoveEntry(u, seq[n])
           Body(f) == [n \in 0 .. N |-> IF n = 0 THEN a ELSE Turn(f[n-1], n)]
<1>3. t = (CHOOSE f : f = Body(f))[N]
  BY <1>1 DEF Removes, Along
<1>4. At(0, a)
  <2>1. Left(0) = Cached(a)
    BY <1>2
  <2> QED BY <2>1
<1>5. ASSUME NEW n \in 1 .. N, NEW u, At(n - 1, u)
      PROVE  At(n, Turn(u, n))
  <2>1. CASE u.aborted
    BY <1>5, <2>1
  <2>2. CASE ~u.aborted
    <3>1. PICK r : r = seq[n]
      OBVIOUS
    <3>2. PICK v : v = RemoveEntry(u, r)
      OBVIOUS
    <3>3. n - 1 + 1 = n /\ r \in Left(n - 1)
      BY <3>1
    <3>4. Left(n) = Left(n - 1) \ {r}
      BY <1>2, <3>1, <3>3
    <3>5. Queries(u) /\ Idle(u) /\ Asked(u) /\ Tells(u) /\ Cached(u) = Left(n - 1) /\ r \in Cached(u)
      BY <1>5, <2>2, <3>3
    <3> HIDE DEF Left
    <3>6. /\ Caches(u, v, [u.cache EXCEPT ![r] = Absent]) /\ (Asked(u) => Asked(v))
          /\ Cached(v) = Cached(u) \ {r} /\ (~v.aborted => Tells(v))
      <4> HIDE DEF At, Turn, Body
      <4> QED BY <3>2, <3>5, RemoveEntryIs
    <3>7. Queries(v) /\ Idle(v) /\ Asked(v) /\ v.announcing = a.announcing /\ v.events = a.events
      BY <1>5, <3>5, <3>6 DEF Caches, Serves
    <3>8. \A x \in Record : v.cache[x] \in {a.cache[x], Absent}
      <4>1. v.cache = [u.cache EXCEPT ![r] = Absent] /\ u.cache \in [Record -> Entry]
        BY <3>5, <3>6 DEF Caches, Queries, LookupState
      <4>2. \A x \in Record : v.cache[x] \in {u.cache[x], Absent}
        BY <4>1
      <4>3. \A x \in Record : u.cache[x] \in {a.cache[x], Absent}
        BY <1>5
      <4> QED BY <4>2, <4>3
    <3>9. Cached(v) = Left(n)
      BY <3>4, <3>5, <3>6
    <3> QED BY <2>2, <3>1, <3>2, <3>6, <3>7, <3>8, <3>9
  <2> QED BY <2>1, <2>2
<1> HIDE DEF Turn
<1> HIDE DEF At
<1>6. PICK Q : Q = [n \in 0 .. N |-> {u \in LookupState : At(n, u)}]
  OBVIOUS
<1>7. \A n \in 0 .. N : \A u \in Q[n] : At(n, u)
  BY <1>6
<1>8. \A n \in 0 .. N : \A u : At(n, u) => u \in Q[n]
  BY <1>6 DEF At, Queries
<1>9. PICK g : g = [n \in 1 .. N |-> [u \in Q[n-1] |-> Turn(u, n)]]
  OBVIOUS
<1>10. \A n \in 1 .. N : \A u \in Q[n-1] : g[n][u] = Turn(u, n) /\ g[n][u] \in Q[n]
  <2> SUFFICES ASSUME NEW n \in 1 .. N, NEW u \in Q[n-1]
               PROVE  g[n][u] = Turn(u, n) /\ g[n][u] \in Q[n]
    OBVIOUS
  <2>1. n - 1 \in 0 .. N /\ n \in 0 .. N
    OBVIOUS
  <2>2. At(n, Turn(u, n))
    BY <1>5, <1>7, <2>1
  <2>3. g[n][u] = Turn(u, n)
    BY <1>9
  <2> QED BY <1>8, <2>1, <2>2, <2>3
<1>11. a \in Q[0]
  BY <1>4, <1>8
<1>12. PICK f : f = Body(f) /\ t = f[N]
  <2>1. PICK f \in [0 .. N -> Values(Q, N)] : Runs(f, N, a, g) /\ \A n \in 0 .. N : f[n] \in Q[n]
    BY <1>10, <1>11, Loops
  <2>2. ASSUME NEW n \in 0 .. N
        PROVE  f[n] = IF n = 0 THEN a ELSE Turn(f[n-1], n)
    <3>1. n # 0 => n \in 1 .. N /\ n - 1 \in 0 .. N /\ f[n-1] \in Q[n-1]
      BY <2>1
    <3>2. n # 0 => g[n][f[n-1]] = Turn(f[n-1], n)
      BY <1>10, <3>1
    <3> QED BY <2>1, <3>2 DEF Runs
  <2>3. f = Body(f)
    BY <2>1, <2>2
  <2>4. \E h : h = Body(h)
    BY <2>3
  <2> QED BY <1>3, <2>4
<1>13. At(N, t)
  <2>1. f[0] \in Q[0]
    BY <1>11, <1>12
  <2>2. ASSUME NEW n \in 1 .. N, f[n-1] \in Q[n-1] PROVE f[n] \in Q[n]
    <3>1. g[n][f[n-1]] = Turn(f[n-1], n) /\ g[n][f[n-1]] \in Q[n]
      BY <1>10, <2>2
    <3>2. f[n] = Turn(f[n-1], n)
      BY <1>12
    <3> QED BY <3>1, <3>2
  <2>3. f[N] \in Q[N]
    BY <2>1, <2>2, LoopEnds
  <2> QED BY <1>7, <1>12, <2>3
<1>14. Left(N) = {}
  OBVIOUS
<1>15. \A x \in Record : t.cache[x] \in {a.cache[x], Absent}
  BY <1>13 DEF At
<1>16. StayDropped(a.cache, t.cache)
  BY <1>15, EntryIs DEF StayDropped
<1> QED BY <1>13, <1>14, <1>16 DEF At

LEMMA InterfaceGoesKeeps ==
  ASSUME Inv(lk), InterfaceGoes
  PROVE  Inv(lk') /\ StayDropped(lk.cache, lk'.cache)
<1>1. PICK h : h = Happens
  OBVIOUS
<1>2. Fine(h) /\ Alike(lk, h) /\ h \in LookupState /\ Cached(h) = Cached(lk)
  <2>1. Fine(h) /\ Alike(lk, h)
    BY <1>1, HappeningIs DEF InterfaceGoes
  <2> QED BY <2>1, FineIs, CachedSame DEF Alike
<1>3. PICK q : q = [k \in Key |-> NoQuerier]
  OBVIOUS
<1>4. q \in [Key -> QuerierType] /\ {} \in Jobs /\ h.ret \in Nat /\ \A k \in Key : q[k] = NoQuerier
  BY <1>2, <1>3, FS_EmptySet DEF QuerierType, Jobs, LookupState
<1>5. PICK a : a = WithQueries(h, q, {}, h.ret)
  OBVIOUS
<1>6. [h EXCEPT !.querier = q, !.jobs = {}] = a
  BY <1>2, <1>5 DEF WithQueries, LookupState
<1>7. /\ a \in LookupState /\ a.querier = q /\ a.jobs = {}
      /\ SameBrowsers(h, a) /\ SameCache(h, a) /\ SameRun(h, a)
  BY <1>2, <1>4, <1>5, QueriesSet
<1>8. Queries(a) /\ Idle(a) /\ ~a.aborted /\ Cached(a) = Cached(lk)
  <2>1. Queries(a) /\ Idle(a)
    BY <1>4, <1>7 DEF Queries, Singly, Ids, Idle
  <2> QED BY <1>2, <1>7, <2>1, FineIs, CachedSame DEF SameRun
<1>9. Asked(a)
  BY <1>4, <1>7, Consts DEF Asked, History
<1>10. Tells(a)
  BY <1>2, <1>7, <1>8, FineIs, TellsStay
<1>11. PICK seq : seq = SetToSeq(Cached(lk))
  OBVIOUS
<1>12. IsList(seq, Cached(a))
  <2>1. IsFiniteSet(Record) /\ Cached(lk) \in SUBSET Record
    BY LookupAssumption DEF Cached
  <2>2. IsFiniteSet(Cached(lk))
    BY <2>1, FS_Subset
  <2> QED BY <1>8, <1>11, <2>2, ListIs
<1>13. PICK t : t = Removes(a, seq)
  OBVIOUS
<1>14. /\ Queries(t) /\ Idle(t) /\ Asked(t) /\ StayDropped(a.cache, t.cache)
       /\ ~t.aborted => Tells(t) /\ Cached(t) = {}
  BY <1>8, <1>9, <1>10, <1>12, <1>13, RemovesAre
<1>15. Does(IF t.aborted THEN t ELSE [t EXCEPT !.announcing = FALSE])
  BY <1>1, <1>3, <1>6, <1>11, <1>13 DEF InterfaceGoes, Removes
<1>16. a.cache = lk.cache
  BY <1>2, <1>7 DEF Alike, SameCache
<1>17. CASE t.aborted
  <2>1. Inv(t) /\ Does(t)
    BY <1>14, <1>15, <1>17 DEF Inv
  <2> QED BY <1>14, <1>16, <2>1, DoesIs
<1>18. CASE ~t.aborted
  <2>1. t \in LookupState /\ t.ret \in Nat /\ t.aborted \in BOOLEAN /\ t.events \in 0 .. MaxEvents
    BY <1>14 DEF Queries, LookupState
  <2>2. PICK u : u = WithRun(t, t.ret, FALSE, t.aborted, t.events)
    OBVIOUS
  <2>3. [t EXCEPT !.announcing = FALSE] = u
    BY <2>1, <2>2 DEF WithRun, LookupState
  <2>4. /\ u \in LookupState /\ u.announcing = FALSE
        /\ u.querier = t.querier /\ u.jobs = t.jobs /\ SameBrowsers(t, u) /\ SameCache(t, u)
    BY <2>1, <2>2 DEF WithRun, LookupState, SameBrowsers, SameCache
  <2>5. Queries(u) /\ Asked(u)
    BY <1>14, <2>4, QueriesStay
  <2>6. Cached(u) = {} /\ Tells(u)
    BY <1>14, <1>18, <2>4, CachedSame, TellsStay
  <2>7. Served(u)
    BY <1>14, <2>4 DEF Served, Idle
  <2>8. Inv(u)
    BY <2>5, <2>6, <2>7, WholeIs DEF Inv
  <2>9. Does(u)
    BY <1>15, <1>18, <2>3
  <2> QED BY <1>14, <1>16, <2>4, <2>8, <2>9, DoesIs DEF SameCache
<1> QED BY <1>17, <1>18

Adds(s, seq) == Along(s, seq, LAMBDA u, l : QuerierAdd(u, l[2]))
LEMMA AddsAre ==
  ASSUME NEW a, Queries(a), a.announcing, ~a.aborted, Idle(a), Asked(a),
         NEW L, L = {l \in Browser \X Key : l[2] \in a.started[l[1]]}, NEW seq, IsList(seq, L),
         NEW t, t = Adds(a, seq)
  PROVE  /\ Queries(t) /\ Asked(t) /\ Counted(t)
         /\ SameBrowsers(a, t) /\ SameCache(a, t) /\ SameRun(a, t)
<1>1. PICK N : N = Len(seq) /\ N \in Nat
  BY DEF IsList
<1> N \in Nat
  BY <1>1
<1>2. /\ \A i \in 1 .. N : seq[i] \in L
      /\ \A i, j \in 1 .. N : seq[i] = seq[j] => i = j
      /\ \A l \in L : \E i \in 1 .. N : seq[i] = l
  BY <1>1 DEF IsList
<1> DEFINE Seen(n, k) == {i \in 1 .. n : seq[i][2] = k}
           At(n, u) == /\ Queries(u) /\ Asked(u)
                       /\ SameBrowsers(a, u) /\ SameCache(a, u) /\ SameRun(a, u)
                       /\ \A k \in Key : Used(u.querier[k]) = Cardinality(Seen(n, k))
           Turn(u, n) == IF u.aborted THEN u ELSE QuerierAdd(u, seq[n][2])
           Body(f) == [n \in 0 .. N |-> IF n = 0 THEN a ELSE Turn(f[n-1], n)]
<1>3. t = (CHOOSE f : f = Body(f))[N]
  BY <1>1 DEF Adds, Along
<1>4. At(0, a)
  <2>1. \A k : Seen(0, k) = {}
    OBVIOUS
  <2>2. \A k \in Key : Used(a.querier[k]) = 0
    BY QuerierIs DEF Idle, Used
  <2> QED BY <2>1, <2>2, FS_EmptySet DEF SameBrowsers, SameCache, SameRun
<1>5. ASSUME NEW n \in 1 .. N, NEW u, At(n - 1, u)
      PROVE  At(n, Turn(u, n))
  <2>1. PICK k \in Key : k = seq[n][2]
    BY <1>2
  <2>2. PICK v : v = QuerierAdd(u, k)
    OBVIOUS
  <2>3. Queries(u) /\ u.announcing /\ ~u.aborted
    BY <1>5 DEF SameRun
  <2>4. Turn(u, n) = v
    BY <2>1, <2>2, <2>3
  <2>5. Manages(u, v, k) /\ v.querier[k].used = Used(u.querier[k]) + 1
    <3> HIDE DEF At, Turn, Body, Seen
    <3> QED BY <2>2, <2>3, AddIs
  <2>6. Queries(v) /\ Asked(v) /\ SameBrowsers(a, v) /\ SameCache(a, v) /\ SameRun(a, v)
    BY <1>5, <2>5 DEF Manages, SameBrowsers, SameCache, SameRun
  <2>7. \A x : IsFiniteSet(Seen(n - 1, x)) /\ Cardinality(Seen(n - 1, x)) \in Nat
    <3>1. IsFiniteSet(1 .. n - 1)
      BY FS_Interval
    <3>2. \A x : IsFiniteSet(Seen(n - 1, x))
      <4> SUFFICES ASSUME NEW x PROVE IsFiniteSet(Seen(n - 1, x))
        OBVIOUS
      <4>1. Seen(n - 1, x) \in SUBSET (1 .. n - 1)
        OBVIOUS
      <4> QED BY <3>1, <4>1, FS_Subset
    <3> QED BY <3>2, FS_CardinalityType
  <2>8. Seen(n, k) = Seen(n - 1, k) \union {n} /\ n \notin Seen(n - 1, k)
    BY <2>1
  <2>9. \A x : x # k => Seen(n, x) = Seen(n - 1, x)
    BY <2>1
  <2>10. \A x \in Key : Used(u.querier[x]) = Cardinality(Seen(n - 1, x))
    BY <1>5
  <2> HIDE DEF Seen
  <2>11. Cardinality(Seen(n, k)) = Cardinality(Seen(n - 1, k)) + 1
    BY <2>7, <2>8, FS_AddElement
  <2>12. Used(v.querier[k]) = Cardinality(Seen(n, k))
    BY <2>5, <2>7, <2>10, <2>11 DEF Used
  <2>13. \A x \in Key : Used(v.querier[x]) = Cardinality(Seen(n, x))
    BY <2>5, <2>9, <2>10, <2>12 DEF Manages
  <2> QED BY <2>4, <2>6, <2>13
<1> HIDE DEF Turn
<1> HIDE DEF At
<1>6. PICK Q : Q = [n \in 0 .. N |-> {u \in LookupState : At(n, u)}]
  OBVIOUS
<1>7. \A n \in 0 .. N : \A u \in Q[n] : At(n, u)
  BY <1>6
<1>8. \A n \in 0 .. N : \A u : At(n, u) => u \in Q[n]
  BY <1>6 DEF At, Queries
<1>9. PICK g : g = [n \in 1 .. N |-> [u \in Q[n-1] |-> Turn(u, n)]]
  OBVIOUS
<1>10. \A n \in 1 .. N : \A u \in Q[n-1] : g[n][u] = Turn(u, n) /\ g[n][u] \in Q[n]
  <2> SUFFICES ASSUME NEW n \in 1 .. N, NEW u \in Q[n-1]
               PROVE  g[n][u] = Turn(u, n) /\ g[n][u] \in Q[n]
    OBVIOUS
  <2>1. n - 1 \in 0 .. N /\ n \in 0 .. N
    OBVIOUS
  <2>2. At(n, Turn(u, n))
    BY <1>5, <1>7, <2>1
  <2>3. g[n][u] = Turn(u, n)
    BY <1>9
  <2> QED BY <1>8, <2>1, <2>2, <2>3
<1>11. a \in Q[0]
  BY <1>4, <1>8
<1>12. PICK f : f = Body(f) /\ t = f[N]
  <2>1. PICK f \in [0 .. N -> Values(Q, N)] : Runs(f, N, a, g) /\ \A n \in 0 .. N : f[n] \in Q[n]
    BY <1>10, <1>11, Loops
  <2>2. ASSUME NEW n \in 0 .. N
        PROVE  f[n] = IF n = 0 THEN a ELSE Turn(f[n-1], n)
    <3>1. n # 0 => n \in 1 .. N /\ n - 1 \in 0 .. N /\ f[n-1] \in Q[n-1]
      BY <2>1
    <3>2. n # 0 => g[n][f[n-1]] = Turn(f[n-1], n)
      BY <1>10, <3>1
    <3> QED BY <2>1, <3>2 DEF Runs
  <2>3. f = Body(f)
    BY <2>1, <2>2
  <2>4. \E h : h = Body(h)
    BY <2>3
  <2> QED BY <1>3, <2>4
<1>13. At(N, t)
  <2>1. f[0] \in Q[0]
    BY <1>11, <1>12
  <2>2. ASSUME NEW n \in 1 .. N, f[n-1] \in Q[n-1] PROVE f[n] \in Q[n]
    <3>1. g[n][f[n-1]] = Turn(f[n-1], n) /\ g[n][f[n-1]] \in Q[n]
      BY <1>10, <2>2
    <3>2. f[n] = Turn(f[n-1], n)
      BY <1>12
    <3> QED BY <3>1, <3>2
  <2>3. f[N] \in Q[N]
    BY <2>1, <2>2, LoopEnds
  <2> QED BY <1>7, <1>12, <2>3
<1>14. Counted(t)
  <2> SUFFICES ASSUME NEW k \in Key PROVE Cardinality(Users(t, k)) = Used(t.querier[k])
    BY DEF Counted
  <2>1. Users(t, k) = Users(a, k) /\ Used(t.querier[k]) = Cardinality(Seen(N, k))
    BY <1>13 DEF At, SameBrowsers, Users
  <2>2. PICK owner : owner = [i \in Seen(N, k) |-> seq[i][1]]
    OBVIOUS
  <2>3. PICK S : S = Seen(N, k)
    OBVIOUS
  <2>4. \A i \in S : i \in 1 .. N /\ seq[i] \in L /\ seq[i] = <<owner[i], k>> /\ owner[i] \in Users(a, k)
    <3> SUFFICES ASSUME NEW i \in S
                 PROVE  i \in 1 .. N /\ seq[i] \in L /\ seq[i] = <<owner[i], k>> /\ owner[i] \in Users(a, k)
      OBVIOUS
    <3>1. i \in 1 .. N /\ seq[i][2] = k /\ owner[i] = seq[i][1]
      BY <2>2, <2>3
    <3>2. seq[i] \in L
      BY <1>2, <3>1
    <3>3. seq[i] \in Browser \X Key /\ seq[i][2] \in a.started[seq[i][1]]
      BY <3>2
    <3> QED BY <3>1, <3>2, <3>3 DEF Users
  <2>5. \A b \in Users(a, k) : \E i \in S : owner[i] = b
    <3> SUFFICES ASSUME NEW b \in Users(a, k) PROVE \E i \in S : owner[i] = b
      OBVIOUS
    <3>1. <<b, k>> \in L
      BY DEF Users
    <3>2. PICK i \in 1 .. N : seq[i] = <<b, k>>
      BY <1>2, <3>1
    <3> QED BY <2>2, <2>3, <3>2
  <2>6. \A i, j \in S : owner[i] = owner[j] => i = j
    <3> SUFFICES ASSUME NEW i \in S, NEW j \in S, owner[i] = owner[j] PROVE i = j
      OBVIOUS
    <3>1. i \in 1 .. N /\ j \in 1 .. N /\ seq[i] = seq[j]
      BY <2>4
    <3> QED BY <1>2, <3>1
  <2>7. owner \in Bijection(S, Users(a, k))
    BY <2>2, <2>3, <2>4, <2>5, <2>6 DEF Bijection, Injection, Surjection, IsInjective
  <2>8. IsFiniteSet(S)
    <3>1. IsFiniteSet(1 .. N) /\ S \in SUBSET (1 .. N)
      BY <2>4, FS_Interval
    <3> QED BY <3>1, FS_Subset
  <2>9. Cardinality(Users(a, k)) = Cardinality(S)
    <3>1. ExistsBijection(S, Users(a, k))
      BY <2>7 DEF ExistsBijection
    <3> QED BY <2>8, <3>1, FS_Bijection
  <2> QED BY <2>1, <2>3, <2>9
<1> QED BY <1>13, <1>14 DEF At

LEMMA InterfaceComesKeeps ==
  ASSUME Inv(lk), InterfaceComes
  PROVE  Inv(lk') /\ lk'.cache = lk.cache
<1>1. PICK h : h = Happens
  OBVIOUS
<1>2. Fine(h) /\ Alike(lk, h) /\ h \in LookupState /\ ~h.announcing
  <2>1. Fine(h) /\ Alike(lk, h)
    BY <1>1, HappeningIs DEF InterfaceComes
  <2> QED BY <2>1, FineIs DEF Alike, InterfaceComes
<1>3. Queries(h) /\ ~h.aborted /\ Idle(h) /\ Asked(h) /\ Tells(h) /\ Cached(h) = {}
  BY <1>2, FineIs DEF Served
<1>4. PICK a : a = WithRun(h, h.ret, TRUE, h.aborted, h.events)
  OBVIOUS
<1>5. [h EXCEPT !.announcing = TRUE] = a
  BY <1>2, <1>4 DEF WithRun, LookupState
<1>6. /\ a \in LookupState /\ a.announcing /\ a.aborted = h.aborted
      /\ a.querier = h.querier /\ a.jobs = h.jobs /\ SameBrowsers(h, a) /\ SameCache(h, a)
  <2>1. h.ret \in Nat /\ h.aborted \in BOOLEAN /\ h.events \in 0 .. MaxEvents /\ TRUE \in BOOLEAN
    BY <1>2 DEF LookupState
  <2> QED BY <1>2, <1>4, <2>1 DEF WithRun, LookupState, SameBrowsers, SameCache
<1>7. Queries(a) /\ Asked(a) /\ Idle(a) /\ ~a.aborted
  BY <1>3, <1>6, QueriesStay DEF Idle
<1>8. Tells(a) /\ a.cache = lk.cache /\ a.started = lk.started
  BY <1>2, <1>3, <1>6, CachedSame, TellsStay DEF Alike, SameCache, SameBrowsers
<1>9. PICK L : L = {l \in Browser \X Key : l[2] \in a.started[l[1]]}
  OBVIOUS
<1>10. PICK seq : seq = SetToSeq(L)
  OBVIOUS
<1>11. IsList(seq, L)
  <2>1. IsFiniteSet(Browser \X Key)
    BY LookupAssumption, FS_Product
  <2>2. L \in SUBSET (Browser \X Key)
    BY <1>9
  <2>3. IsFiniteSet(L)
    BY <2>1, <2>2, FS_Subset
  <2> QED BY <1>10, <2>3, ListIs
<1>12. PICK t : t = Adds(a, seq)
  OBVIOUS
<1>13. /\ Queries(t) /\ Asked(t) /\ Counted(t)
       /\ SameBrowsers(a, t) /\ SameCache(a, t) /\ SameRun(a, t)
  BY <1>6, <1>7, <1>9, <1>11, <1>12, AddsAre
<1>14. Tells(t) /\ t.announcing /\ t.cache = lk.cache
  BY <1>6, <1>8, <1>13, CachedSame, TellsStay DEF SameRun, SameCache
<1>15. Inv(t)
  BY <1>13, <1>14, WholeIs DEF Inv, Served
<1>16. Does(t)
  BY <1>1, <1>5, <1>8, <1>9, <1>10, <1>12 DEF InterfaceComes, Adds
<1> QED BY <1>14, <1>15, <1>16, DoesIs
-------------------------------------------------------------------------------
(* The invariant, and what follows from it.                                   *)

LEMMA InitKeeps ==
  ASSUME Init
  PROVE  Inv(lk)
<1>1. /\ lk.cache = [r \in Record |-> Absent] /\ lk.asked = {} /\ lk.jobs = {} /\ lk.ret = 0
      /\ lk.querier = [k \in Key |-> NoQuerier] /\ lk.announcing = TRUE /\ lk.aborted = FALSE /\ lk.events = 0
  BY DEF Init
<1>2. /\ lk.br = [b \in Browser |-> "none"] /\ lk.ref = [b \in Browser |-> [k \in Key |-> 0]]
      /\ lk.started = [b \in Browser |-> {}] /\ lk.follows = [b \in Browser |-> {}]
      /\ lk.afn = [b \in Browser |-> {}] /\ lk.told = [b \in Browser |-> {}]
  BY DEF Init
<1>3. lk \in LookupState
  <2>1. lk.cache \in [Record -> Entry] /\ lk.asked \in SUBSET Record
    <3>1. Absent \in Entry
      BY EntryIs
    <3> QED BY <1>1, <3>1
  <2>2. lk.querier \in [Key -> QuerierType] /\ lk.jobs \in Jobs /\ lk.ret \in Nat
    BY <1>1, FS_EmptySet DEF QuerierType, Jobs
  <2>3. /\ lk.br \in [Browser -> Stage] /\ lk.ref \in [Browser -> [Key -> Nat]]
        /\ lk.started \in [Browser -> SUBSET Key] /\ lk.follows \in [Browser -> SUBSET (Key \X Key)]
        /\ lk.afn \in [Browser -> SUBSET Key] /\ lk.told \in [Browser -> SUBSET Record]
    BY <1>2 DEF Stage
  <2>4. lk.announcing \in BOOLEAN /\ lk.aborted \in BOOLEAN /\ lk.events \in 0 .. MaxEvents
    <3>1. MaxEvents \in Nat
      BY Consts
    <3>2. lk.announcing \in BOOLEAN
      BY <1>1
    <3>3. lk.aborted \in BOOLEAN
      BY <1>1
    <3>4. lk.events \in 0 .. MaxEvents
      BY <1>1, <3>1
    <3> QED BY <3>2, <3>3, <3>4
  <2>5. lk = [cache |-> lk.cache, asked |-> lk.asked, querier |-> lk.querier, jobs |-> lk.jobs, ret |-> lk.ret,
              br |-> lk.br, ref |-> lk.ref, started |-> lk.started, follows |-> lk.follows,
              afn |-> lk.afn, told |-> lk.told,
              announcing |-> lk.announcing, aborted |-> lk.aborted, events |-> lk.events]
    BY <1>1, <1>2 DEF Init
  <2> QED BY <2>1, <2>2, <2>3, <2>4, <2>5 DEF LookupState
<1>4. Queries(lk)
  BY <1>1, <1>3 DEF Queries, Singly, Ids
<1>5. Served(lk)
  <2>1. \A k \in Key : Users(lk, k) = {}
    BY <1>2 DEF Users
  <2>2. \A k \in Key : Used(lk.querier[k]) = 0
    BY <1>1, QuerierIs DEF Used
  <2> QED BY <1>1, <2>1, <2>2, FS_EmptySet DEF Served, Counted
<1>6. Asked(lk)
  <2>1. \A r \in DOMAIN KeyOf : lk.cache[r] = Absent
    BY <1>1, Consts
  <2> QED BY <2>1, EntryIs DEF Asked
<1>7. Tells(lk)
  <2>1. \A b \in Browser : Rooted(lk, b)
    BY <1>2 DEF Rooted, Bare
  <2>2. \A b \in Browser : ToldOf(lk, b, Cached(lk))
    BY <1>2 DEF ToldOf
  <2> QED BY <2>1, <2>2 DEF Tells
<1> QED BY <1>1, <1>4, <1>5, <1>6, <1>7, WholeIs DEF Inv

\* A record that is received may end the removal of its own entry only.
Superseded(r, c, d) ==
    c[r].st \in Dropped /\ d[r].st # c[r].st =>
        d[r].st \in Dropped \union {"absent"} \/ \E f \in BOOLEAN : Receive(r, f)

LEMMA ReceiveReplaces ==
  ASSUME Inv(lk), NEW r \in Record, NEW fl \in BOOLEAN, Receive(r, fl), NEW x \in Record, x # r
  PROVE  lk'.cache[x].st = IF x \in Stale(lk, r, fl) THEN "REPLACE_FINAL" ELSE lk.cache[x].st
<1>1. PICK E : E = Replaced(lk, Stale(lk, r, fl))
  OBVIOUS
<1>2. lk'.cache = E \/ lk'.cache = [E EXCEPT ![r] = Fresh]
  BY <1>1, ReceiveKeeps
<1>3. E[x] = IF x \in Stale(lk, r, fl) THEN [lk.cache[x] EXCEPT !.st = "REPLACE_FINAL"] ELSE lk.cache[x]
  BY <1>1 DEF Replaced
<1>4. lk'.cache[x] = E[x]
  <2>1. DOMAIN E = Record
    BY <1>1 DEF Replaced
  <2> QED BY <1>2, <2>1
<1>5. lk.cache[x] \in Entry
  BY DEF Inv, Queries, LookupState
<1>6. [lk.cache[x] EXCEPT !.st = "REPLACE_FINAL"].st = "REPLACE_FINAL"
  BY <1>5 DEF Entry
<1> QED BY <1>3, <1>4, <1>6

LEMMA NextKeeps ==
  ASSUME Inv(lk), Next
  PROVE  Inv(lk') /\ \A r \in Record : Superseded(r, lk.cache, lk'.cache)
<1>1. ASSUME StayDropped(lk.cache, lk'.cache)
      PROVE  \A r \in Record : Superseded(r, lk.cache, lk'.cache)
  BY <1>1 DEF StayDropped, Superseded
<1>2. ASSUME lk'.cache = lk.cache
      PROVE  \A r \in Record : Superseded(r, lk.cache, lk'.cache)
  BY <1>2 DEF Superseded
<1>3. ASSUME NEW b \in Browser, BrowserNew(b)
      PROVE  Inv(lk') /\ lk'.cache = lk.cache
  BY <1>3, BrowserNewKeeps
<1>4. ASSUME NEW b \in Browser, Defer(b)
      PROVE  Inv(lk') /\ lk'.cache = lk.cache
  BY <1>4, DeferKeeps
<1>5. ASSUME NEW b \in Browser, BrowserFree(b)
      PROVE  Inv(lk') /\ lk'.cache = lk.cache
  BY <1>5, BrowserFreeKeeps
<1>6. ASSUME NEW b \in Browser, NEW k \in Key, AllForNow(b, k)
      PROVE  Inv(lk') /\ lk'.cache = lk.cache
  BY <1>6, AllForNowKeeps
<1>7. ASSUME NEW r \in Record, Goodbye(r)
      PROVE  Inv(lk') /\ StayDropped(lk.cache, lk'.cache)
  BY <1>7, GoodbyeKeeps
<1>8. ASSUME NEW r \in Record, EntryTimer(r)
      PROVE  Inv(lk') /\ StayDropped(lk.cache, lk'.cache)
  BY <1>8, EntryTimerKeeps
<1>9. ASSUME NEW r \in Record, EntryAges(r)
      PROVE  Inv(lk') /\ StayDropped(lk.cache, lk'.cache)
  BY <1>9, EntryAgesKeeps
<1>10. ASSUME NEW r \in Record, NEW f \in BOOLEAN, Receive(r, f)
       PROVE  Inv(lk') /\ \A x \in Record : Superseded(x, lk.cache, lk'.cache)
  <2>1. Inv(lk')
    BY <1>10, ReceiveKeeps
  <2>2. ASSUME NEW x \in Record PROVE Superseded(x, lk.cache, lk'.cache)
    <3>1. CASE x = r
      BY <1>10, <3>1 DEF Superseded
    <3>2. CASE x # r
      <4>1. lk'.cache[x].st = IF x \in Stale(lk, r, f) THEN "REPLACE_FINAL" ELSE lk.cache[x].st
        BY <1>10, <3>2, ReceiveReplaces
      <4> QED BY <4>1 DEF Superseded, Dropped
    <3> QED BY <3>1, <3>2
  <2> QED BY <2>1, <2>2
<1>11. ASSUME NEW k \in Key, QuerierElapses(k)
       PROVE  Inv(lk') /\ lk'.cache = lk.cache
  BY <1>11, QuerierElapsesKeeps
<1>12. ASSUME NEW k \in Key, NEW known \in SUBSET DOMAIN KeyOf, HearQuery(k, known)
       PROVE  Inv(lk') /\ StayDropped(lk.cache, lk'.cache)
  BY <1>12, HearQueryKeeps
<1>13. ASSUME NEW j \in lk.jobs, JobElapses(j)
       PROVE  Inv(lk') /\ lk'.cache = lk.cache
  BY <1>13, JobElapsesKeeps
<1>14. ASSUME InterfaceGoes
       PROVE  Inv(lk') /\ StayDropped(lk.cache, lk'.cache)
  BY <1>14, InterfaceGoesKeeps
<1>15. ASSUME InterfaceComes
       PROVE  Inv(lk') /\ lk'.cache = lk.cache
  BY <1>15, InterfaceComesKeeps
<1>16. CASE \E b \in Browser : BrowserNew(b) \/ Defer(b) \/ BrowserFree(b) \/ \E k \in Key : AllForNow(b, k)
  BY <1>2, <1>3, <1>4, <1>5, <1>6, <1>16
<1>17. CASE \E r \in Record : Goodbye(r) \/ EntryTimer(r) \/ EntryAges(r) \/ \E f \in BOOLEAN : Receive(r, f)
  BY <1>1, <1>7, <1>8, <1>9, <1>10, <1>17
<1>18. CASE \E k \in Key : QuerierElapses(k) \/ \E known \in SUBSET DOMAIN KeyOf : HearQuery(k, known)
  BY <1>1, <1>2, <1>11, <1>12, <1>18
<1>19. CASE (\E j \in lk.jobs : JobElapses(j)) \/ InterfaceGoes \/ InterfaceComes
  BY <1>1, <1>2, <1>13, <1>14, <1>15, <1>19
<1> QED BY <1>16, <1>17, <1>18, <1>19 DEF Next

LookupInv == Inv(lk)

\* The inductive invariant, of every behaviour.
LEMMA InvHolds == Spec => []LookupInv
<1>1. Init => LookupInv
  BY InitKeeps DEF LookupInv
<1>2. LookupInv /\ [Next]_lk => LookupInv'
  <2> SUFFICES ASSUME LookupInv, [Next]_lk PROVE LookupInv'
    OBVIOUS
  <2>1. CASE Next
    BY <2>1, NextKeeps DEF LookupInv
  <2>2. CASE UNCHANGED lk
    BY <2>2 DEF LookupInv
  <2> QED BY <2>1, <2>2
<1> QED BY <1>1, <1>2, PTL DEF Spec

LEMMA CountedIs ==
  ASSUME Inv(lk)
  PROVE  LookupsCounted
<1>1. /\ lk \in LookupState /\ Singly(lk) /\ (Served(lk) \/ Idle(lk))
      /\ lk.cache \in [Record -> Entry] /\ lk.asked \in SUBSET Record /\ lk.querier \in [Key -> QuerierType]
      /\ lk.jobs \subseteq Job
  BY DEF Inv, Queries, LookupState, Jobs
<1>2. ASSUME NEW k \in Key
      PROVE  lk.querier[k].used \in -1 .. Cardinality(Browser) /\ lk.querier[k].delay \in 0 .. MaxDelay
  <2>1. PICK q \in QuerierType : q = lk.querier[k]
    BY <1>1
  <2>2. q.used \in Int /\ q.used >= -1 /\ q.delay \in 0 .. MaxDelay
    BY QuerierIs
  <2>3. Cardinality(Browser) \in Nat
    BY LookupAssumption, FS_CardinalityType
  <2>4. q.used <= Cardinality(Browser)
    <3>1. CASE Idle(lk)
      BY <2>1, <2>3, <3>1, QuerierIs DEF Idle
    <3>2. CASE Served(lk) /\ ~Idle(lk)
      <4>1. Used(q) = Cardinality(Users(lk, k))
        BY <2>1, <3>2 DEF Served, Counted
      <4>2. Used(q) <= Cardinality(Browser)
        BY <4>1, UsersFinite
      <4> QED BY <2>2, <2>3, <4>2 DEF Used
    <3> QED BY <1>1, <3>1, <3>2
  <2> QED BY <2>1, <2>2, <2>3, <2>4
<1>3. \A j \in lk.jobs : j.id \in Nat /\ j.key \in Key /\ j.posted \in Nat
  BY <1>1 DEF Job
<1>4. ASSUME NEW b \in Browser
      PROVE  /\ lk.br[b] \in {"none", "deferred", "live"} /\ lk.told[b] \subseteq Record
             /\ lk.ref[b] \in [Key -> Nat] /\ lk.started[b] \subseteq Key /\ lk.afn[b] \subseteq Key
  <2>1. lk.afn[b] \in SUBSET Key
    BY <1>1 DEF LookupState
  <2> QED BY <1>1, <2>1, BrowserIs DEF Stage
<1>5. LookupTypeOK
  BY <1>1, <1>2, <1>3, <1>4 DEF LookupTypeOK
<1>6. OneJob
  BY <1>1 DEF OneJob, Singly
<1>7. ASSUME ~lk.aborted PROVE Served(lk) /\ Tells(lk)
  BY <1>7, WholeIs DEF Inv
<1>8. QueriersCounted
  BY <1>7 DEF QueriersCounted, Served, Counted, Idle, Users, Used
<1>9. ASSUME ~lk.aborted, NEW b \in Browser, NEW k \in Key
      PROVE  /\ (lk.ref[b][k] > 0) = (k \in lk.started[b])
             /\ lk.ref[b][k] = Cardinality({f \in lk.follows[b] : f[2] = k})
                                 + (IF lk.br[b] = "live" /\ k = BrowseKey[b] THEN 1 ELSE 0)
  <2>1. Rooted(lk, b)
    BY <1>7, <1>9 DEF Tells
  <2>2. PICK F : F = {f \in lk.follows[b] : f[2] = k}
    OBVIOUS
  <2>3. CASE lk.br[b] # "live"
    <3>1. lk.started[b] = {} /\ F = {} /\ lk.ref[b][k] = 0
      BY <2>1, <2>2, <2>3 DEF Rooted, Bare
    <3>2. Cardinality(F) = 0
      BY <3>1, FS_EmptySet
    <3> QED BY <2>2, <2>3, <3>1, <3>2
  <2>4. CASE lk.br[b] = "live"
    <3>1. Hangs(lk, b, {BrowseKey[b]})
      BY <2>1, <2>4 DEF Rooted
    <3>2. /\ lk.started[b] = {BrowseKey[b]} \union Leads(lk, b)
          /\ lk.ref[b][k] = IF k = BrowseKey[b] \/ k \in Leads(lk, b) THEN 1 ELSE 0
      BY <3>1 DEF Hangs
    <3>3. BrowseKey[b] \notin Leads(lk, b)
      BY <3>1, LeadsAre
    <3>4. CASE k \in Leads(lk, b)
      <4>1. F = {<<BrowseKey[b], k>>}
        <5>1. \A f \in lk.follows[b] : f \in Key \X Key /\ f[1] = BrowseKey[b]
          <6>1. lk.follows[b] \in SUBSET (Key \X Key)
            BY <1>1, BrowserIs
          <6> QED BY <3>1, <6>1, LeadsAre
        <5>2. \E f \in lk.follows[b] : f[2] = k
          BY <3>4 DEF Leads
        <5> QED BY <2>2, <5>1, <5>2
      <4>2. Cardinality(F) = 1
        BY <4>1, FS_Singleton
      <4> QED BY <2>2, <3>2, <3>3, <3>4, <4>2
    <3>5. CASE k \notin Leads(lk, b)
      <4>1. F = {}
        BY <2>2, <3>5 DEF Leads
      <4>2. Cardinality(F) = 0
        BY <4>1, FS_EmptySet
      <4> QED BY <2>2, <2>4, <3>2, <3>5, <4>2
    <3> QED BY <3>4, <3>5
  <2> QED BY <2>3, <2>4
<1>10. LookupsReferenced
  BY <1>9 DEF LookupsReferenced
<1> QED BY <1>5, <1>6, <1>8, <1>10 DEF LookupsCounted

\* Browsers, lookups, queriers and query jobs count each other right: through
\* lookups that end while their alias's lookups live, queriers that outlive
\* them, and an interface that goes and comes back.  No alias leads to another.
THEOREM LookupsAreCounted == Spec => []LookupsCounted
<1>1. LookupInv => LookupsCounted
  BY CountedIs DEF LookupInv
<1> QED BY <1>1, InvHolds, PTL

\* What a browser was told and not told to forget is what the cache holds for
\* the names it follows: its own and those its own is an alias of, where none of
\* these is an alias itself.
THEOREM ToldIsWhatIsCached == Spec => []ToldIsCached
<1>1. ASSUME Inv(lk) PROVE ToldIsCached
  <2> SUFFICES ASSUME ~lk.aborted, NEW b \in Browser
               PROVE  lk.told[b] = {r \in DOMAIN KeyOf : KeyOf[r] \in lk.started[b] /\ lk.cache[r].st # "absent"}
    BY DEF ToldIsCached
  <2>1. ToldOf(lk, b, Cached(lk))
    BY <1>1 DEF Inv, Whole
  <2>2. \A r \in DOMAIN KeyOf : r \in Cached(lk) <=> lk.cache[r].st # "absent"
    BY Consts DEF Cached
  <2> QED BY <2>1, <2>2 DEF ToldOf
<1>2. LookupInv => ToldIsCached
  BY <1>1 DEF LookupInv
<1> QED BY <1>2, InvHolds, PTL

\* An entry whose key somebody uses does not expire for good before a query
\* for it has gone out, or was heard, since its record was last received.
THEOREM NoneExpiresUnasked == Spec => []AskedBeforeExpiry
<1>1. ASSUME Inv(lk) PROVE AskedBeforeExpiry
  <2> SUFFICES ASSUME NEW r \in DOMAIN KeyOf, ~lk.aborted, lk.jobs = {}, lk.cache[r].st = "EXPIRY_FINAL",
                      lk.querier[KeyOf[r]].used > 0, r \notin lk.asked
               PROVE  FALSE
    BY DEF AskedBeforeExpiry
  <2>1. Asked(lk) /\ Aging(lk.cache[r])
    BY <1>1 DEF Inv, Whole, Aging
  <2>2. lk.querier[KeyOf[r]] # NoQuerier
    BY QuerierIs
  <2>3. Scheduled(lk, KeyOf[r]) # {}
    BY <2>1, <2>2 DEF Asked
  <2> QED BY <2>3 DEF Scheduled
<1>2. LookupInv => AskedBeforeExpiry
  BY <1>1 DEF LookupInv
<1> QED BY <1>2, InvHolds, PTL

\* An entry that was said goodbye to, or replaced, goes, unless its record is
\* received again; and a unique record replaces the older ones of its key.
THEOREM SupersededEntriesGo == Spec => SupersededGoes
<1>1. LookupInv /\ [Next]_lk =>
         [\A r \in Record :
            LET was == lk.cache[r].st
                is == lk'.cache[r].st
            IN  was \in {"GOODBYE_FINAL", "REPLACE_FINAL"} /\ is # was =>
                   \/ is \in {"absent", "GOODBYE_FINAL", "REPLACE_FINAL"}
                   \/ \E f \in BOOLEAN : Receive(r, f)]_lk
  <2> SUFFICES ASSUME LookupInv, Next, NEW r \in Record,
                      lk.cache[r].st \in {"GOODBYE_FINAL", "REPLACE_FINAL"}, lk'.cache[r].st # lk.cache[r].st
               PROVE  \/ lk'.cache[r].st \in {"absent", "GOODBYE_FINAL", "REPLACE_FINAL"}
                      \/ \E f \in BOOLEAN : Receive(r, f)
    OBVIOUS
  <2>1. Superseded(r, lk.cache, lk'.cache)
    BY NextKeeps DEF LookupInv
  <2> QED BY <2>1 DEF Superseded, Dropped
<1>2. LookupInv =>
         [\A r \in DOMAIN KeyOf : Receive(r, TRUE) =>
            \A x \in DOMAIN KeyOf \ {r} :
               KeyOf[x] = KeyOf[r] /\ lk.cache[x].age # "fresh" => lk'.cache[x].st \in Final \union {"absent"}]_lk
  <2> SUFFICES ASSUME LookupInv, NEW r \in DOMAIN KeyOf, Receive(r, TRUE), NEW x \in DOMAIN KeyOf \ {r},
                      KeyOf[x] = KeyOf[r], lk.cache[x].age # "fresh"
               PROVE  lk'.cache[x].st \in Final \union {"absent"}
    OBVIOUS
  <2>1. /\ r \in Record /\ r \notin Cname /\ x \in Record /\ x \notin Cname /\ x # r
    BY Consts
  <2>2. lk'.cache[x].st = IF x \in Stale(lk, r, TRUE) THEN "REPLACE_FINAL" ELSE lk.cache[x].st
    BY <2>1, ReceiveReplaces DEF LookupInv
  <2>3. x \in Cached(lk) => x \in Stale(lk, r, TRUE)
    BY <2>1 DEF Stale, Heard
  <2>4. x \notin Cached(lk) => lk.cache[x].st = "absent"
    BY <2>1 DEF Cached
  <2> QED BY <2>2, <2>3, <2>4 DEF Final
<1>3. Spec => DroppedStaysDropped
  BY <1>1, InvHolds, PTL DEF Spec, DroppedStaysDropped
<1>4. Spec => FlushReplaces
  BY <1>2, InvHolds, PTL DEF Spec, FlushReplaces
<1> QED BY <1>3, <1>4 DEF SupersededGoes
================================================================================
