---------------------------- MODULE MdnsTraffic ----------------------------
(***************************************************************************)
(* What one interface answers: the list the records that match a query are *)
(* gathered in (rrlist.c), the packets that put them there and take them   *)
(* out again (server.c), and the two schedulers that send them, responses  *)
(* (response-sched.c) and probes (probe-sched.c).                          *)
(*                                                                         *)
(* A response is posted, waits a moment so that others may join its packet *)
(* or make it unnecessary, is sent, and is remembered for half a second so *)
(* that it is not sent twice.  What makes this hard is that each of those  *)
(* lists silences another: the answers a querier says it knows, the answer *)
(* another host just gave, and the one given here a moment ago.            *)
(*                                                                         *)
(* Not modelled: when a job is due (any job may elapse, which allows every *)
(* order of the jittered timers), memory that runs out, a record that does *)
(* not fit even a packet of its own, and the reflector and the rate limit, *)
(* which the configuration of avahicore.cpp leaves off.  A legacy client   *)
(* gets its reply at once and changes nothing here.                        *)
(***************************************************************************)
EXTENDS Integers, FiniteSets, FiniteSetsExt, TLC

CONSTANTS Record,       \* the records this host publishes
          KeyOf,        \* the key a record is asked for by
          Aux,          \* the records a record refers to: PTR to SRV, SRV to address
          Unique,       \* the records published with AVAHI_PUBLISH_UNIQUE
          Querier,      \* the addresses that ask
          Aged,         \* those whose known answers may have a short TTL
          NoOne,        \* querier_valid = 0
          Full, Low,    \* the TTL published, and one below its half
          Room          \* how many records a packet of the interface's MTU holds

ASSUME TrafficAssumption ==
  /\ IsFiniteSet(Record) /\ IsFiniteSet(Querier) /\ NoOne \notin Querier /\ Aged \subseteq Querier
  /\ Aux \in [Record -> SUBSET Record] /\ Unique \subseteq Record
  /\ {Full, Low, Room} \subseteq Nat \ {0} /\ Low < Full \div 2

VARIABLES announcing,   \* the interface takes and sends packets
          registered,   \* the records whose announcers reached AVAHI_ESTABLISHED
          forsaken,     \* those withdrawn for a conflict and not announced since (history variable)
          sched,        \* the three lists of the response scheduler
          probes,       \* the probes scheduled
          probed,       \* the history of the probe scheduler
          owed,         \* who waits for which record (history variable)
          said          \* what the link heard last of each record from here
trafficVars == <<announcing, registered, forsaken, sched, probes, probed, owed, said>>

Ttls == {0, Low, Full}
Job == [rec: Record, ttl: Ttls, flush: BOOLEAN, who: Querier \cup {NoOne}]
Done == [rec: Record, ttl: Ttls, flush: BOOLEAN]
Known == [rec: Record, ttl: Ttls, who: Querier]
Nothing == [jobs |-> {}, history |-> {}, suppressed |-> {}]

For(list, r) == {j \in list : j.rec = r}
\* Both are goodbyes or neither is, and the TTL is at least half of the other.
\* (ServesAny: mutant without the first.)
ServesAny(ttl, wanted) == ttl >= wanted \div 2
Serves(ttl, wanted) == (ttl = 0) = (wanted = 0) /\ ttl >= wanted \div 2

(***************************************************************************)
(* The response scheduler                                                  *)
(***************************************************************************)
KnownTo(s, r, ttl, q) == \E k \in For(s.suppressed, r) : k.who = q /\ Serves(k.ttl, ttl)
SentLately(s, r, ttl, flush) ==
  \E h \in For(s.history, r) : Serves(h.ttl, ttl) /\ (h.flush \/ ~flush)
Refused(s, r, ttl, flush, q) == KnownTo(s, r, ttl, q) \/ SentLately(s, r, ttl, flush)

\* (mutant) The last one who asks is the one the job is for.
JoinedLast(s, r, ttl, flush, q) ==
  [rec |-> r, ttl |-> ttl, flush |-> flush \/ \E j \in For(s.jobs, r) : j.flush, who |-> q]
\* (mutant) The TTL of the job that is joined is added.
JoinedSum(s, r, ttl, flush, q) ==
  [rec |-> r, ttl |-> IF For(s.jobs, r) = {} THEN ttl ELSE ttl + Full, flush |-> flush, who |-> NoOne]
\* A second post for a record joins the job: it keeps its querier only when it
\* is for the same one, so that no known answer of his silences the others.
Joined(s, r, ttl, flush, q) ==
  [rec |-> r, ttl |-> ttl,
   flush |-> flush \/ \E j \in For(s.jobs, r) : j.flush,
   who |-> IF \A j \in For(s.jobs, r) : j.who = q THEN q ELSE NoOne]
\* Posts for several records do not touch each other.
Post(s, R, ttl, q) ==
  LET taken == {r \in R : ~Refused(s, r, ttl, r \in Unique, q)}
  IN [s EXCEPT !.history = {h \in @ : h.rec \notin taken},
               !.jobs = {j \in @ : j.rec \notin taken}
                        \cup {Joined(s, r, ttl, r \in Unique, q) : r \in taken}]

MarkDone(s, done) ==
  [s EXCEPT !.jobs = @ \ done,
            !.history = @ \cup {[rec |-> j.rec, ttl |-> j.ttl, flush |-> j.flush] : j \in done}]

\* Another host gave this answer: a scheduled one that it replaces is done.
Replaced(s, r, ttl, flush) ==
  {j \in For(s.jobs, r) : (j.flush => flush) /\ Serves(ttl, j.ttl)}
\* (IncomingBeside: mutant that forgets the return after a scheduled job.)
IncomingBeside(s, r, ttl, flush) ==
  [MarkDone(s, Replaced(s, r, ttl, flush)) EXCEPT
     !.history = (@ \ For(@, r)) \cup {[rec |-> r, ttl |-> ttl, flush |-> flush]}]
Incoming(s, r, ttl, flush) ==
  IF For(s.jobs, r) # {} THEN MarkDone(s, Replaced(s, r, ttl, flush))
  ELSE [s EXCEPT !.history = (@ \ For(@, r)) \cup {[rec |-> r, ttl |-> ttl, flush |-> flush]}]

\* A querier has the answer: a job for him alone is dropped, and he is not
\* answered for a while.
Silenced(s, R, ttl, q) == {j \in s.jobs : j.rec \in R /\ j.who = q /\ Serves(ttl, j.ttl)}
Suppress(s, R, ttl, q) ==
  [s EXCEPT !.jobs = @ \ Silenced(s, R, ttl, q),
            !.suppressed = {k \in @ : ~(k.rec \in R /\ k.who = q)}
                           \cup {[rec |-> r, ttl |-> ttl, who |-> q] : r \in R}]

(***************************************************************************)
(* Packets that are heard                                                  *)
(***************************************************************************)
Matching(k) == {r \in registered : KeyOf[r] = k}

\* The list of records to answer with: each once, known answers dropped again.
Listed(k, known) == Matching(k) \ known
\* A record the scheduler refuses goes to a client that asked for a unicast
\* answer in a packet of its own, and what it refers to is added to the list.
Level(s, list, q, unicast) ==
  LET f[n \in 0 .. Cardinality(Record)] ==
        IF n = 0 THEN list
        ELSE f[n-1] \cup UNION {Aux[r] \cap registered : r \in
                {x \in f[n-1] : unicast /\ Refused(s, x, Full, x \in Unique, q)}}
  IN f[Cardinality(Record)]
Generate(s, list, q, unicast) == Post(s, Level(s, list, q, unicast), Full, q)

\* dispatch_packet: a packet counts when the interface is announced; what comes
\* from a wrong port, with a wrong TTL or malformed is none of the inputs here.
Dispatched == announcing
\* handle_query_packet: the questions fill the list, the known answers empty it.
HearQuery(q, k, known, ttl, unicast) ==
  /\ Dispatched
  /\ LET s1 == Suppress(sched, known, ttl, q)
         list == Listed(k, known)
         answered == {r \in list : ~Refused(s1, r, Full, r \in Unique, q)}
         dropped == {j.rec : j \in Silenced(sched, known, ttl, q)}
     IN /\ sched' = Generate(s1, list, q, unicast)
        /\ owed' = (owed \ (dropped \X {q})) \cup (answered \X {q})
  /\ UNCHANGED <<announcing, registered, forsaken, probes, probed, said>>

\* handle_response_packet with a record of ours in it.  handle_conflict: a
\* goodbye or a short TTL for what is registered here is answered at once.
Defended(r, ttl, flush) ==
  /\ r \in registered
  /\ ttl = 0 \/ ((r \in Unique \/ flush) /\ ttl <= Full \div 2)
HearResponse(r, ttl, flush) ==
  /\ Dispatched
  /\ LET done == {j.rec : j \in Replaced(sched, r, ttl, flush)}
     IN IF Defended(r, ttl, flush)
        THEN sched' = Generate(sched, Listed(KeyOf[r], {}), NoOne, FALSE) /\ UNCHANGED <<owed, said>>
        ELSE /\ sched' = Incoming(sched, r, ttl, flush)
             /\ owed' = owed \ (done \X Querier)
             /\ said' = [x \in Record |-> IF x \in done THEN ttl > 0 ELSE said[x]]
  /\ UNCHANGED <<announcing, registered, forsaken, probes, probed>>

(***************************************************************************)
(* Jobs that elapse                                                        *)
(***************************************************************************)
\* The packet that begins with j: each job added posts its auxiliary records,
\* with the job's querier, and is done; the loop ends when nothing is left or
\* the next does not fit.
\* (WithoutAux: mutant that sends only what was scheduled; PacketsLost: mutant
\* in which a packet that cannot be built leaves its job without a timer.)
WithoutAux(s, j, published) == MarkDone(s, For(s.jobs, j.rec))
WithAux(s, j, published) == LET t == Post(s, Aux[j.rec] \cap published, Full, j.who)
                            IN MarkDone(t, For(t.jobs, j.rec))
PacketsLost(s, j) == {s}
Packets(s, j) ==
  LET f[n \in 1 .. Room] ==
        IF n = 1 THEN {WithAux(s, j, registered)}
        ELSE UNION {IF t.jobs = {} THEN {t} ELSE {WithAux(t, k, registered) : k \in t.jobs} : t \in f[n-1]}
  IN f[Room]
\* What was sent between two states of the scheduler.
SentBetween(s, t) == {h \in t.history : \A g \in For(s.history, h.rec) : g # h}

JobElapses(r) ==
  /\ \E j \in For(sched.jobs, r) : \E t \in Packets(sched, j) :
       /\ sched' = t
       /\ owed' = owed \ ({h.rec : h \in SentBetween(sched, t)} \X Querier)
       /\ said' = [x \in Record |-> IF \E h \in SentBetween(sched, t) : h.rec = x
                                    THEN \E h \in For(SentBetween(sched, t), x) : h.ttl > 0
                                    ELSE said[x]]
  /\ UNCHANGED <<announcing, registered, forsaken, probes, probed>>
HistoryElapses(r) ==
  /\ For(sched.history, r) # {}
  /\ sched' = [sched EXCEPT !.history = @ \ For(@, r)]
  /\ UNCHANGED <<announcing, registered, forsaken, probes, probed, owed, said>>
SuppressedElapses(r, q) ==
  /\ \E k \in For(sched.suppressed, r) : k.who = q
  /\ sched' = [sched EXCEPT !.suppressed = {k \in @ : ~(k.rec = r /\ k.who = q)}]
  /\ UNCHANGED <<announcing, registered, forsaken, probes, probed, owed, said>>

(***************************************************************************)
(* What is published, and the interface                                    *)
(***************************************************************************)
\* An announcer sends the record: the whole RRset when it is unique.
Announce(r) ==
  /\ announcing /\ r \notin probes
  /\ registered' = registered \cup {r}
  /\ sched' = LET rrset == {x \in registered : KeyOf[x] = KeyOf[r]}
              IN Post(sched, {r} \cup (IF r \in Unique THEN rrset ELSE {}), Full, NoOne)
  /\ forsaken' = forsaken \ {r}
  /\ UNCHANGED <<announcing, probes, probed, owed, said>>
\* avahi_goodbye_entry: whoever waited for the record hears that it is gone.
GoodbyeTo(s, R) == Post(s, R, 0, NoOne)
Withdraw(r) ==
  /\ r \in registered
  /\ registered' = registered \ {r}
  /\ sched' = GoodbyeTo(sched, {r})
  /\ owed' = owed \ ({r} \X Querier)
  /\ UNCHANGED <<announcing, forsaken, probes, probed, said>>
\* incoming_probe and handle_conflict: another host claims a name that is still
\* probed for here, and the group it belongs to is withdrawn (withdraw_entry), or
\* a record is probed for again (avahi_entry_return_to_initial_state).  The
\* announcers go and nothing is said of it; a job that waits is sent all the same.
Conflict(R) ==
  /\ R # {} /\ R \subseteq registered
  /\ registered' = registered \ R /\ forsaken' = forsaken \cup R
  /\ UNCHANGED <<announcing, sched, probes, probed, owed, said>>

InterfaceComes ==
  /\ ~announcing
  /\ announcing' = TRUE
  /\ said' = [r \in Record |-> FALSE]
  /\ UNCHANGED <<registered, forsaken, sched, probes, probed, owed>>
Cleared == /\ announcing' = FALSE /\ registered' = {} /\ owed' = {}
           /\ sched' = Nothing /\ probes' = {} /\ probed' = {} /\ forsaken' = forsaken
\* The cable is gone: nothing can be said any more.
InterfaceGoes ==
  /\ announcing
  /\ Cleared /\ said' = [r \in Record |-> FALSE]
\* The server ends: goodbyes for everything; the announcers are gone before the
\* jobs are sent, so that no goodbye brings records along.
Forced(s) ==
  LET f[n \in 0 .. Cardinality(Record)] ==
        IF n = 0 THEN s
        ELSE IF f[n-1].jobs = {} THEN f[n-1]
        ELSE WithAux(f[n-1], CHOOSE j \in f[n-1].jobs : TRUE, {})
  IN f[Cardinality(Record)]
InterfaceFree ==
  /\ announcing
  /\ Cleared
  /\ LET s1 == GoodbyeTo(sched, registered)
         sent == SentBetween(s1, Forced(s1))
     IN said' = [r \in Record |-> IF For(sent, r) = {} THEN said[r]
                                  ELSE \E h \in For(sent, r) : h.ttl > 0]

(***************************************************************************)
(* The probe scheduler                                                     *)
(***************************************************************************)
PostProbe(r) ==
  /\ announcing /\ r \in Unique \ registered
  /\ r \notin probed
  /\ probes' = probes \cup {r}
  /\ UNCHANGED <<announcing, registered, forsaken, sched, probed, owed, said>>
\* One question for a name covers every probe for it that fits.
Chosen(r) == {X \in SUBSET probes :
                /\ r \in X /\ Cardinality(X) = Min({Room, Cardinality(probes)})
                /\ \A x \in probes \ X : KeyOf[x] = KeyOf[r] => \A y \in X : KeyOf[y] = KeyOf[r]}
ProbeElapses(r) ==
  /\ r \in probes
  /\ \E X \in Chosen(r) : probes' = probes \ X /\ probed' = probed \cup X
  /\ UNCHANGED <<announcing, registered, forsaken, sched, owed, said>>
ProbedElapses(r) ==
  /\ r \in probed
  /\ probed' = probed \ {r}
  /\ UNCHANGED <<announcing, registered, forsaken, sched, probes, owed, said>>

TrafficInit ==
  /\ announcing = FALSE /\ registered = {} /\ forsaken = {} /\ sched = Nothing
  /\ probes = {} /\ probed = {} /\ owed = {} /\ said = [r \in Record |-> FALSE]

TrafficNext ==
  \/ InterfaceComes \/ InterfaceGoes \/ InterfaceFree
  \/ \E q \in Querier, k \in {KeyOf[r] : r \in Record} :
      \E known \in SUBSET {r \in Record : KeyOf[r] = k},
        ttl \in {Low, Full}, unicast \in BOOLEAN :
        (ttl = Low => q \in Aged /\ known # {}) /\ HearQuery(q, k, known, ttl, unicast)
  \/ \E r \in Record, ttl \in Ttls, flush \in BOOLEAN : HearResponse(r, ttl, flush)
  \/ \E r \in Record : JobElapses(r) \/ HistoryElapses(r) \/ ProbeElapses(r) \/ ProbedElapses(r)
  \/ \E r \in Record, q \in Querier : SuppressedElapses(r, q)
  \/ \E r \in Record : Announce(r) \/ Withdraw(r) \/ PostProbe(r)
  \/ \E R \in SUBSET registered : Conflict(R)

\* A time event that is due elapses: the loop runs it.
Fairness == \A r \in Record : WF_trafficVars(JobElapses(r))
TrafficSpec == TrafficInit /\ [][TrafficNext]_trafficVars /\ Fairness

(***************************************************************************)
(* Properties                                                              *)
(***************************************************************************)
\* The state has the types the schedulers give it.
TrafficTypeOK ==
  /\ announcing \in BOOLEAN /\ registered \subseteq Record /\ forsaken \subseteq Record
  /\ sched.jobs \subseteq Job /\ sched.history \subseteq Done /\ sched.suppressed \subseteq Known
  /\ probes \subseteq Record /\ probed \subseteq Record
  /\ owed \subseteq Record \X Querier /\ said \in [Record -> BOOLEAN]

\* The schedulers look up the first job of a list and change only that one: no
\* record has two, and none waits to be sent while it counts as just sent
\* (find_scheduled_job, find_history_job of both schedulers).
OneJobEach ==
  /\ \A r \in Record : Cardinality(For(sched.jobs, r)) + Cardinality(For(sched.history, r)) <= 1
  /\ \A r \in Record, q \in Querier : Cardinality({k \in For(sched.suppressed, r) : k.who = q}) <= 1
  /\ probes \cap probed = {}

\* Whoever asked for a record and was accepted is answered: the job stays until
\* the record is sent, or another host sends it, or he himself says he knows
\* it.  What one querier knows never takes the answer from another, although
\* both wait for the same job (avahi_response_scheduler_suppress).
OwedIsScheduled ==
  \A d \in owed : \E j \in For(sched.jobs, d[1]) : j.ttl > 0 /\ j.who \in {d[2], NoOne}

\* A record that is withdrawn, and that the link still believes in, has its
\* goodbye scheduled: no answer sent a moment ago, no query, and no answer of
\* another host swallows it, and the server does not end before it is out.  Only
\* what a conflict took (withdraw_entry asks for no goodbye) the link is left to
\* believe in, and that only until it is announced again: a goodbye of another
\* host that was heard meanwhile does not stand for the one it then needs.
GoodbyeComes ==
  \A r \in Record \ (registered \cup forsaken) : said[r] =>
     announcing /\ \E j \in For(sched.jobs, r) : j.ttl = 0

\* A record that is sent brings what it refers to: each is sent too, or is on
\* its way, or was just sent, or is known to the one who asked
\* (enumerate_aux_records_callback).
AuxAccompanies ==
  [][\A r \in Record : JobElapses(r) => \A x \in Aux[r] \cap registered :
       \/ For(sched'.jobs, x) \cup For(sched'.history, x) # {}
       \/ \E j \in For(sched.jobs, r) : KnownTo(sched, x, Full, j.who)]_trafficVars

\* Whoever waits for a record does not wait for ever.
EverybodyServed == \A r \in Record, q \in Querier : (<<r, q>> \in owed) ~> (<<r, q>> \notin owed)

\* The lists of the schedulers hold each record once, and an answer for everybody
\* who is owed one.
SchedulesKept == TrafficTypeOK /\ OneJobEach /\ OwedIsScheduled

\* Answers go out, with all they refer to.
AnswersComplete == AuxAccompanies /\ EverybodyServed
=============================================================================
