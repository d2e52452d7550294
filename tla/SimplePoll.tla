------------------------------ MODULE SimplePoll ------------------------------
(***************************************************************************)
(* Avahi's event loop on a thread of its own (simple-watch.c,              *)
(* thread-watch.c).  The loop's thread holds the mutex but while it is in  *)
(* poll(): from poll_func's unlock (PREPARED) over the kernel's look at    *)
(* pollfds (RUNNING) and its return (RETURNED) to poll_func's lock.  Other *)
(* threads change watches and timeouts there, under the mutex; callbacks   *)
(* change them from within the loop.                                       *)
(*                                                                         *)
(* Not modelled: no memory, signals, the kinds of events.  The clock only  *)
(* makes timeouts due.                                                     *)
(***************************************************************************)
EXTENDS Integers, Sequences, FiniteSets

CONSTANTS Watch,        \* memory for watches, each with a file of its own
          Timeout       \* memory for timeouts
ASSUME PollAssumption == IsFiniteSet(Watch)

VARIABLES s,            \* AvahiSimplePoll
          watch,        \* the watches: [Watch -> AvahiWatch]
          timer,        \* the timeouts: [Timeout -> AvahiTimeout]
          pipe,         \* whether there are bytes in wakeup_pipe
          polled,       \* the files poll() waits for, then those that have revents
          thread        \* AvahiThreadedPoll.thread_running
pollVars == <<s, watch, timer, pipe, polled, thread>>

States == {"INIT", "PREPARED", "RUNNING", "RETURNED", "DISPATCHING", "DISPATCHED", "QUIT", "FAILURE", "ABORTED"}
AvahiSimplePoll ==
  [state : States, quit : BOOLEAN, wakeup_issued : BOOLEAN, watch_req_cleanup : BOOLEAN,
   timeout_req_cleanup : BOOLEAN, rebuild_pollfds : BOOLEAN, prepared_timeout : {"never", "until", "now"},
   watches : Seq(Watch), pollfds : Seq([fd : Watch, events : BOOLEAN])]
AvahiWatch == [used : BOOLEAN, dead : BOOLEAN, idx : {-1} \cup (Nat \ {0}), events : BOOLEAN]
AvahiTimeout == [used : BOOLEAN, dead : BOOLEAN, enabled : BOOLEAN, due : BOOLEAN]
NoWatch == [used |-> FALSE, dead |-> FALSE, idx |-> -1, events |-> FALSE]
NoTimeout == [used |-> FALSE, dead |-> FALSE, enabled |-> FALSE, due |-> FALSE]

Live(x) == x.used /\ ~x.dead
Enabled == {t \in Timeout : Live(timer[t]) /\ timer[t].enabled}
Due == {t \in Enabled : timer[t].due}

(***************************************************************************)
(* What other threads and callbacks call                                   *)
(***************************************************************************)
MayCall == s.state \in {"INIT", "PREPARED", "RUNNING", "RETURNED", "DISPATCHING", "QUIT", "FAILURE"}
\* avahi_simple_poll_wakeup.  (WakesPoller: mutant that wakes only poll().)
WakesPoller(new) ==
  /\ pipe' = (pipe \/ s.state = "RUNNING")
  /\ s' = [new EXCEPT !.wakeup_issued = @ \/ s.state = "RUNNING"]
Wakes(new) == pipe' = TRUE /\ s' = [new EXCEPT !.wakeup_issued = TRUE]

watch_new(w, events) ==
  /\ MayCall /\ ~watch[w].used
  /\ watch' = [watch EXCEPT ![w] = [used |-> TRUE, dead |-> FALSE, idx |-> -1, events |-> events]]
  /\ Wakes([s EXCEPT !.rebuild_pollfds = TRUE, !.watches = <<w>> \o @])
  /\ UNCHANGED <<timer, polled, thread>>
watch_update(w, events) ==
  /\ MayCall /\ Live(watch[w])
  /\ watch' = [watch EXCEPT ![w].events = events]
  /\ Wakes(IF watch[w].idx # -1
           THEN [s EXCEPT !.pollfds[watch[w].idx] = [fd |-> w, events |-> events]]
           ELSE [s EXCEPT !.rebuild_pollfds = TRUE])
  /\ polled' = IF s.state = "RETURNED" THEN polled \ {w} ELSE polled
  /\ UNCHANGED <<timer, thread>>
watch_free(w) ==
  /\ MayCall /\ Live(watch[w])
  /\ watch' = [watch EXCEPT ![w].dead = TRUE]
  /\ Wakes([s EXCEPT !.rebuild_pollfds = @ \/ watch[w].idx # -1, !.watch_req_cleanup = TRUE])
  /\ UNCHANGED <<timer, polled, thread>>

\* A time that is given may have passed already.
timeout_set(t, enabled, due) ==
  /\ MayCall /\ (due => enabled)
  /\ timer' = [timer EXCEPT ![t] = [used |-> TRUE, dead |-> FALSE, enabled |-> enabled, due |-> due]]
  /\ Wakes(s) /\ UNCHANGED <<watch, polled, thread>>
timeout_new(t, enabled, due) == ~timer[t].used /\ timeout_set(t, enabled, due)
timeout_update(t, enabled, due) == Live(timer[t]) /\ timeout_set(t, enabled, due)
timeout_free(t) ==
  /\ MayCall /\ Live(timer[t])
  /\ timer' = [timer EXCEPT ![t].dead = TRUE]
  /\ Wakes([s EXCEPT !.timeout_req_cleanup = TRUE]) /\ UNCHANGED <<watch, polled, thread>>

\* avahi_threaded_poll_quit from a callback, or the first half of
\* avahi_threaded_poll_stop.
avahi_simple_poll_quit ==
  /\ thread /\ MayCall /\ ~s.quit /\ Wakes([s EXCEPT !.quit = TRUE])
  /\ UNCHANGED <<watch, timer, polled, thread>>
\* The assertion at the start of avahi_simple_poll_prepare: a loop that has
\* quit cannot be started again, one that failed can.
Started(state) == IF state = "QUIT" THEN "ABORTED" ELSE IF state = "FAILURE" THEN "DISPATCHED" ELSE state
avahi_threaded_poll_start ==
  /\ ~thread /\ s.state \in {"INIT", "QUIT", "FAILURE"} /\ thread' = TRUE
  /\ s' = [s EXCEPT !.state = Started(@)] /\ UNCHANGED <<watch, timer, pipe, polled>>
\* pthread_join in avahi_threaded_poll_stop, once the loop has ended.
avahi_threaded_poll_stop ==
  /\ thread /\ s.quit /\ s.state \in {"QUIT", "FAILURE"} /\ thread' = FALSE
  /\ UNCHANGED <<s, watch, timer, pipe, polled>>

(***************************************************************************)
(* The loop                                                                *)
(***************************************************************************)
Swept(f, none) == [x \in DOMAIN f |-> IF f[x].dead THEN none ELSE f[x]]
\* Walks over the list that pass the dead ones by: the index of a watch in
\* pollfds, behind the pipe's, is the number of live ones up to it.
LiveWatches == {w \in Watch : Live(watch[w])}
Place(w) == CHOOSE i \in DOMAIN s.watches : s.watches[i] = w
UpTo(w) == {v \in LiveWatches : Place(v) <= Place(w)}
Kept == [i \in 1 .. Cardinality(LiveWatches) |-> CHOOSE w \in LiveWatches : Cardinality(UpTo(w)) = i]
\* (CountsDead: mutant that skips the dead ones too late.)
CountsDead(w) == Place(w)
Index(w) == Cardinality(UpTo(w))
Pollfd(w) == [fd |-> w, events |-> watch[w].events]
Rebuilt(new) ==
  [new EXCEPT !.rebuild_pollfds = FALSE, !.pollfds = [i \in DOMAIN Kept |-> Pollfd(Kept[i])]]
\* clear_wakeup and the clean-up: cleanup_watches takes back the request to
\* clean up the timeouts, not its own.
CleanedUp(new) ==
  [new EXCEPT !.wakeup_issued = FALSE, !.timeout_req_cleanup = FALSE,
              !.watches = IF s.watch_req_cleanup THEN Kept ELSE @]
Prepares ==
  /\ thread /\ s.state \in {"INIT", "DISPATCHED"}
  /\ pipe' = (pipe /\ ~s.wakeup_issued)
  /\ timer' = IF s.timeout_req_cleanup /\ ~s.watch_req_cleanup THEN Swept(timer, NoTimeout) ELSE timer
  /\ LET swept == IF s.watch_req_cleanup THEN Swept(watch, NoWatch) ELSE watch
     IN IF s.quit THEN s' = [CleanedUp(s) EXCEPT !.state = "QUIT"] /\ watch' = swept
        ELSE /\ s' = [(IF s.rebuild_pollfds THEN Rebuilt(CleanedUp(s)) ELSE CleanedUp(s)) EXCEPT
                        !.state = "PREPARED",
                        !.prepared_timeout = IF Due # {} THEN "now" ELSE IF Enabled # {} THEN "until" ELSE "never"]
             /\ watch' = IF s.rebuild_pollfds
                         THEN [w \in Watch |-> IF w \in LiveWatches THEN [swept[w] EXCEPT !.idx = Index(w)]
                                               ELSE swept[w]]
                         ELSE swept
  /\ UNCHANGED <<polled, thread>>
\* avahi_simple_poll_run: poll() is called with what pollfds say now.
Polls ==
  /\ s.state = "PREPARED" /\ s' = [s EXCEPT !.state = "RUNNING"]
  /\ polled' = {s.pollfds[i].fd : i \in {i \in DOMAIN s.pollfds : s.pollfds[i].events}}
  /\ UNCHANGED <<watch, timer, pipe, thread>>
PollReturns(ready) ==
  /\ s.state = "RUNNING" /\ ready \subseteq polled
  /\ pipe \/ ready # {} \/ s.prepared_timeout # "never"
  /\ s' = [s EXCEPT !.state = "RETURNED"] /\ polled' = ready
  /\ UNCHANGED <<watch, timer, pipe, thread>>
PollFails ==
  /\ s.state = "RUNNING" /\ s' = [s EXCEPT !.state = "FAILURE"] /\ polled' = {}
  /\ UNCHANGED <<watch, timer, pipe, thread>>

\* avahi_simple_poll_dispatch: one callback, that of a timeout first.
TimeoutCallback(t) ==
  /\ s.state = "RETURNED" /\ t \in Due
  /\ timer' = [timer EXCEPT ![t].enabled = FALSE, ![t].due = FALSE]
  /\ s' = [s EXCEPT !.state = "DISPATCHING"] /\ polled' = {} /\ UNCHANGED <<watch, pipe, thread>>
Hits(w) == Live(watch[w]) /\ (watch[w].idx = -1 \/ s.pollfds[watch[w].idx].fd \in polled)
WatchCallback ==
  /\ s.state = "RETURNED" /\ Due = {}
  /\ LET hits == SelectSeq(s.watches, Hits)
     IN s' = [s EXCEPT !.state = IF hits = <<>> THEN "DISPATCHED"
                                 ELSE IF watch[Head(hits)].idx = -1 THEN "ABORTED" ELSE "DISPATCHING"]
  /\ polled' = {} /\ UNCHANGED <<watch, timer, pipe, thread>>
DispatchReturns ==
  /\ s.state = "DISPATCHING" /\ s' = [s EXCEPT !.state = "DISPATCHED"]
  /\ UNCHANGED <<watch, timer, pipe, polled, thread>>

Elapses(t) ==
  /\ t \in Enabled \ Due /\ timer' = [timer EXCEPT ![t].due = TRUE]
  /\ UNCHANGED <<s, watch, pipe, polled, thread>>

PollInit ==
  /\ s = [state |-> "INIT", quit |-> FALSE, wakeup_issued |-> TRUE, watch_req_cleanup |-> FALSE,
          timeout_req_cleanup |-> FALSE, rebuild_pollfds |-> TRUE, prepared_timeout |-> "now",
          watches |-> <<>>, pollfds |-> <<>>]
  /\ watch = [w \in Watch |-> NoWatch] /\ timer = [t \in Timeout |-> NoTimeout]
  /\ pipe = TRUE /\ polled = {} /\ thread = FALSE

PollNext ==
  \/ \E w \in Watch : watch_free(w) \/ \E events \in BOOLEAN : watch_new(w, events) \/ watch_update(w, events)
  \/ \E t \in Timeout :
       \/ timeout_free(t) \/ TimeoutCallback(t) \/ Elapses(t)
       \/ \E enabled, due \in BOOLEAN : timeout_new(t, enabled, due) \/ timeout_update(t, enabled, due)
  \/ avahi_simple_poll_quit \/ avahi_threaded_poll_start \/ avahi_threaded_poll_stop
  \/ Prepares \/ Polls \/ \E ready \in SUBSET Watch : PollReturns(ready)
  \/ PollFails \/ WatchCallback \/ DispatchReturns
PollSpec == PollInit /\ [][PollNext]_pollVars

(***************************************************************************)
(* Properties                                                              *)
(***************************************************************************)
PollTypeOK ==
  /\ s \in AvahiSimplePoll /\ watch \in [Watch -> AvahiWatch] /\ timer \in [Timeout -> AvahiTimeout]
  /\ pipe \in BOOLEAN /\ polled \subseteq Watch /\ thread \in BOOLEAN

\* While poll() waits with nothing in the pipe, it waits for what is wanted:
\* the files of the live watches, not without end if there is a timeout, and
\* not at all once the loop is to quit ("If there is a background thread
\* running the poll() for us, tell it to exit the poll()").
NoLostWakeup ==
  s.state = "RUNNING" /\ ~pipe =>
    /\ ~s.quit
    /\ polled = {w \in Watch : Live(watch[w]) /\ watch[w].events}
    /\ Enabled # {} => s.prepared_timeout # "never"

\* The index a live watch keeps is that of its own file in pollfds, also when
\* others were freed and made since pollfds were built (rebuild, watch_update).
IndexIsOwn ==
  \A w \in Watch : Live(watch[w]) /\ watch[w].idx # -1 =>
    /\ watch[w].idx \in DOMAIN s.pollfds
    /\ s.pollfds[watch[w].idx].fd = w /\ s.pollfds[watch[w].idx].events = watch[w].events

\* The loop sees every change of its watches, timeouts and quit flag, from its
\* own thread or from another.
LoopWakes == PollTypeOK /\ NoLostWakeup /\ IndexIsOwn
=============================================================================
