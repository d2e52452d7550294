---------------------------- MODULE AvahiServer ----------------------------
(***************************************************************************)
(* The publishing half of the responder that QZeroConf runs inside the     *)
(* process on Android (avahicore.cpp): entry groups and entries (entry.c), *)
(* the announcer that probes for and announces one entry on one interface  *)
(* (announce.c), conflicts, the host's own address records and the state   *)
(* of the server (server.c), and the interfaces and addresses the kernel   *)
(* reports (iface.c, iface-linux.c).                                       *)
(*                                                                         *)
(* One record, avahi, holds what the C structures hold; every C function   *)
(* that changes it is an operator from state to state, so that a handler   *)
(* is composed here exactly as its calls nest in the code.  Functions that *)
(* end in a callback take the callback as an operator, because the         *)
(* callbacks of the server re-enter the functions that call them.          *)
(***************************************************************************)
EXTENDS Integers, FiniteSets, SequencesExt

CONSTANTS
    Iface,        \* the interfaces, each with one protocol
    Addresses,    \* the addresses, in the order of the interfaces' lists
    On,           \* On[a]: the interface of address a
    Global,       \* the addresses of global scope that are not deprecated
    HostName,     \* the host names the server is given
    Iterations,   \* the 4 of announce.c: probes or announcements, plus one
    MaxEvents     \* bound: events other than a timer running out

Address == Range(Addresses)

\* An address is on one interface, and is none of the application's entries; an
\* announcer sends at least once before it is done.
ASSUME AvahiAssumption ==
    /\ IsFiniteSet(Iface) /\ Addresses \in Seq(Address) /\ On \in [Address -> Iface]
    /\ {"svc", "srv", "ptr"} \intersect Address = {} /\ HostName # {}
    /\ Iterations \in Nat /\ Iterations >= 2 /\ MaxEvents \in Nat

\* Every address has a group of one address record; the application has one
\* group, with its unique records (SRV and TXT: one entry) and a shared PTR.
Group == Address \union {"svc"}
Entry == Address \union {"srv", "ptr"}
Of(e) == IF e \in Address THEN e ELSE "svc"
IsUnique(e) == e # "ptr"
Pair == Entry \X Iface
Entries(g) == {e \in Entry : Of(e) = g}

NoAnnouncer == [st |-> "none", n |-> 0]

VARIABLE avahi

\* A loop of the code along a list: what Step makes of s, element by element.
Along(s, seq, Step(_, _)) ==
    LET f[n \in 0 .. Len(seq)] == IF n = 0 THEN s ELSE Step(f[n - 1], seq[n])
    IN  f[Len(seq)]

----------------------------------------------------------------------------
(* announce.c: the announcers *)

\* avahi_interface_match: an address is published on its own hardware only.
Match(p) == p[1] \in Address => On[p[1]] = p[2]

\* avahi_entry_is_commited
Committed(s, e) == s.state[Of(e)] \in {"REGISTERING", "ESTABLISHED"}

\* mutant: a shared record always waits for its group
InitialWaits(s, e) == [st |-> IF IsUnique(e) THEN "PROBING" ELSE "WAITING", n |-> 1]

\* go_to_initial_state; its timer runs while it probes or announces.
Initial(s, e) ==
    [st |-> IF IsUnique(e) THEN "PROBING"
            ELSE IF s.state[Of(e)] = "ESTABLISHED" THEN "ANNOUNCING" ELSE "WAITING",
     n |-> 1]

\* n_probing follows a set of announcers that start (sign 1) or stop (-1) probing.
Counted(s, P, sign) ==
    [g \in Group |-> s.n_probing[g] + sign * Cardinality({p \in P : Of(p[1]) = g})]

\* new_announcer, for every pair of P that should have one and has none
NewAnnouncers(s, P) ==
    LET new == {p \in P : /\ Match(p) /\ s.announcing[p[2]] /\ p[1] \in s.live
                          /\ Committed(s, p[1]) /\ s.ann[p] = NoAnnouncer}
    IN  [s EXCEPT !.ann = [p \in Pair |-> IF p \in new THEN Initial(s, p[1]) ELSE @[p]],
                  !.n_probing = Counted(s, {p \in new : IsUnique(p[1])}, 1)]

\* remove_announcer: the group's n_probing is left as it is.
RemoveAnnouncers(s, P) ==
    [s EXCEPT !.ann = [p \in Pair |-> IF p \in P THEN NoAnnouncer ELSE @[p]]]

\* avahi_entry_is_registered and avahi_entry_is_probing
Registered(s, p) ==
    \/ s.ann[p].st \in {"ANNOUNCING", "ESTABLISHED"}
    \/ s.ann[p].st = "WAITING" /\ ~IsUnique(p[1])

Probing(s, p) ==
    \/ s.ann[p].st = "PROBING"
    \/ s.ann[p].st = "WAITING" /\ IsUnique(p[1])

\* The name a record is filed under: all addresses of a host share one.
Key(e, v) == IF e \in Address THEN <<"host", v>> ELSE <<e, 0>>
SameKey(s, e) == {f \in s.live : Key(f, s.ver[f]) = Key(e, s.ver[e])}

\* What the listeners on the link hold is in heard or, when it was withdrawn
\* without a word, in stale.  Once the announcer has sent: a unique record goes
\* out with its whole rrset and flushes what they had.
Send(s, p) ==
    LET rrset == {f \in SameKey(s, p[1]) : Registered(s, <<f, p[2]>>)}
    IN  [s EXCEPT !.heard[p[2]] =
                      IF IsUnique(p[1])
                      THEN {x \in @ : Key(x[1], x[2]) # Key(p[1], s.ver[p[1]])}
                               \union {<<f, s.ver[f]>> : f \in rrset}
                      ELSE @ \union {<<p[1], s.ver[p[1]]>>},
                  !.stale[p[2]] =
                      IF IsUnique(p[1])
                      THEN {x \in @ : Key(x[1], x[2]) # Key(p[1], s.ver[p[1]])}
                      ELSE @ \ {<<p[1], s.ver[p[1]]>>}]

\* mutant: one announcement too many
AnnounceOnceMore(s, p) ==
    LET n == s.ann[p].n + 1
    IN  [Send(s, p) EXCEPT
           !.ann[p] = [st |-> IF n > Iterations THEN "ESTABLISHED" ELSE "ANNOUNCING", n |-> n]]

\* next_state, AVAHI_ANNOUNCING
NextAnnouncement(s, p) ==
    LET n == s.ann[p].n + 1
    IN  [Send(s, p) EXCEPT
           !.ann[p] = [st |-> IF n >= Iterations THEN "ESTABLISHED" ELSE "ANNOUNCING", n |-> n]]

\* send_goodbye_callback: only what was served on the link is taken back.
Goodbye(s, P) ==
    LET said == {p \in P : s.announcing[p[2]] /\ Match(p) /\ Registered(s, p)}
        Taken(i) == {<<p[1], s.ver[p[1]]>> : p \in {q \in said : q[2] = i}}
    IN  [s EXCEPT !.heard = [i \in Iface |-> @[i] \ Taken(i)],
                  !.stale = [i \in Iface |-> @[i] \ Taken(i)]]

\* mutant: the announcers of a dead entry stay
KillKeepsAnnouncers(s, E, goodbye) ==
    LET t == IF goodbye THEN Goodbye(s, E \X Iface) ELSE s
    IN  [t EXCEPT !.live = @ \ E]

\* avahi_goodbye_entry(s, e, goodbye, 1) and e->dead = 1, for a set of entries
Kill(s, E, goodbye) ==
    LET P == E \X Iface
        t == IF goodbye THEN Goodbye(s, P) ELSE s
    IN  [RemoveAnnouncers(t, P) EXCEPT !.live = @ \ E]

\* mutant: the new probe is not counted
ReturnUncounted(s, p) ==
    IF s.ann[p] = NoAnnouncer THEN s ELSE [s EXCEPT !.ann[p] = Initial(s, p[1])]

\* avahi_entry_return_to_initial_state
ReturnToInitial(s, p) ==
    LET t == [s EXCEPT !.n_probing = Counted(s, {q \in {p} : s.ann[q].st = "PROBING"}, -1)]
    IN  IF s.ann[p] = NoAnnouncer THEN s
        ELSE [t EXCEPT !.ann[p] = Initial(t, p[1]),
                       !.n_probing = Counted(t, {q \in {p} : IsUnique(q[1])}, 1)]

\* reannounce: what has not been probed yet is probed again.
Reannounced(s, p) ==
    LET a == s.ann[p]
    IN  IF a = NoAnnouncer \/ s.state[Of(p[1])] \in {"UNCOMMITED", "COLLISION"} THEN a
        ELSE [st |-> IF Probing(s, p) THEN "PROBING"
                     ELSE IF a.st = "WAITING" THEN "WAITING" ELSE "ANNOUNCING",
              n |-> 1]

Reannounce(s, e) ==
    LET P == {p \in {e} \X Iface : Match(p)}
        was == {p \in P : s.ann[p].st = "PROBING"}
        is == {p \in P : Reannounced(s, p).st = "PROBING"}
    IN  [s EXCEPT !.ann = [p \in Pair |-> IF p \in P THEN Reannounced(s, p) ELSE @[p]],
                  !.n_probing = Counted([s EXCEPT !.n_probing = Counted(s, was, -1)], is, 1)]

----------------------------------------------------------------------------
(* entry.c: entry groups *)

\* avahi_s_entry_group_change_state, up to the group's callback, and with it
Entered(s, g, st) ==
    [s EXCEPT !.state[g] = st, !.timer[g] = @ /\ s.state[g] # "REGISTERING"]
ChangeState(s, g, st, Callback(_, _, _)) ==
    IF s.state[g] = st THEN s ELSE Callback(Entered(s, g, st), g, st)

\* avahi_s_entry_group_check_probed: the announcers that wait begin, at once
\* when one of them got there.
Begun(s, g, immediately) ==
    LET ready == {p \in Pair : Of(p[1]) = g /\ s.ann[p].st = "WAITING"}
        begin == [s EXCEPT !.ann = [p \in Pair |->
                    IF p \in ready
                    THEN [st |-> "ANNOUNCING", n |-> IF immediately THEN 1 ELSE 0]
                    ELSE @[p]]]
    IN  IF immediately THEN Along(begin, SetToSeq(ready), NextAnnouncement) ELSE begin
CheckProbed(s, g, immediately, Callback(_, _, _)) ==
    IF s.state[g] # "REGISTERING" \/ s.n_probing[g] > 0 THEN s
    ELSE Begun(ChangeState(s, g, "ESTABLISHED", Callback), g, immediately)

\* entry_group_commit_real; the callbacks of REGISTERING free no group.
CommitReal(s, g, Callback(_, _, _)) ==
    LET t == ChangeState([s EXCEPT !.recent[g] = TRUE], g, "REGISTERING", Callback)
    IN  CheckProbed(NewAnnouncers(t, Entries(g) \X Iface), g, FALSE, Callback)

\* avahi_s_entry_group_commit: registering again so soon waits for a timer.
Commits(s, g) ==
    s.state[g] \in {"UNCOMMITED", "COLLISION"} /\ Entries(g) \intersect s.live # {}
Commit(s, g, Callback(_, _, _)) ==
    IF ~Commits(s, g) THEN s
    ELSE IF s.recent[g]
         THEN ChangeState([s EXCEPT !.timer[g] = TRUE], g, "REGISTERING", Callback)
         ELSE CommitReal(s, g, Callback)

\* mutant: a reset without goodbyes
ResetSilently(s, g) ==
    LET Quiet(u, h, st) == u
    IN  ChangeState([Kill(s, Entries(g) \intersect s.live, FALSE) EXCEPT !.n_probing[g] = 0],
                    g, "UNCOMMITED", Quiet)

\* avahi_s_entry_group_reset; no callback acts on AVAHI_ENTRY_GROUP_UNCOMMITED.
Reset(s, g) ==
    LET t == Kill(s, Entries(g) \intersect s.live, TRUE)
        Quiet(u, h, st) == u
    IN  ChangeState([t EXCEPT !.n_probing[g] = 0], g, "UNCOMMITED", Quiet)

\* avahi_s_entry_group_free, and the fresh group that takes its place
FreeGroup(s, g) ==
    LET t == Kill(s, Entries(g) \intersect s.live, TRUE)
    IN  [t EXCEPT !.n_probing[g] = 0, !.state[g] = "UNCOMMITED",
                  !.timer[g] = FALSE, !.recent[g] = FALSE]

----------------------------------------------------------------------------
(* server.c and iface.c: the host's own records *)

\* avahi_interface_address_is_relevant and avahi_interface_is_relevant
AddressRelevant(s, a) ==
    a \in Global \/ ~\E b \in s.present : b # a /\ On[b] = On[a] /\ b \in Global
Relevant(s, i) == s.flags_ok[i] /\ \E a \in s.present : On[a] = i

Wanted(s, a) ==
    /\ s.list_complete /\ a \in s.present /\ AddressRelevant(s, a) /\ Relevant(s, On[a])
    /\ s.server \in {"RUNNING", "REGISTERING"}

\* server_add_internal: the records join the live ones of their group.
AddRecords(s, E) == [s EXCEPT !.live = @ \union E]

\* avahi_server_add_address: the record bears the host name of that moment.
AddAddress(s, a) == [AddRecords(s, {a}) EXCEPT !.ver[a] = s.hostName]

\* server_add_service_strlst_nocopy: SRV, TXT and PTR in one group
AddService(s) == AddRecords(s, Entries("svc"))

\* A registration that is taken back before it was done
WasPending(s, a) == s.state[a] = "REGISTERING" /\ s.server = "REGISTERING"

\* avahi_interface_address_update_rrs; Decrease is
\* avahi_server_decrease_host_rr_pending, which may change the server's state.
UpdateAddress(s, a, remove, Callback(_, _, _), Decrease(_)) ==
    IF ~remove /\ Wanted(s, a)
    THEN IF a \in s.live THEN s
         ELSE Commit(AddAddress(s, a), a, Callback)
    ELSE IF a \notin s.live \/ a \notin s.present THEN s
    ELSE Reset(IF WasPending(s, a) THEN Decrease(s) ELSE s, a)

\* Once the server runs, or has collided, its callback ignores both
\* REGISTERING and ESTABLISHED, so the recursion of the code ends here.
Ignore(s, g, st) == s
Same(s) == s
UpdateSettled(s, remove) ==
    Along(s, Addresses, LAMBDA t, a : UpdateAddress(t, a, remove, Ignore, Same))

\* server_set_state, for the states in which nothing registers any more; the
\* application is told last.
SetSettled(s, st) ==
    IF s.server = st THEN s
    ELSE LET t == UpdateSettled([s EXCEPT !.server = st], FALSE)
         IN  [t EXCEPT !.told = Append(@, st)]

\* avahi_server_decrease_host_rr_pending
DecreasePending(s) ==
    LET t == [s EXCEPT !.pending = @ - 1]
    IN  IF t.pending = 0 THEN SetSettled(t, "RUNNING") ELSE t

\* avahi_host_rr_entry_group_callback, for the two states a commit reaches
HostRegistered(s, g, st) ==
    IF s.server # "REGISTERING" THEN s
    ELSE IF st = "REGISTERING" THEN [s EXCEPT !.pending = @ + 1]
    ELSE DecreasePending(s)

\* avahi_interface_update_rrs, for the addresses A of one or of all interfaces
UpdateAddresses(s, A, remove) ==
    Along(s, Addresses,
          LAMBDA t, a : IF a \in A
                        THEN UpdateAddress(t, a, remove, HostRegistered, DecreasePending)
                        ELSE t)
UpdateAll(s, remove) == UpdateAddresses(s, Address, remove)
UpdateInterface(s, i, remove) == UpdateAddresses(s, {a \in Address : On[a] = i}, remove)

\* withdraw_host_rrs
WithdrawHost(s) == [UpdateAll(s, TRUE) EXCEPT !.pending = 0]

\* mutant: nothing holds the count while the records are added
RegisterUnguarded(s) ==
    LET entered == [UpdateAll([s EXCEPT !.server = "REGISTERING"], FALSE) EXCEPT
                        !.told = Append(@, "REGISTERING")]
    IN  DecreasePending(UpdateAll(entered, FALSE))

\* register_stuff: server_set_state(AVAHI_SERVER_REGISTERING), then the
\* host's records under the guard of one more pending registration.
RegisterStuff(s) ==
    LET entered == IF s.server = "REGISTERING" THEN s
                   ELSE LET u == UpdateAll([s EXCEPT !.server = "REGISTERING"], FALSE)
                        IN  [u EXCEPT !.told = Append(@, "REGISTERING")]
        filled == UpdateAll([entered EXCEPT !.pending = @ + 1], FALSE)
    IN  DecreasePending(filled)

\* The application's group: QZeroConfPrivate frees it on a collision.
Callback(s, g, st) ==
    IF g = "svc"
    THEN IF st = "COLLISION" THEN [FreeGroup(s, g) EXCEPT !.published = FALSE] ELSE s
    ELSE IF st = "COLLISION"
         THEN IF s.server \in {"REGISTERING", "RUNNING"}
              THEN SetSettled(WithdrawHost(s), "COLLISION") ELSE s
         ELSE HostRegistered(s, g, st)

\* withdraw_entry takes the whole group of an entry with it and sends no goodbye
\* (server.c:169): what the listeners hold of it, on every interface, is stale.
\* withdraw_rrset does so for every entry filed under the name.
WithdrawEntry(s, e) ==
    LET g == Of(e)
        t == Kill(s, Entries(g) \intersect s.live, FALSE)
        gone == [t EXCEPT !.n_probing[g] = 0,
                    !.heard = [i \in Iface |-> {x \in @[i] : Of(x[1]) # g}],
                    !.stale = [i \in Iface |-> @[i] \union {x \in s.heard[i] : Of(x[1]) = g}]]
    IN  IF e \in s.live THEN ChangeState(gone, g, "COLLISION", Callback) ELSE s

WithdrawRrset(s, e) == Along(s, SetToSeq(SameKey(s, e)), WithdrawEntry)

----------------------------------------------------------------------------
(* The events *)

Init ==
    avahi = [live |-> {}, ver |-> [e \in Entry |-> 0], ann |-> [p \in Pair |-> NoAnnouncer],
             state |-> [g \in Group |-> "UNCOMMITED"], n_probing |-> [g \in Group |-> 0],
             timer |-> [g \in Group |-> FALSE], recent |-> [g \in Group |-> FALSE],
             announcing |-> [i \in Iface |-> FALSE], flags_ok |-> [i \in Iface |-> TRUE],
             present |-> Address, list_complete |-> FALSE, server |-> "INVALID", pending |-> 0,
             hostName |-> CHOOSE h \in HostName : TRUE, published |-> FALSE, ready |-> FALSE,
             told |-> <<>>, events |-> 0,
             heard |-> [i \in Iface |-> {}], stale |-> [i \in Iface |-> {}]]

\* The application learns of a state while the handler runs; serverCallback
\* of QZeroConfPrivate remembers that the server has been running.
Does(s) == avahi' = [s EXCEPT !.ready = @ \/ "RUNNING" \in Range(s.told)]
Now == [avahi EXCEPT !.told = <<>>]
Happens == [Now EXCEPT !.events = @ + 1]
Active == avahi.server # "INVALID"
MayHappen == avahi.events < MaxEvents

\* avahi_server_new: the kernel's list is read, or reading it failed, and the
\* host registers its records.
ServerNew == ~Active /\ Does(RegisterStuff(Now))

\* avahi_announce_interface; joining the multicast group may fail.
Announces(s, i, joins) ==
    IF joins THEN NewAnnouncers([s EXCEPT !.announcing[i] = TRUE], Entry \X {i}) ELSE s

\* The link is left without goodbyes, and what it was told goes with it.
Leaves(s, i) ==
    [RemoveAnnouncers(s, Entry \X {i}) EXCEPT
        !.announcing[i] = FALSE, !.heard[i] = {}, !.stale[i] = {}]

\* avahi_interface_check_relevant
CheckRelevant(s, i, joins) ==
    IF s.list_complete /\ Relevant(s, i) /\ ~s.announcing[i] THEN Announces(s, i, joins)
    ELSE IF ~Relevant(s, i) /\ s.announcing[i] THEN Leaves(s, i)
    ELSE s

\* netlink_callback, RTM_NEWLINK: a link appears, or its flags change.
NewLink(i, ok, joins) ==
    /\ avahi.flags_ok[i] # ok
    /\ LET s == CheckRelevant([Happens EXCEPT !.flags_ok[i] = ok], i, joins)
       IN  Does(UpdateInterface(s, i, FALSE))

\* RTM_NEWADDR
NewAddr(a, joins) ==
    /\ a \notin avahi.present
    /\ LET s == CheckRelevant([Happens EXCEPT !.present = @ \union {a}], On[a], joins)
       IN  Does(UpdateInterface(s, On[a], FALSE))

\* avahi_interface_address_free
FreeAddress(s, a) ==
    LET t == UpdateAddress(s, a, TRUE, HostRegistered, DecreasePending)
    IN  FreeGroup([t EXCEPT !.present = @ \ {a}], a)

\* avahi_hw_interface_free and avahi_interface_free, for the addresses
FreeAddresses(s, A) ==
    Along(s, Addresses, LAMBDA t, a : IF a \in A THEN FreeAddress(t, a) ELSE t)

\* mutant: only the address that goes is looked at again
DelAddrAlone(a, joins) ==
    /\ a \in avahi.present
    /\ LET s == CheckRelevant(FreeAddress(Happens, a), On[a], joins)
       IN  Does(UpdateAddresses(s, {a}, FALSE))

\* RTM_DELADDR
DelAddr(a, joins) ==
    /\ a \in avahi.present
    /\ LET s == CheckRelevant(FreeAddress(Happens, a), On[a], joins)
       IN  Does(UpdateInterface(s, On[a], FALSE))

\* RTM_DELLINK: avahi_hw_interface_free and avahi_interface_free
DelLink(i) ==
    LET mine == {a \in avahi.present : On[a] = i}
        t == UpdateInterface(Happens, i, TRUE)
        s == RemoveAnnouncers(t, Entry \X {i})
        u == UpdateInterface(s, i, TRUE)
    IN  /\ avahi.flags_ok[i] \/ mine # {}
        /\ Does([FreeAddresses(u, mine) EXCEPT
                    !.flags_ok[i] = FALSE, !.announcing[i] = FALSE,
                    !.heard[i] = {}, !.stale[i] = {}])

\* NLMSG_DONE: the first list of links and addresses is complete.
ListComplete(joins) ==
    /\ ~avahi.list_complete
    /\ LET s == Along([Now EXCEPT !.list_complete = TRUE], SetToSeq(Iface),
                      LAMBDA t, i : CheckRelevant(t, i, joins[i]))
       IN  Does(UpdateAll(s, FALSE))

\* elapse_announce: next_state for the announcer whose timer ran out
Elapse(p) ==
    LET a == avahi.ann[p]
        g == Of(p[1])
        done == [Now EXCEPT !.n_probing[g] = @ - 1]
    IN  \/ a.st = "ANNOUNCING" /\ Does(NextAnnouncement(Now, p))
        \/ /\ a.st = "PROBING" /\ a.n < Iterations
           /\ Does([Now EXCEPT !.ann[p].n = @ + 1])
        \/ /\ a.st = "PROBING" /\ a.n >= Iterations
           /\ IF avahi.state[g] = "REGISTERING"
              THEN Does(CheckProbed([done EXCEPT !.ann[p].st = "WAITING"], g, TRUE, Callback))
              ELSE Does(NextAnnouncement([done EXCEPT !.ann[p] = [st |-> "ANNOUNCING", n |-> 1]], p))

\* entry_group_register_time_event_callback
HoldoffElapses(g) ==
    avahi.timer[g] /\ Does(CommitReal([Now EXCEPT !.timer[g] = FALSE], g, Callback))

\* A second after a registration began the next may begin at once.
TimePasses(g) ==
    avahi.recent[g] /\ ~avahi.timer[g] /\ Does([Now EXCEPT !.recent[g] = FALSE])

\* handle_conflict: a unique record of somebody else, with other data for the
\* name of e.  It flushes ours at the listeners; what is being probed for is
\* given up, and what is served goes back to its initial state.
Conflict(e, i) ==
    LET here == SameKey(avahi, e)
        served == {f \in here : Registered(avahi, <<f, i>>)}
        probed == {f \in here : Probing(avahi, <<f, i>>)}
        flushed == [Happens EXCEPT !.heard[i] = {x \in @ : x[1] \notin here},
                                   !.stale[i] = {x \in @ : x[1] \notin here}]
    IN  /\ e \in avahi.live /\ avahi.announcing[i]
        /\ \/ probed # {} /\ Does(WithdrawRrset(flushed, e))
           \/ probed = {} /\ \E f \in served : Does(ReturnToInitial(flushed, <<f, i>>))

\* incoming_probe: somebody probes for the name of e with data that is less
\* than our records of above, and greater than the others.
IncomingProbe(e, i, above) ==
    LET probed == {f \in SameKey(avahi, e) : Probing(avahi, <<f, i>>)}
    IN  /\ e \in avahi.live /\ avahi.announcing[i]
        /\ probed # {} /\ probed \intersect above = {}
        /\ Does(WithdrawRrset(Happens, e))

\* QZeroConfPrivate::registerService: a group, its records, and the commit
Publish ==
    /\ avahi.ready /\ ~avahi.published
    /\ LET s == AddService([Now EXCEPT !.published = TRUE])
       IN  Does(Commit(s, "svc", Callback))

\* QZeroConf::stopServicePublish
Unpublish ==
    avahi.published /\ Does([FreeGroup(Happens, "svc") EXCEPT !.published = FALSE])

\* avahi_server_update_service_txt_strlst: server_add_internal with
\* AVAHI_PUBLISH_UPDATE replaces the record of the entry.
UpdateTxt ==
    /\ avahi.published /\ "srv" \in avahi.live
    /\ LET s == [Happens EXCEPT !.ver["srv"] = @ + 1]
       IN  Does(IF s.state["svc"] = "UNCOMMITED" THEN s ELSE Reannounce(s, "srv"))

\* avahi_server_set_host_name
SetHostName(h) ==
    /\ Active
    /\ h # avahi.hostName \/ avahi.server = "COLLISION"
    /\ Does(RegisterStuff([WithdrawHost(Happens) EXCEPT !.hostName = h]))

Timer == (\E p \in Pair : Elapse(p)) \/ (\E g \in Group : HoldoffElapses(g) \/ TimePasses(g))

Kernel ==
    \/ \E i \in Iface, joins \in BOOLEAN, ok \in BOOLEAN : NewLink(i, ok, joins)
    \/ \E a \in Address, joins \in BOOLEAN : NewAddr(a, joins) \/ DelAddr(a, joins)
    \/ \E i \in Iface : DelLink(i)

Network == \E e \in Entry, i \in Iface :
    Conflict(e, i) \/ \E above \in SUBSET Entry : IncomingProbe(e, i, above)

Application == Unpublish \/ UpdateTxt \/ \E h \in HostName : SetHostName(h)

Next ==
    \/ ServerNew \/ (\E joins \in [Iface -> BOOLEAN] : ListComplete(joins)) \/ Publish
    \/ Timer
    \/ MayHappen /\ (Kernel \/ Network \/ Application)

vars == <<avahi>>

Spec == Init /\ [][Next]_vars

----------------------------------------------------------------------------
(* Properties *)

AnnouncerState == {"none", "PROBING", "WAITING", "ANNOUNCING", "ESTABLISHED"}
GroupState == {"UNCOMMITED", "REGISTERING", "ESTABLISHED", "COLLISION"}
ServerState == {"INVALID", "REGISTERING", "RUNNING", "COLLISION"}
Version == HostName \union 0 .. MaxEvents

\* The type of every field.
AvahiTypeOK ==
    /\ avahi.live \subseteq Entry /\ avahi.ver \in [Entry -> Version]
    /\ \A p \in Pair : avahi.ann[p].st \in AnnouncerState /\ avahi.ann[p].n \in 0 .. Iterations
    /\ avahi.state \in [Group -> GroupState] /\ avahi.n_probing \in [Group -> Nat]
    /\ avahi.timer \in [Group -> BOOLEAN] /\ avahi.recent \in [Group -> BOOLEAN]
    /\ avahi.announcing \in [Iface -> BOOLEAN] /\ avahi.flags_ok \in [Iface -> BOOLEAN]
    /\ avahi.present \subseteq Address /\ avahi.server \in ServerState
    /\ avahi.pending \in Nat /\ avahi.hostName \in HostName
    /\ \A i \in Iface : avahi.heard[i] \union avahi.stale[i] \subseteq Entry \X Version

\* A unique record is announced or answered only while its whole group is
\* established, on whichever interface it was probed, and after whatever
\* conflicts, resets and interfaces that came and went (announce.c:129).
ServedAfterProbe ==
    \A p \in Pair : IsUnique(p[1]) /\ Registered(avahi, p) => avahi.state[Of(p[1])] = "ESTABLISHED"

ProbingOf(g) == Cardinality({p \in Pair : Of(p[1]) = g /\ avahi.ann[p].st = "PROBING"})

\* n_probing never falls below the number of announcers that probe, so that
\* assert(a->entry->group->n_probing) holds (announce.c:126); and a group that
\* registers without waiting for its timer has a probe to wait for.  It may be
\* above that number: remove_announcer does not count down.
ProbesCounted ==
    \A g \in Group :
        /\ avahi.n_probing[g] >= ProbingOf(g)
        /\ avahi.state[g] = "REGISTERING" /\ ~avahi.timer[g] => avahi.n_probing[g] > 0

\* No other record of the interface is ever filed under the same name at the
\* same time: of several global addresses on one link, a conflict over the host
\* name makes one start anew, while listeners flush them all (server.c:325).
Alone(p) == p[1] \in Address =>
    \A a \in Address : On[a] = p[2] /\ (a \in Global <=> p[1] \in Global) => a = p[1]

\* What the listeners on a link hold
Held(i) == avahi.heard[i] \union avahi.stale[i]

\* An announcer that is done has told the link exactly the present data of
\* its record, unless it shares its name on the link; and what the listeners
\* hold of the present data of a record that is not served any more is what a
\* conflict took away in silence, on the link of the conflict or another one
\* (server.c:169): every other withdrawal and loss has reached them.  Data of
\* before an update may stay: avahi_goodbye_entry says goodbye to the data the
\* entry has by then (announce.c:389).
HeardIsServed ==
    /\ \A p \in Pair : avahi.ann[p].st = "ESTABLISHED" /\ Alone(p) =>
          <<p[1], avahi.ver[p[1]]>> \in avahi.heard[p[2]]
    /\ \A i \in Iface : \A x \in Held(i) :
          x[2] = avahi.ver[x[1]] => Registered(avahi, <<x[1], i>>) \/ x \in avahi.stale[i]

\* The server counts its pending registrations without ever going below zero
\* (the assertions of server.c:1107 and 1226), and registers only while it waits
\* for one.
PendingCounted ==
    /\ avahi.pending >= 0
    /\ avahi.server = "REGISTERING" => avahi.pending > 0

\* The host publishes exactly the addresses that it should: those present on a
\* relevant interface, of global scope where there is one, while the server
\* registers or runs (avahi_interface_address_update_rrs), after whatever links,
\* addresses, collisions and renames, also those met while records are being
\* added and a callback of the group changes the server's state half-way, or
\* withdrawn for a collision and registered again by a callback.
PublishedIsWanted == \A a \in Address : a \in avahi.live <=> Wanted(avahi, a)

\* Whatever comes and goes, work that is left has a timer: once none runs, no
\* group whose count of probes is right is still registering, and each of its
\* records has been announced in full on every interface it belongs to.
NeverStuck ==
    (\A p \in Pair : avahi.ann[p].st \notin {"PROBING", "ANNOUNCING"}) =>
        \A g \in Group : ~avahi.timer[g] /\ avahi.n_probing[g] = ProbingOf(g) =>
            /\ avahi.state[g] # "REGISTERING"
            /\ \A p \in Entries(g) \X Iface : avahi.ann[p].st \in {"none", "ESTABLISHED"}
            /\ avahi.state[g] = "ESTABLISHED" =>
                  \A p \in Entries(g) \X Iface :
                      Match(p) /\ avahi.announcing[p[2]] /\ p[1] \in avahi.live =>
                          avahi.ann[p].st = "ESTABLISHED"

\* core.h:119 says of avahi_server_set_host_name: "This will drop all
\* automicatilly generated RRs and readd them with the new name."
Renamed ==
    avahi.server = "RUNNING" =>
        \A a \in Address \intersect avahi.live : avahi.ver[a] = avahi.hostName

\* The counters that let a group and the server out of registering agree with
\* what is under way, nothing unique is served before they say so, and what is
\* registered is what should be.
RegistrationsKept ==
    AvahiTypeOK /\ ServedAfterProbe /\ ProbesCounted /\ PendingCounted /\ PublishedIsWanted
=============================================================================
