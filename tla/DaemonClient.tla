----------------------------- MODULE DaemonClient -----------------------------
(***************************************************************************)
(* The client side of the Bonjour daemon (dnssd_clientstub.c): operations  *)
(* (DNSServiceOp), each with a connection of its own or sharing that of a  *)
(* primary, the requests and their error codes, the replies that wait on a *)
(* connection, and DNSServiceProcessResult, whose callbacks may release    *)
(* any operation, the one it works on included.                            *)
(*                                                                         *)
(* An element of Op is the memory of an operation: once freed it is handed *)
(* out again.  One thread runs the application; it calls what follows from *)
(* its loop or from a callback.                                            *)
(*                                                                         *)
(* Not modelled: registered records with replies of their own              *)
(* (DNSServiceRegisterRecord), the dispatch queues of Apple's systems, the *)
(* calls that release their operation before they return, no memory.       *)
(***************************************************************************)
EXTENDS Naturals, Sequences, FiniteSets

CONSTANTS Op,           \* memory for operations
          MaxSockets,   \* bound: connections at a time
          MaxUid,       \* bound: subordinates a connection ever has
          MaxReplies,   \* bound: replies that wait on one connection
          MaxIndex,     \* bound: records ever added to an operation
          None,
          Code          \* an error code, where a reply is expected

VARIABLES op,           \* the operations: None where the memory is free
          wire,         \* by owner of the connection: the replies not yet read
          served,       \* ... what the daemon works on for it
          cancels,      \* ... the cancel requests it has not read
          eof,          \* the connections the daemon has closed
          up,           \* the daemon runs
          proc          \* DNSServiceProcessResult in a callback, or None
daemonVars == <<op, wire, served, cancels, eof, up, proc>>

\* "live" is the model's own mark: the operation that asked is still there.
Reply == [uid : 0 .. MaxUid, live : BOOLEAN]
Task == [uid : 0 .. MaxUid, live : BOOLEAN, recs : SUBSET (0 .. MaxIndex - 1)]
DNSServiceOp ==
  [op : {"connection", "register", "request"}, primary : Op \cup {None}, uid : 0 .. MaxUid,
   moreptr : BOOLEAN, ProcessReply : BOOLEAN, rec : SUBSET (0 .. MaxIndex - 1), max_index : 0 .. MaxIndex]
Processing == [on : Op, more : BOOLEAN, to : SUBSET Op]   \* whose callback runs, and for whom

ASSUME DaemonAssumption ==
  /\ {MaxUid, MaxReplies, MaxIndex} \subseteq Nat
  /\ None \notin Op /\ None \notin DNSServiceOp /\ None \notin Processing /\ Code \notin Reply

Valid(o) == op[o] # None
\* Whose connection an operation uses.
Socket(o) == IF op[o].primary = None THEN o ELSE op[o].primary
Subordinates(s) == {o \in Op : Valid(o) /\ op[o].primary = s}
\* DNSServiceRefSockFD: what the application may watch and process.
Watched == {s \in Op : Valid(s) /\ op[s].primary = None}

(***************************************************************************)
(* Requests                                                                *)
(***************************************************************************)
\* (NewUnset: mutant that leaves moreptr as malloc returned it.)
NewUnset(kind, p) ==
  [op |-> kind, primary |-> p, uid |-> IF p = None THEN 0 ELSE op[p].uid + 1,
   moreptr |-> Code, ProcessReply |-> TRUE, rec |-> {}, max_index |-> 0]
\* (NewReused: mutant that numbers the subordinates there are.)
NewReused(kind, p) ==
  [op |-> kind, primary |-> p, uid |-> IF p = None THEN 0 ELSE Cardinality(Subordinates(p)) + 1,
   moreptr |-> FALSE, ProcessReply |-> TRUE, rec |-> {}, max_index |-> 0]
New(kind, p) ==
  [op |-> kind, primary |-> p, uid |-> IF p = None THEN 0 ELSE op[p].uid + 1,
   moreptr |-> FALSE, ProcessReply |-> TRUE, rec |-> {}, max_index |-> 0]

\* Whether the error code of a request comes over a socket made for it.
\* (OnlyRecords: mutant that shares the connection for it.)
OnlyRecords(shared, record) == record
Separate(shared, record) == shared \/ record
\* The replies that wait once the error code was read: over the connection
\* itself it is whatever comes first.
Waiting(w, separate) == IF separate \/ w = <<>> THEN w ELSE Append(Tail(w), Code)
\* deliver_request: the daemon has read what was written before.
Delivered(s, tasks, separate) ==
  /\ served' = [served EXCEPT ![s] = {t \in tasks : t.uid \notin cancels[s]}]
  /\ cancels' = [cancels EXCEPT ![s] = {}]
  /\ wire' = [wire EXCEPT ![s] = Waiting(@, separate)]

\* ConnectToServer for an operation of its own; what the daemon refuses is
\* freed again and leaves nothing behind.
Connect(o, kind) ==
  /\ ~Valid(o) /\ up /\ Cardinality(Watched) < MaxSockets
  /\ op' = [op EXCEPT ![o] = New(kind, None)]
  /\ served' = [served EXCEPT ![o] = IF kind = "connection" THEN {}
                                       ELSE {[uid |-> 0, live |-> TRUE, recs |-> {}]}]
  /\ wire' = [wire EXCEPT ![o] = Waiting(<<>>, Separate(FALSE, FALSE))]
  /\ UNCHANGED <<cancels, eof, up, proc>>
\* ConnectToServer with kDNSServiceFlagsShareConnection.
Shares(o, kind, p) ==
  /\ ~Valid(o) /\ p \in Watched /\ op[p].op = "connection" /\ op[p].uid < MaxUid
  /\ LET new == New(kind, p)
         task == [uid |-> new.uid, live |-> TRUE, recs |-> {}]
         counted == [op EXCEPT ![p].uid = @ + 1]
     IN \/ /\ p \notin eof
           /\ op' = [counted EXCEPT ![o] = new]
           /\ Delivered(p, served[p] \cup {task}, Separate(TRUE, FALSE))
        \/ /\ p \notin eof      \* refused, and deallocated at once
           /\ op' = counted
           /\ Delivered(p, served[p], Separate(TRUE, FALSE))
        \/ p \in eof /\ op' = counted /\ UNCHANGED <<wire, served, cancels>>
  /\ UNCHANGED <<eof, up, proc>>
Request(o, kind) == Connect(o, kind) \/ \E p \in Op : Shares(o, kind, p)

DNSServiceCreateConnection(o) == Connect(o, "connection")
DNSServiceResolve(o) == Request(o, "request")
DNSServiceQueryRecord(o) == Request(o, "request")
DNSServiceGetAddrInfo(o) == Request(o, "request")
DNSServiceBrowse(o) == Request(o, "request")
DNSServiceEnumerateDomains(o) == Request(o, "request")
DNSServiceNATPortMappingCreate(o) == Request(o, "request")
DNSServiceRegister(o) == Request(o, "register")

\* (RetaskedAll: mutant that forgets the number in the header.)
RetaskedAll(o, recs) == {[t EXCEPT !.recs = recs] : t \in served[Socket(o)]}
\* Records added to a registered service: one the daemon refused is kept too.
Retasked(o, recs) ==
  {IF t.uid = op[o].uid THEN [t EXCEPT !.recs = recs] ELSE t : t \in served[Socket(o)]}
Known(o) == UNION {t.recs : t \in {t \in served[Socket(o)] : t.uid = op[o].uid}}
DNSServiceAddRecord(o) ==
  /\ Valid(o) /\ op[o].op = "register" /\ op[o].max_index < MaxIndex
  /\ op' = [op EXCEPT ![o].max_index = @ + 1, ![o].rec = @ \cup {op[o].max_index}]
  /\ IF Socket(o) \in eof THEN UNCHANGED <<wire, served, cancels>>
     ELSE \E add \in {{}, {op[o].max_index}} :
            Delivered(Socket(o), Retasked(o, Known(o) \cup add), Separate(FALSE, TRUE))
  /\ UNCHANGED <<eof, up, proc>>
DNSServiceUpdateRecord(o) ==
  /\ Valid(o) /\ op[o].op = "register" /\ Socket(o) \notin eof
  /\ Delivered(Socket(o), served[Socket(o)], Separate(FALSE, TRUE))
  /\ UNCHANGED <<op, eof, up, proc>>
Removed(r, i) == [r EXCEPT !.rec = @ \ {i}]
DNSServiceRemoveRecord(o, i) ==
  /\ Valid(o) /\ i \in op[o].rec /\ op[o].max_index # 0 /\ Socket(o) \notin eof
  /\ op' = [op EXCEPT ![o] = Removed(@, i)]
  /\ Delivered(Socket(o), Retasked(o, Known(o) \ {i}), Separate(FALSE, TRUE))
  /\ UNCHANGED <<eof, up, proc>>

(***************************************************************************)
(* Release                                                                 *)
(***************************************************************************)
\* The loop that works on the operation is told to end.
\* (StopsNothing: mutant that tells it nothing.)
StopsNothing(o) == proc
Stops(o) == IF op[o].moreptr THEN [proc EXCEPT !.more = FALSE] ELSE proc
\* What was asked by a number has nobody to go to.
Unasked(x, u) == IF x # Code /\ x.uid = u THEN [x EXCEPT !.live = FALSE] ELSE x
\* (CancelsLate: mutant that frees the operation and cancels nothing.)
CancelsLate(s, u) == cancels
Cancelled(s, u) == IF s \in eof THEN cancels ELSE [cancels EXCEPT ![s] = @ \cup {u}]
\* (FreedAlone: mutant that leaves the subordinates of a primary.)
FreedAlone(o) == {o}
Freed(o) == {o} \cup Subordinates(o)

DNSServiceRefDeallocate(o) ==
  /\ Valid(o) /\ proc' = Stops(o)
  /\ IF op[o].primary # None
     THEN LET s == op[o].primary
              u == op[o].uid
          IN /\ op' = [op EXCEPT ![o] = None]
             /\ cancels' = Cancelled(s, u)
             /\ wire' = [wire EXCEPT ![s] = [i \in DOMAIN @ |-> Unasked(@[i], u)]]
             /\ served' = [served EXCEPT ![s] = {Unasked(t, u) : t \in @}]
             /\ UNCHANGED eof
     ELSE /\ op' = [x \in Op |-> IF x \in Freed(o) THEN None ELSE op[x]]
          /\ wire' = [wire EXCEPT ![o] = <<>>]
          /\ served' = [served EXCEPT ![o] = {}]
          /\ cancels' = [cancels EXCEPT ![o] = {}]
          /\ eof' = eof \ {o}
  /\ UNCHANGED up

(***************************************************************************)
(* DNSServiceProcessResult                                                 *)
(***************************************************************************)
\* ConnectionResponse looks for the number among the subordinates; others are
\* their own target.
Targets(s, m) ==
  IF op[s].op = "connection" THEN {o \in Subordinates(s) : op[o].uid = m.uid} ELSE {s}
\* Reads one reply and calls back, unless it is for nobody; the end of the
\* stream, or what is no reply, ends the processing for good.
Read(s) ==
  IF wire[s] = <<>> \/ Head(wire[s]) = Code
  THEN /\ op' = [op EXCEPT ![s].ProcessReply = FALSE, ![s].moreptr = FALSE]
       /\ wire' = [wire EXCEPT ![s] = IF @ = <<>> THEN @ ELSE Tail(@)]
       /\ proc' = None
  ELSE LET more == Len(wire[s]) > 1 \/ s \in eof     \* more_bytes
       IN /\ wire' = [wire EXCEPT ![s] = Tail(@)]
          /\ op' = [op EXCEPT ![s].moreptr = more]
          /\ proc' = [on |-> s, more |-> more, to |-> Targets(s, Head(wire[s]))]
DNSServiceProcessResult(s) ==
  /\ proc = None /\ s \in Watched /\ op[s].ProcessReply
  /\ wire[s] # <<>> \/ s \in eof
  /\ Read(s) /\ UNCHANGED <<served, cancels, eof, up>>
\* The callback returns: the operation is touched again only if there is more.
Returns ==
  /\ proc # None
  /\ IF proc.more THEN Read(proc.on) ELSE proc' = None /\ UNCHANGED <<op, wire>>
  /\ UNCHANGED <<served, cancels, eof, up>>

(***************************************************************************)
(* The daemon                                                              *)
(***************************************************************************)
Answer(s) ==
  /\ s \in Watched \ eof /\ Len(wire[s]) < MaxReplies
  /\ \E t \in served[s] : wire' = [wire EXCEPT ![s] = Append(@, [uid |-> t.uid, live |-> t.live])]
  /\ UNCHANGED <<op, served, cancels, eof, up, proc>>
ReadsCancels(s) ==
  /\ cancels[s] # {}
  /\ served' = [served EXCEPT ![s] = {t \in @ : t.uid \notin cancels[s]}]
  /\ cancels' = [cancels EXCEPT ![s] = {}]
  /\ UNCHANGED <<op, wire, eof, up, proc>>
Dies ==
  /\ up /\ up' = FALSE /\ eof' = Watched
  /\ served' = [s \in Op |-> {}] /\ cancels' = [s \in Op |-> {}]
  /\ UNCHANGED <<op, wire, proc>>
Restarts == ~up /\ up' = TRUE /\ UNCHANGED <<op, wire, served, cancels, eof, proc>>

DaemonInit ==
  /\ op = [o \in Op |-> None] /\ wire = [o \in Op |-> <<>>]
  /\ served = [o \in Op |-> {}] /\ cancels = [o \in Op |-> {}]
  /\ eof = {} /\ up = TRUE /\ proc = None

DaemonNext ==
  \/ \E o \in Op :
       \/ DNSServiceCreateConnection(o) \/ DNSServiceResolve(o) \/ DNSServiceQueryRecord(o)
       \/ DNSServiceGetAddrInfo(o) \/ DNSServiceBrowse(o) \/ DNSServiceEnumerateDomains(o)
       \/ DNSServiceNATPortMappingCreate(o) \/ DNSServiceRegister(o)
       \/ DNSServiceAddRecord(o) \/ DNSServiceUpdateRecord(o)
       \/ \E i \in 0 .. MaxIndex - 1 : DNSServiceRemoveRecord(o, i)
       \/ DNSServiceRefDeallocate(o) \/ DNSServiceProcessResult(o)
       \/ Answer(o) \/ ReadsCancels(o)
  \/ Returns \/ Dies \/ Restarts
DaemonSpec == DaemonInit /\ [][DaemonNext]_daemonVars

(***************************************************************************)
(* Properties                                                              *)
(***************************************************************************)
DaemonTypeOK ==
  /\ op \in [Op -> DNSServiceOp \cup {None}]
  /\ wire \in [Op -> Seq(Reply \cup {Code})] /\ \A o \in Op : Len(wire[o]) <= MaxReplies
  /\ served \in [Op -> SUBSET Task] /\ cancels \in [Op -> SUBSET (0 .. MaxUid)]
  /\ eof \subseteq Op /\ up \in BOOLEAN
  /\ proc \in Processing \cup {None}

\* The loop touches the operation it works on after a callback only when it is
\* still there, and no operation keeps a pointer to a loop that has ended
\* ("Careful code here", DNSServiceProcessResult).
LoopIsTold ==
  /\ proc # None => (proc.more => Valid(proc.on) /\ op[proc.on].moreptr)
  /\ \A o \in Op : Valid(o) /\ op[o].moreptr => proc # None /\ proc.on = o /\ proc.more

\* Nothing but replies waits on a connection: the error code of a request made
\* while replies wait is read from a socket of its own (deliver_request).
WireIsReplies == \A s \in Op : \A i \in DOMAIN wire[s] : wire[s][i] # Code

\* No operation is called back with what a released one had asked for, however
\* long that waited (ConnectionResponse).
OwnReplies ==
  \A o \in Op : Valid(o) =>
    \A i \in DOMAIN wire[Socket(o)] :
      LET m == wire[Socket(o)][i]
      IN m # Code /\ o \in Targets(Socket(o), m) => m.live

\* What the daemon works on has an operation here, or is being cancelled
\* (DNSServiceRefDeallocate).
NoOrphans == \A s \in Op : \A t \in served[s] : t.live \/ t.uid \in cancels[s]

\* A subordinate never outlives the connection it shares, and is the only one
\* of its number there.
SharesLive ==
  \A o \in Op : Valid(o) /\ op[o].primary # None =>
    /\ Valid(op[o].primary) /\ op[op[o].primary].op = "connection"
    /\ \A x \in Subordinates(op[o].primary) : op[x].uid = op[o].uid => x = o

\* Each record the daemon holds for a service is in the service's list, under
\* an index that no later record gets (DNSServiceAddRecord, RemoveRecord).
RecordsKnown ==
  \A o \in Op : Valid(o) /\ op[o].op = "register" =>
    Known(o) \subseteq op[o].rec /\ \A i \in Known(o) : i < op[o].max_index

\* Replies reach the operation they are for, or nobody: callbacks may release
\* what they like while more replies wait.
RepliesKept == DaemonTypeOK /\ LoopIsTold /\ WireIsReplies /\ OwnReplies

\* The operations on a shared connection, here and at the daemon, are the same,
\* with the same records.
SharingKept == SharesLive /\ NoOrphans /\ RecordsKnown
=============================================================================
