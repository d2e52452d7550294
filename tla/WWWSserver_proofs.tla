-------------------------- MODULE WWWSserver_proofs --------------------------
(***************************************************************************)
(* Proofs about the HTTPS server: WWWSserver, for every set of clients and *)
(* every limit, and HandlerChain, for every set of methods, paths and      *)
(* handler configurations and chains of any length.                        *)
(*                                                                         *)
(* None of the properties of WWWSserver is inductive alone.  Its type      *)
(* invariant needs Counted: the number of a portion, size - left, is a     *)
(* part number only because no more is left than the body has, which in    *)
(* turn holds for a new request because nothing was ever left for its      *)
(* number.  That owners are alive needs Fresh: a connection whose          *)
(* handshake is not through has no request, so a session that begins has   *)
(* none to delete.                                                         *)
(***************************************************************************)
EXTENDS WWWSserver, HandlerChain, FiniteSetTheorems, SequenceTheorems, TLAPS

Counted == \A x \in Exchange :
             /\ left[x] <= size[x]
             /\ x[2] > reads[x[1]] => left[x] = 0

Fresh == \A c \in Client :
           link[c] \in {"idle", "queued", "refused", "plain"} => pRequest[c] = 0

Typed == TypeOK /\ Counted

USE DEF RequestNr, Connected, Kind

-------------------------------------------------------------------------------
(* Types and counters. *)

LEMMA Exchanges ==
  /\ \A c \in Client, r \in RequestNr :
       /\ <<c, r>> \in Exchange
       /\ <<c, r>>[1] = c
       /\ <<c, r>>[2] = r
  /\ \A x \in Exchange : x[1] \in Client /\ x[2] \in RequestNr /\ x = <<x[1], x[2]>>
BY DEF Exchange

\* One more part on the wire.
LEMMA WireType ==
  ASSUME wire \in [Client -> Seq(RequestNr \X (0 .. MaxChunks))],
         NEW c \in Client, NEW r \in RequestNr, NEW part \in 0 .. MaxChunks,
         Write(c, r, part)
  PROVE wire' \in [Client -> Seq(RequestNr \X (0 .. MaxChunks))]
<1> DEFINE P == RequestNr \X (0 .. MaxChunks)
<1>1. <<r, part>> \in P OBVIOUS
<1> HIDE DEF P
<1>2. wire[c] \in Seq(P) BY DEF P
<1>3. Append(wire[c], <<r, part>>) \in Seq(P) BY <1>1, <1>2
<1> QED BY <1>3 DEF Write, P

LEMMA TypedInit == Init => Typed
<1> SUFFICES ASSUME Init PROVE TypeOK /\ Counted
  BY DEF Typed
<1>1. TypeOK
  <2>1. wire \in [Client -> Seq(RequestNr \X (0 .. MaxChunks))]
    BY DEF Init
  <2>2. /\ pRequest \in [Client -> 0 .. MaxReads]
        /\ reads \in [Client -> 0 .. MaxReads]
        /\ size \in [Exchange -> 0 .. MaxChunks]
        /\ left \in [Exchange -> 0 .. MaxChunks]
    BY ServerAssumption DEF Init
  <2> QED BY <2>1, <2>2 DEF Init, TypeOK
<1>2. Counted
  BY ServerAssumption DEF Init, Counted
<1> QED BY <1>1, <1>2

LEMMA TypeNext == TypeOK /\ Counted /\ [Next]_vars => TypeOK'
<1> SUFFICES ASSUME TypeOK, Counted, [Next]_vars PROVE TypeOK'
  OBVIOUS
<1> USE ServerAssumption DEF TypeOK
<1>1. CASE Start
  BY <1>1 DEF Start, linkVars, objectVars, dataVars
<1>2. CASE Stop
  BY <1>2 DEF Stop, linkVars, objectVars, dataVars
<1>3. CASE Delete
  BY <1>3 DEF Delete, linkVars, objectVars, dataVars
<1>4. ASSUME NEW c \in Client, ClientEvent(c) PROVE TypeOK'
  <2>1. CASE Arrive(c)
    BY <2>1 DEF Arrive, serverVars, objectVars, dataVars
  <2>2. CASE Refuse(c)
    BY <2>2 DEF Refuse, serverVars, objectVars, dataVars
  <2>3. CASE Admit(c)
    BY <2>3 DEF Admit, dataVars
  <2>4. CASE Encrypted(c)
    BY <2>4 DEF Encrypted, serverVars, objectVars, dataVars
  <2>5. CASE Disconnected(c)
    BY <2>5 DEF Disconnected, OnDisconnected, Others, EndFor, serverVars, dataVars
  <2>6. CASE NullRequest(c)
    BY <2>6 DEF NullRequest, CloseSocket, OnDisconnected, Others, EndFor, serverVars, dataVars
  <2>0. \A r \in RequestNr : <<c, r>> \in Exchange
    BY Exchanges
  <2>7. ASSUME NEW r \in RequestNr, Ignored(c, r) PROVE TypeOK'
    BY <2>0, <2>7 DEF Ignored, NewRequest, OnDisconnected, Others, EndFor, serverVars
  <2>8. ASSUME NEW r \in RequestNr, SendSmall(c, r) PROVE TypeOK'
    <3>0. wire' \in [Client -> Seq(RequestNr \X (0 .. MaxChunks))]
      BY <2>8, ServerAssumption, WireType DEF SendSmall
    <3>1. /\ kind' \in [Exchange -> Kind]
          /\ reads' \in [Client -> 0 .. MaxReads]
          /\ pRequest' \in [Client -> 0 .. MaxReads]
      BY <2>0, <2>8 DEF SendSmall, NewRequest
    <3>3. /\ link' \in [Client -> {"idle", "queued", "refused", "closed"} \cup Connected]
          /\ apSessions' \subseteq Client /\ sessions' \subseteq Client
          /\ requests' \subseteq Exchange /\ responses' \subseteq Exchange
          /\ timer' \subseteq Exchange
      BY <2>0, <2>8 DEF SendSmall, CloseSocket, OnDisconnected, Others
    <3>4. /\ ended' \in [Client -> {"no", "answered", "null", "ignored", "error", "peer"}]
          /\ halted' \in {"no", "listen", "touched", "deleted"}
      BY <2>0, <2>8 DEF SendSmall, EndFor
    <3> QED BY <2>8, <3>0, <3>1, <3>3, <3>4 DEF SendSmall
  <2>9. ASSUME NEW r \in RequestNr, NEW k \in {"text", "file"}, NEW n \in 1 .. MaxChunks,
                SendBig(c, r, k, n) PROVE TypeOK'
    <3>0. wire' \in [Client -> Seq(RequestNr \X (0 .. MaxChunks))]
      BY <2>9, ServerAssumption, WireType DEF SendBig
    <3>1. /\ reads' \in [Client -> 0 .. MaxReads]
          /\ pRequest' \in [Client -> 0 .. MaxReads]
      BY <2>0, <2>9 DEF SendBig, NewRequest
    <3>2. /\ kind' \in [Exchange -> Kind]
          /\ size' \in [Exchange -> 0 .. MaxChunks]
          /\ left' \in [Exchange -> 0 .. MaxChunks]
      BY <2>0, <2>9 DEF SendBig
    <3>3. requests' \subseteq Exchange /\ responses' \subseteq Exchange /\ timer' \subseteq Exchange
      BY <2>0, <2>9 DEF SendBig
    <3> QED BY <2>9, <3>0, <3>1, <3>2, <3>3 DEF SendBig, serverVars, linkVars
  <2>10. ASSUME NEW r \in RequestNr, TimerEvent(c, r) PROVE TypeOK'
    <3>1. CASE SendingDone(c, r)
      BY <2>0, <3>1 DEF SendingDone, CloseSocket, OnDisconnected, Others, EndFor, serverVars, dataVars
    <3>2. CASE SendPortion(c, r)
      <4>1. left' \in [Exchange -> 0 .. MaxChunks]
        BY <2>0, <3>2 DEF SendPortion
      <4>3. size[<<c, r>>] - left'[<<c, r>>] \in 0 .. MaxChunks
        <5> DEFINE x == <<c, r>>
        <5>1. left[x] \in 0 .. MaxChunks /\ size[x] \in 0 .. MaxChunks
          BY <2>0
        <5>2. left[x] > 0 /\ left[x] <= size[x]
          BY <2>0, <3>2 DEF SendPortion, Counted
        <5>3. left'[x] = left[x] - 1
          BY <2>0, <3>2 DEF SendPortion
        <5> HIDE DEF x
        <5>4. size[x] - left'[x] \in 0 .. MaxChunks
          BY <5>1, <5>2, <5>3
        <5> QED BY <5>4 DEF x
      <4>4. wire' \in [Client -> Seq(RequestNr \X (0 .. MaxChunks))]
        BY <3>2, <4>3, WireType DEF SendPortion
      <4> QED BY <3>2, <4>1, <4>4 DEF SendPortion, serverVars, linkVars, objectVars
    <3>3. CASE TextToClosed(c, r)
      <4>1. left' \in [Exchange -> 0 .. MaxChunks]
        BY <2>0, <3>3 DEF TextToClosed
      <4> QED BY <3>3, <4>1 DEF TextToClosed, serverVars, linkVars, objectVars
    <3>4. CASE FileFails(c, r)
      BY <2>0, <3>4 DEF FileFails, CloseSocket, OnDisconnected, Others, EndFor, serverVars, dataVars
    <3> QED BY <2>10, <3>1, <3>2, <3>3, <3>4 DEF TimerEvent
  <2> QED BY <1>4, <2>1, <2>2, <2>3, <2>4, <2>5, <2>6, <2>7, <2>8, <2>9, <2>10
        DEF ClientEvent, ReadyRead
<1>5. CASE UNCHANGED vars
  BY <1>5 DEF vars, serverVars, linkVars, objectVars, dataVars
<1> QED BY <1>1, <1>2, <1>3, <1>4, <1>5 DEF Next

LEMMA CountedNext == TypeOK /\ Counted /\ [Next]_vars => Counted'
<1> SUFFICES ASSUME TypeOK, Counted, [Next]_vars PROVE Counted'
  OBVIOUS
<1>0. /\ reads \in [Client -> 0 .. MaxReads]
      /\ size \in [Exchange -> 0 .. MaxChunks]
      /\ left \in [Exchange -> 0 .. MaxChunks]
      /\ MaxReads \in Nat /\ MaxChunks \in Nat
  BY ServerAssumption DEF TypeOK
<1>1. CASE UNCHANGED dataVars
  BY <1>1 DEF dataVars, Counted
<1>2. ASSUME NEW c \in Client, NEW r \in RequestNr, NewRequest(c, r), UNCHANGED <<size, left>>
      PROVE Counted'
  <2> SUFFICES ASSUME NEW x \in Exchange
               PROVE left[x] <= size[x] /\ (x[2] > reads'[x[1]] => left[x] = 0)
    BY <1>2 DEF Counted
  <2>1. x[1] \in Client /\ x[2] \in 1 .. MaxReads
    BY Exchanges
  <2>2. reads[x[1]] \in Nat /\ reads'[x[1]] \in Nat /\ reads'[x[1]] >= reads[x[1]]
    BY <1>0, <1>2, <2>1 DEF NewRequest
  <2>3. left[x] <= size[x] /\ (x[2] > reads[x[1]] => left[x] = 0)
    BY DEF Counted
  <2> QED BY <1>0, <2>1, <2>2, <2>3
<1>3. ASSUME NEW c \in Client, NEW r \in RequestNr, NEW k \in {"text", "file"},
             NEW n \in 1 .. MaxChunks, SendBig(c, r, k, n)
      PROVE Counted'
  <2> SUFFICES ASSUME NEW x \in Exchange
               PROVE left'[x] <= size'[x] /\ (x[2] > reads'[x[1]] => left'[x] = 0)
    BY DEF Counted
  <2>1. x[1] \in Client /\ x[2] \in 1 .. MaxReads /\ x = <<x[1], x[2]>>
    BY Exchanges
  <2>2. reads' = [reads EXCEPT ![c] = r] /\ r = reads[c] + 1
    BY <1>3 DEF SendBig, NewRequest
  <2>3. CASE x = <<c, r>>
    <3>1. left'[x] = n /\ size'[x] = n
      BY <1>0, <1>3, <2>3 DEF SendBig
    <3>2. reads'[x[1]] = x[2]
      BY <1>0, <2>1, <2>2, <2>3
    <3> QED BY <2>1, <3>1, <3>2
  <2>4. CASE x # <<c, r>>
    <3>1. left'[x] = left[x] /\ size'[x] = size[x]
      BY <1>0, <1>3, <2>4 DEF SendBig
    <3>2. reads[x[1]] \in Nat /\ reads'[x[1]] \in Nat /\ reads'[x[1]] >= reads[x[1]]
      BY <1>0, <2>1, <2>2
    <3>3. left[x] <= size[x] /\ (x[2] > reads[x[1]] => left[x] = 0)
      BY DEF Counted
    <3> QED BY <2>1, <3>1, <3>2, <3>3
  <2> QED BY <2>3, <2>4
<1>4. ASSUME NEW c \in Client, NEW r \in RequestNr,
             SendPortion(c, r) \/ TextToClosed(c, r)
      PROVE Counted'
  <2>1. left' = [left EXCEPT ![<<c, r>>] = @ - 1] /\ left[<<c, r>>] > 0
    BY <1>4 DEF SendPortion, TextToClosed
  <2>2. UNCHANGED <<size, reads>>
    BY <1>4 DEF SendPortion, TextToClosed
  <2>3. SUFFICES ASSUME NEW x \in Exchange
                 PROVE left'[x] <= size[x] /\ (x[2] > reads[x[1]] => left'[x] = 0)
    BY <2>2 DEF Counted
  <2>4. left[x] <= size[x] /\ (x[2] > reads[x[1]] => left[x] = 0)
    BY DEF Counted
  <2>5. left[x] \in Nat /\ size[x] \in Nat
    BY <1>0
  <2>6. CASE x = <<c, r>>
    <3>1. left'[x] = left[x] - 1 /\ left[x] > 0
      BY <1>0, <2>1, <2>6
    <3> QED BY <2>4, <2>5, <3>1
  <2>7. CASE x # <<c, r>>
    <3>1. left'[x] = left[x]
      BY <1>0, <2>1, <2>7
    <3> QED BY <2>4, <3>1
  <2> QED BY <2>6, <2>7
<1> QED BY <1>1, <1>2, <1>3, <1>4
        DEF Next, ClientEvent, ReadyRead, TimerEvent, vars, Start, Stop, Delete,
            Arrive, Refuse, Admit, Encrypted, Disconnected, NullRequest, Ignored,
            SendSmall, SendingDone, FileFails

LEMMA TypedNext == Typed /\ [Next]_vars => Typed'
BY TypeNext, CountedNext DEF Typed

-------------------------------------------------------------------------------
(* Slots, sockets, and the lifetimes of the objects that hang on them. *)

Lifetimes == SlotsMatchSockets /\ OwnersAlive /\ Fresh

LEMMA LifetimesInit == Init => Lifetimes
BY ServerAssumption DEF Init, Lifetimes, SlotsMatchSockets, OwnersAlive, Fresh

(* A socket that goes away, at once or later, leaves no dangling owner, also  *)
(* when its session has just made one more request: req, rsp and run are the *)
(* objects of the moment.                                                    *)
LEMMA SocketGoes ==
  ASSUME TypeOK, SlotsMatchSockets, OwnersAlive, Fresh,
         NEW c \in Client, NEW req, NEW rsp, NEW run,
         link[c] \in Connected,
         run \subseteq rsp, rsp \subseteq req, requests \subseteq req,
         \A x \in req : x[1] \in sessions,
         pRequest'[c] # 0 => <<c, pRequest'[c]>> \in req,
         \A d \in Client : d # c => pRequest'[d] = pRequest[d],
         OnDisconnected(c) \/ CloseSocket(c, req, rsp, run)
  PROVE  SlotsMatchSockets' /\ OwnersAlive' /\ Fresh'
<1>1. CASE OnDisconnected(c)
  <2>1. SlotsMatchSockets'
    BY <1>1 DEF TypeOK, SlotsMatchSockets, OnDisconnected
  <2>2. \A d \in sessions' : d # c /\ d \in sessions /\ d \in Client
    BY <1>1 DEF TypeOK, OnDisconnected
  <2>3. OwnersAlive'
    <3>1. timer' \subseteq responses' /\ responses' \subseteq requests'
      BY <1>1 DEF OwnersAlive, OnDisconnected, Others
    <3>2. \A x \in requests' : x[1] \in sessions'
      BY <1>1 DEF OwnersAlive, OnDisconnected, Others
    <3>3. ASSUME NEW d \in sessions', pRequest'[d] # 0 PROVE <<d, pRequest'[d]>> \in requests'
      BY <1>1, <2>2, <3>3 DEF OwnersAlive, OnDisconnected, Others
    <3> QED BY <3>1, <3>2, <3>3 DEF OwnersAlive
  <2>4. Fresh'
    BY <1>1 DEF TypeOK, Fresh, OnDisconnected
  <2> QED BY <2>1, <2>3, <2>4
<1>2. CASE /\ link' = [link EXCEPT ![c] = "closing"]
           /\ requests' = req /\ responses' = rsp /\ timer' = run
           /\ UNCHANGED <<apSessions, sessions>>
  <2>1. SlotsMatchSockets'
    BY <1>2 DEF TypeOK, SlotsMatchSockets
  <2>2. OwnersAlive'
    BY <1>2 DEF TypeOK, OwnersAlive
  <2>3. Fresh'
    BY <1>2 DEF TypeOK, Fresh
  <2> QED BY <2>1, <2>2, <2>3
<1> QED BY <1>1, <1>2 DEF CloseSocket

LEMMA LifetimesNext == Typed /\ Lifetimes /\ [Next]_vars => Lifetimes'
<1> SUFFICES ASSUME TypeOK, Lifetimes, [Next]_vars
             PROVE SlotsMatchSockets' /\ OwnersAlive' /\ Fresh'
  BY DEF Typed, Lifetimes
<1>a. TypeOK /\ SlotsMatchSockets /\ OwnersAlive /\ Fresh
  BY DEF Lifetimes
<1>1. CASE Start
  BY <1>a, <1>1 DEF SlotsMatchSockets, OwnersAlive, Fresh, Start, linkVars, objectVars, dataVars
<1>2. CASE Stop
  BY <1>a, <1>2 DEF TypeOK, SlotsMatchSockets, OwnersAlive, Fresh, Stop, linkVars, objectVars, dataVars
<1>3. CASE Delete
  BY <1>a, <1>3 DEF TypeOK, SlotsMatchSockets, OwnersAlive, Fresh, Delete, linkVars, objectVars, dataVars
<1>4. ASSUME NEW c \in Client, ClientEvent(c) PROVE SlotsMatchSockets' /\ OwnersAlive' /\ Fresh'
  <2>a. /\ \A y \in requests : y[1] \in sessions
        /\ timer \subseteq responses /\ responses \subseteq requests
        /\ link[c] \in Connected /\ pRequest[c] # 0 => <<c, pRequest[c]>> \in requests
    BY <1>a DEF OwnersAlive, SlotsMatchSockets
  <2>1. CASE Arrive(c)
    BY <1>a, <2>1 DEF TypeOK, SlotsMatchSockets, OwnersAlive, Fresh, Arrive, serverVars, objectVars, dataVars
  <2>2. CASE Refuse(c)
    BY <1>a, <2>2 DEF TypeOK, SlotsMatchSockets, OwnersAlive, Fresh, Refuse, serverVars, objectVars, dataVars
  <2>3. CASE Admit(c)
    BY <1>a, <2>3 DEF TypeOK, SlotsMatchSockets, OwnersAlive, Fresh, Admit, dataVars
  <2>4. CASE Encrypted(c)
    BY <1>a, <2>4 DEF TypeOK, SlotsMatchSockets, OwnersAlive, Fresh, Encrypted, serverVars, objectVars, dataVars
  <2>5. CASE Disconnected(c)
    BY <1>a, <2>5, <2>a, SocketGoes DEF Disconnected, dataVars
  <2>6. CASE NullRequest(c)
    BY <1>a, <2>6, <2>a, SocketGoes DEF NullRequest, dataVars
  <2>0. \A r \in RequestNr : <<c, r>> \in Exchange
    BY Exchanges
  <2>7. ASSUME NEW r \in RequestNr, Ignored(c, r) PROVE SlotsMatchSockets' /\ OwnersAlive' /\ Fresh'
    <3> DEFINE req == requests \cup {<<c, r>>}
    <3>1. /\ link[c] = "encrypted" /\ c \in sessions
          /\ pRequest' = [pRequest EXCEPT ![c] = r]
      BY <1>a, <2>7 DEF Ignored, NewRequest, SlotsMatchSockets
    <3>2. \A y \in req : y[1] \in sessions
      BY <1>a, <3>1 DEF OwnersAlive
    <3>3. pRequest'[c] = r /\ (\A d \in Client : d # c => pRequest'[d] = pRequest[d])
      BY <1>a, <3>1 DEF TypeOK
    <3>4. OnDisconnected(c) /\ timer \subseteq responses /\ responses \subseteq req
      BY <1>a, <2>7 DEF Ignored, OwnersAlive
    <3>5. pRequest'[c] # 0 => <<c, pRequest'[c]>> \in req
      BY <3>3
    <3>6. requests \subseteq req /\ link[c] \in Connected
      BY <3>1
    <3> HIDE DEF req
    <3> QED BY <1>a, <3>2, <3>3, <3>4, <3>5, <3>6, SocketGoes
  <2>8. ASSUME NEW r \in RequestNr, SendSmall(c, r) PROVE SlotsMatchSockets' /\ OwnersAlive' /\ Fresh'
    <3> DEFINE x == <<c, r>>
               req == requests \cup {x}
               rsp == responses \cup {x}
    <3>1. /\ link[c] = "encrypted" /\ c \in sessions
          /\ pRequest' = [pRequest EXCEPT ![c] = r]
      BY <1>a, <2>8 DEF SendSmall, NewRequest, SlotsMatchSockets
    <3>2. \A y \in req : y[1] \in sessions
      BY <1>a, <3>1 DEF OwnersAlive
    <3>3. \/ OnDisconnected(c)
          \/ CloseSocket(c, req, rsp, timer)
      BY <2>8 DEF SendSmall
    <3>4. pRequest'[c] = r /\ (\A d \in Client : d # c => pRequest'[d] = pRequest[d])
      BY <1>a, <3>1 DEF TypeOK
    <3>5. timer \subseteq rsp /\ rsp \subseteq req /\ requests \subseteq req
      BY <1>a DEF OwnersAlive
    <3>6. (pRequest'[c] # 0 => <<c, pRequest'[c]>> \in req) /\ link[c] \in Connected
      BY <3>1, <3>4
    <3> HIDE DEF req, rsp
    <3> QED BY <1>a, <3>2, <3>3, <3>4, <3>5, <3>6, SocketGoes
  <2>9. ASSUME NEW r \in RequestNr, NEW k \in {"text", "file"}, NEW n \in 1 .. MaxChunks,
                SendBig(c, r, k, n) PROVE SlotsMatchSockets' /\ OwnersAlive' /\ Fresh'
    BY <1>a, <2>0, <2>9 DEF TypeOK, SlotsMatchSockets, OwnersAlive, Fresh, SendBig, NewRequest, Write, serverVars, linkVars
  <2>10. ASSUME NEW r \in RequestNr, TimerEvent(c, r) PROVE SlotsMatchSockets' /\ OwnersAlive' /\ Fresh'
    <3>0. <<c, r>> \in requests /\ c \in sessions /\ link[c] \in Connected
      BY <1>a, <2>10, Exchanges DEF TimerEvent, OwnersAlive, SlotsMatchSockets
    <3>00. /\ timer \ {<<c, r>>} \subseteq responses /\ responses \subseteq requests
           /\ \A y \in requests : y[1] \in sessions
           /\ pRequest[c] # 0 => <<c, pRequest[c]>> \in requests
      BY <1>a, <3>0 DEF OwnersAlive
    <3>1. CASE SendingDone(c, r)
      BY <1>a, <3>0, <3>00, <3>1, SocketGoes DEF SendingDone, dataVars
    <3>2. CASE SendPortion(c, r)
      BY <1>a, <3>2 DEF TypeOK, SlotsMatchSockets, OwnersAlive, Fresh, SendPortion, Write, serverVars, linkVars, objectVars
    <3>3. CASE TextToClosed(c, r)
      BY <1>a, <3>3 DEF TypeOK, SlotsMatchSockets, OwnersAlive, Fresh, TextToClosed, serverVars, linkVars, objectVars
    <3>4. CASE FileFails(c, r)
      BY <1>a, <3>0, <3>00, <3>4, SocketGoes DEF FileFails, dataVars
    <3> QED BY <2>10, <3>1, <3>2, <3>3, <3>4 DEF TimerEvent
  <2> QED BY <1>4, <2>1, <2>2, <2>3, <2>4, <2>5, <2>6, <2>7, <2>8, <2>9, <2>10
        DEF ClientEvent, ReadyRead
<1>5. CASE UNCHANGED vars
  BY <1>a, <1>5 DEF TypeOK, SlotsMatchSockets, OwnersAlive, Fresh, vars, serverVars, linkVars, objectVars, dataVars
<1> QED BY <1>1, <1>2, <1>3, <1>4, <1>5 DEF Next

-------------------------------------------------------------------------------
(* The two limits, and the pool. *)

Limits == SessionCap /\ LifetimeBudget

LEMMA FewerSessions ==
  ASSUME TypeOK, SessionCap, apSessions' \subseteq apSessions
  PROVE  SessionCap'
<1>1. IsFiniteSet(apSessions)
  BY ServerAssumption, FS_Subset DEF TypeOK
<1>2. /\ Cardinality(apSessions) \in Nat /\ Cardinality(apSessions') \in Nat
      /\ Cardinality(apSessions') <= Cardinality(apSessions)
  BY <1>1, FS_Subset, FS_CardinalityType
<1> QED BY <1>2, ServerAssumption DEF SessionCap

(* Only a new session makes the list of sessions or of pending sockets grow. *)
LEMMA OnlyAdmitGrows ==
  ASSUME [Next]_vars, \A c \in Client : ~Admit(c)
  PROVE  apSessions' \subseteq apSessions /\ UNCHANGED pending
<1> DEFINE Goal == apSessions' \subseteq apSessions /\ UNCHANGED pending
<1>1. ASSUME NEW c \in Client, OnDisconnected(c) PROVE apSessions' \subseteq apSessions
  BY <1>1 DEF OnDisconnected
<1>2. ASSUME NEW c \in Client, NEW req, NEW rsp, NEW run, CloseSocket(c, req, rsp, run)
      PROVE apSessions' \subseteq apSessions
  BY <1>1, <1>2 DEF CloseSocket
<1>3. CASE UNCHANGED vars \/ Start \/ Stop \/ Delete
  BY <1>3 DEF vars, serverVars, linkVars, Start, Stop, Delete
<1>4. ASSUME NEW c \in Client, Arrive(c) \/ Refuse(c) \/ Encrypted(c) PROVE Goal
  BY <1>4 DEF Arrive, Refuse, Encrypted, serverVars
<1>5. ASSUME NEW c \in Client, Disconnected(c) \/ NullRequest(c) PROVE Goal
  BY <1>1, <1>2, <1>5 DEF Disconnected, NullRequest, serverVars
<1>6. ASSUME NEW c \in Client, NEW r \in RequestNr, Ignored(c, r) \/ SendSmall(c, r) PROVE Goal
  BY <1>1, <1>2, <1>6 DEF Ignored, SendSmall, serverVars
<1>7. ASSUME NEW c \in Client, NEW r \in RequestNr, NEW k, NEW n, SendBig(c, r, k, n) PROVE Goal
  BY <1>7 DEF SendBig, serverVars, linkVars
<1>8. ASSUME NEW c \in Client, NEW r \in RequestNr, TimerEvent(c, r) PROVE Goal
  BY <1>2, <1>8 DEF TimerEvent, SendingDone, SendPortion, TextToClosed, FileFails,
                    serverVars, linkVars
<1> QED BY <1>3, <1>4, <1>5, <1>6, <1>7, <1>8 DEF Next, ClientEvent, ReadyRead

LEMMA LimitsInit == Init => Limits
BY FS_EmptySet, ServerAssumption DEF Init, Limits, SessionCap, LifetimeBudget

LEMMA LimitsNext == Typed /\ Limits /\ [Next]_vars => Limits'
<1> SUFFICES ASSUME TypeOK, SessionCap, LifetimeBudget, [Next]_vars
             PROVE SessionCap' /\ LifetimeBudget'
  BY DEF Typed, Limits
<1>1. ASSUME NEW c \in Client, Admit(c) PROVE SessionCap' /\ LifetimeBudget'
  <2>1. IsFiniteSet(apSessions) /\ IsFiniteSet(pending)
    BY ServerAssumption, FS_Subset DEF TypeOK
  <2>2. \A S : IsFiniteSet(S) => /\ Cardinality(S) \in Nat
                                 /\ Cardinality(S \cup {c}) \in Nat
                                 /\ Cardinality(S \cup {c}) <= Cardinality(S) + 1
    BY FS_AddElement, FS_CardinalityType
  <2>3. Cardinality(apSessions) < MaxConnections /\ Cardinality(pending) < MaxPending
    BY <1>1 DEF Admit, HasRoom, Accepting
  <2>4. apSessions' = apSessions \cup {c} /\ pending' = pending \cup {c}
    BY <1>1 DEF Admit
  <2>5. /\ Cardinality(apSessions \cup {c}) <= MaxConnections
        /\ Cardinality(pending \cup {c}) <= MaxPending
    <3>1. /\ Cardinality(apSessions) \in Nat /\ Cardinality(apSessions \cup {c}) \in Nat
          /\ Cardinality(apSessions \cup {c}) <= Cardinality(apSessions) + 1
      BY <2>1, <2>2
    <3>2. /\ Cardinality(pending) \in Nat /\ Cardinality(pending \cup {c}) \in Nat
          /\ Cardinality(pending \cup {c}) <= Cardinality(pending) + 1
      BY <2>1, <2>2
    <3> QED BY <2>3, <3>1, <3>2, ServerAssumption
  <2> QED BY <2>4, <2>5 DEF SessionCap, LifetimeBudget
<1>2. CASE \A c \in Client : ~Admit(c)
  <2>1. apSessions' \subseteq apSessions /\ UNCHANGED pending
    BY <1>2, OnlyAdmitGrows
  <2> QED BY <2>1, FewerSessions DEF LifetimeBudget
<1> QED BY <1>1, <1>2

-------------------------------------------------------------------------------
(* What is on the wire. *)

\* What AnswersIntact needs to be inductive, connection by connection: while the
\* socket is open, what an answer has on the wire is what timerEvent has taken
\* from its body; a number not used yet has no answer; a connection that has not
\* asked yet, or whose end has a reason, sends nothing more.
Sent(c) ==
  \A r \in RequestNr :
    /\ r > reads[c] => kind[<<c, r>>] = "none" /\ size[<<c, r>>] = 0
    /\ kind[<<c, r>>] = "none" => <<c, r>> \notin timer /\ \A i \in DOMAIN wire[c] : wire[c][i][1] # r
    /\ link[c] = "encrypted" /\ kind[<<c, r>>] # "none" =>
         Parts(c, r) = 0 .. size[<<c, r>>] - left[<<c, r>>]
Ends(c) ==
  /\ ended[c] # "no" => link[c] \in {"closing", "closed"}
  /\ link[c] = "closing" => ended[c] # "no"
  /\ link[c] \in {"idle", "queued", "refused", "plain"} => reads[c] = 0
\* Of a single request: what it sends is all there is.
Alone(c) ==
  /\ reads[c] = 0 => wire[c] = <<>>
  /\ reads[c] = 1 => \A i \in DOMAIN wire[c] : wire[c][i] = <<1, i - 1>>
  /\ reads[c] = 1 /\ link[c] = "encrypted" =>
       Len(wire[c]) = IF kind[<<c, 1>>] = "none" THEN 0 ELSE size[<<c, 1>>] - left[<<c, 1>>] + 1
Wired(c) == InOrder(c) /\ Whole(c) /\ Sent(c) /\ Ends(c) /\ Alone(c)

\* One part more on the wire of c.
LEMMA OnePartMore ==
  ASSUME TypeOK, NEW c \in Client, NEW r \in RequestNr, NEW n \in 0 .. MaxChunks, Write(c, r, n)
  PROVE /\ Len(wire[c]) \in Nat /\ DOMAIN wire[c] = 1 .. Len(wire[c])
        /\ DOMAIN wire'[c] = 1 .. Len(wire[c]) + 1 /\ Len(wire'[c]) = Len(wire[c]) + 1
        /\ \A i \in 1 .. Len(wire[c]) : wire'[c][i] = wire[c][i]
        /\ wire'[c][Len(wire[c]) + 1] = <<r, n>>
        /\ \A i \in DOMAIN wire[c] : wire[c][i] \in RequestNr \X (0 .. MaxChunks)
        /\ \A q \in RequestNr : Parts(c, q)' = IF q = r THEN Parts(c, q) \cup {n} ELSE Parts(c, q)
        /\ \A d \in Client : d # c => wire'[d] = wire[d]
<1> DEFINE P == RequestNr \X (0 .. MaxChunks)
           w == wire[c]
<1>1. w \in Seq(P) /\ <<r, n>> \in P BY DEF TypeOK
<1>2. wire'[c] = Append(w, <<r, n>>) BY DEF Write, TypeOK
<1>3. \A d \in Client : d # c => wire'[d] = wire[d] BY DEF Write, TypeOK
<1> HIDE DEF P, w
<1>4. /\ Len(w) \in Nat /\ DOMAIN w = 1 .. Len(w)
      /\ DOMAIN wire'[c] = 1 .. Len(w) + 1 /\ Len(wire'[c]) = Len(w) + 1
      /\ \A i \in 1 .. Len(w) : wire'[c][i] = w[i]
      /\ wire'[c][Len(w) + 1] = <<r, n>>
      /\ \A i \in DOMAIN w : w[i] \in P
  BY <1>1, <1>2
<1>5. ASSUME NEW q \in RequestNr, NEW k \in 0 .. MaxChunks
      PROVE (\E i \in DOMAIN wire'[c] : wire'[c][i] = <<q, k>>)
              <=> ((\E i \in DOMAIN w : w[i] = <<q, k>>) \/ (q = r /\ k = n))
  <2>1. ASSUME NEW i \in DOMAIN wire'[c], wire'[c][i] = <<q, k>>
        PROVE (\E j \in DOMAIN w : w[j] = <<q, k>>) \/ (q = r /\ k = n)
    <3>1. CASE i \in 1 .. Len(w) BY <1>4, <2>1, <3>1
    <3>2. CASE i = Len(w) + 1 BY <1>4, <2>1, <3>2
    <3> QED BY <1>4, <3>1, <3>2
  <2>2. ASSUME NEW i \in DOMAIN w, w[i] = <<q, k>>
        PROVE i \in DOMAIN wire'[c] /\ wire'[c][i] = <<q, k>>
    BY <1>4, <2>2
  <2>3. Len(w) + 1 \in DOMAIN wire'[c] BY <1>4
  <2> QED BY <1>4, <2>1, <2>2, <2>3
<1>6. \A q \in RequestNr : Parts(c, q)' = IF q = r THEN Parts(c, q) \cup {n} ELSE Parts(c, q)
  BY <1>5 DEF Parts, w
<1> QED BY <1>3, <1>4, <1>6 DEF w, P

\* The next part of an answer keeps the order.
LEMMA NextPartInOrder ==
  ASSUME TypeOK, NEW c \in Client, InOrder(c), NEW r \in RequestNr, NEW n \in 0 .. MaxChunks,
         Write(c, r, n), Parts(c, r) = 0 .. n - 1
  PROVE InOrder(c)'
<1> DEFINE last == Len(wire[c]) + 1
<1>1. /\ Len(wire[c]) \in Nat /\ DOMAIN wire[c] = 1 .. Len(wire[c])
      /\ DOMAIN wire'[c] = 1 .. last
      /\ \A i \in 1 .. Len(wire[c]) : wire'[c][i] = wire[c][i]
      /\ wire'[c][last] = <<r, n>>
      /\ \A i \in DOMAIN wire[c] : wire[c][i] \in RequestNr \X (0 .. MaxChunks)
  BY OnePartMore
<1> SUFFICES ASSUME NEW i \in 1 .. last
             PROVE /\ wire'[c][i][2] > 0 =>
                        \E j \in 1 .. i - 1 : wire'[c][j] = <<wire'[c][i][1], wire'[c][i][2] - 1>>
                   /\ \A j \in 1 .. i - 1 :
                        wire'[c][j][1] = wire'[c][i][1] => wire'[c][j][2] < wire'[c][i][2]
  BY <1>1 DEF InOrder
<1>2. CASE i \in 1 .. Len(wire[c])
  <2>1. \A j \in 1 .. i - 1 : j \in DOMAIN wire[c] /\ wire'[c][j] = wire[c][j] BY <1>1, <1>2
  <2>2. i \in DOMAIN wire[c] /\ wire'[c][i] = wire[c][i] BY <1>1, <1>2
  <2> QED BY <2>1, <2>2 DEF InOrder
<1>3. CASE i = last
  <2>1. n > 0 => \E j \in DOMAIN wire[c] : wire[c][j] = <<r, n - 1>>
    <3>1. n > 0 => n - 1 \in Parts(c, r) BY ServerAssumption
    <3> QED BY <3>1 DEF Parts
  <2>2. ASSUME NEW j \in DOMAIN wire[c], wire[c][j][1] = r PROVE wire[c][j][2] < n
    <3>1. wire[c][j] = <<r, wire[c][j][2]>> /\ wire[c][j][2] \in 0 .. MaxChunks BY <1>1, <2>2
    <3>2. wire[c][j][2] \in Parts(c, r) BY <3>1 DEF Parts
    <3> QED BY <3>2
  <2>3. wire'[c][i][1] = r /\ wire'[c][i][2] = n BY <1>1, <1>3
  <2>4. \A j \in 1 .. i - 1 : j \in DOMAIN wire[c] /\ wire'[c][j] = wire[c][j] BY <1>1, <1>3
  <2>5. \A j \in DOMAIN wire[c] : j \in 1 .. i - 1 /\ wire'[c][j] = wire[c][j] BY <1>1, <1>3
  <2> QED BY <2>1, <2>2, <2>3, <2>4, <2>5
<1> QED BY <1>1, <1>2, <1>3

\* What happens on one connection leaves the others alone.
LEMMA WiredOthers ==
  ASSUME TypeOK, NEW d \in Client, Wired(d),
         UNCHANGED <<link[d], ended[d], reads[d], wire[d]>>,
         \A r \in RequestNr : UNCHANGED <<kind[<<d, r>>], size[<<d, r>>], left[<<d, r>>]>>,
         \A r \in RequestNr : <<d, r>> \in timer' => <<d, r>> \in timer
  PROVE Wired(d)'
<1>1. \A r \in RequestNr : Parts(d, r)' = Parts(d, r) BY DEF Parts
<1>2. InOrder(d)' BY DEF Wired, InOrder
<1>0. 1 \in RequestNr BY ServerAssumption
<1>3. Whole(d)'
  <2>1. WholeAnswer(d, 1)' = WholeAnswer(d, 1) BY <1>0 DEF WholeAnswer
  <2> QED BY <1>1, <2>1 DEF Wired, Whole
<1>4. Sent(d)' BY <1>1 DEF Wired, Sent
<1>5. Ends(d)' /\ Alone(d)' BY <1>0 DEF Wired, Ends, Alone
<1> QED BY <1>2, <1>3, <1>4, <1>5 DEF Wired

\* A connection that ends without another part on the wire: for another reason
\* than a complete answer, or with the answer r just completed.
LEMMA WiredGoes ==
  ASSUME TypeOK, Counted, NEW c \in Client, Wired(c), UNCHANGED <<wire, kind, size, left>>,
         link'[c] \in {"closing", "closed"}, timer' \subseteq timer,
         reads'[c] = reads[c] \/ (reads'[c] = reads[c] + 1 /\ link[c] = "encrypted"),
         NEW why, EndFor(c, why), why # "no",
         why = "answered" /\ ended[c] = "no" =>
           /\ reads'[c] = reads[c] /\ link[c] = "encrypted"
           /\ \E r \in RequestNr : kind[<<c, r>>] # "none" /\ left[<<c, r>>] = 0
  PROVE Wired(c)'
<1>0. reads[c] \in Nat /\ reads'[c] \in Nat /\ reads'[c] >= reads[c] BY ServerAssumption DEF TypeOK
<1>1. InOrder(c)' BY DEF Wired, InOrder
<1>2. \A r \in RequestNr : Parts(c, r)' = Parts(c, r) BY DEF Parts
<1>3. Sent(c)' BY <1>0, <1>2 DEF Wired, Sent
<1>4. Ends(c)'
  <2>1. ended'[c] # "no" BY DEF EndFor, TypeOK
  <2> QED BY <2>1 DEF Ends
<1>5. Alone(c)'
  <2>1. reads'[c] = 0 => reads[c] = 0 BY <1>0
  <2>2. reads'[c] = 1 => reads[c] \in {0, 1} BY <1>0
  <2> QED BY <1>0, <2>1, <2>2 DEF Wired, Alone
<1>6. Whole(c)'
  <2> SUFFICES ASSUME ended'[c] = "answered" PROVE Whole(c)' BY DEF Whole
  <2>1. CASE ended[c] # "no"
    <3>1. ended'[c] = ended[c] BY <2>1 DEF EndFor
    <3>2. reads'[c] = reads[c] BY <2>1 DEF Wired, Ends
    <3> QED BY <1>2, <3>1, <3>2 DEF Wired, Whole, WholeAnswer
  <2>2. CASE ended[c] = "no"
    <3>1. why = "answered" BY <2>2 DEF EndFor, TypeOK
    <3>2. PICK r \in RequestNr : kind[<<c, r>>] # "none" /\ left[<<c, r>>] = 0 BY <2>2, <3>1
    <3>3. reads'[c] = reads[c] /\ link[c] = "encrypted" BY <2>2, <3>1
    <3>4. size[<<c, r>>] \in Nat BY Exchanges, ServerAssumption DEF TypeOK
    <3>5. Parts(c, r) = 0 .. size[<<c, r>>] BY <3>2, <3>3, <3>4 DEF Wired, Sent
    <3>6. reads[c] = 1 => wire[c] = WholeAnswer(c, 1)
      <4> SUFFICES ASSUME reads[c] = 1 PROVE wire[c] = WholeAnswer(c, 1) OBVIOUS
      <4>1. r = 1 BY <3>2 DEF Wired, Sent
      <4>2. Len(wire[c]) = size[<<c, 1>>] + 1 BY <3>2, <3>3, <3>4, <4>1 DEF Wired, Alone
      <4>3. wire[c] \in Seq(RequestNr \X (0 .. MaxChunks)) BY DEF TypeOK
      <4>4. DOMAIN wire[c] = 1 .. size[<<c, 1>>] + 1 BY <4>2, <4>3
      <4>5. wire[c] = [i \in DOMAIN wire[c] |-> wire[c][i]] BY <4>3, SeqDef
      <4>6. \A i \in DOMAIN wire[c] : wire[c][i] = <<1, i - 1>> BY DEF Wired, Alone
      <4> QED BY <4>4, <4>5, <4>6 DEF WholeAnswer
    <3> QED BY <1>2, <3>2, <3>3, <3>5, <3>6 DEF Whole, WholeAnswer
  <2> QED BY <2>1, <2>2
<1> QED BY <1>1, <1>3, <1>4, <1>5, <1>6 DEF Wired

\* CloseSocket in either way, or OnDisconnected.
LEMMA Closes ==
  ASSUME TypeOK, NEW c \in Client, NEW req, NEW rsp, NEW run,
         OnDisconnected(c) \/ CloseSocket(c, req, rsp, run)
  PROVE /\ link'[c] \in {"closing", "closed"} /\ \A d \in Client : d # c => link'[d] = link[d]
        /\ timer' \subseteq timer \/ timer' = run
BY DEF OnDisconnected, CloseSocket, Others, TypeOK

LEMMA EndsOthers ==
  ASSUME TypeOK, NEW c \in Client, NEW why, EndFor(c, why)
  PROVE \A d \in Client : d # c => ended'[d] = ended[d]
BY DEF EndFor, TypeOK

\* The header of a new answer.
LEMMA HeaderSent ==
  ASSUME TypeOK, Counted, NEW c \in Client, Wired(c), NEW r \in RequestNr,
         NewRequest(c, r), Write(c, r, 0)
  PROVE /\ InOrder(c)' /\ Parts(c, r)' = 0 .. 0
        /\ r > reads[c] /\ kind[<<c, r>>] = "none" /\ size[<<c, r>>] = 0 /\ left[<<c, r>>] = 0
        /\ reads'[c] = r /\ (\A d \in Client : d # c => reads'[d] = reads[d])
        /\ link[c] = "encrypted" /\ ended[c] = "no"
        /\ r = 1 => wire'[c] = <<<<1, 0>>>>
<1>1. /\ reads[c] \in Nat /\ r = reads[c] + 1 /\ reads'[c] = r
      /\ \A d \in Client : d # c => reads'[d] = reads[d]
  BY ServerAssumption DEF NewRequest, TypeOK
<1>2. r > reads[c] /\ kind[<<c, r>>] = "none" /\ size[<<c, r>>] = 0 BY <1>1 DEF Wired, Sent
<1>3. left[<<c, r>>] = 0 BY <1>1, Exchanges DEF Counted
<1>4. Parts(c, r) = {} BY <1>2 DEF Wired, Sent, Parts
<1>5. 0 \in 0 .. MaxChunks BY ServerAssumption
<1>6. Parts(c, r)' = 0 .. 0 BY <1>4, <1>5, OnePartMore
<1>7. InOrder(c)'
  <2>1. InOrder(c) /\ Parts(c, r) = 0 .. 0 - 1 BY <1>4 DEF Wired
  <2> QED BY <1>5, <2>1, NextPartInOrder
<1>8. link[c] = "encrypted" /\ ended[c] = "no" BY DEF NewRequest, Wired, Ends
<1>9. r = 1 => wire'[c] = <<<<1, 0>>>>
  <2> SUFFICES ASSUME r = 1 PROVE wire'[c] = <<<<1, 0>>>> OBVIOUS
  <2>1. wire[c] = <<>> BY <1>1 DEF Wired, Alone
  <2>2. wire'[c] = Append(wire[c], <<1, 0>>) BY DEF Write, TypeOK
  <2> QED BY <2>1, <2>2
<1> QED BY <1>1, <1>2, <1>3, <1>6, <1>7, <1>8, <1>9

AllWired == \A c \in Client : Wired(c)

LEMMA WiredInit == Init => AllWired
<1> SUFFICES ASSUME Init, NEW c \in Client PROVE Wired(c)
  BY DEF AllWired
<1>1. wire[c] = <<>> /\ reads[c] = 0 /\ link[c] = "idle" /\ ended[c] = "no" BY DEF Init
<1>2. \A r \in RequestNr : kind[<<c, r>>] = "none" /\ size[<<c, r>>] = 0 /\ <<c, r>> \notin timer
  BY Exchanges DEF Init
<1> QED BY <1>1, <1>2 DEF Wired, InOrder, Whole, Sent, Ends, Alone

LEMMA WiredNext == Typed /\ Lifetimes /\ AllWired /\ [Next]_vars => AllWired'
<1> SUFFICES ASSUME Typed, Lifetimes, AllWired, [Next]_vars, NEW d \in Client PROVE Wired(d)'
  BY DEF AllWired
<1>a. TypeOK /\ Counted /\ Wired(d) /\ OwnersAlive /\ SlotsMatchSockets
  BY DEF Typed, Lifetimes, AllWired
<1>x. \A e \in Client, r, q \in RequestNr : <<d, r>> = <<e, q>> => d = e
  OBVIOUS
<1>1. CASE UNCHANGED <<link, ended, timer, dataVars>>
  BY <1>a, <1>1, WiredOthers DEF dataVars
<1>2. ASSUME NEW c \in Client, ClientEvent(c) PROVE Wired(d)'
  <2>0. Wired(c) BY DEF AllWired
  <2>1. CASE Arrive(c) \/ Refuse(c) \/ Admit(c) \/ Encrypted(c)
    <3>1. UNCHANGED <<ended, timer, dataVars>> /\ ended[c] = "no"
      BY <2>0, <2>1 DEF Arrive, Refuse, Admit, Encrypted, objectVars, Wired, Ends
    <3>2. \A e \in Client : e # c => link'[e] = link[e]
      BY <1>a, <2>1 DEF Arrive, Refuse, Admit, Encrypted, TypeOK
    <3>3. CASE d # c BY <1>a, <3>1, <3>2, <3>3, WiredOthers DEF dataVars
    <3>4. CASE d = c
      <4>1. /\ link[c] \in {"idle", "queued", "refused", "plain"} /\ reads[c] = 0
            /\ link'[c] \in {"queued", "refused", "plain", "encrypted"}
        BY <1>a, <2>0, <2>1 DEF Arrive, Refuse, Admit, Encrypted, TypeOK, Wired, Ends
      <4>2. \A r \in RequestNr : kind[<<c, r>>] = "none" BY <2>0, <4>1 DEF Wired, Sent
      <4>3. wire[c] = <<>> /\ UNCHANGED <<wire, reads, kind, size, left>>
        BY <2>0, <3>1, <4>1 DEF Wired, Alone, dataVars
      <4>4. Sent(c)' BY <2>0, <3>1, <4>2, <4>3 DEF Wired, Sent
      <4>5. Ends(c)' /\ Alone(c)' BY <3>1, <4>1, <4>3 DEF Ends, Alone
      <4>6. InOrder(c)' /\ Whole(c)' BY <3>1, <4>3 DEF InOrder, Whole
      <4> QED BY <3>4, <4>4, <4>5, <4>6 DEF Wired
    <3> QED BY <3>3, <3>4
  \* A connection that goes without a part.
  <2>2. ASSUME NEW why, EndFor(c, why), why # "no", NEW req, NEW rsp, NEW run,
               OnDisconnected(c) \/ CloseSocket(c, req, rsp, run), run \subseteq timer,
               UNCHANGED <<wire, kind, size, left>>,
               \A e \in Client : e # c => reads'[e] = reads[e],
               reads'[c] = reads[c] \/ (reads'[c] = reads[c] + 1 /\ link[c] = "encrypted"),
               why = "answered" /\ ended[c] = "no" =>
                 /\ reads'[c] = reads[c] /\ link[c] = "encrypted"
                 /\ \E r \in RequestNr : kind[<<c, r>>] # "none" /\ left[<<c, r>>] = 0
        PROVE Wired(d)'
    <3>1. /\ link'[c] \in {"closing", "closed"} /\ timer' \subseteq timer
          /\ \A e \in Client : e # c => link'[e] = link[e]
      BY <1>a, <2>2, Closes
    <3>2. \A e \in Client : e # c => ended'[e] = ended[e] BY <1>a, <2>2, EndsOthers
    <3>3. CASE d # c BY <1>a, <2>2, <3>1, <3>2, <3>3, WiredOthers
    <3>4. CASE d = c BY <1>a, <2>0, <2>2, <3>1, <3>4, WiredGoes
    <3> QED BY <3>3, <3>4
  <2>3. CASE Disconnected(c)
    BY <2>2, <2>3 DEF Disconnected, dataVars
  <2>4. CASE NullRequest(c)
    BY <2>2, <2>4 DEF NullRequest, dataVars
  <2>5. ASSUME NEW r \in RequestNr, Ignored(c, r) PROVE Wired(d)'
    <3>1. /\ reads'[c] = reads[c] + 1 /\ link[c] = "encrypted"
          /\ \A e \in Client : e # c => reads'[e] = reads[e]
      BY <1>a, <2>5 DEF Ignored, NewRequest, TypeOK
    <3>2. /\ EndFor(c, "ignored") /\ OnDisconnected(c) /\ timer \subseteq timer
          /\ UNCHANGED <<wire, kind, size, left>>
      BY <2>5 DEF Ignored
    <3> QED BY <2>2, <3>1, <3>2
  <2>6. ASSUME NEW r \in RequestNr, SendSmall(c, r) PROVE Wired(d)'
    <3>0. <<c, r>> \in Exchange /\ 0 \in 0 .. MaxChunks BY ServerAssumption, Exchanges
    <3>1. NewRequest(c, r) /\ Write(c, r, 0) /\ UNCHANGED <<size, left>>
          /\ kind' = [kind EXCEPT ![<<c, r>>] = "small"]
      BY <2>6 DEF SendSmall
    <3>2. /\ InOrder(c)' /\ Parts(c, r)' = 0 .. 0
          /\ r > reads[c] /\ size[<<c, r>>] = 0 /\ left[<<c, r>>] = 0
          /\ reads'[c] = r /\ (\A e \in Client : e # c => reads'[e] = reads[e])
          /\ link[c] = "encrypted" /\ ended[c] = "no"
          /\ r = 1 => wire'[c] = <<<<1, 0>>>>
      BY <1>a, <2>0, <3>1, HeaderSent
    <3>3. PICK why : EndFor(c, why) /\ why # "no" BY <2>6 DEF SendSmall
    <3>30. ended'[c] # "no" BY <1>a, <3>3 DEF EndFor, TypeOK
    <3>4. /\ link'[c] \in {"closing", "closed"} /\ timer' \subseteq timer
          /\ \A e \in Client : e # c => link'[e] = link[e]
      BY <1>a, <2>6, Closes DEF SendSmall
    <3>5. \A e \in Client : e # c => ended'[e] = ended[e] /\ wire'[e] = wire[e]
      BY <1>a, <3>0, <3>1, <3>3, EndsOthers, OnePartMore
    <3>6. \A x \in Exchange : x # <<c, r>> => kind'[x] = kind[x]
      BY <1>a, <3>0, <3>1 DEF TypeOK
    <3>7. kind'[<<c, r>>] = "small" BY <1>a, <3>0, <3>1 DEF TypeOK
    <3>8. CASE d # c
      <4>1. \A q \in RequestNr : kind'[<<d, q>>] = kind[<<d, q>>] BY <3>6, <3>8, Exchanges
      <4> QED BY <1>a, <3>1, <3>2, <3>4, <3>5, <3>8, <4>1, WiredOthers
    <3>9. CASE d = c
      <4>1. Sent(c)'
        <5> SUFFICES ASSUME NEW q \in RequestNr
                     PROVE /\ q > reads'[c] => kind'[<<c, q>>] = "none" /\ size'[<<c, q>>] = 0
                           /\ kind'[<<c, q>>] = "none" =>
                                <<c, q>> \notin timer' /\ \A i \in DOMAIN wire'[c] : wire'[c][i][1] # q
          BY <3>4 DEF Sent
        <5>1. CASE q = r BY <3>2, <3>7, <5>1
        <5>2. CASE q # r
          <6>1. kind'[<<c, q>>] = kind[<<c, q>>] BY <3>6, <5>2, Exchanges
          <6>2. reads[c] \in Nat /\ (q > reads'[c] => q > reads[c]) BY <1>a, <3>2 DEF TypeOK
          <6>3. (\A i \in DOMAIN wire[c] : wire[c][i][1] # q) => \A i \in DOMAIN wire'[c] : wire'[c][i][1] # q
            <7>1. /\ DOMAIN wire'[c] = 1 .. Len(wire[c]) + 1 /\ DOMAIN wire[c] = 1 .. Len(wire[c])
                  /\ Len(wire[c]) \in Nat /\ wire'[c][Len(wire[c]) + 1] = <<r, 0>>
                  /\ \A i \in 1 .. Len(wire[c]) : wire'[c][i] = wire[c][i]
              BY <1>a, <3>0, <3>1, OnePartMore
            <7>2. \A i \in 1 .. Len(wire[c]) + 1 : i \in 1 .. Len(wire[c]) \/ i = Len(wire[c]) + 1 BY <7>1
            <7>3. wire'[c][Len(wire[c]) + 1][1] # q BY <5>2, <7>1
            <7> QED BY <7>1, <7>2, <7>3
          <6> QED BY <2>0, <3>1, <3>4, <6>1, <6>2, <6>3 DEF Wired, Sent
        <5> QED BY <5>1, <5>2
      <4>2. Ends(c)' BY <3>2, <3>4, <3>30 DEF Ends
      <4>3. Alone(c)' BY <3>2, <3>4 DEF Alone
      <4>4. Whole(c)'
        <5>1. reads'[c] = 1 => wire'[c] = WholeAnswer(c, 1)'
          <6> SUFFICES ASSUME r = 1 PROVE wire'[c] = WholeAnswer(c, 1)' BY <3>2
          <6>1. size'[<<c, 1>>] = 0 BY <3>1, <3>2
          <6>2. WholeAnswer(c, 1)' = [i \in 1 .. 1 |-> <<1, i - 1>>] BY <6>1 DEF WholeAnswer
          <6>3. <<<<1, 0>>>> = [i \in 1 .. 1 |-> <<1, i - 1>>] OBVIOUS
          <6> QED BY <3>2, <6>2, <6>3
        <5> QED BY <3>1, <3>2, <3>7, <5>1 DEF Whole
      <4> QED BY <3>2, <3>9, <4>1, <4>2, <4>3, <4>4 DEF Wired
    <3> QED BY <3>8, <3>9
  <2>7. ASSUME NEW r \in RequestNr, NEW k \in {"text", "file"}, NEW n \in 1 .. MaxChunks,
               SendBig(c, r, k, n) PROVE Wired(d)'
    <3>0. <<c, r>> \in Exchange /\ 0 \in 0 .. MaxChunks BY ServerAssumption, Exchanges
    <3>1. /\ NewRequest(c, r) /\ Write(c, r, 0) /\ UNCHANGED <<link, ended>>
          /\ kind' = [kind EXCEPT ![<<c, r>>] = k] /\ size' = [size EXCEPT ![<<c, r>>] = n]
          /\ left' = [left EXCEPT ![<<c, r>>] = n] /\ timer' = timer \cup {<<c, r>>}
      BY <2>7 DEF SendBig, linkVars
    <3>2. /\ InOrder(c)' /\ Parts(c, r)' = 0 .. 0
          /\ r > reads[c]
          /\ reads'[c] = r /\ (\A e \in Client : e # c => reads'[e] = reads[e])
          /\ link[c] = "encrypted" /\ ended[c] = "no"
          /\ r = 1 => wire'[c] = <<<<1, 0>>>>
      BY <1>a, <2>0, <3>1, HeaderSent
    <3>5. \A e \in Client : e # c => wire'[e] = wire[e] BY <1>a, <3>0, <3>1, OnePartMore
    <3>6. \A x \in Exchange : x # <<c, r>> =>
            kind'[x] = kind[x] /\ size'[x] = size[x] /\ left'[x] = left[x]
      BY <1>a, <3>0, <3>1 DEF TypeOK
    <3>7. kind'[<<c, r>>] = k /\ size'[<<c, r>>] = n /\ left'[<<c, r>>] = n
      BY <1>a, <3>0, <3>1 DEF TypeOK
    <3>8. CASE d # c
      <4>1. \A q \in RequestNr :
              /\ kind'[<<d, q>>] = kind[<<d, q>>] /\ size'[<<d, q>>] = size[<<d, q>>]
              /\ left'[<<d, q>>] = left[<<d, q>>] /\ <<d, q>> # <<c, r>>
        BY <3>6, <3>8, Exchanges
      <4> QED BY <1>a, <3>1, <3>2, <3>5, <3>8, <4>1, WiredOthers
    <3>9. CASE d = c
      <4>1. Sent(c)'
        <5> SUFFICES ASSUME NEW q \in RequestNr
                     PROVE /\ q > reads'[c] => kind'[<<c, q>>] = "none" /\ size'[<<c, q>>] = 0
                           /\ kind'[<<c, q>>] = "none" =>
                                <<c, q>> \notin timer' /\ \A i \in DOMAIN wire'[c] : wire'[c][i][1] # q
                           /\ link'[c] = "encrypted" /\ kind'[<<c, q>>] # "none" =>
                                Parts(c, q)' = 0 .. size'[<<c, q>>] - left'[<<c, q>>]
          BY DEF Sent
        <5>1. CASE q = r
          <6>1. size'[<<c, r>>] - left'[<<c, r>>] = 0 BY <3>7
          <6>2. ~(r > reads'[c]) /\ kind'[<<c, r>>] # "none" BY <3>2, <3>7, ServerAssumption
          <6>3. Parts(c, r)' = 0 .. size'[<<c, r>>] - left'[<<c, r>>] BY <3>2, <6>1
          <6> QED BY <5>1, <6>2, <6>3
        <5>2. CASE q # r
          <6>1. /\ kind'[<<c, q>>] = kind[<<c, q>>] /\ size'[<<c, q>>] = size[<<c, q>>]
                /\ left'[<<c, q>>] = left[<<c, q>>] /\ <<c, q>> # <<c, r>>
            BY <3>6, <5>2, Exchanges
          <6>2. reads[c] \in Nat /\ (q > reads'[c] => q > reads[c]) BY <1>a, <3>2 DEF TypeOK
          <6>3. (\A i \in DOMAIN wire[c] : wire[c][i][1] # q) => \A i \in DOMAIN wire'[c] : wire'[c][i][1] # q
            <7>1. /\ DOMAIN wire'[c] = 1 .. Len(wire[c]) + 1 /\ DOMAIN wire[c] = 1 .. Len(wire[c])
                  /\ Len(wire[c]) \in Nat /\ wire'[c][Len(wire[c]) + 1] = <<r, 0>>
                  /\ \A i \in 1 .. Len(wire[c]) : wire'[c][i] = wire[c][i]
              BY <1>a, <3>0, <3>1, OnePartMore
            <7>2. \A i \in 1 .. Len(wire[c]) + 1 : i \in 1 .. Len(wire[c]) \/ i = Len(wire[c]) + 1 BY <7>1
            <7>3. wire'[c][Len(wire[c]) + 1][1] # q BY <5>2, <7>1
            <7> QED BY <7>1, <7>2, <7>3
          <6>4. Parts(c, q)' = Parts(c, q) BY <1>a, <3>0, <3>1, <5>2, OnePartMore
          <6> QED BY <2>0, <3>1, <6>1, <6>2, <6>3, <6>4 DEF Wired, Sent
        <5> QED BY <5>1, <5>2
      <4>2. Ends(c)' BY <3>1, <3>2 DEF Ends
      <4>3. Alone(c)'
        <5>1. n - n + 1 = 1 OBVIOUS
        <5>2. r = 1 => Len(wire'[c]) = 1 /\ \A i \in DOMAIN wire'[c] : wire'[c][i] = <<1, i - 1>>
          <6> SUFFICES ASSUME r = 1
                       PROVE Len(wire'[c]) = 1 /\ \A i \in DOMAIN wire'[c] : wire'[c][i] = <<1, i - 1>>
            OBVIOUS
          <6>1. wire'[c] = <<<<1, 0>>>> BY <3>2
          <6>2. DOMAIN wire'[c] = {1} /\ wire'[c][1] = <<1, 0>> /\ Len(wire'[c]) = 1 BY <6>1
          <6> QED BY <6>2
        <5>3. kind'[<<c, r>>] # "none" BY <3>7
        <5> QED BY <3>2, <3>7, <5>1, <5>2, <5>3 DEF Alone
      <4>4. Whole(c)' BY <3>1, <3>2 DEF Whole
      <4> QED BY <3>2, <3>9, <4>1, <4>2, <4>3, <4>4 DEF Wired
    <3> QED BY <3>8, <3>9
  <2>8. ASSUME NEW r \in RequestNr, TimerEvent(c, r) PROVE Wired(d)'
    <3>0. <<c, r>> \in timer /\ <<c, r>> \in Exchange /\ kind[<<c, r>>] # "none"
      BY <2>0, <2>8, Exchanges DEF TimerEvent, Wired, Sent
    <3>1. link[c] \in Connected /\ (ended[c] = "no" => link[c] \in Connected)
      BY <1>a, <2>8, Exchanges DEF TimerEvent, OwnersAlive, SlotsMatchSockets
    <3>2. CASE SendingDone(c, r)
      <4>1. ended[c] = "no" => link[c] = "encrypted"
        <5>1. link[c] = "plain" => \A q \in RequestNr : q > reads[c] BY <2>0 DEF Wired, Ends
        <5> QED BY <2>0, <3>0, <3>1, <5>1 DEF Wired, Sent, Ends
      <4> QED BY <2>2, <3>0, <3>2, <4>1 DEF SendingDone, dataVars
    <3>3. CASE FileFails(c, r)
      BY <2>2, <3>3 DEF FileFails, dataVars
    <3>4. CASE SendPortion(c, r)
      <4> DEFINE x == <<c, r>>
                 n == size[x] - left'[x]
      <4>1. /\ left[x] > 0 /\ link[c] = "encrypted" /\ left' = [left EXCEPT ![x] = @ - 1]
            /\ Write(c, r, n) /\ UNCHANGED <<link, ended, timer, reads, kind, size>>
        BY <3>4 DEF SendPortion, linkVars, objectVars
      <4>2. /\ size[x] \in 0 .. MaxChunks /\ left[x] \in 0 .. MaxChunks /\ left[x] <= size[x]
            /\ left'[x] = left[x] - 1 /\ \A y \in Exchange : y # x => left'[y] = left[y]
        BY <1>a, <3>0, <4>1 DEF TypeOK, Counted
      <4>3. n \in 0 .. MaxChunks /\ n = size[x] - left[x] + 1 BY <4>1, <4>2, ServerAssumption
      <4>4. Parts(c, r) = 0 .. n - 1
        <5>1. Parts(c, r) = 0 .. size[x] - left[x] BY <2>0, <3>0, <4>1 DEF Wired, Sent
        <5>2. n - 1 = size[x] - left[x] BY <4>2, <4>3
        <5> QED BY <5>1, <5>2
      <4> HIDE DEF n
      <4>5. /\ DOMAIN wire'[c] = 1 .. Len(wire[c]) + 1 /\ DOMAIN wire[c] = 1 .. Len(wire[c])
            /\ Len(wire[c]) \in Nat /\ wire'[c][Len(wire[c]) + 1] = <<r, n>>
            /\ Len(wire'[c]) = Len(wire[c]) + 1
            /\ \A i \in 1 .. Len(wire[c]) : wire'[c][i] = wire[c][i]
            /\ \A q \in RequestNr : Parts(c, q)' = IF q = r THEN Parts(c, q) \cup {n} ELSE Parts(c, q)
            /\ \A e \in Client : e # c => wire'[e] = wire[e]
        BY <1>a, <4>1, <4>3, OnePartMore
      <4>6. CASE d # c
        <5>1. \A q \in RequestNr : left'[<<d, q>>] = left[<<d, q>>]
          BY <4>2, <4>6, Exchanges
        <5> QED BY <1>a, <4>1, <4>5, <4>6, <5>1, WiredOthers
      <4>7. CASE d = c
        <5>1. InOrder(c)' BY <1>a, <2>0, <4>1, <4>3, <4>4, NextPartInOrder DEF Wired
        <5>2. Whole(c)' BY <2>0, <4>1 DEF Wired, Ends, Whole
        <5>3. Ends(c)' BY <2>0, <4>1 DEF Wired, Ends
        <5>4. Sent(c)'
          <6> SUFFICES ASSUME NEW q \in RequestNr
                       PROVE /\ q > reads[c] => kind[<<c, q>>] = "none" /\ size[<<c, q>>] = 0
                             /\ kind[<<c, q>>] = "none" =>
                                  <<c, q>> \notin timer /\ \A i \in DOMAIN wire'[c] : wire'[c][i][1] # q
                             /\ kind[<<c, q>>] # "none" =>
                                  Parts(c, q)' = 0 .. size[<<c, q>>] - left'[<<c, q>>]
            BY <4>1 DEF Sent
          <6>1. CASE q = r
            <7>1. Parts(c, r)' = 0 .. n
              <8>1. n \in Nat /\ (0 .. n - 1) \cup {n} = 0 .. n BY <4>3, ServerAssumption
              <8> QED BY <4>4, <4>5, <8>1
            <7>2. size[x] - left'[x] = n BY DEF n
            <7> QED BY <2>0, <3>0, <6>1, <7>1, <7>2 DEF Wired, Sent
          <6>2. CASE q # r
            <7>1. left'[<<c, q>>] = left[<<c, q>>] BY <4>2, <6>2, Exchanges
            <7>2. (\A i \in DOMAIN wire[c] : wire[c][i][1] # q)
                    => \A i \in DOMAIN wire'[c] : wire'[c][i][1] # q
              BY <4>5, <6>2
            <7> QED BY <2>0, <4>1, <4>5, <6>2, <7>1, <7>2 DEF Wired, Sent
          <6> QED BY <6>1, <6>2
        <5>5. Alone(c)'
          <6>1. reads[c] \in 0 .. MaxReads /\ r <= reads[c] /\ r \in 1 .. MaxReads
            BY <1>a, <2>0, <3>0 DEF TypeOK, Wired, Sent
          <6>2. reads[c] # 0 BY <6>1, ServerAssumption
          <6> SUFFICES ASSUME reads[c] = 1
                       PROVE /\ \A i \in DOMAIN wire'[c] : wire'[c][i] = <<1, i - 1>>
                             /\ Len(wire'[c]) = IF kind[<<c, 1>>] = "none" THEN 0
                                                 ELSE size[<<c, 1>>] - left'[<<c, 1>>] + 1
            BY <4>1, <6>2 DEF Alone
          <6>3. r = 1 BY <6>1
          <6>4. Len(wire[c]) = size[x] - left[x] + 1 BY <2>0, <3>0, <4>1, <6>3 DEF Wired, Alone
          <6>5. Len(wire[c]) = n BY <4>3, <6>4
          <6>6. \A i \in 1 .. Len(wire[c]) : wire[c][i] = <<1, i - 1>>
            BY <2>0, <4>5 DEF Wired, Alone
          <6>7. \A i \in DOMAIN wire'[c] : wire'[c][i] = <<1, i - 1>>
            <7>1. n \in Nat /\ n + 1 - 1 = n /\ DOMAIN wire'[c] = 1 .. n + 1
              BY <4>3, <4>5, <6>5, ServerAssumption
            <7>2. wire'[c][n + 1] = <<1, n + 1 - 1>> BY <4>5, <6>3, <6>5, <7>1
            <7>3. \A i \in 1 .. n : wire'[c][i] = <<1, i - 1>> BY <4>5, <6>5, <6>6
            <7>4. \A i \in 1 .. n + 1 : i \in 1 .. n \/ i = n + 1 BY <7>1
            <7> QED BY <7>1, <7>2, <7>3, <7>4
          <6>8. Len(wire'[c]) = size[x] - left'[x] + 1 BY <4>2, <4>5, <6>4
          <6> QED BY <3>0, <6>3, <6>7, <6>8
        <5> QED BY <4>7, <5>1, <5>2, <5>3, <5>4, <5>5 DEF Wired
      <4> QED BY <4>6, <4>7
    <3>5. CASE TextToClosed(c, r)
      <4>1. /\ link[c] = "closing" /\ left' = [left EXCEPT ![<<c, r>>] = @ - 1]
            /\ UNCHANGED <<link, ended, timer, reads, kind, size, wire>>
        BY <3>5 DEF TextToClosed, linkVars, objectVars
      <4>2. CASE d # c
        <5>1. \A q \in RequestNr : left'[<<d, q>>] = left[<<d, q>>]
          BY <1>a, <3>0, <4>1, <4>2, Exchanges DEF TypeOK
        <5> QED BY <1>a, <4>1, <4>2, <5>1, WiredOthers
      <4>3. CASE d = c
        <5>1. \A q \in RequestNr : Parts(c, q)' = Parts(c, q) BY <4>1 DEF Parts
        <5>2. InOrder(c)' /\ Ends(c)' /\ Sent(c)' /\ Alone(c)'
          BY <2>0, <4>1 DEF Wired, InOrder, Ends, Sent, Alone
        <5>3. Whole(c)'
          BY <2>0, <4>1, <5>1 DEF Wired, Whole, WholeAnswer
        <5> QED BY <4>3, <5>2, <5>3 DEF Wired
      <4> QED BY <4>2, <4>3
    <3> QED BY <2>8, <3>2, <3>3, <3>4, <3>5 DEF TimerEvent
  <2> QED BY <1>2, <2>1, <2>3, <2>4, <2>5, <2>6, <2>7, <2>8 DEF ClientEvent, ReadyRead
<1> QED BY <1>1, <1>2 DEF Next, vars, Start, Stop, Delete, linkVars, objectVars

-------------------------------------------------------------------------------
(* The theorems. *)

IInv == Typed /\ Lifetimes /\ Limits

LEMMA Invariance == Spec => []IInv
<1>1. Init => IInv
  BY TypedInit, LifetimesInit, LimitsInit DEF IInv
<1>2. IInv /\ [Next]_vars => IInv'
  BY TypedNext, LifetimesNext, LimitsNext DEF IInv
<1> QED BY <1>1, <1>2, PTL DEF Spec

(* The server's variables stay in their types, the numbers of the portions of  *)
(* every answer included.                                                      *)
THEOREM TypeCorrect == Spec => []TypeOK
BY Invariance, PTL DEF IInv, Typed

(* incomingConnection never lets more than uiMaxConnections sessions in.       *)
THEOREM NeverOverCap == Spec => []SessionCap
BY Invariance, PTL DEF IInv, Limits

(* onDisconnected frees exactly the slots of sockets that ended.               *)
THEOREM NoSlotLeaks == Spec => []SlotsMatchSockets
BY Invariance, PTL DEF IInv, Lifetimes

(* No timer event, and no destructor, reaches a deleted object.                *)
THEOREM NoDanglingOwner == Spec => []OwnersAlive
BY Invariance, PTL DEF IInv, Lifetimes

(* The sessions of the server's whole life fit into Qt's pending list.         *)
THEOREM BudgetIsFinal == Spec => []LifetimeBudget
BY Invariance, PTL DEF IInv, Limits

(* incomingConnection and onDisconnected implement the pool of connections.    *)
THEOREM ImplementsPool == Spec => PoolSpec
<1>1. Init => Pool!Init
  BY DEF Init, Pool!Init
<1>2. TypeOK /\ Lifetimes /\ [Next]_vars => [Pool!Next]_Pool!vars
  <2> SUFFICES ASSUME TypeOK, SlotsMatchSockets, OwnersAlive, [Next]_vars
               PROVE [Pool!Next]_Pool!vars
    BY DEF Lifetimes
  <2> DEFINE out == {c \in Client : link[c] \in {"refused", "closed"}}
  <2>1. ASSUME NEW c \in Client, Admit(c) PROVE Pool!Enter(c)
    <3>1. link[c] = "queued" /\ c \notin apSessions \cup out
      BY <2>1 DEF Admit, SlotsMatchSockets
    <3>2. Cardinality(apSessions) < MaxConnections
      BY <2>1 DEF Admit, HasRoom
    <3>3. apSessions' = apSessions \cup {c} /\ UNCHANGED out
      BY <2>1, <3>1 DEF Admit, TypeOK
    <3> HIDE DEF out
    <3>4. /\ c \notin apSessions \cup out
          /\ Cardinality(apSessions) < MaxConnections
          /\ apSessions' = apSessions \cup {c}
          /\ UNCHANGED out
      BY <3>1, <3>2, <3>3
    <3>5. Pool!Cardinality(apSessions) = Cardinality(apSessions)
      BY DEF Pool!Cardinality, Cardinality
    <3> QED BY <3>4, <3>5 DEF Pool!Enter, out
  <2>2. ASSUME NEW c \in Client, Refuse(c) PROVE Pool!TurnAway(c)
    <3>1. link[c] = "queued" /\ c \notin apSessions \cup out
      BY <2>2 DEF Refuse, SlotsMatchSockets
    <3>2. UNCHANGED apSessions /\ out' = out \cup {c}
      BY <2>2 DEF Refuse, TypeOK
    <3> QED BY <3>1, <3>2 DEF Pool!TurnAway
  <2>3. ASSUME NEW c \in Client, link[c] \in Connected, OnDisconnected(c) PROVE Pool!Leave(c)
    <3>1. c \in apSessions /\ apSessions' = apSessions \ {c}
      BY <2>3 DEF OnDisconnected, SlotsMatchSockets
    <3>2. out' = out \cup {c}
      BY <2>3 DEF OnDisconnected, TypeOK
    <3> QED BY <3>1, <3>2 DEF Pool!Leave
  <2>4. ASSUME NEW c \in Client, link[c] \in {"idle"} \cup Connected,
               \E s \in {"queued", "encrypted", "closing"} : link' = [link EXCEPT ![c] = s],
               UNCHANGED apSessions
        PROVE UNCHANGED Pool!vars
    BY <2>4 DEF TypeOK, Pool!vars
  <2>5. CASE UNCHANGED <<link, apSessions>>
    BY <2>5 DEF Pool!vars
  <2>6. ASSUME NEW c \in Client, ClientEvent(c) PROVE [Pool!Next]_Pool!vars
    <3>1. CASE Arrive(c) \/ Encrypted(c)
      BY <2>4, <3>1 DEF Arrive, Encrypted
    <3>2. CASE Refuse(c) \/ Admit(c)
      BY <2>1, <2>2, <3>2 DEF Pool!Next
    <3>3. ASSUME NEW req, NEW rsp, NEW run, link[c] \in Connected,
                 OnDisconnected(c) \/ CloseSocket(c, req, rsp, run)
          PROVE [Pool!Next]_Pool!vars
      BY <2>3, <2>4, <3>3 DEF CloseSocket, Pool!Next
    <3>4. CASE Disconnected(c)
      BY <3>3, <3>4 DEF Disconnected
    <3>5. CASE ReadyRead(c)
      <4>1. CASE NullRequest(c)
        BY <3>3, <4>1 DEF NullRequest
      <4>2. ASSUME NEW r \in RequestNr, Ignored(c, r) PROVE [Pool!Next]_Pool!vars
        BY <3>3, <4>2 DEF Ignored, NewRequest
      <4>3. ASSUME NEW r \in RequestNr, SendSmall(c, r) PROVE [Pool!Next]_Pool!vars
        BY <3>3, <4>3 DEF SendSmall, NewRequest
      <4>4. ASSUME NEW r \in RequestNr, NEW k, NEW n, SendBig(c, r, k, n)
            PROVE [Pool!Next]_Pool!vars
        BY <2>5, <4>4 DEF SendBig, linkVars
      <4> QED BY <3>5, <4>1, <4>2, <4>3, <4>4 DEF ReadyRead
    <3>6. ASSUME NEW r \in RequestNr, TimerEvent(c, r) PROVE [Pool!Next]_Pool!vars
      <4>1. CASE SendPortion(c, r) \/ TextToClosed(c, r)
        BY <2>5, <4>1 DEF SendPortion, TextToClosed, linkVars
      <4>2. CASE (SendingDone(c, r) \/ FileFails(c, r)) /\ link[c] \in Connected
        BY <3>3, <4>2 DEF SendingDone, FileFails
      <4>3. link[c] \in Connected
        BY <3>6, Exchanges DEF TimerEvent, OwnersAlive, SlotsMatchSockets
      <4> QED BY <3>6, <4>1, <4>2, <4>3 DEF TimerEvent
    <3> QED BY <2>6, <3>1, <3>2, <3>4, <3>5, <3>6 DEF ClientEvent
  <2> QED BY <2>5, <2>6
        DEF Next, vars, Start, Stop, Delete, linkVars
<1> QED BY <1>1, <1>2, Invariance, PTL
        DEF Spec, PoolSpec, Pool!Spec, IInv, Typed, Lifetimes

(* The list, the objects, the sockets and the timers agree for ever.           *)
THEOREM LeaksNothing == Spec => []NothingLeaks
BY TypeCorrect, NeverOverCap, NoSlotLeaks, BudgetIsFinal, NoDanglingOwner, PTL
DEF NothingLeaks

(* Answers go out in order and are whole when they are the reason of the end,  *)
(* however many are sent at a time.                                            *)
THEOREM AnswersStayIntact == Spec => []AnswersIntact
<1>1. AllWired => AnswersIntact
  BY DEF AllWired, Wired, AnswersIntact, PartsInOrder, AnswerWhole
<1>2. IInv /\ AllWired /\ [Next]_vars => AllWired'
  BY WiredNext DEF IInv
<1> QED BY <1>1, <1>2, WiredInit, Invariance, PTL DEF Spec

-------------------------------------------------------------------------------
(* HandlerChain: a chain is made as it was meant, and asked as it was made.   *)

LEMMA NewHandlerType ==
  ASSUME NEW conf \in ConfType
  PROVE  NewHandler(conf) \in Handler
BY DEF NewHandler, initMethods, Handler

(* The loop of initMethods collects what the list means: the names it skips    *)
(* after a "*" are methods the "*" brings in anyway.                           *)
LEMMA InitMethodsMeant ==
  ASSUME NEW list \in Seq(Token)
  PROVE  initMethods(list).yes = Meant(list)
<1>1. CASE bAllAdded(list)
  BY <1>1 DEF initMethods, Meant, bAllAdded, Negated
<1>2. CASE ~bAllAdded(list)
  <2>1. BeforeAll(list) = DOMAIN list
    <3>1. \A i \in DOMAIN list : \A j \in 1 .. i : j \in DOMAIN list
      BY LenProperties
    <3>2. \A i \in DOMAIN list : list[i].sign # "*"
      BY <1>2 DEF bAllAdded
    <3> QED BY <3>1, <3>2 DEF BeforeAll
  <2>2. Meant(list) = (Listed(list) \cap KnownMethod) \ Negated(list)
    BY <1>2, <2>1 DEF Meant, bAllAdded, Listed, Negated
  <2>3. initMethods(list).yes = (Listed(list) \cap KnownMethod) \ Negated(list)
    BY <1>2 DEF initMethods
  <2> QED BY <2>2, <2>3
<1> QED BY <1>1, <1>2

-------------------------------------------------------------------------------
Meaningful == \A i \in DOMAIN apHandlers :
                /\ apHandlers[i].conf \in ConfType
                /\ apHandlers[i].conf.sClass \notin {"Base", "unknown"}
                /\ apHandlers[i] = NewHandler(apHandlers[i].conf)

ChainInv == ChainTypeOK /\ Meaningful /\ AnsweredOnce

LEMMA ChainInvInit == ChainInit => ChainInv
<1> SUFFICES ASSUME ChainInit PROVE ChainTypeOK /\ Meaningful /\ AnsweredOnce
  BY DEF ChainInv
<1>1. todo \in Seq(ConfType)
  BY ChainAssumption DEF ChainInit
<1>2. apHandlers = <<>> /\ answers = <<>>
  BY DEF ChainInit
<1>3. ChainTypeOK
  <2>1. apHandlers \in Seq(Handler)
    BY <1>2
  <2>2. ubHandlerIndex \in 0 .. IndexModulus - 1
    BY ChainAssumption DEF ChainInit
  <2> QED BY <1>1, <1>2, <2>1, <2>2 DEF ChainInit, ChainTypeOK
<1>4. Meaningful
  BY <1>2 DEF Meaningful
<1>5. AnsweredOnce
  BY <1>2 DEF ChainInit, AnsweredOnce
<1> QED BY <1>3, <1>4, <1>5

(* A handler of the chain answers once or passes the request on, and makes     *)
(* paths of paths.                                                             *)
LEMMA HandlingType ==
  ASSUME ChainTypeOK, phase = "polling",
         NEW conf \in ConfType, conf.sClass \notin {"Base", "unknown"},
         NextHandler \/ Handle(conf)
  PROVE  /\ phase' \in {"polling", "answered"}
         /\ sTarget' \in Path /\ bRewritesDone' \in BOOLEAN
         /\ phase' = "polling" => answers' = <<>>
         /\ phase' = "answered" => Len(answers') = 1
<1>1. answers = <<>> /\ sTarget \in Path /\ bRewritesDone \in BOOLEAN
  BY DEF ChainTypeOK
<1>2. /\ conf \in ConfType
      /\ conf.replace \in [Path -> Path] /\ conf.bMatchIsFinal \in BOOLEAN
      /\ conf.sClass \in {"Base", "Drop", "FileServer", "Redirect", "RewritePath", "unknown"}
  BY ChainAssumption DEF ConfType
<1>3. ASSUME NEW what, Answer(what)
      PROVE  /\ phase' = "answered" /\ Len(answers') = 1
             /\ sTarget' \in Path /\ bRewritesDone' \in BOOLEAN
  BY <1>1, <1>3 DEF Answer
<1>4. CASE NextHandler
  BY <1>1, <1>4 DEF NextHandler
<1>5. CASE HandleRewrite(conf)
  BY <1>1, <1>2, <1>5 DEF HandleRewrite
<1>6. CASE HandleFileServer(conf)
  BY <1>3, <1>6 DEF HandleFileServer, RespondFile, RespondDirectoryList
<1>7. CASE HandleDrop \/ HandleRedirect(conf)
  BY <1>3, <1>7 DEF HandleDrop, HandleRedirect
<1> QED BY <1>2, <1>4, <1>5, <1>6, <1>7 DEF Handle

LEMMA ChainInvNext == ChainInv /\ [ChainNext]_chainVars => ChainInv'
<1> SUFFICES ASSUME ChainTypeOK, Meaningful, AnsweredOnce, [ChainNext]_chainVars
             PROVE ChainTypeOK' /\ Meaningful' /\ AnsweredOnce'
  BY DEF ChainInv
<1>1. CASE onAppendHandler
  <2>1. /\ todo # <<>> /\ todo \in Seq(ConfType) /\ apHandlers \in Seq(Handler)
        /\ UNCHANGED <<phase, requestVars, answers>>
    BY <1>1 DEF onAppendHandler, ChainTypeOK
  <2>2. todo' \in Seq(ConfType) /\ Head(todo) \in ConfType
    BY <1>1, <2>1, HeadTailProperties DEF onAppendHandler
  <2>3. CASE apHandlers' = apHandlers
    BY <2>1, <2>2, <2>3 DEF ChainTypeOK, Meaningful, AnsweredOnce, requestVars
  <2>4. CASE /\ Initializes(Head(todo))
             /\ apHandlers' = Append(apHandlers, NewHandler(Head(todo)))
    <3>1. NewHandler(Head(todo)) \in Handler /\ NewHandler(Head(todo)).conf = Head(todo)
      BY <2>2, NewHandlerType DEF NewHandler
    <3>2. apHandlers' \in Seq(Handler)
      BY <2>1, <2>4, <3>1
    <3>3. Meaningful'
      <4> SUFFICES ASSUME NEW i \in DOMAIN apHandlers'
                   PROVE /\ apHandlers'[i].conf \in ConfType
                         /\ apHandlers'[i].conf.sClass \notin {"Base", "unknown"}
                         /\ apHandlers'[i] = NewHandler(apHandlers'[i].conf)
        BY DEF Meaningful
      <4>1. CASE i \in DOMAIN apHandlers
        BY <2>1, <2>4, <3>1, <4>1, AppendProperties DEF Meaningful
      <4>2. CASE i = Len(apHandlers) + 1
        BY <2>1, <2>2, <2>4, <3>1, <4>2, AppendProperties DEF Initializes
      <4> QED BY <2>1, <2>4, <3>1, <4>1, <4>2, AppendProperties
    <3> QED BY <2>1, <2>2, <3>2, <3>3 DEF ChainTypeOK, AnsweredOnce, requestVars
  <2> QED BY <1>1, <2>3, <2>4 DEF onAppendHandler
<1>2. ASSUME NEW m \in Method, NEW p \in Path, onRequest(m, p)
      PROVE ChainTypeOK' /\ Meaningful' /\ AnsweredOnce'
  <2>1. ubHandlerIndex' \in 0 .. IndexModulus - 1
    BY <1>2, ChainAssumption DEF onRequest
  <2>2. AnsweredOnce'
    BY <1>2 DEF onRequest, AnsweredOnce
  <2>3. Meaningful'
    BY <1>2 DEF onRequest, Meaningful
  <2> QED BY <1>2, <2>1, <2>2, <2>3 DEF onRequest, ChainTypeOK
<1>3. CASE Poll
  <2> DEFINE h == apHandlers[ubHandlerIndex + 1]
  <2>1. ubHandlerIndex + 1 \in DOMAIN apHandlers
    BY <1>3, ChainAssumption DEF Poll, ChainTypeOK
  <2>2. h.conf \in ConfType /\ h.conf.sClass \notin {"Base", "unknown"}
    BY <2>1 DEF Meaningful
  <2>3. phase = "polling" /\ (NextHandler \/ Handle(h.conf))
    BY <1>3 DEF Poll
  <2>4. /\ phase' \in {"polling", "answered"}
        /\ sTarget' \in Path /\ bRewritesDone' \in BOOLEAN
        /\ phase' = "polling" => answers' = <<>>
        /\ phase' = "answered" => Len(answers') = 1
    <3> HIDE DEF h
    <3> QED BY <2>2, <2>3, HandlingType
  <2>5. ubHandlerIndex' \in 0 .. IndexModulus - 1
    BY <1>3, ChainAssumption DEF Poll, ChainTypeOK
  <2>6. UNCHANGED <<todo, apHandlers, sMethod, sTargetOriginal>>
    BY <1>3 DEF Poll
  <2> QED BY <2>4, <2>5, <2>6 DEF ChainTypeOK, Meaningful, AnsweredOnce
<1>4. CASE NoHandler
  BY <1>4 DEF NoHandler, Answer, ChainTypeOK, Meaningful, AnsweredOnce
<1>5. CASE UNCHANGED chainVars
  BY <1>5 DEF chainVars, requestVars, ChainTypeOK, Meaningful, AnsweredOnce
<1> QED BY <1>1, <1>2, <1>3, <1>4, <1>5 DEF ChainNext

-------------------------------------------------------------------------------
(* The course of a request along the chain.  Course(n) is a recursive function: *)
(* that the equation has one solution is settled for each n as the request gets *)
(* there, so the steps of the specification take the place of an induction.     *)

IsCourse(n, c) ==
  c = [i \in 0 .. n |-> IF i = 0 THEN [path |-> sTargetOriginal, done |-> FALSE]
                        ELSE Rewritten(i, c[i - 1])]

Settled(n) == IsCourse(n, Course(n)) /\ \A c : IsCourse(n, c) => c = Course(n)

LEMMA CourseIs ==
  ASSUME NEW n
  PROVE  Course(n) = CHOOSE c : IsCourse(n, c)
BY DEF Course, IsCourse

(* A function that solves the equation and is its only solution is the course.  *)
LEMMA OneSolution ==
  ASSUME NEW n, NEW c, IsCourse(n, c), \A d : IsCourse(n, d) => d = c
  PROVE  Course(n) = c /\ Settled(n)
<1>1. IsCourse(n, Course(n))
  BY CourseIs
<1> QED BY <1>1 DEF Settled

LEMMA CourseStarts ==
  Settled(0) /\ Course(0)[0] = [path |-> sTargetOriginal, done |-> FALSE]
<1> DEFINE c == [i \in 0 .. 0 |-> [path |-> sTargetOriginal, done |-> FALSE]]
<1>1. IsCourse(0, c)
  BY DEF IsCourse
<1>2. \A d : IsCourse(0, d) => d = c
  BY DEF IsCourse
<1>3. Course(0) = c /\ Settled(0)
  <2> HIDE DEF c
  <2> QED BY <1>1, <1>2, OneSolution
<1>4. c[0] = [path |-> sTargetOriginal, done |-> FALSE]
  OBVIOUS
<1> HIDE DEF c
<1> QED BY <1>3, <1>4

LEMMA CourseGoesOn ==
  ASSUME NEW n \in Nat, Settled(n)
  PROVE  /\ Settled(n + 1)
         /\ Course(n + 1)[n + 1] = Rewritten(n + 1, Course(n)[n])
         /\ \A i \in 0 .. n : Course(n + 1)[i] = Course(n)[i]
<1> DEFINE c == [i \in 0 .. n + 1 |-> IF i \in 0 .. n THEN Course(n)[i]
                                      ELSE Rewritten(n + 1, Course(n)[n])]
<1>0. Course(n) = [i \in 0 .. n |-> IF i = 0 THEN [path |-> sTargetOriginal, done |-> FALSE]
                                    ELSE Rewritten(i, Course(n)[i - 1])]
  BY DEF Settled, IsCourse
<1>1. IsCourse(n + 1, c)
  <2>1. \A i \in 0 .. n + 1 :
          c[i] = IF i = 0 THEN [path |-> sTargetOriginal, done |-> FALSE]
                 ELSE Rewritten(i, c[i - 1])
    <3> SUFFICES ASSUME NEW i \in 0 .. n + 1
                 PROVE c[i] = IF i = 0 THEN [path |-> sTargetOriginal, done |-> FALSE]
                              ELSE Rewritten(i, c[i - 1])
      OBVIOUS
    <3>1. CASE i = 0
      <4>1. c[0] = Course(n)[0] /\ 0 \in 0 .. n
        OBVIOUS
      <4>2. Course(n)[0] = [path |-> sTargetOriginal, done |-> FALSE]
        BY <1>0, <4>1
      <4> QED BY <3>1, <4>1, <4>2
    <3>2. CASE i \in 1 .. n
      <4>1. c[i] = Course(n)[i] /\ c[i - 1] = Course(n)[i - 1] /\ i \in 0 .. n /\ i # 0
        BY <3>2
      <4>2. Course(n)[i] = Rewritten(i, Course(n)[i - 1])
        BY <1>0, <4>1
      <4> QED BY <4>1, <4>2
    <3>3. CASE i = n + 1
      <4>1. c[n + 1] = Rewritten(n + 1, Course(n)[n]) /\ c[n] = Course(n)[n]
        OBVIOUS
      <4> QED BY <3>3, <4>1
    <3> QED BY <3>1, <3>2, <3>3
  <2> HIDE DEF c
  <2>2. c = [i \in 0 .. n + 1 |-> c[i]]
    BY DEF c
  <2> QED BY <2>1, <2>2 DEF IsCourse
<1>2. ASSUME NEW d, IsCourse(n + 1, d)
      PROVE  d = c
  <2>1. d = [i \in 0 .. n + 1 |-> IF i = 0 THEN [path |-> sTargetOriginal, done |-> FALSE]
                                  ELSE Rewritten(i, d[i - 1])]
    BY <1>2 DEF IsCourse
  <2> DEFINE e == [i \in 0 .. n |-> d[i]]
  <2>2. \A i \in 0 .. n : e[i] = IF i = 0 THEN [path |-> sTargetOriginal, done |-> FALSE]
                                 ELSE Rewritten(i, e[i - 1])
    <3> SUFFICES ASSUME NEW i \in 0 .. n
                 PROVE e[i] = IF i = 0 THEN [path |-> sTargetOriginal, done |-> FALSE]
                              ELSE Rewritten(i, e[i - 1])
      OBVIOUS
    <3>1. i \in 0 .. n + 1 /\ e[i] = d[i] /\ (i # 0 => e[i - 1] = d[i - 1])
      OBVIOUS
    <3>2. d[i] = IF i = 0 THEN [path |-> sTargetOriginal, done |-> FALSE]
                 ELSE Rewritten(i, d[i - 1])
      BY <2>1, <3>1
    <3> HIDE DEF e
    <3> QED BY <3>1, <3>2
  <2>3. e = Course(n)
    <3>1. e = [i \in 0 .. n |-> e[i]]
      OBVIOUS
    <3> HIDE DEF e
    <3>2. IsCourse(n, e)
      BY <2>2, <3>1 DEF IsCourse
    <3> QED BY <3>2 DEF Settled
  <2>4. \A i \in 0 .. n : d[i] = Course(n)[i]
    BY <2>3
  <2>5. d[n + 1] = Rewritten(n + 1, Course(n)[n])
    <3>1. d[n + 1] = Rewritten(n + 1, d[n])
      <4>1. \A i \in 0 .. n + 1 : i # 0 => d[i] = Rewritten(i, d[i - 1])
        BY <2>1
      <4>2. n + 1 \in 0 .. n + 1 /\ n + 1 # 0 /\ (n + 1) - 1 = n
        OBVIOUS
      <4> QED BY <4>1, <4>2
    <3> QED BY <2>4, <3>1
  <2>6. d = [i \in 0 .. n + 1 |-> d[i]]
    BY <2>1
  <2>7. \A i \in 0 .. n + 1 : d[i] = c[i]
    BY <2>4, <2>5
  <2> QED BY <2>6, <2>7
<1>3. Course(n + 1) = c /\ Settled(n + 1)
  <2> HIDE DEF c
  <2> QED BY <1>1, <1>2, OneSolution
<1> QED BY <1>3

(* The course of a request depends on what it asked for and on the chain only.  *)
LEMMA SameCourse ==
  ASSUME UNCHANGED <<apHandlers, sMethod, sTargetOriginal>>
  PROVE  \A n : /\ Course(n)' = Course(n)
                /\ Settled(n)' = Settled(n)
<1> SUFFICES ASSUME NEW n
             PROVE  Course(n)' = Course(n) /\ Settled(n)' = Settled(n)
  OBVIOUS
<1>1. \A i, q : Rewritten(i, q)' = Rewritten(i, q)
  BY DEF Rewritten, TakesMethod, Rewriter
<1>2. \A c : IsCourse(n, c)' = IsCourse(n, c)
  BY <1>1 DEF IsCourse
<1>3. Course(n)' = Course(n)
  BY <1>1 DEF Course
<1> QED BY <1>2, <1>3 DEF Settled

(* A request arrives at each handler with the path its course gives, and passes *)
(* none that wants it.                                                          *)
OnCourse == phase = "polling" /\ Len(apHandlers) < IndexModulus =>
              /\ Settled(ubHandlerIndex)
              /\ Course(ubHandlerIndex)[ubHandlerIndex] =
                   [path |-> sTarget, done |-> bRewritesDone]
              /\ Takers = {}
BuiltFirst == /\ phase # "none" => todo = <<>>
              /\ ubHandlerIndex <= Len(apHandlers)
CourseInv == BuiltFirst /\ OnCourse /\ FirstTakerAnswers

LEMMA SameTakers ==
  ASSUME UNCHANGED <<apHandlers, sMethod, sTargetOriginal, ubHandlerIndex>>
  PROVE  Takers' = Takers
BY SameCourse DEF Takers, TakesMethod, Rewriter

LEMMA CourseInit == ChainInit => CourseInv
BY DEF ChainInit, CourseInv, BuiltFirst, OnCourse, FirstTakerAnswers

(* Asking a handler: the course goes on as the handler does.                    *)
LEMMA PollKeepsCourse ==
  ASSUME ChainTypeOK, Meaningful, MethodsAsMeant, CourseInv, Poll
  PROVE  CourseInv'
<1> DEFINE n == ubHandlerIndex
           h == apHandlers[n + 1]
           q == [path |-> sTarget, done |-> bRewritesDone]
<1>1. /\ n \in Nat /\ n + 1 \in 1 .. Len(apHandlers) /\ n + 1 \in DOMAIN apHandlers
      /\ phase = "polling" /\ todo = <<>> /\ answers = <<>>
      /\ sTarget \in Path /\ bRewritesDone \in BOOLEAN
      /\ UNCHANGED <<todo, apHandlers, sMethod, sTargetOriginal>>
      /\ ubHandlerIndex' = (n + 1) % IndexModulus
  BY ChainAssumption DEF Poll, ChainTypeOK, CourseInv, BuiltFirst
<1>2. /\ h.conf \in ConfType /\ h.conf.sClass \notin {"Base", "unknown"}
      /\ h = NewHandler(h.conf)
  BY <1>1 DEF Meaningful
<1>3. /\ h.conf.bMatchIsFinal \in BOOLEAN
      /\ h.conf.sClass \in {"Drop", "FileServer", "Redirect", "RewritePath"}
  BY <1>2, ChainAssumption DEF ConfType
<1>4. /\ TakesMethod(n + 1) <=> sMethod \in methods(h)
      /\ Rewriter(n + 1) <=> h.conf.sClass = "RewritePath"
      /\ sMethod \in methods(h) => Caret[sMethod] \notin methods(h)
  <2>1. /\ h.yes \cap h.nots = {} /\ h.yes \subseteq KnownMethod /\ h.nots \subseteq KnownMethod
        /\ h.nots = Negated(h.conf.methods) \cap KnownMethod
    <3>1. h.nots = initMethods(h.conf.methods).nots /\ h.yes = initMethods(h.conf.methods).yes
      BY <1>2 DEF NewHandler
    <3> QED BY <3>1 DEF initMethods
  <2>2. h.yes = Meant(h.conf.methods)
    BY <1>1 DEF MethodsAsMeant
  <2>3. sMethod \in Method /\ KnownMethod \subseteq Method
    BY DEF ChainTypeOK, Method
  <2>4. TakesMethod(n + 1) <=> sMethod \in methods(h)
    BY <2>1, <2>2 DEF TakesMethod, methods
  <2>5. ASSUME sMethod \in methods(h) PROVE Caret[sMethod] \notin methods(h)
    <3>1. \A m \in Method : Caret[m] \notin KnownMethod
      BY ChainAssumption
    <3>2. \A m, k \in Method : Caret[m] = Caret[k] => m = k
      BY ChainAssumption
    <3>3. SUFFICES ASSUME Caret[sMethod] \in methods(h) PROVE FALSE
      OBVIOUS
    <3>4. PICK m \in h.nots : Caret[sMethod] = Caret[m]
      BY <2>1, <2>3, <3>1, <3>3 DEF methods
    <3>5. sMethod \in h.nots
      BY <2>1, <2>3, <3>2, <3>4
    <3>6. PICK k \in h.nots : sMethod = Caret[k]
      BY <2>1, <2>5, <3>5 DEF methods
    <3> QED BY <2>1, <2>3, <3>1, <3>5, <3>6
  <2> QED BY <2>4, <2>5 DEF Rewriter
<1>5. ubHandlerIndex' <= Len(apHandlers')
  BY <1>1, ChainAssumption
<1>6. CASE ~(Len(apHandlers) < IndexModulus)
  BY <1>1, <1>5, <1>6 DEF CourseInv, BuiltFirst, OnCourse, FirstTakerAnswers
<1>7. CASE Len(apHandlers) < IndexModulus
  <2>1. ubHandlerIndex' = n + 1
    BY <1>1, <1>7, ChainAssumption
  <2>2. Settled(n) /\ Course(n)[n] = q /\ Takers = {}
    BY <1>1, <1>7 DEF CourseInv, OnCourse
  <2>3. /\ Settled(n + 1) /\ Course(n + 1)[n + 1] = Rewritten(n + 1, q)
        /\ \A i \in 0 .. n : Course(n + 1)[i] = Course(n)[i]
    BY <1>1, <2>2, CourseGoesOn
  <2>4. /\ Settled(ubHandlerIndex)' = Settled(n + 1)
        /\ Course(ubHandlerIndex)' = Course(n + 1)
    BY <1>1, <2>1, SameCourse
  <2>5. Takers' = {i \in 1 .. n + 1 : i = n + 1 /\ sMethod \in methods(h)
                       /\ h.conf.sClass # "RewritePath" /\ sTarget \in h.conf.matches}
    <3> DEFINE Wants(c, i) == /\ TakesMethod(i) /\ ~Rewriter(i)
                              /\ c[i - 1].path \in apHandlers[i].conf.matches
    <3>1. Takers = {i \in 1 .. n : Wants(Course(n), i)}
      BY DEF Takers
    <3>2. Takers' = {i \in 1 .. n + 1 : Wants(Course(n + 1), i)}
      BY <1>1, <2>1, <2>4 DEF Takers, TakesMethod, Rewriter
    <3>3. \A i \in 1 .. n : ~Wants(Course(n), i)
      <4> HIDE DEF Wants
      <4> QED BY <2>2, <3>1
    <3>4. \A i \in 1 .. n : ~Wants(Course(n + 1), i)
      <4> SUFFICES ASSUME NEW i \in 1 .. n PROVE ~Wants(Course(n + 1), i)
        OBVIOUS
      <4>1. i - 1 \in 0 .. n
        BY <1>1
      <4>2. Course(n + 1)[i - 1] = Course(n)[i - 1]
        BY <2>3, <4>1
      <4> QED BY <3>3, <4>2
    <3>5. Course(n + 1)[n] = q /\ (n + 1) - 1 = n
      BY <1>1, <2>2, <2>3
    <3>6. Wants(Course(n + 1), n + 1) <=>
            sMethod \in methods(h) /\ h.conf.sClass # "RewritePath" /\ sTarget \in h.conf.matches
      BY <1>4, <3>5
    <3> HIDE DEF Wants, h
    <3> QED BY <1>1, <3>2, <3>4, <3>6
  <2>6. CASE NextHandler /\ (Skips(h) \/ sTarget \notin h.conf.matches)
    <3>1. Rewritten(n + 1, q) = q /\ Takers' = {}
      BY <1>4, <2>5, <2>6 DEF Skips, Rewritten
    <3> QED BY <1>1, <1>5, <2>1, <2>3, <2>4, <2>6, <3>1
            DEF NextHandler, CourseInv, BuiltFirst, OnCourse, FirstTakerAnswers
  <2>7. CASE ~Skips(h) /\ sTarget \in h.conf.matches /\ h.conf.sClass = "RewritePath"
    <3>1. HandleRewrite(h.conf)
      BY <1>1, <2>7 DEF Poll, Handle
    <3>2. ~bRewritesDone /\ sMethod \in methods(h)
      BY <2>7 DEF Skips
    <3>3. Rewritten(n + 1, q) = [path |-> h.conf.replace[sTarget], done |-> h.conf.bMatchIsFinal]
      BY <1>4, <2>7, <3>2 DEF Rewritten
    <3>4. Rewritten(n + 1, q) = [path |-> sTarget', done |-> bRewritesDone']
      BY <1>3, <3>1, <3>2, <3>3 DEF HandleRewrite
    <3>5. Takers' = {}
      BY <2>5, <2>7
    <3> QED BY <1>1, <1>5, <2>1, <2>3, <2>4, <3>1, <3>4, <3>5
            DEF HandleRewrite, CourseInv, BuiltFirst, OnCourse, FirstTakerAnswers
  <2>8. CASE ~Skips(h) /\ sTarget \in h.conf.matches /\ h.conf.sClass # "RewritePath"
    <3>1. sMethod \in methods(h)
      BY <2>8 DEF Skips
    <3>2. Takers' = {n + 1}
      BY <1>1, <2>5, <2>8, <3>1
    <3>3. Course(n + 1)[n].path = sTarget
      BY <1>1, <2>2, <2>3
    <3>4. phase' = "answered" /\ answers'[1] \in AnswerOf(h.conf, sTarget)
      <4> HIDE DEF h
      <4>1. Handle(h.conf)
        BY <2>8 DEF Poll, h
      <4>2. ASSUME NEW what, Answer(what)
            PROVE  phase' = "answered" /\ answers'[1] = what
        BY <1>1, <4>2 DEF Answer
      <4>3. CASE h.conf.sClass = "Drop"
        BY <2>8, <4>1, <4>2, <4>3 DEF Handle, HandleDrop, AnswerOf
      <4>4. CASE h.conf.sClass = "Redirect"
        BY <2>8, <4>1, <4>2, <4>4 DEF Handle, HandleRedirect, AnswerOf
      <4>5. CASE h.conf.sClass = "FileServer"
        <5>1. HandleFileServer(h.conf)
          BY <2>8, <4>1, <4>5 DEF Handle
        <5> QED BY <4>2, <4>5, <5>1
                DEF HandleFileServer, RespondFile, RespondDirectoryList, AnswerOf
      <4> QED BY <1>3, <2>8, <4>3, <4>4, <4>5
    <3>5. (n + 1) - 1 = n
      BY <1>1
    <3> QED BY <1>1, <1>5, <2>1, <2>4, <3>2, <3>3, <3>4, <3>5
            DEF CourseInv, BuiltFirst, OnCourse, FirstTakerAnswers
  <2> QED BY <1>1, <2>6, <2>7, <2>8 DEF Poll, Handle
<1> QED BY <1>6, <1>7

LEMMA CourseNext ==
  ASSUME ChainTypeOK, Meaningful, MethodsAsMeant, CourseInv, [ChainNext]_chainVars
  PROVE  CourseInv'
<1>1. CASE onAppendHandler
  <2>1. phase = "none" /\ phase' = "none" /\ UNCHANGED ubHandlerIndex
    BY <1>1 DEF onAppendHandler, ChainTypeOK, CourseInv, BuiltFirst, requestVars
  <2>2. Len(apHandlers') >= Len(apHandlers) /\ Len(apHandlers') \in Nat /\ Len(apHandlers) \in Nat
    BY <1>1 DEF onAppendHandler, ChainTypeOK
  <2>3. ubHandlerIndex' <= Len(apHandlers')
    BY <2>1, <2>2, ChainAssumption DEF ChainTypeOK, CourseInv, BuiltFirst
  <2> QED BY <2>1, <2>3 DEF CourseInv, BuiltFirst, OnCourse, FirstTakerAnswers
<1>2. ASSUME NEW m \in Method, NEW p \in Path, onRequest(m, p)
      PROVE CourseInv'
  <2>1. (Settled(0) /\ Course(0)[0] = [path |-> sTargetOriginal, done |-> FALSE])'
    BY CourseStarts, PTL
  <2>2. Takers' = {}
    BY <1>2 DEF onRequest, Takers
  <2>3. ubHandlerIndex' <= Len(apHandlers')
    BY <1>2 DEF onRequest, ChainTypeOK
  <2> QED BY <1>2, <2>1, <2>2, <2>3
          DEF onRequest, CourseInv, BuiltFirst, OnCourse, FirstTakerAnswers
<1>3. CASE Poll
  BY <1>3, PollKeepsCourse
<1>4. CASE NoHandler
  <2>1. /\ UNCHANGED <<todo, apHandlers, sMethod, sTargetOriginal, ubHandlerIndex>>
        /\ phase = "polling" /\ phase' = "answered"
        /\ answers' = <<(<<"404">>)>> /\ ubHandlerIndex = Len(apHandlers)
    BY <1>4, ChainAssumption DEF NoHandler, Answer, ChainTypeOK, CourseInv, BuiltFirst
  <2>2. Takers' = Takers
    BY <2>1, SameTakers
  <2> QED BY <2>1, <2>2 DEF CourseInv, BuiltFirst, OnCourse, FirstTakerAnswers
<1>5. CASE UNCHANGED chainVars
  <2>1. UNCHANGED <<todo, apHandlers, phase, sMethod, sTargetOriginal, sTarget,
                    ubHandlerIndex, bRewritesDone, answers>>
    BY <1>5 DEF chainVars, requestVars
  <2>2. Takers' = Takers /\ \A n : Course(n)' = Course(n) /\ Settled(n)' = Settled(n)
    BY <2>1, SameCourse, SameTakers
  <2> QED BY <2>1, <2>2 DEF CourseInv, BuiltFirst, OnCourse, FirstTakerAnswers
<1> QED BY <1>1, <1>2, <1>3, <1>4, <1>5 DEF ChainNext

-------------------------------------------------------------------------------
(* The theorems. *)

LEMMA ChainInvariance == ChainSpec => []ChainInv
BY ChainInvInit, ChainInvNext, PTL DEF ChainSpec

(* Types, among them that a request's path is always one the chain knows.      *)
THEOREM ChainTypeCorrect == ChainSpec => []ChainTypeOK
BY ChainInvariance, PTL DEF ChainInv

(* No chain of handlers answers a request twice: the recursion through the     *)
(* signal nextHandler ends with the answer.                                    *)
THEOREM NeverAnsweredTwice == ChainSpec => []AnsweredOnce
BY ChainInvariance, PTL DEF ChainInv

(* Every handler in the chain accepts the methods its list means.              *)
THEOREM MethodsCorrect == ChainSpec => []MethodsAsMeant
<1>1. ChainInv => MethodsAsMeant
  <2> SUFFICES ASSUME Meaningful, NEW i \in DOMAIN apHandlers
               PROVE apHandlers[i].yes = Meant(apHandlers[i].conf.methods)
    BY DEF ChainInv, MethodsAsMeant
  <2>1. apHandlers[i].conf \in ConfType /\ apHandlers[i] = NewHandler(apHandlers[i].conf)
    BY DEF Meaningful
  <2>2. apHandlers[i].conf.methods \in Seq(Token)
    BY <2>1, ChainAssumption DEF ConfType
  <2>3. apHandlers[i].yes = initMethods(apHandlers[i].conf.methods).yes
    BY <2>1 DEF NewHandler
  <2> QED BY <2>2, <2>3, InitMethodsMeant
<1> QED BY <1>1, ChainInvariance, PTL

(* The first handler that wants a request answers it, for the path the rewriters *)
(* in front of it made; 404 comes only from a chain in which none wants it.      *)
THEOREM FirstOneAnswers == ChainSpec => []FirstTakerAnswers
<1>1. ChainTypeOK /\ Meaningful /\ MethodsAsMeant /\ CourseInv /\ [ChainNext]_chainVars => CourseInv'
  BY CourseNext
<1>2. ChainSpec => []CourseInv
  BY <1>1, CourseInit, ChainInvariance, MethodsCorrect, PTL DEF ChainSpec, ChainInv
<1> QED BY <1>2, PTL DEF CourseInv

(* A final match of a rewriter fixes the path of the request.                  *)
THEOREM FinalMatchHolds == ChainSpec => FinalIsFinal
<1>1. ChainInv /\ [ChainNext]_chainVars => [bRewritesDone /\ phase = "polling" => sTarget' = sTarget]_chainVars
  <2> SUFFICES ASSUME ChainTypeOK, Meaningful, ChainNext, bRewritesDone, phase = "polling"
               PROVE sTarget' = sTarget
    BY DEF ChainInv
  <2>1. CASE onAppendHandler
    BY <2>1 DEF onAppendHandler, requestVars
  <2>2. ASSUME NEW m \in Method, NEW p \in Path, onRequest(m, p) PROVE sTarget' = sTarget
    BY <2>2 DEF onRequest
  <2>3. CASE Poll
    <3> DEFINE h == apHandlers[ubHandlerIndex + 1]
    <3>1. h.conf.sClass \notin {"Base", "unknown"} /\ h.conf \in ConfType
      BY <2>3, ChainAssumption DEF Poll, ChainTypeOK, Meaningful
    <3>2. CASE NextHandler
      BY <3>2 DEF NextHandler
    <3>3. CASE ~Skips(h) /\ Handle(h.conf)
      <4>1. h.conf.sClass # "RewritePath"
        BY <3>3 DEF Skips
      <4>2. h.conf.sClass \in {"Drop", "FileServer", "Redirect"}
        BY <3>1, <4>1, ChainAssumption DEF ConfType
      <4> QED BY <3>3, <4>2
              DEF Handle, NextHandler, HandleDrop, HandleRedirect, HandleFileServer,
                  RespondFile, RespondDirectoryList, Answer
    <3> QED BY <2>3, <3>2, <3>3 DEF Poll
  <2>4. CASE NoHandler
    BY <2>4 DEF NoHandler, Answer
  <2> QED BY <2>1, <2>2, <2>3, <2>4 DEF ChainNext
<1> QED BY <1>1, ChainInvariance, PTL DEF ChainSpec, FinalIsFinal

(* One answer to each request, from a chain that was made as it was meant.     *)
THEOREM AnswersOnce == ChainSpec => []OneAnswer
BY ChainTypeCorrect, MethodsCorrect, NeverAnsweredTwice, PTL DEF OneAnswer
===============================================================================
