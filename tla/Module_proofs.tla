----------------------------- MODULE Module_proofs -----------------------------
(***************************************************************************)
(* Proofs about what a module of the application rests on: the WebSocket    *)
(* server of the control module (WSSserver), for any number of connections, *)
(* and the files that modules are configured by (Configuration), for any    *)
(* number of files, names and faults.  The two share no state.              *)
(***************************************************************************)
EXTENDS WSSserver, Configuration, FiniteSetTheorems, TLAPS

-------------------------------------------------------------------------------
(* WSSserver.  One invariant carries everything: besides the properties it says  *)
(* that a connection has no objects before it is open, and that as long as the   *)
(* server lives an open one has a session.                                       *)

Fresh ==
  \A c \in Client : conn[c] \in {"none", "handshake"} => c \notin sockets

Served ==
  /\ gone => ~listening /\ sessions = {}
  /\ ~gone => \A c \in Client : conn[c] = "open" => c \in sessions

Owned == SlotsAreOpen /\ OneOwner /\ Fresh /\ Served

ObjectsInv == ObjectsTypeOK /\ Owned

\* The two objects of a connection, and those of two connections, differ.
LEMMA Objects ==
  ASSUME NEW c, NEW d
  PROVE  /\ Session(c) # Socket(d)
         /\ Session(c) = Session(d) => c = d
         /\ Socket(c) = Socket(d) => c = d
BY DEF Session, Socket

LEMMA ObjectsStart == WssInit => ObjectsInv
BY DEF WssInit, ObjectsInv, ObjectsTypeOK, Owned, SlotsAreOpen, OneOwner, Fresh, Served

-------------------------------------------------------------------------------
(* The step that no object takes part in, and the one that ends them all. *)

LEMMA StartInv == ObjectsInv /\ start => ObjectsInv'
<1> SUFFICES ASSUME ObjectsInv, start PROVE ObjectsInv' OBVIOUS
<1> USE DEF ObjectsInv, start
<1>1. ObjectsTypeOK'
  <2>1. listening' \in BOOLEAN BY DEF ObjectsTypeOK
  <2> QED BY <2>1 DEF ObjectsTypeOK
<1>2. Owned' BY DEF Owned, SlotsAreOpen, OneOwner, Fresh, Served
<1> QED BY <1>1, <1>2

LEMMA DestroyInv == ObjectsInv /\ Destroy => ObjectsInv'
<1> SUFFICES ASSUME ObjectsInv, Destroy PROVE ObjectsInv' OBVIOUS
<1> USE DEF ObjectsInv, Owned, Destroy
<1>1. ObjectsTypeOK'
  <2>1. \A c \in sessions : Socket(c) \in {"WSSsession", "QWebSocket"} \X Client
    BY DEF ObjectsTypeOK, Socket
  <2>2. later' \subseteq {"WSSsession", "QWebSocket"} \X Client BY <2>1 DEF ObjectsTypeOK
  <2> QED BY <2>2 DEF ObjectsTypeOK
<1>2. SlotsAreOpen' BY DEF SlotsAreOpen
<1>3. OneOwner'
  <2> SUFFICES ASSUME NEW c \in Client
               PROVE  /\ Session(c) \notin later'
                      /\ Socket(c) \in later' <=> c \in sockets
    BY DEF OneOwner
  <2>1. Session(c) \notin later' BY Objects DEF Session
  <2>2. Socket(c) \in later' <=> Socket(c) \in later \/ c \in sessions
    BY Objects DEF Socket, ObjectsTypeOK
  <2> QED BY <2>1, <2>2 DEF OneOwner, ObjectsTypeOK
<1>4. Fresh' BY DEF Fresh
<1>5. Served' BY DEF Served
<1> QED BY <1>1, <1>2, <1>3, <1>4, <1>5

-------------------------------------------------------------------------------
(* The life of one connection. *)

LEMMA ConnectInv == \A c \in Client : ObjectsInv /\ Connect(c) => ObjectsInv'
<1> SUFFICES ASSUME NEW c \in Client, ObjectsInv, Connect(c) PROVE ObjectsInv' OBVIOUS
<1> USE DEF ObjectsInv, Owned, Connect
<1>1. ObjectsTypeOK' BY DEF ObjectsTypeOK
<1>2. SlotsAreOpen' BY DEF SlotsAreOpen, ObjectsTypeOK
<1>3. OneOwner' BY DEF OneOwner
<1>4. Fresh' BY DEF Fresh, ObjectsTypeOK
<1>5. Served' BY DEF Served, ObjectsTypeOK
<1> QED BY <1>1, <1>2, <1>3, <1>4, <1>5

LEMMA HandshakeFailsInv == \A c \in Client : ObjectsInv /\ HandshakeFails(c) => ObjectsInv'
<1> SUFFICES ASSUME NEW c \in Client, ObjectsInv, HandshakeFails(c) PROVE ObjectsInv' OBVIOUS
<1> USE DEF ObjectsInv, Owned, HandshakeFails
<1>1. ObjectsTypeOK' BY DEF ObjectsTypeOK
<1>2. SlotsAreOpen' BY DEF SlotsAreOpen, ObjectsTypeOK, Fresh
<1>3. OneOwner' BY DEF OneOwner
<1>4. Fresh' BY DEF Fresh, ObjectsTypeOK
<1>5. Served' BY DEF Served, ObjectsTypeOK
<1> QED BY <1>1, <1>2, <1>3, <1>4, <1>5

LEMMA NewConnectionInv == \A c \in Client : ObjectsInv /\ onNewConnection(c) => ObjectsInv'
<1> SUFFICES ASSUME NEW c \in Client, ObjectsInv, onNewConnection(c) PROVE ObjectsInv' OBVIOUS
<1> USE DEF ObjectsInv, Owned, onNewConnection
<1>1. c \notin sockets BY DEF Fresh
<1>2. ObjectsTypeOK' BY DEF ObjectsTypeOK
<1>3. SlotsAreOpen' BY <1>1 DEF SlotsAreOpen, ObjectsTypeOK
<1>4. OneOwner' BY <1>1 DEF OneOwner, ObjectsTypeOK
<1>5. Fresh' BY DEF Fresh, ObjectsTypeOK
<1>6. Served' BY DEF Served, ObjectsTypeOK
<1> QED BY <1>2, <1>3, <1>4, <1>5, <1>6

LEMMA DisconnectInv == \A c \in Client : ObjectsInv /\ Disconnect(c) => ObjectsInv'
<1> SUFFICES ASSUME NEW c \in Client, ObjectsInv, Disconnect(c) PROVE ObjectsInv' OBVIOUS
<1> USE DEF ObjectsInv, Owned, Disconnect, onSocketDisconnected
<1>1. ObjectsTypeOK' BY DEF ObjectsTypeOK, Session
<1>2. SlotsAreOpen' BY DEF SlotsAreOpen, ObjectsTypeOK
<1>3. OneOwner'
  <2>1. CASE c \in sessions /\ onSocketDisconnected(c)
    <3> SUFFICES ASSUME NEW d \in Client
                 PROVE  /\ Session(d) \in later' <=> d \in sessions \ apSessions'
                        /\ Socket(d) \in later' <=> d \in sockets \ sessions
      BY DEF OneOwner
    <3>1. Socket(d) \in later' <=> Socket(d) \in later BY <2>1, Objects
    <3>2. Session(d) \in later' <=> Session(d) \in later \/ d = c BY <2>1, Objects
    <3> QED BY <2>1, <3>1, <3>2 DEF OneOwner
  <2>2. CASE c \notin sessions /\ UNCHANGED <<apSessions, sessions, later>>
    BY <2>2 DEF OneOwner
  <2> QED BY <2>1, <2>2
<1>4. Fresh' BY DEF Fresh, ObjectsTypeOK
<1>5. Served' BY DEF Served, ObjectsTypeOK
<1> QED BY <1>1, <1>2, <1>3, <1>4, <1>5

LEMMA DeleteSessionInv ==
  \A c \in Client :
    /\ ObjectsInv /\ Session(c) \in later /\ DeleteSession(c)
    /\ UNCHANGED <<listening, conn, apSessions, sockets, gone>>
    => ObjectsInv'
<1> SUFFICES ASSUME NEW c \in Client, ObjectsInv, Session(c) \in later, DeleteSession(c),
                    UNCHANGED <<listening, conn, apSessions, sockets, gone>>
             PROVE  ObjectsInv'
  OBVIOUS
<1> USE DEF ObjectsInv, Owned, DeleteSession
<1>1. c \in sessions /\ c \notin apSessions BY DEF OneOwner
<1>2. conn[c] # "open" BY <1>1 DEF SlotsAreOpen
<1>3. ObjectsTypeOK' BY <1>1 DEF ObjectsTypeOK, Socket
<1>4. SlotsAreOpen' BY <1>1 DEF SlotsAreOpen
<1>5. OneOwner'
  <2> SUFFICES ASSUME NEW d \in Client
               PROVE  /\ Session(d) \in later' <=> d \in sessions' \ apSessions
                      /\ Socket(d) \in later' <=> d \in sockets \ sessions'
    BY DEF OneOwner
  <2>1. Session(d) \in later' <=> Session(d) \in later /\ d # c BY Objects
  <2>2. Socket(d) \in later' <=> Socket(d) \in later \/ d = c BY Objects
  <2> QED BY <1>1, <2>1, <2>2 DEF OneOwner, ObjectsTypeOK
<1>6. Fresh' BY DEF Fresh
<1>7. Served' BY <1>2 DEF Served
<1> QED BY <1>3, <1>4, <1>5, <1>6, <1>7

LEMMA DeleteSocketInv ==
  \A c \in Client :
    /\ ObjectsInv /\ Socket(c) \in later
    /\ sockets' = sockets \ {c} /\ later' = later \ {Socket(c)}
    /\ conn' = [conn EXCEPT ![c] = "closed"]
    /\ UNCHANGED <<listening, apSessions, sessions, gone>>
    => ObjectsInv'
<1> SUFFICES ASSUME NEW c \in Client, ObjectsInv, Socket(c) \in later,
                    sockets' = sockets \ {c}, later' = later \ {Socket(c)},
                    conn' = [conn EXCEPT ![c] = "closed"],
                    UNCHANGED <<listening, apSessions, sessions, gone>>
             PROVE  ObjectsInv'
  OBVIOUS
<1> USE DEF ObjectsInv, Owned
<1>1. c \in sockets /\ c \notin sessions BY DEF OneOwner
<1>2. ObjectsTypeOK' BY <1>1 DEF ObjectsTypeOK
<1>3. SlotsAreOpen' BY <1>1 DEF SlotsAreOpen, ObjectsTypeOK
<1>4. OneOwner'
  <2> SUFFICES ASSUME NEW d \in Client
               PROVE  /\ Session(d) \in later' <=> d \in sessions \ apSessions
                      /\ Socket(d) \in later' <=> d \in sockets' \ sessions
    BY DEF OneOwner
  <2>1. Session(d) \in later' <=> Session(d) \in later BY Objects
  <2>2. Socket(d) \in later' <=> Socket(d) \in later /\ d # c BY Objects
  <2> QED BY <1>1, <2>1, <2>2 DEF OneOwner
<1>5. Fresh' BY DEF Fresh, ObjectsTypeOK
<1>6. Served' BY DEF Served, ObjectsTypeOK
<1> QED BY <1>2, <1>3, <1>4, <1>5, <1>6

LEMMA ObjectsStep == ObjectsInv /\ [WssNext]_wssVars => ObjectsInv'
<1> SUFFICES ASSUME ObjectsInv, [WssNext]_wssVars PROVE ObjectsInv' OBVIOUS
<1>1. CASE start BY <1>1, StartInv
<1>2. CASE Destroy BY <1>2, DestroyInv
<1>3. ASSUME NEW c \in Client, DeleteLater(c) PROVE ObjectsInv'
  BY <1>3, DeleteSessionInv, DeleteSocketInv DEF DeleteLater
<1>4. CASE UNCHANGED wssVars
  BY <1>4 DEF wssVars, ObjectsInv, ObjectsTypeOK, Owned, SlotsAreOpen, OneOwner, Fresh, Served
<1> QED
  BY <1>1, <1>2, <1>3, <1>4, ConnectInv, HandshakeFailsInv, NewConnectionInv,
     DisconnectInv DEF WssNext

LEMMA ObjectsAlways == WssSpec => []ObjectsInv
BY ObjectsStart, ObjectsStep, PTL DEF WssSpec

-------------------------------------------------------------------------------
(* The results. *)

\* Every variable keeps its type, for any number of connections; and no session
\* outlives its socket, nor stays listed when it is deleted.
THEOREM ObjectsTyped == WssSpec => []ObjectsTypeOK
BY ObjectsAlways, PTL DEF ObjectsInv

\* WSSserver.cpp:120: the list and the open connections never differ.
THEOREM SlotsStayOpen == WssSpec => []SlotsAreOpen
BY ObjectsAlways, PTL DEF ObjectsInv, Owned

\* What deleteLater() was called for is what nobody else will delete.
THEOREM OwnedOnce == WssSpec => []OneOwner
BY ObjectsAlways, PTL DEF ObjectsInv, Owned

\* The server implements the abstract pool, destructor and deferred deletes
\* included.
THEOREM ImplementsPool == WssSpec => PoolSpec
<1> DEFINE in == {c \in Client : conn[c] = "open"}
           out == {c \in Client : conn[c] = "closed"}
<1>1. WssInit => Pool!Init BY DEF WssInit, Pool!Init
<1>2. ObjectsInv /\ [WssNext]_wssVars => [Pool!Next]_(Pool!vars)
  <2> SUFFICES ASSUME ObjectsInv, [WssNext]_wssVars PROVE [Pool!Next]_(Pool!vars) OBVIOUS
  <2>1. CASE UNCHANGED conn BY <2>1 DEF Pool!vars
  <2>2. ASSUME NEW c \in Client, conn[c] = "none", conn' = [conn EXCEPT ![c] = "handshake"]
        PROVE  UNCHANGED Pool!vars
    BY <2>2 DEF Pool!vars, ObjectsInv, ObjectsTypeOK
  <2>3. ASSUME NEW c \in Client, conn[c] = "handshake", conn' = [conn EXCEPT ![c] = "closed"]
        PROVE  Pool!TurnAway(c)
    BY <2>3 DEF Pool!TurnAway, ObjectsInv, ObjectsTypeOK
  <2>4. ASSUME NEW c \in Client, conn[c] = "open", conn' = [conn EXCEPT ![c] = "closed"]
        PROVE  Pool!Leave(c)
    BY <2>4 DEF Pool!Leave, ObjectsInv, ObjectsTypeOK
  <2>5. ASSUME NEW c \in Client, onNewConnection(c), conn' = [conn EXCEPT ![c] = "open"], ~Full
        PROVE  Pool!Enter(c)
    <3>1. in = apSessions
      BY <2>5 DEF onNewConnection, ObjectsInv, ObjectsTypeOK, Owned, SlotsAreOpen, Served
    <3>2. Pool!Cardinality(in) = Cardinality(in) BY DEF Pool!Cardinality, Cardinality
    <3>3. Cardinality(in) < uiMaxConnections
      <4>1. IsFiniteSet(apSessions)
        BY WSSserverAssumption, FS_Subset DEF ObjectsInv, ObjectsTypeOK
      <4>2. Cardinality(apSessions) \in Nat BY <4>1, FS_CardinalityType
      <4>3. Cardinality(apSessions) < uiMaxConnections
        BY <2>5, <4>2, WSSserverAssumption DEF Full
      <4> HIDE DEF in
      <4> QED BY <3>1, <4>3
    <3> QED BY <2>5, <3>2, <3>3 DEF Pool!Enter, onNewConnection, ObjectsInv, ObjectsTypeOK
  <2>6. ASSUME NEW c \in Client, onNewConnection(c) PROVE [Pool!Next]_(Pool!vars)
    BY <2>3, <2>5, <2>6 DEF onNewConnection, Pool!Next
  <2>7. ASSUME NEW c \in Client, DeleteLater(c) PROVE [Pool!Next]_(Pool!vars)
    <3>1. CASE UNCHANGED conn BY <3>1, <2>1
    <3>2. CASE Socket(c) \in later /\ conn' = [conn EXCEPT ![c] = "closed"]
      <4>1. conn[c] \in {"open", "closed"}
        BY <3>2 DEF ObjectsInv, Owned, OneOwner, Fresh, ObjectsTypeOK
      <4>2. conn[c] = "closed" => UNCHANGED conn BY <3>2 DEF ObjectsInv, ObjectsTypeOK
      <4> QED BY <2>1, <2>4, <3>2, <4>1, <4>2 DEF Pool!Next
    <3> QED BY <2>7, <3>1, <3>2 DEF DeleteLater
  <2> QED
    BY <2>1, <2>2, <2>3, <2>4, <2>6, <2>7
    DEF WssNext, start, Destroy, Connect, HandshakeFails, Disconnect, wssVars, Pool!Next
<1> QED BY <1>1, <1>2, ObjectsAlways, PTL DEF WssSpec, PoolSpec, Pool!Spec

\* Objects, list and deferred deletes agree in every state.
THEOREM AlwaysOwned == WssSpec => []ObjectsOwned
BY ObjectsTyped, SlotsStayOpen, OwnedOnce, PTL DEF ObjectsOwned

-------------------------------------------------------------------------------
(* Configuration. *)

USE ConfigurationAssumption

-------------------------------------------------------------------------------
(* Types. *)

LEMMA Indexed ==
  /\ Len(Files) \in Nat /\ DOMAIN Files = 1 .. Len(Files)
  /\ \A i \in 1 .. Len(Files) : Files[i] \in File
BY DEF File

LEMMA DottedType ==
  ASSUME NEW uid \in Name \X Nat, NEW n \in Nat
  PROVE Dotted(uid, n) \in Name \X Nat
BY DEF Dotted

LEMMA SetType ==
  ASSUME TypeOK, NEW f \in bOK, NEW doc \in Doc, writing = NoFile, Set(f, doc)
  PROVE /\ disk' \in [File -> Doc] /\ whole' \subseteq File
        /\ oJdoc' \in [File -> Doc] /\ bOK' = bOK /\ bChanged' \subseteq bOK
        /\ writing' \in bChanged' \cup {NoFile}
        /\ faults' \in 0 .. MaxFaults
<1>1. CASE Save(f, doc)
  <2>1. faults' \in 0 .. MaxFaults BY <1>1 DEF Save, Fault, TypeOK
  <2> QED BY <1>1, <2>1 DEF Save, TypeOK
<1>2. CASE UNCHANGED <<diskVars, confVars, writing, faults>>
  BY <1>2 DEF TypeOK, diskVars, confVars
<1> QED BY <1>1, <1>2 DEF Set

LEMMA InitType == Init => TypeOK
<1> SUFFICES ASSUME Init PROVE TypeOK OBVIOUS
<1>1. disk \in [File -> Doc] BY ConfigurationAssumption DEF Init, Doc
<1>2. at \in 1 .. Len(Files) + 1 BY Indexed DEF Init
<1> QED BY <1>1, <1>2 DEF Init, TypeOK

LEMMA DownType == TypeOK /\ Down /\ faults' \in 0 .. MaxFaults => TypeOK'
BY Indexed DEF TypeOK, Down, diskVars

\* What loadModules does with one file.
LEMMA Naming ==
  ASSUME TypeOK, NEW f \in bOK, nameUID(f)
  PROVE \E n \in Nat : /\ Dots(oJdoc[f].sUID, n)
                       /\ [oJdoc[f] EXCEPT !.sUID = Dotted(@, n)] \in Doc
                       /\ Set(f, [oJdoc[f] EXCEPT !.sUID = Dotted(@, n)])
<1>1. PICK n \in 0 .. Cardinality(loaded) + 1 :
        Dots(oJdoc[f].sUID, n) /\ Set(f, [oJdoc[f] EXCEPT !.sUID = Dotted(@, n)])
  BY DEF nameUID
<1>2. n \in Nat BY <1>1
<1>3. oJdoc[f] \in Doc BY DEF TypeOK
<1>4. [oJdoc[f] EXCEPT !.sUID = Dotted(@, n)] \in Doc
  BY <1>2, <1>3, DottedType DEF Doc
<1> QED BY <1>1, <1>2, <1>4

LEMMA StepType == TypeOK /\ [Next]_vars => TypeOK'
<1> SUFFICES ASSUME TypeOK, [Next]_vars PROVE TypeOK' OBVIOUS
<1>1. CASE readModules
  <2>1. oJdoc' \in [File -> Doc] BY <1>1 DEF readModules, TypeOK, EmptyDoc, Doc
  <2>2. at' \in 1 .. Len(Files) + 1 BY <1>1, Indexed DEF readModules
  <2>3. writing' = NoFile BY <1>1 DEF readModules, TypeOK
  <2> QED BY <1>1, <2>1, <2>2, <2>3 DEF readModules, TypeOK, diskVars
<1>2. CASE Written
  <2>1. faults' \in 0 .. MaxFaults BY <1>2 DEF Written, Fault, TypeOK
  <2>2. writing \in File BY <1>2 DEF Written, TypeOK
  <2>3. disk' \in [File -> Doc] /\ whole' \subseteq File
    BY <1>2, <2>2 DEF Written, TypeOK
  <2> QED BY <1>2, <2>1, <2>3 DEF Written, TypeOK, runVars
<1>3. CASE LoadModule
  <2>1. at' \in 1 .. Len(Files) + 1 BY <1>3, Indexed DEF LoadModule, TypeOK
  <2>2. CASE Files[at] \in bOK /\ nameUID(Files[at])
             /\ loaded' = loaded \cup ({Files[at]} \cap Known)
    <3>1. PICK doc \in Doc : Set(Files[at], doc) BY <2>2, Naming
    <3> HIDE DEF Doc
    <3>2. loaded' \subseteq Known \cap bOK BY <2>2 DEF TypeOK
    <3>3. writing = NoFile /\ phase' = phase BY <1>3 DEF LoadModule
    <3> QED BY <2>1, <2>2, <3>1, <3>2, <3>3, SetType DEF TypeOK
  <2>3. CASE UNCHANGED <<diskVars, confVars, writing, loaded, faults>>
    BY <1>3, <2>1, <2>3 DEF LoadModule, TypeOK, diskVars, confVars
  <2> QED BY <1>3, <2>2, <2>3 DEF LoadModule
<1>4. CASE Loaded
  BY <1>4 DEF Loaded, TypeOK, diskVars, confVars
<1>5. CASE Quit BY <1>5, DownType DEF Quit, TypeOK
<1>6. CASE Crash
  <2>1. faults' \in 0 .. MaxFaults BY <1>6 DEF Crash, Fault, TypeOK
  <2> QED BY <1>6, <2>1, DownType DEF Crash
<1>7. ASSUME NEW f \in File, NEW b \in BOOLEAN, setActive(f, b) PROVE TypeOK'
  <2> DEFINE doc == [oJdoc[f] EXCEPT !.bActive = b]
  <2>1. f \in bOK /\ writing = NoFile BY <1>7 DEF setActive, TypeOK
  <2>2. doc \in Doc
    <3>1. oJdoc[f] \in Doc BY DEF TypeOK
    <3> QED BY <3>1 DEF Doc
  <2>3. Set(f, doc) BY <1>7 DEF setActive
  <2> HIDE DEF doc
  <2> QED BY <1>7, <2>1, <2>2, <2>3, SetType DEF setActive, TypeOK, runVars
<1>8. CASE UNCHANGED vars
  BY <1>8 DEF vars, TypeOK, diskVars, confVars, runVars
<1> QED BY <1>1, <1>2, <1>3, <1>4, <1>5, <1>6, <1>7, <1>8 DEF Next

\* Every variable keeps its type, for any files.
THEOREM TypeCorrect == Spec => []TypeOK
BY InitType, StepType, PTL DEF Spec

-------------------------------------------------------------------------------
(* UIDs. *)

\* The inductive invariant: the modules loaded come from files the loop has
\* passed, so that the file it is at has no module yet whose UID it would change.
Unique == /\ UniqueUIDs
          /\ phase = "loading" =>
               \A f \in loaded : \E i \in 1 .. at - 1 : i <= Len(Files) /\ f = Files[i]

LEMMA SetLeaves ==
  ASSUME TypeOK, NEW f \in File, NEW doc, Set(f, doc)
  PROVE oJdoc'[f] = doc /\ \A g \in File \ {f} : oJdoc'[g] = oJdoc[g]
BY DEF Set, Save, TypeOK, confVars

LEMMA StepUnique == TypeOK /\ Unique /\ [Next]_vars => Unique'
<1> SUFFICES ASSUME TypeOK, Unique, [Next]_vars PROVE Unique' OBVIOUS
<1>0. loaded \subseteq File BY DEF TypeOK
<1>1. CASE loaded' = {} BY <1>1 DEF Unique, UniqueUIDs
<1>2. CASE UNCHANGED <<loaded, oJdoc, at>> /\ (phase' = phase \/ phase' = "up")
  BY <1>2 DEF Unique, UniqueUIDs
<1>3. CASE LoadModule
  <2>0. /\ phase = "loading" /\ at \in 1 .. Len(Files) /\ at' = at + 1
        /\ Files[at] \in File /\ phase' = phase
    BY <1>3, Indexed DEF LoadModule, TypeOK
  <2>1. Files[at] \notin loaded
    <3> SUFFICES ASSUME Files[at] \in loaded PROVE FALSE OBVIOUS
    <3>1. PICK i \in 1 .. at - 1 : i <= Len(Files) /\ Files[at] = Files[i]
      BY <2>0 DEF Unique
    <3>2. i \in DOMAIN Files /\ at \in DOMAIN Files /\ i # at BY <2>0, <3>1, Indexed
    <3> QED BY <3>1, <3>2
  <2>2. \A f \in loaded : \E i \in 1 .. at' - 1 : i <= Len(Files) /\ f = Files[i]
    <3> SUFFICES ASSUME NEW f \in loaded
                 PROVE \E i \in 1 .. at' - 1 : i <= Len(Files) /\ f = Files[i]
      OBVIOUS
    <3>1. PICK i \in 1 .. at - 1 : i <= Len(Files) /\ f = Files[i] BY <2>0 DEF Unique
    <3> QED BY <2>0, <3>1
  <2>3. CASE UNCHANGED <<diskVars, confVars, writing, loaded, faults>>
    BY <2>2, <2>3 DEF Unique, UniqueUIDs, confVars
  <2>4. CASE Files[at] \in bOK /\ nameUID(Files[at])
             /\ loaded' = loaded \cup ({Files[at]} \cap Known)
    <3> DEFINE f == Files[at]
    <3>1. PICK n \in Nat : /\ Dots(oJdoc[f].sUID, n)
                           /\ [oJdoc[f] EXCEPT !.sUID = Dotted(@, n)] \in Doc
                           /\ Set(f, [oJdoc[f] EXCEPT !.sUID = Dotted(@, n)])
      BY <2>4, Naming
    <3>2. oJdoc'[f].sUID = Dotted(oJdoc[f].sUID, n)
      <4>1. oJdoc'[f] = [oJdoc[f] EXCEPT !.sUID = Dotted(@, n)]
        BY <2>0, <3>1, SetLeaves
      <4>2. oJdoc[f] \in Doc BY <2>0 DEF TypeOK
      <4> QED BY <4>1, <4>2 DEF Doc
    <3>3. \A g \in loaded : oJdoc'[g] = oJdoc[g]
      BY <1>0, <2>0, <2>1, <3>1, SetLeaves
    <3>4. \A g \in loaded : oJdoc'[g].sUID # oJdoc'[f].sUID
      BY <3>1, <3>2, <3>3 DEF Dots, Taken
    <3>5. loaded' \subseteq loaded \cup {f} BY <2>4
    <3>6. UniqueUIDs'
      <4> HIDE DEF f
      <4> SUFFICES ASSUME NEW g \in loaded', NEW h \in loaded',
                          oJdoc'[g].sUID = oJdoc'[h].sUID
                   PROVE g = h
        BY DEF UniqueUIDs
      <4>1. CASE g \in loaded /\ h \in loaded
        BY <3>3, <4>1 DEF Unique, UniqueUIDs
      <4>2. CASE g = f \/ h = f BY <3>4, <3>5, <4>2
      <4> QED BY <3>5, <4>1, <4>2
    <3>7. \A g \in loaded' : \E i \in 1 .. at' - 1 : i <= Len(Files) /\ g = Files[i]
      <4>1. at \in 1 .. at' - 1 /\ at <= Len(Files) BY <2>0
      <4> QED BY <2>2, <3>5, <4>1
    <3> QED BY <3>6, <3>7 DEF Unique
  <2> QED BY <1>3, <2>3, <2>4 DEF LoadModule
<1>4. ASSUME NEW f \in File, NEW b \in BOOLEAN, setActive(f, b) PROVE Unique'
  <2>1. \A g \in File : oJdoc'[g].sUID = oJdoc[g].sUID
    <3>1. oJdoc[f] \in Doc BY DEF TypeOK
    <3>2. [oJdoc[f] EXCEPT !.bActive = b].sUID = oJdoc[f].sUID BY <3>1 DEF Doc
    <3>3. Set(f, [oJdoc[f] EXCEPT !.bActive = b]) BY <1>4 DEF setActive
    <3> QED BY <3>2, <3>3, SetLeaves
  <2>2. loaded' = loaded /\ phase = "up" /\ phase' = "up" BY <1>4 DEF setActive, runVars
  <2> QED BY <1>0, <2>1, <2>2 DEF Unique, UniqueUIDs
<1> QED
  BY <1>1, <1>2, <1>3, <1>4 DEF Next, readModules, Written, Loaded, Quit, Crash, Down,
     vars, confVars, runVars

\* Whatever is in the files, and whatever fails, modules have different UIDs.
THEOREM UIDsUnique == Spec => []UniqueUIDs
<1>1. Init => Unique BY DEF Init, Unique, UniqueUIDs
<1>2. Unique => UniqueUIDs BY DEF Unique
<1> QED BY <1>1, <1>2, StepUnique, TypeCorrect, PTL DEF Spec

-------------------------------------------------------------------------------
(* What is in memory and what is on the disk. *)

LEMMA StepMarked == TypeOK /\ UnsavedIsMarked /\ [Next]_vars => UnsavedIsMarked'
<1> SUFFICES ASSUME TypeOK, UnsavedIsMarked, [Next]_vars PROVE UnsavedIsMarked' OBVIOUS
<1> USE DEF UnsavedIsMarked
<1>1. CASE readModules BY <1>1 DEF readModules, diskVars, TypeOK
<1>2. CASE Written BY <1>2 DEF Written, TypeOK
<1>3. ASSUME NEW f \in File, NEW doc, Set(f, doc) PROVE UnsavedIsMarked'
  <2>1. CASE Save(f, doc) BY <2>1, <1>3, SetLeaves DEF Save, TypeOK
  <2>2. CASE UNCHANGED <<diskVars, confVars, writing, faults>>
    BY <2>2 DEF diskVars, confVars
  <2> QED BY <1>3, <2>1, <2>2 DEF Set
<1>4. CASE UNCHANGED <<diskVars, confVars>> BY <1>4 DEF diskVars, confVars
<1>5. CASE Down BY <1>5 DEF Down
<1>6. CASE LoadModule
  <2>1. Files[at] \in File BY <1>6, Indexed DEF LoadModule, TypeOK
  <2> QED BY <1>3, <1>4, <1>6, <2>1 DEF LoadModule, nameUID
<1> QED
  BY <1>1, <1>2, <1>3, <1>4, <1>5, <1>6 DEF Next, Loaded, setActive, Quit, Crash, vars

\* A change that was not handed to its file is marked, so that the next setter
\* saves it.
THEOREM NothingForgotten == Spec => []UnsavedIsMarked
<1>1. Init => UnsavedIsMarked BY DEF Init, UnsavedIsMarked
<1> QED BY <1>1, StepMarked, TypeCorrect, PTL DEF Spec

LEMMA FilesFinite == IsFiniteSet(File)
<1> DEFINE at1 == [i \in 1 .. Len(Files) |-> Files[i]]
<1>1. at1 \in [1 .. Len(Files) -> File] BY Indexed
<1>2. \A f \in File : \E i \in 1 .. Len(Files) : at1[i] = f BY Indexed DEF File
<1>3. at1 \in Surjection(1 .. Len(Files), File) BY <1>1, <1>2 DEF Surjection
<1>4. IsFiniteSet(1 .. Len(Files)) BY Indexed, FS_Interval
<1> QED BY <1>3, <1>4, FS_Surjection

LEMMA CutType ==
  ASSUME NEW A \in SUBSET File
  PROVE  Cardinality(File \ A) \in Nat
<1>1. File \ A \in SUBSET File OBVIOUS
<1>2. IsFiniteSet(File \ A) BY <1>1, FilesFinite, FS_Subset
<1> QED BY <1>2, FS_CardinalityType

\* How many files do not parse after a step that cuts one or mends some.
LEMMA CutCount ==
  ASSUME NEW A \in SUBSET File, NEW B \in SUBSET File, NEW f
  PROVE  /\ Cardinality(File \ A) \in Nat
         /\ A \subseteq B => Cardinality(File \ B) <= Cardinality(File \ A)
         /\ B = A \ {f} => Cardinality(File \ B) <= Cardinality(File \ A) + 1
         /\ A \cup {f} = B /\ f \in File \ A => Cardinality(File \ B) = Cardinality(File \ A) - 1
<1>1. /\ IsFiniteSet(File \ A) /\ IsFiniteSet(File \ B)
      /\ Cardinality(File \ A) \in Nat /\ Cardinality(File \ B) \in Nat
  <2>1. File \ A \in SUBSET File /\ File \ B \in SUBSET File OBVIOUS
  <2> QED BY <2>1, FilesFinite, FS_Subset, FS_CardinalityType
<1>2. ASSUME A \subseteq B PROVE Cardinality(File \ B) <= Cardinality(File \ A)
  <2>1. File \ B \in SUBSET (File \ A) BY <1>2
  <2> QED BY <1>1, <2>1, FS_Subset
<1>3. ASSUME B = A \ {f} PROVE Cardinality(File \ B) <= Cardinality(File \ A) + 1
  <2>1. /\ IsFiniteSet((File \ A) \cup {f})
        /\ Cardinality((File \ A) \cup {f}) <= Cardinality(File \ A) + 1
    <3> DEFINE C == File \ A
    <3>1. IsFiniteSet(C) /\ Cardinality(C) \in Nat BY <1>1
    <3> HIDE DEF C
    <3>2. /\ IsFiniteSet(C \cup {f})
          /\ Cardinality(C \cup {f}) = IF f \in C THEN Cardinality(C) ELSE Cardinality(C) + 1
      BY <3>1, FS_AddElement
    <3>3. IsFiniteSet(C \cup {f}) /\ Cardinality(C \cup {f}) <= Cardinality(C) + 1
      BY <3>1, <3>2
    <3> QED BY <3>3 DEF C
  <2>2. File \ B \in SUBSET ((File \ A) \cup {f}) BY <1>3
  <2>3. Cardinality(File \ B) <= Cardinality((File \ A) \cup {f}) BY <2>1, <2>2, FS_Subset
  <2>4. Cardinality((File \ A) \cup {f}) \in Nat BY <2>1, FS_CardinalityType
  <2> QED BY <1>1, <2>1, <2>3, <2>4
<1>4. ASSUME A \cup {f} = B, f \in File \ A
      PROVE Cardinality(File \ B) = Cardinality(File \ A) - 1
  <2> DEFINE C == File \ A
  <2>1. File \ B = C \ {f} /\ f \in C BY <1>4
  <2>2. IsFiniteSet(C) BY <1>1
  <2> HIDE DEF C
  <2>3. Cardinality(C \ {f}) = Cardinality(C) - 1 BY <2>1, <2>2, FS_RemoveElement
  <2> QED BY <2>1, <2>3 DEF C
<1> QED BY <1>1, <1>2, <1>3, <1>4

\* While a file is being written it does not parse.
OpenIsCut == writing # NoFile => writing \notin whole

LEMMA SetCuts ==
  ASSUME TypeOK, CutByFaults, writing = NoFile, NEW f \in File, NEW doc, Set(f, doc)
  PROVE  CutByFaults' /\ OpenIsCut'
<1>0. /\ faults \in Nat /\ whole \in SUBSET File /\ f # NoFile
      /\ Cardinality(File \ whole) \in Nat
  <2>1. whole \in SUBSET File BY DEF TypeOK
  <2>2. Cardinality(File \ whole) \in Nat BY <2>1, CutType
  <2>3. faults \in Nat /\ f # NoFile BY ConfigurationAssumption DEF TypeOK
  <2> QED BY <2>1, <2>2, <2>3
<1>1. CASE Save(f, doc) /\ whole' = whole \ {f} /\ writing' = f /\ UNCHANGED faults
  <2>1. Cardinality(File \ whole') <= Cardinality(File \ whole) + 1
    BY <1>0, <1>1, CutCount
  <2>2. Cardinality(File \ whole') \in Nat
    <3>1. whole' \in SUBSET File BY <1>0, <1>1
    <3> QED BY <3>1, CutType
  <2> QED BY <1>0, <1>1, <2>1, <2>2 DEF CutByFaults, OpenIsCut
<1>2. CASE Save(f, doc) /\ Fault /\ UNCHANGED <<whole, writing>>
  BY <1>0, <1>2 DEF CutByFaults, OpenIsCut, Fault
<1>3. CASE UNCHANGED <<diskVars, confVars, writing, faults>>
  BY <1>3 DEF CutByFaults, OpenIsCut, diskVars
<1> QED BY <1>1, <1>2, <1>3 DEF Set, Save

LEMMA StepCut == TypeOK /\ CutByFaults /\ OpenIsCut /\ [Next]_vars => CutByFaults' /\ OpenIsCut'
<1> SUFFICES ASSUME TypeOK, CutByFaults, OpenIsCut, [Next]_vars
             PROVE  CutByFaults' /\ OpenIsCut'
  OBVIOUS
<1>0. /\ faults \in Nat /\ whole \in SUBSET File
      /\ Cardinality(File \ whole) \in Nat
  <2>1. whole \in SUBSET File BY DEF TypeOK
  <2>2. Cardinality(File \ whole) \in Nat BY <2>1, CutType
  <2>3. faults \in Nat BY ConfigurationAssumption DEF TypeOK
  <2> QED BY <2>1, <2>2, <2>3
<1>1. CASE UNCHANGED <<whole, writing, faults>>
  BY <1>1 DEF CutByFaults, OpenIsCut
<1>2. CASE Written
  <2>1. writing \in File \ whole /\ writing # NoFile /\ writing' = NoFile
    BY <1>2 DEF Written, TypeOK, OpenIsCut
  <2>2. CASE whole' = whole \cup {writing} /\ UNCHANGED faults
    <3>1. whole' \in SUBSET File BY <1>0, <2>1, <2>2
    <3>2. Cardinality(File \ whole') = Cardinality(File \ whole) - 1
      BY <1>0, <2>1, <2>2, <3>1, CutCount
    <3> QED BY <1>0, <2>1, <2>2, <3>2 DEF CutByFaults, OpenIsCut
  <2>3. CASE Fault /\ UNCHANGED whole
    BY <1>0, <2>1, <2>3 DEF CutByFaults, OpenIsCut, Fault
  <2> QED BY <1>2, <2>2, <2>3 DEF Written
<1>3. CASE LoadModule
  <2>1. Files[at] \in File /\ writing = NoFile BY <1>3, Indexed DEF LoadModule, TypeOK
  <2>2. CASE nameUID(Files[at])
    <3>1. PICK doc : Set(Files[at], doc) BY <2>2 DEF nameUID
    <3> QED BY <2>1, <3>1, SetCuts
  <2>3. CASE UNCHANGED <<diskVars, confVars, writing, loaded, faults>>
    BY <1>1, <2>3 DEF diskVars
  <2> QED BY <1>3, <2>2, <2>3 DEF LoadModule
<1>4. ASSUME NEW f \in File, NEW b \in BOOLEAN, setActive(f, b)
      PROVE CutByFaults' /\ OpenIsCut'
  BY <1>4, SetCuts DEF setActive
<1>5. CASE Quit BY <1>5, <1>0 DEF Quit, Down, diskVars, CutByFaults, OpenIsCut
<1>6. CASE Crash BY <1>6, <1>0 DEF Crash, Down, Fault, diskVars, CutByFaults, OpenIsCut
<1> QED
  BY <1>1, <1>2, <1>3, <1>4, <1>5, <1>6 DEF Next, readModules, Loaded, vars, diskVars

\* Each file that does not parse, and is not being written, took a fault of its
\* own.
THEOREM CutsAreFaults == Spec => []CutByFaults
<1>1. Init => CutByFaults /\ OpenIsCut
  <2> SUFFICES ASSUME Init PROVE CutByFaults /\ OpenIsCut OBVIOUS
  <2>1. File \ whole = {} BY DEF Init
  <2>2. Cardinality(File \ whole) = 0 BY <2>1, FS_EmptySet
  <2> QED BY <2>2 DEF Init, CutByFaults, OpenIsCut
<1> QED BY <1>1, StepCut, TypeCorrect, PTL DEF Spec

\* What is not on the disk is known not to be, and no file is cut but by a fault
\* of its own.
THEOREM AlwaysAgree == Spec => []FilesAgree
BY TypeCorrect, NothingForgotten, CutsAreFaults, PTL DEF FilesAgree

-------------------------------------------------------------------------------
(* What is on the disk is kept. *)

\* A setter writes to the file of its configuration only.
LEMMA SetLeavesFiles ==
  ASSUME TypeOK, NEW f \in File, NEW doc, Set(f, doc)
  PROVE disk' = disk /\ \A g \in File \ {f} : g \in whole' <=> g \in whole
BY DEF Set, Save, diskVars

\* A file that did not parse at the start is not written to in that run.
THEOREM DamagedStays == Spec => DamagedIsLeft
<1> DEFINE A == \A f \in File : phase # "down" /\ f \notin bOK =>
                  disk'[f] = disk[f] /\ (f \in whole' <=> f \in whole)
<1>1. TypeOK /\ [Next]_vars => A
  <2> SUFFICES ASSUME TypeOK, [Next]_vars, NEW f \in File, phase # "down", f \notin bOK
               PROVE disk'[f] = disk[f] /\ (f \in whole' <=> f \in whole)
    OBVIOUS
  <2>1. CASE readModules BY <2>1 DEF readModules
  <2>2. CASE Written
    <3>1. writing \in File /\ writing # f BY <2>2 DEF Written, TypeOK
    <3> QED BY <2>2, <3>1 DEF Written, TypeOK
  <2>3. CASE LoadModule
    <3>1. Files[at] \in File BY <2>3, Indexed DEF LoadModule, TypeOK
    <3>2. CASE Files[at] \in bOK /\ nameUID(Files[at])
      <4>1. PICK doc \in Doc : Set(Files[at], doc) BY <3>2, Naming
      <4> QED BY <3>1, <3>2, <4>1, SetLeavesFiles
    <3>3. CASE UNCHANGED diskVars BY <3>3 DEF diskVars
    <3> QED BY <2>3, <3>2, <3>3 DEF LoadModule
  <2>4. ASSUME NEW g \in File, NEW b \in BOOLEAN, setActive(g, b)
        PROVE disk'[f] = disk[f] /\ (f \in whole' <=> f \in whole)
    <3>1. g # f BY <2>4 DEF setActive, TypeOK
    <3>2. Set(g, [oJdoc[g] EXCEPT !.bActive = b]) BY <2>4 DEF setActive
    <3> QED BY <3>1, <3>2, SetLeavesFiles
  <2>5. CASE UNCHANGED diskVars BY <2>5 DEF diskVars
  <2> QED BY <2>1, <2>2, <2>3, <2>4, <2>5 DEF Next, Loaded, Quit, Crash, Down, vars
<1> QED BY <1>1, TypeCorrect, PTL DEF Spec, DamagedIsLeft

\* What NamesStay needs to be inductive.  Files the loop has not reached are as
\* they were read.  A module whose new UID could not be saved has taken it since
\* two of the loaded files agree on the disk, and these are not written to any
\* more; so while all parse, the names on the disk are not unique.
Passed == {Files[i] : i \in {i \in 1 .. at - 1 : i <= Len(Files)}}
Same(f) == disk[f].sUID = oJdoc[f].sUID
Settled == loaded \ {writing}
Untouched == \A f \in bOK \ Passed : f \in whole /\ disk[f] = oJdoc[f] /\ f # writing
Doubled == \E f, g \in Settled : f # g /\ disk[f].sUID = disk[g].sUID
Names == phase = "loading" =>
           /\ loaded \subseteq Passed
           /\ Untouched
           /\ Settled \subseteq whole /\ (\E f \in Settled : ~Same(f)) => Doubled

\* The file the loop is at comes next.
LEMMA NextFile ==
  ASSUME TypeOK, at <= Len(Files), at' = at + 1
  PROVE /\ Files[at] \in File /\ Files[at] \notin Passed
        /\ Passed' = Passed \cup {Files[at]}
<1>1. at \in 1 .. Len(Files) BY Indexed DEF TypeOK
<1>2. Files[at] \notin Passed
  <2> SUFFICES ASSUME NEW i \in 1 .. at - 1, i <= Len(Files), Files[i] = Files[at] PROVE FALSE
    BY DEF Passed
  <2>1. i \in DOMAIN Files /\ at \in DOMAIN Files /\ i # at BY <1>1, Indexed
  <2> QED BY <2>1
<1>3. Passed' = {Files[i] : i \in {i \in 1 .. at : i <= Len(Files)}}
  BY <1>1, Indexed DEF Passed
<1>4. {i \in 1 .. at : i <= Len(Files)} = {i \in 1 .. at - 1 : i <= Len(Files)} \cup {at}
  BY <1>1, Indexed
<1> QED BY <1>1, <1>2, <1>3, <1>4, Indexed DEF Passed

\* When a file has to be named anew, it agrees on the disk with a loaded one, or
\* two loaded ones agree already.
LEMMA NamedAnew ==
  ASSUME TypeOK, Names, phase = "loading", writing = NoFile, at <= Len(Files), Files[at] \in bOK,
         at' = at + 1, NEW n \in Nat, n # 0, Dots(oJdoc[Files[at]].sUID, n), loaded \subseteq whole
  PROVE Doubled \/ \E g \in loaded : g # Files[at] /\ disk[g].sUID = disk[Files[at]].sUID
<1> DEFINE f == Files[at]
<1>1. f \in File /\ f \notin Passed BY NextFile
<1>2. f \in whole /\ disk[f] = oJdoc[f] BY <1>1 DEF Names, Untouched
<1>3. oJdoc[f].sUID \in Name \X Nat BY <1>1 DEF TypeOK, Doc
<1>4. Dotted(oJdoc[f].sUID, 0) = oJdoc[f].sUID BY <1>3 DEF Dotted
<1>5. 0 \in 0 .. n - 1 OBVIOUS
<1>6. PICK g \in loaded : oJdoc[g].sUID = oJdoc[f].sUID BY <1>4, <1>5 DEF Dots, Taken
<1>7. g # f BY <1>1 DEF Names
<1>8. Settled = loaded BY ConfigurationAssumption DEF Settled, TypeOK
<1> HIDE DEF f
<1>9. CASE Same(g) BY <1>2, <1>6, <1>7, <1>9 DEF Same, f
<1>10. CASE ~Same(g) BY <1>8, <1>10 DEF Names
<1> QED BY <1>9, <1>10

LEMMA StepNames == TypeOK /\ Names /\ [Next]_vars => Names'
<1> SUFFICES ASSUME TypeOK, Names, [Next]_vars PROVE Names' OBVIOUS
<1>1. CASE readModules
  <2>1. Passed' = {} BY <1>1 DEF readModules, Passed
  <2>2. loaded' = {} /\ Settled' = {} BY <1>1 DEF readModules, Settled
  <2>3. Untouched' BY <1>1 DEF readModules, Untouched, diskVars, TypeOK
  <2> QED BY <2>1, <2>2, <2>3 DEF Names
<1>2. CASE Written
  <2> SUFFICES ASSUME phase' = "loading" PROVE Names' BY DEF Names
  <2>1. phase = "loading" BY <1>2 DEF Written, runVars
  <2>2. /\ writing \in File /\ writing' = NoFile /\ oJdoc' = oJdoc
        /\ disk'[writing] = oJdoc[writing]
        /\ \A g \in File \ {writing} : disk'[g] = disk[g] /\ (g \in whole' <=> g \in whole)
    BY <1>2 DEF Written, TypeOK
  <2>3. Passed' = Passed /\ loaded' = loaded /\ bOK' = bOK
    BY <1>2 DEF Written, runVars, Passed
  <2>4. loaded \subseteq File /\ bOK \subseteq File BY DEF TypeOK
  <2>5. Untouched'
    <3>1. \A f \in bOK \ Passed : f \in whole' /\ disk'[f] = oJdoc'[f] /\ f # writing'
      BY <2>1, <2>2, <2>4 DEF Names, Untouched
    <3> QED BY <2>3, <3>1 DEF Untouched
  <2>6. ASSUME Settled' \subseteq whole', NEW f \in Settled', ~Same(f)' PROVE Doubled'
    <3>1. f \in Settled /\ ~Same(f) BY <2>2, <2>3, <2>4, <2>6 DEF Settled, Same
    <3>2. Settled \subseteq whole /\ Settled \subseteq Settled'
      BY <2>2, <2>3, <2>4, <2>6 DEF Settled
    <3>3. Doubled BY <2>1, <3>1, <3>2 DEF Names
    <3>4. \A g \in Settled : disk'[g] = disk[g] BY <2>2, <2>4 DEF Settled
    <3> QED BY <3>2, <3>3, <3>4 DEF Doubled
  <2> QED BY <2>1, <2>3, <2>5, <2>6 DEF Names
<1>3. CASE LoadModule
  <2> DEFINE f == Files[at]
  <2>0. /\ phase = "loading" /\ at <= Len(Files) /\ at' = at + 1 /\ writing = NoFile
        /\ f \in File /\ f \notin Passed /\ Passed' = Passed \cup {f}
        /\ Settled = loaded
    BY <1>3, NextFile DEF LoadModule, Settled, TypeOK
  <2>00. loaded \subseteq Passed /\ Untouched /\ loaded \subseteq File /\ bOK \subseteq File
    BY <2>0 DEF Names, TypeOK
  <2>1. CASE f \notin bOK /\ UNCHANGED <<diskVars, confVars, writing, loaded, faults>>
    <3>1. Settled' = Settled /\ Untouched'
      BY <2>0, <2>00, <2>1 DEF Settled, Untouched, diskVars, confVars
    <3>2. Doubled' <=> Doubled BY <2>1, <3>1 DEF Doubled, diskVars
    <3>3. \A g \in Settled : Same(g)' <=> Same(g) BY <2>1 DEF Same, diskVars, confVars
    <3>4. whole' = whole /\ loaded' = loaded BY <2>1 DEF diskVars
    <3> QED BY <2>0, <2>00, <3>1, <3>2, <3>3, <3>4 DEF Names
  <2>2. CASE f \in bOK /\ nameUID(f) /\ loaded' = loaded \cup ({f} \cap Known)
    <3>1. PICK n \in Nat : /\ Dots(oJdoc[f].sUID, n)
                           /\ [oJdoc[f] EXCEPT !.sUID = Dotted(@, n)] \in Doc
                           /\ Set(f, [oJdoc[f] EXCEPT !.sUID = Dotted(@, n)])
      BY <2>2, Naming
    <3> DEFINE doc == [oJdoc[f] EXCEPT !.sUID = Dotted(@, n)]
    <3>2. /\ oJdoc'[f] = doc /\ \A g \in File \ {f} : oJdoc'[g] = oJdoc[g]
          /\ disk' = disk /\ \A g \in File \ {f} : g \in whole' <=> g \in whole
      BY <2>0, <3>1, SetLeaves, SetLeavesFiles
    <3>3. bOK' = bOK /\ writing' \in {NoFile, f}
      BY <2>0, <3>1 DEF Set, Save, confVars
    <3>4. loaded' \subseteq Passed' /\ loaded' \subseteq File BY <2>0, <2>00, <2>2
    <3>5. Untouched'
      <4> SUFFICES ASSUME NEW g \in bOK' \ Passed'
                   PROVE g \in whole' /\ disk'[g] = oJdoc'[g] /\ g # writing'
        BY DEF Untouched
      <4>1. g \in bOK \ Passed /\ g \in File \ {f} BY <2>0, <2>00, <3>3
      <4>2. g # NoFile BY <4>1
      <4> QED BY <2>00, <3>2, <3>3, <4>1, <4>2 DEF Untouched
    <3>6. ASSUME Settled' \subseteq whole', NEW g \in Settled', ~Same(g)' PROVE Doubled'
      <4>1. loaded \subseteq Settled'
        <5>1. f \notin loaded /\ NoFile \notin loaded BY <2>0, <2>00
        <5> QED BY <2>2, <3>3, <5>1 DEF Settled
      <4>2. loaded \subseteq whole BY <2>0, <2>00, <3>2, <3>6, <4>1
      <4>3. Doubled => Doubled'
        <5>1. Doubled => \E p, q \in loaded : p # q /\ disk[p].sUID = disk[q].sUID
          BY <2>0 DEF Doubled
        <5> QED BY <3>2, <4>1, <5>1 DEF Doubled
      <4>4. CASE g \in loaded
        <5>1. g \in File \ {f} BY <2>0, <2>00, <4>4
        <5>2. ~Same(g) BY <3>2, <3>6, <5>1 DEF Same
        <5> QED BY <2>0, <4>2, <4>3, <4>4, <5>2 DEF Names
      <4>5. CASE g = f
        <5>1. n # 0
          <6> SUFFICES ASSUME n = 0 PROVE FALSE OBVIOUS
          <6>1. oJdoc[f] \in Doc /\ oJdoc[f].sUID \in Name \X Nat BY <2>0 DEF TypeOK, Doc
          <6>2. Dotted(oJdoc[f].sUID, n) = oJdoc[f].sUID BY <6>1 DEF Dotted
          <6>3. doc.sUID = oJdoc[f].sUID BY <6>1, <6>2 DEF Doc
          <6>4. disk[f] = oJdoc[f] BY <2>0, <2>00, <2>2 DEF Untouched
          <6> HIDE DEF doc
          <6> QED BY <3>2, <3>6, <4>5, <6>3, <6>4 DEF Same
        <5>2. Doubled \/ \E h \in loaded : h # f /\ disk[h].sUID = disk[f].sUID
          BY <2>0, <2>2, <3>1, <4>2, <5>1, NamedAnew
        <5>3. ASSUME NEW h \in loaded, h # f, disk[h].sUID = disk[f].sUID PROVE Doubled'
          BY <3>2, <3>6, <4>1, <4>5, <5>3 DEF Doubled
        <5> QED BY <4>3, <5>2, <5>3
      <4>6. g \in loaded \cup {f} BY <2>2, <3>6 DEF Settled
      <4> QED BY <4>4, <4>5, <4>6
    <3> QED BY <3>4, <3>5, <3>6 DEF Names
  <2> QED BY <1>3, <2>1, <2>2 DEF LoadModule
<1>4. CASE phase' # "loading" BY <1>4 DEF Names
<1>5. CASE UNCHANGED vars
  <2> SUFFICES ASSUME phase' = "loading" PROVE Names' BY DEF Names
  <2>1. /\ UNCHANGED <<disk, whole, oJdoc, bOK, writing, phase, at, loaded>>
    BY <1>5 DEF vars, diskVars, confVars, runVars
  <2> QED BY <2>1 DEF Names, Passed, Untouched, Settled, Same, Doubled
<1> QED
  BY <1>1, <1>2, <1>3, <1>4, <1>5 DEF Next, Loaded, Quit, Crash, Down, setActive, runVars

\* Once the names on the disk are unique, no start renames a module again.
THEOREM NamesAreStable == Spec => NamesStay
<1> DEFINE A == phase = "loading" /\ UniqueOnDisk /\ writing = NoFile /\ Known \cap bOK \subseteq whole
                  => \A f \in Known : phase' # "down" => oJdoc'[f].sUID = oJdoc[f].sUID
<1>1. TypeOK /\ Names /\ [Next]_vars => A
  <2> SUFFICES ASSUME TypeOK, Names, [Next]_vars,
                      phase = "loading", UniqueOnDisk, writing = NoFile,
                      Known \cap bOK \subseteq whole,
                      NEW f \in Known, phase' # "down"
               PROVE oJdoc'[f].sUID = oJdoc[f].sUID
    OBVIOUS
  <2>1. CASE LoadModule
    <3> DEFINE g == Files[at]
    <3>1. g \in File /\ f \in File /\ at <= Len(Files) /\ at' = at + 1 /\ g \notin Passed
      BY <2>1, NextFile DEF LoadModule
    <3>2. CASE g \in bOK /\ nameUID(g)
      <4>1. PICK n \in Nat : /\ Dots(oJdoc[g].sUID, n)
                             /\ [oJdoc[g] EXCEPT !.sUID = Dotted(@, n)] \in Doc
                             /\ Set(g, [oJdoc[g] EXCEPT !.sUID = Dotted(@, n)])
        BY <3>2, Naming
      <4> DEFINE doc == [oJdoc[g] EXCEPT !.sUID = Dotted(@, n)]
      <4>2. oJdoc'[g] = doc /\ \A h \in File \ {g} : oJdoc'[h] = oJdoc[h]
        BY <3>1, <4>1, SetLeaves
      <4>3. CASE g = f
        <5>1. loaded \subseteq Known \cap whole BY DEF TypeOK
        <5>2. g \in Known \cap whole BY <3>2, <4>3
        <5>3. n = 0
          <6> SUFFICES ASSUME n # 0 PROVE FALSE OBVIOUS
          <6>1. Doubled \/ \E h \in loaded : h # g /\ disk[h].sUID = disk[g].sUID
            BY <3>1, <3>2, <4>1, <5>1, NamedAnew
          <6> QED BY <5>1, <5>2, <6>1 DEF Doubled, Settled, UniqueOnDisk
        <5>4. oJdoc[g] \in Doc /\ oJdoc[g].sUID \in Name \X Nat BY <3>1 DEF TypeOK, Doc
        <5>5. Dotted(oJdoc[g].sUID, n) = oJdoc[g].sUID BY <5>3, <5>4 DEF Dotted
        <5>6. doc.sUID = oJdoc[g].sUID BY <5>4, <5>5 DEF Doc
        <5> HIDE DEF doc
        <5> QED BY <4>2, <4>3, <5>6
      <4>4. CASE g # f BY <3>1, <4>2, <4>4
      <4> QED BY <4>3, <4>4
    <3>3. CASE UNCHANGED confVars BY <3>3 DEF confVars
    <3> QED BY <2>1, <3>2, <3>3 DEF LoadModule
  <2>2. CASE UNCHANGED oJdoc BY <2>2
  <2> QED
    BY <2>1, <2>2 DEF Next, readModules, Written, Loaded, Quit, Crash, Down, setActive,
       vars, confVars
<1>2. Init => Names BY DEF Init, Names
<1> QED BY <1>1, <1>2, StepNames, TypeCorrect, PTL DEF Spec, NamesStay

\* What is on the disk is not lost to a restart.
THEOREM DiskIsKept == Spec => FilesKept
BY DamagedStays, NamesAreStable, PTL DEF FilesKept
===============================================================================
