------------------------------ MODULE WWWSserver ------------------------------
(***************************************************************************)
(* The HTTPS server: WWWSserver (a QTcpServer), its WWWSsession objects,   *)
(* the WWWSrequest objects a session creates and the WWWSresponse objects  *)
(* that answer them.                                                       *)
(*                                                                         *)
(* The program is single threaded: a Qt event runs to its end, so one      *)
(* event is one action.  What one event may contain is another one's       *)
(* effect: QSslSocket::close() and flush() emit disconnected() on the spot *)
(* when nothing keeps the socket open, and then WWWSserver::onDisconnected *)
(* deletes the session, its requests and its responses while their methods *)
(* are still on the stack.  Otherwise the socket lingers and the signal    *)
(* comes as an event of its own.                                           *)
(***************************************************************************)
EXTENDS Integers, Sequences, FiniteSets

CONSTANTS Client,          \* the TCP connections the environment may make
          MaxConnections,  \* uiMaxConnections
          MaxPending,      \* QTcpServer::maxPendingConnections(), Qt's 30
          ListBW,          \* asListBW, as the clients whose address is on it
          ListIsBlack,     \* bListIsBlack
          MaxReads,        \* bound: requests the model lets one client send
          MaxChunks        \* bound: timer portions of a big response

ASSUME ServerAssumption == /\ IsFiniteSet(Client)
                           /\ MaxConnections \in Nat
                           /\ MaxPending \in Nat
                           /\ ListIsBlack \in BOOLEAN
                           /\ MaxReads \in Nat \ {0}
                           /\ MaxChunks \in Nat \ {0}

VARIABLES
  \* the process and the listening socket
  halted,     \* "no", or the place the process died at
  listening,  \* QTcpServer::isListening()
  asked,      \* what the owning module last asked of the server
  pending,    \* QTcpServer::pendingConnections: sockets, never taken out
  \* the connections
  link,       \* [Client -> state of the client's QSslSocket]
  apSessions, \* WWWSserver::apSessions
  sessions,   \* WWWSsession objects that exist
  pRequest,   \* [Client -> WWWSsession::pRequest, 0 is nullptr]
  reads,      \* [Client -> how many valid requests were read]
  ended,      \* [Client -> why the connection ended]
  \* the requests and responses, named <<client, number of the request>>
  requests,   \* WWWSrequest objects that exist
  responses,  \* WWWSresponse objects that exist
  timer,      \* responses whose iTimer runs
  kind,       \* [Exchange -> how the response sends its body]
  size,       \* [Exchange -> portions of the body, after the header]
  left,       \* [Exchange -> portions not read yet]
  wire        \* [Client -> parts handed to the socket, in order]

serverVars == <<halted, listening, asked, pending>>
linkVars   == <<link, apSessions, ended>>
objectVars == <<sessions, requests, responses, timer>>
dataVars   == <<pRequest, reads, kind, size, left, wire>>
vars == <<serverVars, linkVars, objectVars, dataVars>>

RequestNr == 1 .. MaxReads
Exchange  == Client \X RequestNr
Connected == {"plain", "encrypted", "closing"}

\* A response is one write ("small", at most iBufferSize), or a header and
\* then portions that a zero timer writes ("text" from sBody, "file").
Kind == {"none", "small", "text", "file"}

TypeOK ==
  /\ halted \in {"no", "listen", "touched", "deleted"}
  /\ listening \in BOOLEAN
  /\ asked \in {"nothing", "start", "stop"}
  /\ pending \subseteq Client
  /\ link \in [Client -> {"idle", "queued", "refused", "closed"} \cup Connected]
  /\ apSessions \subseteq Client
  /\ sessions \subseteq Client
  /\ pRequest \in [Client -> 0 .. MaxReads]
  /\ reads \in [Client -> 0 .. MaxReads]
  /\ ended \in [Client -> {"no", "answered", "null", "ignored", "error", "peer"}]
  /\ requests \subseteq Exchange
  /\ responses \subseteq Exchange
  /\ timer \subseteq Exchange
  /\ kind \in [Exchange -> Kind]
  /\ size \in [Exchange -> 0 .. MaxChunks]
  /\ left \in [Exchange -> 0 .. MaxChunks]
  /\ wire \in [Client -> Seq(RequestNr \X (0 .. MaxChunks))]

Init ==
  /\ halted = "no" /\ listening = FALSE /\ asked = "nothing" /\ pending = {}
  /\ link = [c \in Client |-> "idle"]
  /\ ended = [c \in Client |-> "no"]
  /\ apSessions = {} /\ sessions = {}
  /\ requests = {} /\ responses = {} /\ timer = {}
  /\ pRequest = [c \in Client |-> 0]
  /\ reads = [c \in Client |-> 0]
  /\ kind = [x \in Exchange |-> "none"]
  /\ size = [x \in Exchange |-> 0]
  /\ left = [x \in Exchange |-> 0]
  /\ wire = [c \in Client |-> <<>>]

-------------------------------------------------------------------------------
(* What a socket that goes away takes with it. *)

\* ~WWWSsession deletes pRequest, and ~QObject the older requests, which are
\* children of the session; with a request goes the response that is its
\* child, and with a response its timer.
Others(c, xs) == {x \in xs : x[1] # c}

\* Three ways to get onDisconnected wrong, for the mutation runs: the session
\* stays listed; the session object is not deleted; only the last request goes.
OnDisconnectedStaysListed(c) ==
  /\ link' = [link EXCEPT ![c] = "closed"]
  /\ sessions' = sessions \ {c}
  /\ requests' = Others(c, requests)
  /\ responses' = Others(c, responses)
  /\ timer' = Others(c, timer)
  /\ UNCHANGED apSessions

OnDisconnectedKeepsSession(c) ==
  /\ link' = [link EXCEPT ![c] = "closed"]
  /\ apSessions' = apSessions \ {c}
  /\ UNCHANGED <<sessions, requests, responses, timer>>

OnDisconnectedDropsLastOnly(c) ==
  /\ link' = [link EXCEPT ![c] = "closed"]
  /\ apSessions' = apSessions \ {c}
  /\ sessions' = sessions \ {c}
  /\ requests' = requests \ {<<c, pRequest[c]>>}
  /\ responses' = responses \ {<<c, pRequest[c]>>}
  /\ timer' = timer \ {<<c, pRequest[c]>>}

\* WWWSserver::onDisconnected: the slot is freed and the session deleted.
OnDisconnected(c) ==
  /\ link' = [link EXCEPT ![c] = "closed"]
  /\ apSessions' = apSessions \ {c}
  /\ sessions' = sessions \ {c}
  /\ requests' = Others(c, requests)
  /\ responses' = Others(c, responses)
  /\ timer' = Others(c, timer)

\* flush() and close() by the server while req, rsp and run are the objects
\* and timers of the moment: disconnected() comes at once, or the socket waits
\* for the peer to take what is buffered.
CloseSocket(c, req, rsp, run) ==
  \/ OnDisconnected(c)
  \/ /\ link' = [link EXCEPT ![c] = "closing"]
     /\ requests' = req /\ responses' = rsp /\ timer' = run
     /\ UNCHANGED <<apSessions, sessions>>

\* The first reason a connection ends for is the one that counts.
EndFor(c, why) ==
  ended' = IF ended[c] = "no" THEN [ended EXCEPT ![c] = why] ELSE ended

-------------------------------------------------------------------------------
(* Listening. *)

\* listen() fails on a port in use, and always when already listening; the
\* failure branch then reads pTCPserver->errorString() of a null pTCPserver.
Start ==
  /\ asked' = "start"
  /\ \/ /\ ~listening
        /\ listening' = TRUE
        /\ UNCHANGED halted
     \/ /\ halted' = "listen"
        /\ UNCHANGED listening
  /\ UNCHANGED <<pending, linkVars, objectVars, dataVars>>

\* stop() only writes a debug message.
Stop ==
  /\ asked' = "stop"
  /\ asked # "nothing"
  /\ UNCHANGED <<halted, listening, pending, linkVars, objectVars, dataVars>>

\* The owning module's die() deletes the server: the destructor calls close()
\* on the null pTCPserver.
Delete ==
  /\ asked = "stop"
  /\ halted' = "deleted"
  /\ UNCHANGED <<listening, asked, pending, linkVars, objectVars, dataVars>>

-------------------------------------------------------------------------------
(* Connections. *)

\* A client's connection reaches the kernel's backlog.
Arrive(c) ==
  /\ listening
  /\ link[c] = "idle"
  /\ link' = [link EXCEPT ![c] = "queued"]
  /\ UNCHANGED <<serverVars, apSessions, ended, objectVars, dataVars>>

\* Mutant: the limit taken as inclusive.
AcceptingOneMore == listening /\ Cardinality(pending) <= MaxPending

\* QTcpServer accepts only while its list of pending connections is short
\* enough; nobody calls nextPendingConnection(), which would shorten it.
Accepting == listening /\ Cardinality(pending) < MaxPending

\* A black list blocks the addresses on it, a white list all others.
isBlockedIP(c) == (c \in ListBW) = ListIsBlack

\* Mutant: the test of WWWSserver.cpp:77 with > for >=.
HasRoomForOneMore == Cardinality(apSessions) <= MaxConnections

HasRoom == Cardinality(apSessions) < MaxConnections

\* incomingConnection: turned away on a failed hand over, a blocked address or
\* a full house; otherwise a session and a place in both lists.
Refuse(c) ==
  /\ Accepting
  /\ link[c] = "queued"
  /\ link' = [link EXCEPT ![c] = "refused"]
  /\ UNCHANGED <<serverVars, apSessions, ended, objectVars, dataVars>>

Admit(c) ==
  /\ Accepting
  /\ link[c] = "queued"
  /\ ~isBlockedIP(c)
  /\ HasRoom
  /\ pending' = pending \cup {c}
  /\ apSessions' = apSessions \cup {c}
  /\ sessions' = sessions \cup {c}
  /\ link' = [link EXCEPT ![c] = "plain"]
  /\ UNCHANGED <<halted, listening, asked, ended, requests, responses, timer,
                 dataVars>>

\* The TLS handshake that WWWSsession::start began is through.
Encrypted(c) ==
  /\ link[c] = "plain"
  /\ link' = [link EXCEPT ![c] = "encrypted"]
  /\ UNCHANGED <<serverVars, apSessions, ended, objectVars, dataVars>>

\* The peer closes or resets, or takes the last bytes of a closing socket.
Disconnected(c) ==
  /\ link[c] \in Connected
  /\ OnDisconnected(c)
  /\ EndFor(c, "peer")
  /\ UNCHANGED <<serverVars, dataVars>>

-------------------------------------------------------------------------------
(* Requests.  onReadyRead makes a new WWWSrequest of what arrived, and the   *)
(* slots of the module that owns the server answer it before it returns.     *)

\* Not even a method and a target: the request is deleted, the socket closed.
NullRequest(c) ==
  /\ link[c] = "encrypted"
  /\ CloseSocket(c, requests, responses, timer)
  /\ EndFor(c, "null")
  /\ UNCHANGED <<serverVars, dataVars>>

\* A valid request replaces pRequest; the one before stays, a child of the
\* session.
NewRequest(c, r) ==
  /\ link[c] = "encrypted"
  /\ reads[c] < MaxReads
  /\ r = reads[c] + 1
  /\ reads' = [reads EXCEPT ![c] = r]
  /\ pRequest' = [pRequest EXCEPT ![c] = r]

\* WWWSserver::ignore aborts the socket: disconnected() comes at once.
Ignored(c, r) ==
  /\ NewRequest(c, r)
  /\ OnDisconnected(c)
  /\ EndFor(c, "ignored")
  /\ UNCHANGED <<serverVars, kind, size, left, wire>>

Write(c, r, part) == wire' = [wire EXCEPT ![c] = Append(@, <<r, part>>)]

\* startSending, small load: one write, flush(), close().  When flush() finds
\* the connection broken it disconnects, which deletes this response, whose
\* method goes on to emit a debug message: the process may die of that.
SendSmall(c, r) ==
  /\ NewRequest(c, r)
  /\ kind' = [kind EXCEPT ![<<c, r>>] = "small"]
  /\ Write(c, r, 0)
  /\ \/ /\ CloseSocket(c, requests \cup {<<c, r>>}, responses \cup {<<c, r>>}, timer)
        /\ EndFor(c, "answered")
        /\ UNCHANGED halted
     \/ /\ OnDisconnected(c)
        /\ EndFor(c, "peer")
        /\ halted' \in {"no", "touched"}
  /\ UNCHANGED <<listening, asked, pending, size, left>>

\* startSending, bigger upload: the header, then a timer of 0 ms.
SendBig(c, r, k, n) ==
  /\ NewRequest(c, r)
  /\ kind' = [kind EXCEPT ![<<c, r>>] = k]
  /\ size' = [size EXCEPT ![<<c, r>>] = n]
  /\ left' = [left EXCEPT ![<<c, r>>] = n]
  /\ Write(c, r, 0)
  /\ requests' = requests \cup {<<c, r>>}
  /\ responses' = responses \cup {<<c, r>>}
  /\ timer' = timer \cup {<<c, r>>}
  /\ UNCHANGED <<serverVars, linkVars, sessions>>

-------------------------------------------------------------------------------
(* WWWSresponse::timerEvent.  *)

\* Mutants: the last portion is taken for the end; the timer is killed but the
\* socket stays open.
SendingDoneEarly(c, r) ==
  /\ left[<<c, r>>] <= 1
  /\ CloseSocket(c, requests, responses, timer \ {<<c, r>>})
  /\ EndFor(c, "answered")
  /\ UNCHANGED <<serverVars, dataVars>>

SendingDoneKeepsOpen(c, r) ==
  /\ left[<<c, r>>] = 0
  /\ timer' = timer \ {<<c, r>>}
  /\ UNCHANGED <<serverVars, linkVars, sessions, requests, responses, dataVars>>

\* atEnd, or iCount beyond the text: kill the timer, flush and close.
SendingDone(c, r) ==
  /\ left[<<c, r>>] = 0
  /\ CloseSocket(c, requests, responses, timer \ {<<c, r>>})
  /\ EndFor(c, "answered")
  /\ UNCHANGED <<serverVars, dataVars>>

\* Mutant: the portion is cut at the count from before.
SendPortionAgain(c, r) ==
  /\ left[<<c, r>>] > 0
  /\ link[c] = "encrypted"
  /\ left' = [left EXCEPT ![<<c, r>>] = @ - 1]
  /\ Write(c, r, size[<<c, r>>] - left[<<c, r>>])
  /\ UNCHANGED <<serverVars, linkVars, objectVars, pRequest, reads, kind, size>>

\* One portion to an open socket.
SendPortion(c, r) ==
  /\ left[<<c, r>>] > 0
  /\ link[c] = "encrypted"
  /\ left' = [left EXCEPT ![<<c, r>>] = @ - 1]
  /\ Write(c, r, size[<<c, r>>] - left'[<<c, r>>])
  /\ UNCHANGED <<serverVars, linkVars, objectVars, pRequest, reads, kind, size>>

\* Mutant: no test for the end of the text.
TextToClosedForever(c, r) ==
  /\ link[c] = "closing"
  /\ kind[<<c, r>>] = "text"
  /\ left' = [left EXCEPT ![<<c, r>>] = @ - 1]
  /\ UNCHANGED <<serverVars, linkVars, objectVars, pRequest, reads, kind, size, wire>>

\* A closed socket takes nothing: text goes on counting all the same ...
TextToClosed(c, r) ==
  /\ left[<<c, r>>] > 0
  /\ link[c] = "closing"
  /\ kind[<<c, r>>] = "text"
  /\ left' = [left EXCEPT ![<<c, r>>] = @ - 1]
  /\ UNCHANGED <<serverVars, linkVars, objectVars, pRequest, reads, kind, size, wire>>

\* ... a file gives up, as it does when it cannot be read.
FileFails(c, r) ==
  /\ left[<<c, r>>] > 0
  /\ kind[<<c, r>>] = "file"
  /\ CloseSocket(c, requests, responses, timer \ {<<c, r>>})
  /\ EndFor(c, "error")
  /\ UNCHANGED <<serverVars, dataVars>>

TimerEvent(c, r) ==
  /\ <<c, r>> \in timer
  /\ \/ SendingDone(c, r)
     \/ SendPortion(c, r)
     \/ TextToClosed(c, r)
     \/ FileFails(c, r)

-------------------------------------------------------------------------------
ReadyRead(c) ==
  \/ NullRequest(c)
  \/ \E r \in RequestNr :
       \/ Ignored(c, r)
       \/ SendSmall(c, r)
       \/ \E k \in {"text", "file"}, n \in 1 .. MaxChunks : SendBig(c, r, k, n)

ClientEvent(c) ==
  \/ Arrive(c) \/ Refuse(c) \/ Admit(c)
  \/ Encrypted(c) \/ Disconnected(c) \/ ReadyRead(c)
  \/ \E r \in RequestNr : TimerEvent(c, r)

Running == halted = "no"

Next == /\ Running
        /\ \/ Start \/ Stop \/ Delete
           \/ \E c \in Client : ClientEvent(c)

\* The event loop turns: a timer that runs fires.
Timer(c, r) == Running /\ TimerEvent(c, r)
Fairness == \A c \in Client, r \in RequestNr : WF_vars(Timer(c, r))

\* A closing socket comes to its end: the client takes the buffered bytes, or
\* TCP gives it up.  That is the client's doing: the code has no timer for it.
Drain(c) == Running /\ link[c] = "closing" /\ Disconnected(c)

Spec == Init /\ [][Next]_vars
FairSpec == Spec /\ Fairness

-------------------------------------------------------------------------------
(* Properties. *)

\* No more sessions are held than uiMaxConnections allows (WWWSserver.cpp:77),
\* in whatever order connections come, end and are answered.
SessionCap == Cardinality(apSessions) <= MaxConnections

\* The list of sessions, the session objects and the open sockets agree: no
\* slot leaks when a socket ends and no listed session is a deleted object.
SlotsMatchSockets ==
  /\ apSessions = sessions
  /\ sessions = {c \in Client : link[c] \in Connected}

\* Everything a pending event still reaches exists: a running timer's response,
\* its request and the session whose socket timerEvent writes to, and the
\* request that ~WWWSsession is going to delete.
OwnersAlive ==
  /\ timer \subseteq responses
  /\ responses \subseteq requests
  /\ \A x \in requests : x[1] \in sessions
  /\ \A c \in sessions : pRequest[c] # 0 => <<c, pRequest[c]>> \in requests

\* In its whole life the server admits no more connections than the limit on
\* PENDING ones: addPendingConnection without nextPendingConnection
\* (WWWSserver.cpp:98) never gives a place back.
LifetimeBudget == Cardinality(pending) <= MaxPending /\ apSessions \subseteq pending

\* The parts of an answer that went to the socket, and the whole of one.
Parts(c, r) == {k \in 0 .. MaxChunks : \E i \in DOMAIN wire[c] : wire[c][i] = <<r, k>>}
WholeAnswer(c, r) == [i \in 1 .. size[<<c, r>>] + 1 |-> <<r, i - 1>>]

\* However the answers on one connection interleave, each one's own parts go
\* out in order, none twice, none skipped.
InOrder(c) ==
  \A i \in DOMAIN wire[c] :
    LET r == wire[c][i][1]
        k == wire[c][i][2]
    IN /\ k > 0 => \E j \in 1 .. i - 1 : wire[c][j] = <<r, k - 1>>
       /\ \A j \in 1 .. i - 1 : wire[c][j][1] = r => wire[c][j][2] < k
PartsInOrder == \A c \in Client : InOrder(c)

\* When the server closes a connection because an answer is complete, that
\* answer is whole on the wire; and with a single request read, the wire holds
\* nothing but it.
Whole(c) ==
  ended[c] = "answered" =>
    /\ \E r \in RequestNr : kind[<<c, r>>] # "none" /\ Parts(c, r) = 0 .. size[<<c, r>>]
    /\ reads[c] = 1 => wire[c] = WholeAnswer(c, 1)
AnswerWhole == \A c \in Client : Whole(c)

\* A valid question is answered to the end, whatever the client does: the socket
\* is closed, or closing (WWWSresponse.cpp:315, :429, :481).  The slot comes back
\* with it if the client drains the closing socket, and only then: one that
\* stops reading keeps it, since no write has a timeout.
AnswerFreesSlot ==
  \A c \in Client :
    /\ (reads[c] > 0) ~> (link[c] \in {"closing", "closed"} \/ ~Running)
    /\ WF_vars(Drain(c)) => ((reads[c] > 0) ~> (c \notin apSessions \/ ~Running))

\* startSending notes that a debug message after close() "causes seg-fault",
\* the response being gone; so no method of a deleted response is to go on.
NoUseOfDeleted == halted # "touched"

\* Connections come and go as in a pool of MaxConnections places.
Pool == INSTANCE ConnectionPool
          WITH Capacity <- MaxConnections,
               inside <- apSessions,
               left <- {c \in Client : link[c] \in {"refused", "closed"}}
PoolSpec == Pool!Spec

\* However connections come, talk, break and leave: no list, object, socket or
\* timer outlives what it belongs to, and no slot is lost or given twice.
NothingLeaks == TypeOK /\ SessionCap /\ SlotsMatchSockets /\ LifetimeBudget /\ OwnersAlive

\* What reaches the client is whole answers, each in order, although several are
\* sent at a time on one socket and the first that is complete closes it.
AnswersIntact == PartsInOrder /\ AnswerWhole
===============================================================================
