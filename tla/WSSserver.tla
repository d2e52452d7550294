------------------------------ MODULE WSSserver ------------------------------
(***************************************************************************)
(* The secure WebSocket server of the control module: WSSserver and        *)
(* WSSsession, on a QWebSocketServer that does the handshakes.             *)
(*                                                                         *)
(* A QWebSocket that was handed out belongs to its taker.  Objects are     *)
(* deleted in two ways: at once (delete, qDeleteAll, the children of a     *)
(* deleted parent), or by deleteLater() when the event loop comes to it.   *)
(* newConnection() is emitted for each handshake that ends, and is a call: *)
(* there is one pending connection when onNewConnection() runs, and none   *)
(* between the events.  stop() changes nothing, and messages are answered  *)
(* within their event, so that neither is an action here.                  *)
(***************************************************************************)
EXTENDS Naturals, FiniteSets

CONSTANTS Client,         \* the connections that may ever be made
          uiMaxConnections,
          ListBW,         \* the connections from addresses on asListBW
          bListIsBlack

ASSUME WSSserverAssumption ==
  /\ IsFiniteSet(Client)
  /\ uiMaxConnections \in Nat
  /\ ListBW \subseteq Client
  /\ bListIsBlack \in BOOLEAN

VARIABLES
  listening,  \* QWebSocketServer::isListening
  conn,       \* [Client -> how far the connection is]
  apSessions, \* WSSserver::apSessions
  sessions,   \* WSSsession objects there are
  sockets,    \* QWebSocket objects handed out and not deleted
  later,      \* objects deleteLater() was called for
  gone        \* the server is deleted

wssVars == <<listening, conn, apSessions, sessions, sockets, later, gone>>

\* The class of an object; an object is a class and the connection it is for.
Session(c) == <<"WSSsession", c>>
Socket(c)  == <<"QWebSocket", c>>

WssInit ==
  /\ listening = FALSE
  /\ conn = [c \in Client |-> "none"]
  /\ apSessions = {} /\ sessions = {} /\ sockets = {}
  /\ later = {}
  /\ gone = FALSE

-------------------------------------------------------------------------------
(* WSSserver *)

\* listen() fails when the port is taken, or when it listens already.
start ==
  /\ ~gone
  /\ listening' \in {listening, TRUE}
  /\ UNCHANGED <<conn, apSessions, sessions, sockets, later, gone>>

\* A connection is made, and QWebSocketServer begins the handshake.
Connect(c) ==
  /\ listening /\ conn[c] = "none"
  /\ conn' = [conn EXCEPT ![c] = "handshake"]
  /\ UNCHANGED <<listening, apSessions, sessions, sockets, later, gone>>

\* The handshake fails, takes too long, or the server is closed during it.
HandshakeFails(c) ==
  /\ conn[c] = "handshake"
  /\ conn' = [conn EXCEPT ![c] = "closed"]
  /\ UNCHANGED <<listening, apSessions, sessions, sockets, later, gone>>

isBlockedIP(c) == (c \in ListBW) = bListIsBlack

\* Mutant: > for >= at WSSserver.cpp:85.
FullTooLate == Cardinality(apSessions) > uiMaxConnections

Full == Cardinality(apSessions) >= uiMaxConnections

\* The handshake ends and onNewConnection() finds the socket pending.
onNewConnection(c) ==
  /\ listening /\ conn[c] = "handshake"
  /\ \/ /\ isBlockedIP(c) \/ Full
        /\ conn' = [conn EXCEPT ![c] = "closed"]
        /\ UNCHANGED <<apSessions, sessions, sockets>>
     \/ /\ ~isBlockedIP(c) /\ ~Full
        /\ conn' = [conn EXCEPT ![c] = "open"]
        /\ apSessions' = apSessions \cup {c}
        /\ sessions' = sessions \cup {c}
        /\ sockets' = sockets \cup {c}
  /\ UNCHANGED <<listening, later, gone>>

\* Mutants: the session is deleted at once; it stays listed.
LeavesAtOnce(c) ==
  /\ apSessions' = apSessions \ {c} /\ sessions' = sessions \ {c}
  /\ UNCHANGED later
LeavesListed(c) ==
  /\ later' = later \cup {Session(c)}
  /\ UNCHANGED <<apSessions, sessions>>

\* onSocketDisconnected(), which a session without a server does not reach.
onSocketDisconnected(c) ==
  /\ apSessions' = apSessions \ {c}
  /\ later' = later \cup {Session(c)}
  /\ UNCHANGED sessions

\* The socket emits disconnected().
Disconnect(c) ==
  /\ conn[c] = "open"
  /\ conn' = [conn EXCEPT ![c] = "closed"]
  /\ \/ c \in sessions /\ onSocketDisconnected(c)
     \/ c \notin sessions /\ UNCHANGED <<apSessions, sessions, later>>
  /\ UNCHANGED <<listening, sockets, gone>>

\* Mutant: the destructor of WSSsession forgets its socket.
SessionKeepsSocket(c) == /\ sessions' = sessions \ {c}
                         /\ later' = later \ {Session(c)}

\* WSSsession::~WSSsession.
DeleteSession(c) == /\ sessions' = sessions \ {c}
                    /\ later' = (later \ {Session(c)}) \cup {Socket(c)}

\* The event loop deletes what deleteLater() was called for.  A socket that is
\* deleted closes its connection; nobody is connected to its signals any more.
DeleteLater(c) ==
  \/ /\ Session(c) \in later
     /\ DeleteSession(c)
     /\ UNCHANGED <<listening, conn, apSessions, sockets, gone>>
  \/ /\ Socket(c) \in later
     /\ sockets' = sockets \ {c}
     /\ later' = later \ {Socket(c)}
     /\ conn' = [conn EXCEPT ![c] = "closed"]
     /\ UNCHANGED <<listening, apSessions, sessions, gone>>

\* Mutant: the destructor without qDeleteAll, and sessions without a parent.
DestroyLeavesSessions ==
  /\ ~gone /\ gone' = TRUE /\ listening' = FALSE /\ apSessions' = {}
  /\ UNCHANGED <<conn, sessions, sockets, later>>

\* WSSserver::~WSSserver: the list by qDeleteAll, then those that wait for their
\* end as the server's children.
Destroy ==
  /\ ~gone /\ gone' = TRUE
  /\ listening' = FALSE
  /\ apSessions' = {} /\ sessions' = {}
  /\ later' = {o \in later : o[1] = "QWebSocket"} \cup {Socket(c) : c \in sessions}
  /\ UNCHANGED <<conn, sockets>>

WssNext == \/ start \/ Destroy
        \/ \E c \in Client : \/ Connect(c) \/ HandshakeFails(c) \/ onNewConnection(c)
                             \/ Disconnect(c) \/ DeleteLater(c)

WssSpec == WssInit /\ [][WssNext]_wssVars

\* The event loop comes to each of its deferred deletes.
WssFairSpec == WssSpec /\ \A c \in Client : WF_wssVars(DeleteLater(c))

-------------------------------------------------------------------------------
(* Properties. *)

ObjectsTypeOK ==
  /\ listening \in BOOLEAN /\ gone \in BOOLEAN
  /\ conn \in [Client -> {"none", "handshake", "open", "closed"}]
  /\ sockets \subseteq Client /\ sessions \subseteq sockets /\ apSessions \subseteq sessions
  /\ later \subseteq {"WSSsession", "QWebSocket"} \X Client

\* The list holds the sessions of open connections and no others: a slot is free
\* as soon as its connection is gone, deferred deletes notwithstanding.
SlotsAreOpen ==
  apSessions = {c \in sessions : conn[c] = "open"}

\* Every object has one owner: a session not listed, and a socket that has lost
\* its session, waits for deleteLater(), and nothing that waits for it is
\* deleted in another way before, nor reaches an object that was.
OneOwner ==
  \A c \in Client : /\ Session(c) \in later <=> c \in sessions \ apSessions
                    /\ Socket(c) \in later <=> c \in sockets \ sessions

\* WSSserver.cpp:85: the server is a pool of uiMaxConnections places, in which
\* nobody gets a second one, and which deletions leave as they do peers.
Pool == INSTANCE ConnectionPool
          WITH Capacity <- uiMaxConnections,
               inside <- {c \in Client : conn[c] = "open"},
               left <- {c \in Client : conn[c] = "closed"}
PoolSpec == Pool!Spec

\* Each connection that ends has its objects deleted, also when the server is
\* deleted in between, or while it is open.
ObjectsGo ==
  \A c \in Client : (conn[c] = "closed" \/ gone) ~> c \notin sessions \cup sockets

\* Sessions, sockets, the list and deferred deletes agree on who owns what,
\* through handshakes that fail, peers that leave and the server's own end.
ObjectsOwned == ObjectsTypeOK /\ SlotsAreOpen /\ OneOwner
===============================================================================
