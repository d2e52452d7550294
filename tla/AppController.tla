----------------------------- MODULE AppController -----------------------------
(***************************************************************************)
(* AppController: loads one module object for each configuration, inits    *)
(* and starts them in order, carries messages between them on a bus, and   *)
(* stops and kills them in reverse order.  Composed with ModuleZeroConfig, *)
(* which the modules' start, stop and die reach by signals.                *)
(*                                                                         *)
(* A message is delivered by calls: a module's reply is delivered, with    *)
(* all that follows from it, before the loop that delivered the message    *)
(* goes on.  `bus` is the stack of these loops.  A step is one call of a   *)
(* module.  Where the code reads through a null pointer it crashes; where  *)
(* it uses a deleted object it crashes or goes on.                         *)
(***************************************************************************)
EXTENDS Integers, Sequences, SequencesExt

CONSTANTS Module, zcUID, Entry, ownerOf, Publishes, MaxStarts, MaxPublish,
          Order,      \* the UIDs, as the configurations are listed
          kindOf,     \* [Module -> class of the module]
          Certified,  \* modules with certificate and key
          Command,    \* commands on the bus, see ModuleBase::executeBusCommand
          Target,     \* the lists of targets of the messages sent
          Sender,     \* the senders they name
          MaxSends    \* bound: messages sent from outside

None == "none"   \* no sender, no respondCommand

ASSUME ControllerAssumption ==
  /\ zcUID \in Module /\ ownerOf \in [Entry -> Module] /\ Publishes \subseteq Entry
  /\ MaxStarts \in Nat /\ MaxPublish \in Nat
  /\ Order \in Seq(Module)
  /\ kindOf \in [Module -> {"AppControl", "Base", "HTTPS", "ZeroConf", "unknown"}]
  /\ \A m \in Module : kindOf[m] = "ZeroConf" <=> m = zcUID
  /\ Certified \subseteq Module
  /\ None \in Sender /\ None \notin Module
  /\ "quit" \in Command
  /\ Target \subseteq Seq(Module \cup Sender)
  /\ MaxSends \in Nat

VARIABLES
  phase,      \* of run() and quit(); "idle" is the event loop
  at,         \* index of the loop over asModules that goes on
  asModules,  \* UIDs, for order; whenever messages are delivered also the
              \* keys of hpModules
  isActive,   \* ModuleBase::isActive of each module; of no module, FALSE
  servers,    \* modules with pWWWSserver (and pWebSocketServer, if AppControl)
  listening,  \* modules whose servers listen
  bus,        \* pending deliveries, the innermost last
  sends,      \* messages sent
  zc, up, life

ZC == INSTANCE ModuleZeroConfig

zcVars == <<zc, up, life>>
moduleVars == <<servers, listening>>
loopVars == <<phase, at, asModules>>
vars == <<loopVars, isActive, moduleVars, bus, sends, zcVars>>

Known == {m \in Module : kindOf[m] # "unknown"}
Serving(m) == kindOf[m] \in {"AppControl", "HTTPS"}

-------------------------------------------------------------------------------
(* Calls of one module.  Crash is the end of the process within the call. *)

Crash == /\ phase' = "crashed"
         /\ UNCHANGED <<at, asModules, isActive, moduleVars, bus, sends, zcVars>>

\* init() makes a server: ModuleAppControl's needs a certificate.
HasServers(m) == \/ kindOf[m] = "HTTPS"
                 \/ kindOf[m] = "AppControl" /\ m \in Certified
init(m) == servers' = IF HasServers(m) THEN servers \cup {m} ELSE servers

ZCStart(m) == IF m = zcUID THEN ZC!SelfStart ELSE ZC!ModuleStart(m)
ZCStop(m)  == IF m = zcUID THEN ZC!SelfStop ELSE ZC!ModuleStop(m)
ZCDie(m)   == IF m = zcUID THEN ZC!SelfDie ELSE ZC!ModuleDie(m)

\* start() of an active module.  Only ModuleAppControl survives that a server
\* does not listen, and only if it is the WebSocket server.
start(m) ==
  /\ ZCStart(m)
  /\ init(m)
  /\ \/ m \notin servers' /\ UNCHANGED listening
     \/ m \in servers' \ listening /\ listening' = listening \cup {m}
     \/ m \in servers' \ listening /\ kindOf[m] = "AppControl" /\ UNCHANGED listening

\* WWWSserver::start reads pTCPserver when listen() fails, as it does when the
\* server listens already.
startCrashes(m) == HasServers(m) \/ m \in servers

\* WWWSserver::stop and WSSserver::stop do not stop listening.
stop(m) == ZCStop(m) /\ UNCHANGED moduleVars
stopCrashes(m) == \/ Serving(m) /\ m \notin servers
                  \/ m = zcUID /\ ZC!Stop(zc).bTouched

\* ~WWWSserver reads pTCPserver, which is always null.
die(m) == ~Serving(m) /\ ZCDie(m) /\ UNCHANGED moduleVars
dieCrashes(m) == \/ Serving(m)
                 \/ m = zcUID /\ ZC!Stop(zc).bTouched

-------------------------------------------------------------------------------
(* run(). *)

Loop(name) == phase = name /\ at \in DOMAIN asModules

\* Mutant: configurations of unknown class are loaded as well.
LoadModuleOfAnyClass ==
  /\ phase = "loading" /\ at <= Len(Order)
  /\ \/ asModules' = Append(asModules, Order[at])
     \/ Order[at] # zcUID /\ UNCHANGED asModules
  /\ at' = at + 1
  /\ UNCHANGED <<phase, isActive, moduleVars, bus, sends, zcVars>>

\* A configuration is skipped if its class is unknown or its file does not read;
\* the one of the ZeroConf module is taken to read.
LoadModule ==
  /\ phase = "loading" /\ at <= Len(Order)
  /\ \/ Order[at] \in Known /\ asModules' = Append(asModules, Order[at])
     \/ Order[at] # zcUID /\ UNCHANGED asModules
  /\ at' = at + 1
  /\ UNCHANGED <<phase, isActive, moduleVars, bus, sends, zcVars>>

InitModule ==
  /\ Loop("initializing")
  /\ init(asModules[at])
  /\ at' = at + 1
  /\ UNCHANGED <<phase, asModules, isActive, listening, bus, sends, zcVars>>

StartModule ==
  /\ Loop("starting")
  /\ LET m == asModules[at]
     IN IF isActive[m] THEN start(m) ELSE UNCHANGED <<moduleVars, zcVars>>
  /\ at' = at + 1
  /\ UNCHANGED <<phase, asModules, isActive, bus, sends>>

StartModuleCrashes ==
  /\ Loop("starting")
  /\ isActive[asModules[at]] /\ startCrashes(asModules[at])
  /\ Crash

\* The end of a loop over asModules, and of the one over the configurations.
NextPhase ==
  /\ \/ phase = "loading" /\ at > Len(Order) /\ phase' = "initializing"
     \/ phase = "initializing" /\ at > Len(asModules) /\ phase' = "starting"
     \/ phase = "starting" /\ at > Len(asModules) /\ phase' = "idle"
  /\ at' = 1
  /\ UNCHANGED <<asModules, isActive, moduleVars, bus, sends, zcVars>>

-------------------------------------------------------------------------------
(* quit(). *)

Quit == phase' = "stopping" /\ at' = Len(asModules)

\* The timer of an unregistered version.
TimerQuits ==
  /\ phase = "idle" /\ bus = <<>>
  /\ Quit
  /\ UNCHANGED <<asModules, isActive, moduleVars, bus, sends, zcVars>>

\* Mutant: inactive modules are not stopped.
StopModuleIfActive ==
  /\ Loop("stopping")
  /\ IF isActive[asModules[at]] THEN stop(asModules[at]) ELSE UNCHANGED <<moduleVars, zcVars>>
  /\ at' = at - 1
  /\ UNCHANGED <<phase, asModules, isActive, bus, sends>>

\* Mutant: the loop counts up.
StopModuleUpwards ==
  /\ Loop("stopping")
  /\ stop(asModules[at])
  /\ at' = at + 1
  /\ UNCHANGED <<phase, asModules, isActive, bus, sends>>

StopModule ==
  /\ Loop("stopping")
  /\ (Serving(asModules[at]) => asModules[at] \in servers)
  /\ stop(asModules[at])
  /\ at' = at - 1
  /\ UNCHANGED <<phase, asModules, isActive, bus, sends>>

StopModuleCrashes == Loop("stopping") /\ stopCrashes(asModules[at]) /\ Crash

KillModule ==
  /\ Loop("killing")
  /\ die(asModules[at])
  /\ at' = at - 1
  /\ UNCHANGED <<phase, asModules, isActive, bus, sends>>

KillModuleCrashes == Loop("killing") /\ dieCrashes(asModules[at]) /\ Crash

Stopped ==
  /\ phase = "stopping" /\ at = 0
  /\ phase' = "killing" /\ at' = Len(asModules)
  /\ UNCHANGED <<asModules, isActive, moduleVars, bus, sends, zcVars>>

\* killModules() ends, and done() is emitted.
Killed ==
  /\ phase = "killing" /\ at = 0
  /\ phase' = "done"
  /\ asModules' = <<>>
  /\ UNCHANGED <<at, isActive, moduleVars, bus, sends, zcVars>>

\* What deleteLater() asked for, back in the event loop.
DeferredDelete ==
  /\ phase = "done" /\ bus = <<>>
  /\ ZC!Destroyed
  /\ UNCHANGED <<loopVars, isActive, moduleVars, bus, sends>>

-------------------------------------------------------------------------------
(* The bus. *)

Message == [command : Command \cup {"pong"}, sender : Sender \cup Module,
            respond : Command \cup {None}, value : BOOLEAN]
Frame == [asUIDs : Seq(Module \cup Sender), i : Nat \ {0}, msg : Message]
NewFrame(asUIDs, msg) == [asUIDs |-> asUIDs, i |-> 1, msg |-> msg]

Send ==
  /\ phase = "idle" /\ bus = <<>> /\ sends < MaxSends
  /\ \E asUIDs \in Target, msg \in Message :
       msg.sender \in Sender /\ bus' = <<NewFrame(asUIDs, msg)>>
  /\ sends' = sends + 1
  /\ UNCHANGED <<loopVars, isActive, moduleVars, zcVars>>

\* exposedBusCommands.
Exposed(m) == {"active", "listCommands", "ping", "pong", "setActive", "start", "stop"}
              \cup (IF kindOf[m] = "AppControl" THEN {"quit"} ELSE {})

\* Mutant: inactive modules listen.
HearsWhenInactive(m, msg) == msg.sender # None /\ msg.command \in Exposed(m)

\* onBusMessage goes on to executeBusCommand.
Hears(m, msg) == /\ isActive[m]
                 /\ msg.sender # None
                 /\ msg.command \in Exposed(m)

\* Mutant: the reply asks for a reply.
ReplyAsksBack(m, msg) ==
  LET command == IF msg.respond # None THEN msg.respond
                 ELSE IF msg.command = "ping" THEN "pong" ELSE None
  IN IF command = None THEN <<>>
     ELSE <<NewFrame(<<msg.sender>>, [command |-> command, sender |-> m,
                                     respond |-> msg.respond,
                                     value |-> msg.command = "active" /\ isActive'[m]])>>

\* What executeBusCommand answers: as asked to, "pong" to a "ping" that does not
\* ask, nothing to "pong" or "quit".  Of the values only that of "active" is one
\* that "setActive" understands.
Reply(m, msg) ==
  LET command == CASE msg.command \in {"pong", "quit"} -> None
                   [] msg.command = "ping" /\ msg.respond = None -> "pong"
                   [] OTHER -> msg.respond
  IN IF command = None THEN <<>>
     ELSE <<NewFrame(<<msg.sender>>, [command |-> command, sender |-> m, respond |-> None,
                                     value |-> msg.command = "active" /\ isActive'[m]])>>

SetActive(m, b) ==
  /\ isActive' = [isActive EXCEPT ![m] = b]
  /\ IF m = zcUID /\ ~b THEN ZC!Deactivate ELSE UNCHANGED zcVars

Execute(m, msg) ==
  CASE msg.command = "quit" ->
         Quit /\ UNCHANGED <<isActive, moduleVars, zcVars>>
    [] msg.command = "start" ->
         start(m) /\ UNCHANGED <<phase, at, isActive>>
    [] msg.command = "stop" ->
         (Serving(m) => m \in servers) /\ stop(m) /\ UNCHANGED <<phase, at, isActive>>
    [] msg.command = "setActive" ->
         SetActive(m, msg.value) /\ UNCHANGED <<phase, at, moduleVars>>
    [] OTHER -> UNCHANGED <<phase, at, isActive, moduleVars, zcVars>>

Top == bus[Len(bus)]
Targets == IF Top.asUIDs = <<>> THEN asModules ELSE Top.asUIDs
Delivering == phase \in {"idle", "done"} /\ bus # <<>>
\* Mutant: targets nobody has are not passed over.
AdvancedIfKnown == IF Targets[Top.i] \in Range(asModules)
                   THEN [bus EXCEPT ![Len(bus)].i = @ + 1] ELSE bus

Advanced == [bus EXCEPT ![Len(bus)].i = @ + 1]

\* A loop of AppController::onBusMessage calls the next module.
Deliver ==
  /\ Delivering /\ Top.i <= Len(Targets)
  /\ LET m == Targets[Top.i]
     IN IF m \in Range(asModules) /\ Hears(m, Top.msg)
        THEN Execute(m, Top.msg) /\ bus' = Advanced \o Reply(m, Top.msg)
        ELSE bus' = Advanced /\ UNCHANGED <<phase, at, isActive, moduleVars, zcVars>>
  /\ UNCHANGED <<asModules, sends>>

DeliverCrashes ==
  /\ Delivering /\ Top.i <= Len(Targets)
  /\ LET m == Targets[Top.i]
     IN /\ m \in Range(asModules) /\ Hears(m, Top.msg)
        /\ \/ Top.msg.command = "start" /\ startCrashes(m)
           \/ Top.msg.command = "stop" /\ stopCrashes(m)
  /\ Crash

\* Its end.
Return ==
  /\ Delivering /\ Top.i > Len(Targets)
  /\ bus' = Front(bus)
  /\ UNCHANGED <<loopVars, isActive, moduleVars, sends, zcVars>>

-------------------------------------------------------------------------------
Init ==
  /\ phase = "loading" /\ at = 1
  /\ asModules = <<>>
  /\ isActive \in [Module -> BOOLEAN] /\ \A m \in Module \ Known : ~isActive[m]
  /\ servers = {} /\ listening = {}
  /\ bus = <<>> /\ sends = 0
  /\ ZC!Init /\ zc.bActive = isActive[zcUID]

Program == \/ LoadModule \/ InitModule \/ StartModule \/ StartModuleCrashes
           \/ NextPhase
           \/ StopModule \/ StopModuleCrashes \/ KillModule \/ KillModuleCrashes
           \/ Stopped \/ Killed \/ DeferredDelete
           \/ Deliver \/ DeliverCrashes \/ Return

Next == Program \/ TimerQuits \/ Send

Spec == Init /\ [][Next]_vars

\* One thread runs; what it has begun goes on.
FairSpec == Spec /\ WF_vars(Program)

-------------------------------------------------------------------------------
(* Properties. *)

TypeOK ==
  /\ phase \in {"loading", "initializing", "starting", "idle",
                "stopping", "killing", "done", "crashed"}
  /\ at \in Nat
  /\ asModules \in Seq(Known)
  /\ isActive \in [Module -> BOOLEAN]
  /\ servers \subseteq Module /\ listening \subseteq servers
  /\ bus \in Seq(Frame)
  /\ sends \in 0 .. MaxSends

\* The comment at ModuleBase.cpp:154, "module can be set inactive but not
\* active": an inactive module stays so, whatever is sent and replied.
InactiveStaysInactive ==
  [][\A m \in Module : ~isActive[m] => ~isActive'[m]]_vars

\* Before die() is called of any module, stop() was called of each since its last
\* start(), of those that were made inactive meanwhile as well.  It is the calls
\* that are in order: servers listen on after stop() (see stop), and die() of one
\* module publishes services once more (ModuleZeroConfig's Remove).
StoppedBeforeKilled == phase = "killing" => up = {}

\* Replies do not ask for replies: a message, its reply and a "pong" to that is
\* the deepest the calls go.
BusDepth == Len(bus) <= 3

\* What a message sets off comes to an end.
BusQuiet == bus # <<>> ~> bus = <<>> \/ phase = "crashed"

\* quit() gets to signal done(), upon which the application exits (main.cpp:26).
QuitSignalsDone == phase = "stopping" ~> phase = "done"

\* quit() ends, the process with it in one way or the other: no order of modules
\* and no message that is still being delivered keeps its loops from their ends.
QuitEnds == phase = "stopping" ~> phase \in {"done", "crashed"}

\* The application ends in order, with what is said on the bus within bounds:
\* no module is told to die before all were told to stop.
EndsInOrder == TypeOK /\ BusDepth /\ StoppedBeforeKilled

\* Neither a conversation on the bus nor the end of the application goes on for
\* ever, also when the one sets off the other.
EverythingEnds == BusQuiet /\ QuitEnds
===============================================================================
