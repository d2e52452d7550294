-------------------------- MODULE AppController_proofs --------------------------
(***************************************************************************)
(* Proofs about AppController: that it uses the ZeroConf module as         *)
(* ModuleZeroConfig allows, so that what is proved there holds here, and   *)
(* what its loops and its bus promise.                                     *)
(***************************************************************************)
EXTENDS AppController, SequenceTheorems, TLAPS

\* The loops call known modules only.
Loaded == asModules \in Seq(Known)

\* What the actions that call no module, and Crash, leave alone.
LEMMA RangeOf ==
  ASSUME NEW S, NEW s \in Seq(S)
  PROVE \A x \in Range(s) : x \in S
BY DEF Range

LEMMA InitLoaded == Init => Loaded
BY DEF Init, Loaded

LEMMA StepLoaded == Loaded /\ [Next]_vars => Loaded'
<1> SUFFICES ASSUME Loaded, [Next]_vars PROVE Loaded' OBVIOUS
<1> USE DEF Loaded
<1>1. CASE LoadModule
  <2>1. CASE Order[at] \in Known /\ asModules' = Append(asModules, Order[at])
    BY <2>1
  <2>2. CASE asModules' = asModules BY <2>2
  <2> QED BY <1>1, <2>1, <2>2 DEF LoadModule
<1>2. CASE Killed BY <1>2 DEF Killed
<1>3. CASE UNCHANGED asModules BY <1>3
<1> QED
  BY <1>1, <1>2, <1>3 DEF Next, Program, InitModule, StartModule, StartModuleCrashes,
     NextPhase, StopModule, StopModuleCrashes, KillModule, KillModuleCrashes, Stopped,
     DeferredDelete, Deliver, DeliverCrashes, Return, TimerQuits, Send, Crash,
     vars, loopVars

LEMMA AlwaysLoaded == Spec => []Loaded
BY InitLoaded, StepLoaded, PTL DEF Spec

-------------------------------------------------------------------------------
(* Composition with ModuleZeroConfig. *)

\* A call of a module is a step of the ZeroConf module.
LEMMA CallsAreSteps ==
  ASSUME NEW m \in Module
  PROVE ZCStart(m) \/ ZCStop(m) \/ ZCDie(m) => ZC!Next
BY DEF ZCStart, ZCStop, ZCDie, ZC!Next

LEMMA ExecuteStep ==
  ASSUME NEW m \in Module, NEW msg, Execute(m, msg)
  PROVE ZC!Next \/ UNCHANGED zcVars
<1>1. CASE msg.command = "start"
  <2>1. start(m) BY <1>1 DEF Execute
  <2> QED BY <2>1, CallsAreSteps DEF start
<1>2. CASE msg.command = "stop"
  <2>1. stop(m) BY <1>2 DEF Execute
  <2> QED BY <2>1, CallsAreSteps DEF stop
<1>3. CASE msg.command = "setActive"
  <2>1. SetActive(m, msg.value) BY <1>3 DEF Execute
  <2> QED BY <2>1 DEF SetActive, ZC!Next
<1>4. CASE msg.command = "quit" BY <1>4 DEF Execute
<1>5. CASE msg.command \notin {"quit", "start", "stop", "setActive"}
  BY <1>5 DEF Execute
<1> QED BY <1>1, <1>2, <1>3, <1>4, <1>5

\* Every step of the program is one of the ZeroConf module or none.
LEMMA StepZC == Loaded /\ [Next]_vars => [ZC!Next]_zcVars
<1> SUFFICES ASSUME Loaded, [Next]_vars PROVE ZC!Next \/ UNCHANGED zcVars OBVIOUS
<1> DEFINE m == asModules[at]
<1>0. at \in DOMAIN asModules => m \in Module
  BY DEF Loaded, Known
<1> HIDE DEF m
<1>1. CASE StartModule
  <2>1. CASE start(m) BY <1>0, <1>1, <2>1, CallsAreSteps DEF start, StartModule, Loop
  <2>2. CASE UNCHANGED zcVars BY <2>2
  <2> QED BY <1>1, <2>1, <2>2 DEF StartModule, m
<1>2. CASE StopModule
  BY <1>0, <1>2, CallsAreSteps DEF StopModule, Loop, stop, m
<1>3. CASE KillModule
  BY <1>0, <1>3, CallsAreSteps DEF KillModule, Loop, die, m
<1>4. CASE DeferredDelete
  BY <1>4 DEF DeferredDelete, ZC!Next
<1>5. CASE Deliver
  <2> DEFINE t == Targets[Top.i]
  <2>1. CASE t \in Range(asModules) /\ Execute(t, Top.msg)
    <3>1. t \in Module BY <2>1, RangeOf DEF Loaded, Known
    <3> QED BY <2>1, <3>1, ExecuteStep
  <2>2. CASE UNCHANGED zcVars BY <2>2
  <2> QED BY <1>5, <2>1, <2>2 DEF Deliver
<1>6. CASE UNCHANGED zcVars BY <1>6
<1> QED
  BY <1>1, <1>2, <1>3, <1>4, <1>5, <1>6 DEF Next, Program, LoadModule, InitModule,
     StartModuleCrashes, NextPhase, StopModuleCrashes, KillModuleCrashes, Stopped,
     Killed, DeliverCrashes, Return, TimerQuits, Send, Crash, vars

\* The program uses its ZeroConf module in ways ModuleZeroConfig allows: modules
\* start, stop and die one at a time, and it is destroyed after it died.
THEOREM Composes == Spec => ZC!Spec
<1>1. Init => ZC!Init BY DEF Init
<1>3. Loaded /\ [Next]_vars => [ZC!Next]_(ZC!vars)
  BY StepZC DEF zcVars, ZC!vars
<1> QED BY <1>1, <1>3, AlwaysLoaded, PTL DEF Spec, ZC!Spec

-------------------------------------------------------------------------------
(* The bus. *)

\* The comment at ModuleBase.cpp:154: no message makes an inactive module active.
THEOREM InactiveForGood == Spec => InactiveStaysInactive
<1>1. [Next]_vars => [\A m \in Module : ~isActive[m] => ~isActive'[m]]_vars
  <2> SUFFICES ASSUME Next PROVE \A m \in Module : ~isActive[m] => ~isActive'[m]
    OBVIOUS
  <2>1. CASE Deliver
    <3> DEFINE t == Targets[Top.i]
    <3>1. CASE Hears(t, Top.msg) /\ Execute(t, Top.msg)
      <4>1. CASE Top.msg.command = "setActive"
        <5>1. isActive' = [isActive EXCEPT ![t] = Top.msg.value]
          BY <3>1, <4>1 DEF Execute, SetActive
        <5>2. isActive[t] BY <3>1 DEF Hears
        <5> QED BY <5>1, <5>2
      <4>2. CASE Top.msg.command # "setActive"
        BY <3>1, <4>2 DEF Execute
      <4> QED BY <4>1, <4>2
    <3>2. CASE UNCHANGED isActive BY <3>2
    <3> QED BY <2>1, <3>1, <3>2 DEF Deliver
  <2>2. CASE UNCHANGED isActive BY <2>2
  <2> QED
    BY <2>1, <2>2 DEF Next, Program, LoadModule, InitModule, StartModule,
       StartModuleCrashes, NextPhase, StopModule, StopModuleCrashes, KillModule,
       KillModuleCrashes, Stopped, Killed, DeferredDelete, DeliverCrashes, Return,
       TimerQuits, Send, Crash
<1> QED BY <1>1, PTL DEF Spec, InactiveStaysInactive

-------------------------------------------------------------------------------
(* Types. *)

LEMMA ReplyType ==
  ASSUME NEW m \in Module, NEW msg \in Message, isActive' \in [Module -> BOOLEAN]
  PROVE Reply(m, msg) \in Seq(Frame) /\ Len(Reply(m, msg)) <= 1
<1> DEFINE command == CASE msg.command \in {"pong", "quit"} -> None
                        [] msg.command = "ping" /\ msg.respond = None -> "pong"
                        [] OTHER -> msg.respond
           answer == [command |-> command, sender |-> m, respond |-> None,
                      value |-> msg.command = "active" /\ isActive'[m]]
<1>1. command \in Command \cup {"pong", None}
  BY DEF Message
<1>2. command # None => answer \in Message
  BY <1>1 DEF Message
<1>3. <<msg.sender>> \in Seq(Module \cup Sender)
  BY DEF Message
<1> HIDE DEF command, answer
<1>4. command # None => NewFrame(<<msg.sender>>, answer) \in Frame
  BY <1>2, <1>3 DEF NewFrame, Frame
<1>5. Reply(m, msg) = IF command = None THEN <<>> ELSE <<NewFrame(<<msg.sender>>, answer)>>
  BY DEF Reply, command, answer
<1> HIDE DEF Reply
<1> QED BY <1>4, <1>5

LEMMA AdvancedType ==
  ASSUME bus \in Seq(Frame), bus # <<>>
  PROVE /\ Top \in Frame
        /\ Advanced \in Seq(Frame) /\ Len(Advanced) = Len(bus)
        /\ \A k \in 1 .. Len(bus) : Advanced[k].msg = bus[k].msg
<1> DEFINE next == [Top EXCEPT !.i = Top.i + 1]
<1>1. Len(bus) \in 1 .. Len(bus) /\ Top \in Frame BY DEF Top
<1>2. next \in Frame /\ next.msg = Top.msg
  <2>1. Top.i \in Nat \ {0} BY <1>1 DEF Frame
  <2>2. Top.i + 1 \in Nat \ {0} BY <2>1
  <2> HIDE DEF Top
  <2> QED BY <1>1, <2>2 DEF Frame
<1>3. Advanced = [bus EXCEPT ![Len(bus)] = next]
  BY DEF Advanced, Top
<1> HIDE DEF next
<1> QED BY <1>1, <1>2, <1>3 DEF Top

\* The variables a call of a module changes keep their types.
ModulesType == servers \subseteq Module /\ listening \subseteq servers

LEMMA startType ==
  ASSUME ModulesType, NEW m \in Module, start(m) PROVE ModulesType'
BY DEF ModulesType, start, init

LEMMA stopType ==
  ASSUME ModulesType, NEW m, stop(m) PROVE ModulesType'
BY DEF ModulesType, stop, moduleVars

LEMMA ExecuteType ==
  ASSUME TypeOK, NEW m \in Range(asModules), NEW msg \in Message, Execute(m, msg)
  PROVE /\ ModulesType' /\ isActive' \in [Module -> BOOLEAN]
        /\ phase' \in {phase, "stopping"} /\ at' \in Nat
<1>1. m \in Module BY RangeOf DEF TypeOK, Known
<1>2. ModulesType BY DEF TypeOK, ModulesType
<1>3. CASE msg.command = "start"
  <2>1. start(m) /\ UNCHANGED <<phase, at, isActive>> BY <1>3 DEF Execute
  <2> QED BY <1>1, <1>2, <2>1, startType DEF TypeOK
<1>4. CASE msg.command = "stop"
  <2>1. stop(m) /\ UNCHANGED <<phase, at, isActive>> BY <1>4 DEF Execute
  <2> QED BY <1>2, <2>1, stopType DEF TypeOK
<1>5. CASE msg.command = "setActive"
  <2>1. /\ isActive' = [isActive EXCEPT ![m] = msg.value]
        /\ UNCHANGED <<phase, at, moduleVars>>
    BY <1>5 DEF Execute, SetActive
  <2> QED BY <1>1, <1>2, <2>1 DEF TypeOK, Message, ModulesType, moduleVars
<1>6. CASE msg.command = "quit"
  <2>1. Quit /\ UNCHANGED <<isActive, moduleVars, zcVars>> BY <1>6 DEF Execute
  <2> QED BY <1>2, <2>1 DEF TypeOK, Quit, ModulesType, moduleVars
<1>7. CASE msg.command \notin {"quit", "start", "stop", "setActive"}
  <2>1. UNCHANGED <<phase, at, isActive, moduleVars, zcVars>> BY <1>7 DEF Execute
  <2> QED BY <1>2, <2>1 DEF TypeOK, ModulesType, moduleVars
<1> QED BY <1>3, <1>4, <1>5, <1>6, <1>7

\* A delivery either reaches nobody or is executed and replied to.
LEMMA DeliverCases ==
  ASSUME TypeOK, Deliver
  PROVE /\ UNCHANGED <<asModules, sends>> /\ phase \in {"idle", "done"}
        /\ bus # <<>> /\ Top \in Frame /\ Top.msg \in Message
        /\ \/ /\ bus' = Advanced
              /\ UNCHANGED <<phase, at, isActive, moduleVars, zcVars>>
           \/ \E m \in Range(asModules) :
                /\ Execute(m, Top.msg)
                /\ bus' = Advanced \o Reply(m, Top.msg)
<1>1. bus # <<>> /\ phase \in {"idle", "done"} BY DEF Deliver, Delivering
<1>2. Top \in Frame BY <1>1, AdvancedType DEF TypeOK
<1>3. Top.msg \in Message BY <1>2 DEF Frame
<1> QED BY <1>1, <1>2, <1>3 DEF Deliver

LEMMA InitType == Init => TypeOK
BY ControllerAssumption DEF Init, TypeOK, Known

LEMMA StepType == TypeOK /\ [Next]_vars => TypeOK'
<1> SUFFICES ASSUME TypeOK, [Next]_vars PROVE TypeOK' OBVIOUS
<1>0. Loaded' BY StepLoaded DEF TypeOK, Loaded
<1>1. at \in DOMAIN asModules => asModules[at] \in Module /\ at \in Nat \ {0}
  BY DEF TypeOK, Known
<1>2. ModulesType BY DEF TypeOK, ModulesType
<1>3. CASE LoadModule
  BY <1>0, <1>3 DEF LoadModule, TypeOK, Loaded, moduleVars
<1>4. CASE InitModule
  BY <1>0, <1>1, <1>4 DEF InitModule, Loop, TypeOK, Loaded, init
<1>5. CASE StartModule
  <2>1. ModulesType'
    BY <1>1, <1>2, <1>5, startType DEF StartModule, Loop, ModulesType, moduleVars
  <2> QED BY <1>0, <1>1, <1>5, <2>1 DEF StartModule, Loop, TypeOK, Loaded, ModulesType
<1>6. CASE StopModule
  BY <1>0, <1>1, <1>6 DEF StopModule, Loop, TypeOK, Loaded, stop, moduleVars
<1>7. CASE KillModule
  BY <1>0, <1>1, <1>7 DEF KillModule, Loop, TypeOK, Loaded, die, moduleVars
<1>8. CASE Deliver
  <2>1. CASE bus' = Advanced /\ UNCHANGED <<phase, at, isActive, moduleVars, zcVars>>
    BY <1>0, <1>8, <2>1, DeliverCases, AdvancedType DEF TypeOK, Loaded, moduleVars
  <2>2. ASSUME NEW m \in Range(asModules), Execute(m, Top.msg),
               bus' = Advanced \o Reply(m, Top.msg)
        PROVE TypeOK'
    <3>1. m \in Module BY RangeOf DEF TypeOK, Known
    <3>2. Top.msg \in Message BY <1>8, DeliverCases
    <3>3. /\ ModulesType' /\ isActive' \in [Module -> BOOLEAN]
          /\ phase' \in {phase, "stopping"} /\ at' \in Nat
      BY <2>2, <3>2, ExecuteType
    <3>4. Reply(m, Top.msg) \in Seq(Frame) BY <3>1, <3>2, <3>3, ReplyType
    <3>5. bus' \in Seq(Frame) BY <1>8, <2>2, <3>4, AdvancedType, DeliverCases DEF TypeOK
    <3> QED BY <1>0, <1>8, <3>3, <3>5, DeliverCases DEF TypeOK, Loaded, ModulesType
  <2> QED BY <1>8, <2>1, <2>2, DeliverCases
<1>9. CASE Return
  <2>1. bus' \in Seq(Frame) BY <1>9 DEF Return, Delivering, TypeOK, Front
  <2> QED BY <1>9, <2>1 DEF Return, TypeOK, loopVars, moduleVars
<1>10. CASE Send
  <2>1. bus' \in Seq(Frame)
    <3>1. PICK asUIDs \in Target, msg \in Message : bus' = <<NewFrame(asUIDs, msg)>>
      BY <1>10 DEF Send
    <3>2. NewFrame(asUIDs, msg) \in Frame
      BY <3>1, ControllerAssumption DEF NewFrame, Frame
    <3> QED BY <3>1, <3>2
  <2> QED BY <1>10, <2>1, ControllerAssumption DEF Send, TypeOK, loopVars, moduleVars
<1>11. CASE StartModuleCrashes \/ StopModuleCrashes \/ KillModuleCrashes \/ DeliverCrashes
  BY <1>11 DEF StartModuleCrashes, StopModuleCrashes, KillModuleCrashes, DeliverCrashes,
     Crash, TypeOK, moduleVars
<1>12. CASE NextPhase
  <2>1. phase' \in {"initializing", "starting", "idle"} /\ at' = 1
    BY <1>12 DEF NextPhase
  <2> QED BY <1>12, <2>1 DEF NextPhase, TypeOK, moduleVars
<1>13. CASE TimerQuits
  BY <1>13 DEF TimerQuits, Quit, TypeOK, moduleVars
<1>14. CASE Stopped
  BY <1>14 DEF Stopped, TypeOK, moduleVars
<1>15. CASE Killed
  BY <1>0, <1>15 DEF Killed, TypeOK, Loaded, moduleVars
<1>16. CASE DeferredDelete
  BY <1>16 DEF DeferredDelete, TypeOK, loopVars, moduleVars
<1>17. CASE UNCHANGED vars
  BY <1>17 DEF vars, loopVars, moduleVars, TypeOK
<1> QED BY <1>3, <1>4, <1>5, <1>6, <1>7, <1>8, <1>9, <1>10, <1>11, <1>12, <1>13, <1>14,
           <1>15, <1>16, <1>17
        DEF Next, Program

\* Every variable keeps its type, for any modules and messages.
THEOREM TypeCorrect == Spec => []TypeOK
BY InitType, StepType, PTL DEF Spec

-------------------------------------------------------------------------------
(* How deep deliveries go. *)

\* A reply asks for no reply, and a reply to a reply is "pong".
Depth == /\ Len(bus) <= 3
         /\ Len(bus) >= 2 => bus[2].msg.respond = None
         /\ Len(bus) >= 3 => bus[3].msg.command = "pong"

\* What a module replies to the message that is delivered.
LEMMA ReplyIs ==
  ASSUME NEW m, NEW msg
  PROVE /\ Len(Reply(m, msg)) <= 1
        /\ Reply(m, msg) # <<>> =>
             /\ Reply(m, msg)[1].msg.respond = None
             /\ msg.command # "pong"
             /\ msg.respond = None => Reply(m, msg)[1].msg.command = "pong"
BY DEF Reply, NewFrame

LEMMA Emptiness ==
  ASSUME NEW S, NEW s \in Seq(S) PROVE Len(s) \in Nat /\ (s # <<>> => Len(s) # 0)
OBVIOUS

LEMMA UpToThree ==
  ASSUME NEW n \in Nat \ {0}, n <= 3 PROVE n = 1 \/ n = 2 \/ n = 3
OBVIOUS

LEMMA JustOne ==
  ASSUME NEW n \in Nat, n # 0, n <= 1 PROVE n = 1
OBVIOUS

\* A reply is delivered on top of the deliveries under way.
LEMMA Pushed ==
  ASSUME NEW S, NEW s \in Seq(S), NEW t \in Seq(S), Len(t) = 1
  PROVE /\ Len(s \o t) = Len(s) + 1
        /\ (s \o t)[Len(s) + 1] = t[1]
        /\ \A k \in 1 .. Len(s) : (s \o t)[k] = s[k]
<1>1. Len(s) \in Nat BY Emptiness
<1>2. /\ Len(s \o t) = Len(s) + Len(t)
      /\ \A k \in 1 .. Len(s) + Len(t) :
           (s \o t)[k] = IF k <= Len(s) THEN s[k] ELSE t[k - Len(s)]
  BY ConcatProperties
<1>3. PICK n \in Nat : n = Len(s) BY <1>1
<1>4. /\ n + 1 \in 1 .. n + 1 /\ ~(n + 1 <= n) /\ (n + 1) - n = 1
      /\ \A k \in 1 .. n : k \in 1 .. n + 1 /\ k <= n
  OBVIOUS
<1> QED BY <1>2, <1>3, <1>4

\* A delivery that ends leaves the ones below it.
LEMMA Popped ==
  ASSUME NEW S, NEW s \in Seq(S), s # <<>>
  PROVE /\ Len(s) \in Nat \ {0} /\ Len(SubSeq(s, 1, Len(s) - 1)) = Len(s) - 1
        /\ \A k \in 1 .. Len(s) - 1 : SubSeq(s, 1, Len(s) - 1)[k] = s[k]
<1>1. Len(s) \in Nat \ {0} BY Emptiness
<1>2. \A i \in 1 .. Len(s) - 1 : s[i] \in S BY <1>1
<1>3. PICK n \in Nat : n = Len(s) - 1 BY <1>1
<1>4. /\ Len(SubSeq(s, 1, n)) = IF 1 <= n THEN n - 1 + 1 ELSE 0
      /\ \A i \in 1 .. n - 1 + 1 : SubSeq(s, 1, n)[i] = s[1 + i - 1]
  BY <1>2, <1>3, SubSeqProperties
<1>5. Len(SubSeq(s, 1, n)) = n BY <1>4
<1>6. \A i \in 1 .. n : SubSeq(s, 1, n)[i] = s[i]
  <2> SUFFICES ASSUME NEW i \in 1 .. n PROVE SubSeq(s, 1, n)[i] = s[i] OBVIOUS
  <2>1. i \in 1 .. n - 1 + 1 /\ 1 + i - 1 = i OBVIOUS
  <2> QED BY <1>4, <2>1
<1> QED BY <1>1, <1>3, <1>5, <1>6

LEMMA StepDepth == TypeOK /\ Depth /\ [Next]_vars => Depth'
<1> SUFFICES ASSUME TypeOK, Depth, [Next]_vars PROVE Depth' OBVIOUS
<1>0. bus \in Seq(Frame) BY DEF TypeOK
<1>1. CASE Deliver
  <2>1. /\ bus # <<>> /\ Advanced \in Seq(Frame) /\ Len(Advanced) = Len(bus)
        /\ \A k \in 1 .. Len(bus) : Advanced[k].msg = bus[k].msg
    BY <1>0, <1>1, DeliverCases, AdvancedType
  <2>2. CASE bus' = Advanced
    BY <1>0, <2>1, <2>2 DEF Depth
  <2>3. ASSUME NEW m \in Range(asModules), Execute(m, Top.msg),
               bus' = Advanced \o Reply(m, Top.msg)
        PROVE Depth'
    <3>1. m \in Module BY RangeOf DEF TypeOK, Known
    <3>2. Reply(m, Top.msg) \in Seq(Frame)
      BY <1>1, <2>3, <3>1, DeliverCases, ExecuteType, ReplyType
    <3>3. CASE Reply(m, Top.msg) = <<>>
      <4>1. bus' = Advanced BY <2>1, <2>3, <3>3
      <4> QED BY <1>0, <2>1, <4>1 DEF Depth
    <3>4. CASE Reply(m, Top.msg) # <<>>
      <4>1. PICK r \in Seq(Frame) : r = Reply(m, Top.msg) BY <3>2
      <4>2. /\ Len(r) <= 1 /\ r[1].msg.respond = None
            /\ Top.msg.command # "pong"
            /\ Top.msg.respond = None => r[1].msg.command = "pong"
        BY <3>4, <4>1, ReplyIs
      <4>3. Len(r) = 1
        <5>1. Len(r) \in Nat /\ Len(r) # 0 BY <3>4, <4>1, Emptiness
        <5> QED BY <4>2, <5>1, JustOne
      <4>4. /\ Len(bus') = Len(bus) + 1
            /\ bus'[Len(bus) + 1] = r[1]
            /\ \A k \in 1 .. Len(bus) : bus'[k].msg = bus[k].msg
        <5>1. bus' = Advanced \o r BY <2>3, <4>1
        <5> QED BY <1>0, <2>1, <4>3, <5>1, Pushed
      <4>5. CASE Len(bus) = 1 BY <4>2, <4>4, <4>5 DEF Depth
      <4>6. CASE Len(bus) = 2
        <5>1. Top.msg.respond = None BY <4>6 DEF Depth, Top
        <5> QED BY <4>2, <4>4, <4>6, <5>1 DEF Depth
      <4>7. CASE Len(bus) = 3 BY <4>2, <4>7 DEF Depth, Top
      <4>8. Len(bus) = 1 \/ Len(bus) = 2 \/ Len(bus) = 3
        <5>1. Len(bus) <= 3 BY DEF Depth
        <5>2. Len(bus) \in Nat \ {0} BY <1>0, <2>1, Emptiness
        <5> QED BY <5>1, <5>2, UpToThree
      <4> QED BY <4>5, <4>6, <4>7, <4>8
    <3> QED BY <3>3, <3>4
  <2> QED BY <1>1, <2>2, <2>3, DeliverCases
<1>2. CASE Return
  <2>1. bus # <<>> /\ bus' = SubSeq(bus, 1, Len(bus) - 1)
    BY <1>2 DEF Return, Delivering, Front
  <2>2. /\ Len(bus) \in Nat \ {0} /\ Len(bus') = Len(bus) - 1
        /\ \A k \in 1 .. Len(bus) - 1 : bus'[k] = bus[k]
    BY <1>0, <2>1, Popped
  <2> QED BY <2>2 DEF Depth
<1>3. CASE Send
  <2>1. PICK f : bus' = <<f>> BY <1>3 DEF Send
  <2> QED BY <2>1 DEF Depth
<1>4. CASE UNCHANGED bus BY <1>4 DEF Depth
<1> QED
  BY <1>1, <1>2, <1>3, <1>4 DEF Next, Program, LoadModule, InitModule, StartModule,
     StartModuleCrashes, NextPhase, StopModule, StopModuleCrashes, KillModule,
     KillModuleCrashes, Stopped, Killed, DeferredDelete, DeliverCrashes, TimerQuits,
     Crash, vars

\* However modules answer one another, calls go three deliveries deep at most.
THEOREM DepthBounded == Spec => []BusDepth
<1>1. Init => Depth BY DEF Init, Depth
<1>2. Depth => BusDepth BY DEF Depth, BusDepth
<1> QED BY <1>1, <1>2, StepDepth, TypeCorrect, PTL DEF Spec

-------------------------------------------------------------------------------
(* Stop and kill. *)

\* Until start begins and after the stops are done no module is up; while the
\* stops go on, those that are still come at or before the index of the loop.
Stops ==
  /\ up \subseteq Range(asModules) \/ phase = "crashed"
  /\ phase \in {"loading", "initializing", "killing", "done"} => up = {}
  /\ phase = "done" => asModules = <<>>
  /\ phase = "stopping" => \A m \in up : \E i \in 1 .. at : i <= Len(asModules) /\ asModules[i] = m

LEMMA UpByStart ==
  ASSUME NEW m, ZCStart(m) PROVE up' \subseteq up \cup {m}
BY DEF ZCStart, ZC!SelfStart, ZC!ModuleStart

LEMMA UpByStop ==
  ASSUME NEW m, ZCStop(m) PROVE up' = up \ {m}
BY DEF ZCStop, ZC!SelfStop, ZC!ModuleStop

LEMMA UpByDie ==
  ASSUME NEW m, ZCDie(m) PROVE up' \subseteq up
BY DEF ZCDie, ZC!SelfDie, ZC!ModuleDie

LEMMA UpByExecute ==
  ASSUME NEW m, NEW msg, Execute(m, msg)
  PROVE /\ up' \subseteq up \cup {m}
        /\ \/ phase' = phase
           \/ phase' = "stopping" /\ at' = Len(asModules) /\ up' = up
<1>1. CASE msg.command = "start"
  <2>1. start(m) /\ UNCHANGED <<phase, at, isActive>> BY <1>1 DEF Execute
  <2> QED BY <2>1, UpByStart DEF start
<1>2. CASE msg.command = "stop"
  <2>1. stop(m) /\ UNCHANGED <<phase, at, isActive>> BY <1>2 DEF Execute
  <2> QED BY <2>1, UpByStop DEF stop
<1>3. CASE msg.command = "setActive"
  BY <1>3 DEF Execute, SetActive, ZC!Deactivate, zcVars
<1>4. CASE msg.command = "quit" BY <1>4 DEF Execute, Quit, zcVars
<1>5. CASE msg.command \notin {"quit", "start", "stop", "setActive"}
  BY <1>5 DEF Execute, zcVars
<1> QED BY <1>1, <1>2, <1>3, <1>4, <1>5

LEMMA StepStops == TypeOK /\ Stops /\ [Next]_vars => Stops'
<1> SUFFICES ASSUME TypeOK, Stops, [Next]_vars PROVE Stops' OBVIOUS
<1>0. /\ asModules \in Seq(Known) /\ Len(asModules) \in Nat /\ at \in Nat
      /\ DOMAIN asModules = 1 .. Len(asModules)
      /\ Range(asModules) = {asModules[i] : i \in 1 .. Len(asModules)}
  BY DEF TypeOK, Range
<1>1. CASE LoadModule
  BY <1>1 DEF LoadModule, Stops, zcVars
<1>2. CASE StartModule
  <2>1. up' \subseteq up \cup {asModules[at]}
    BY <1>2, UpByStart DEF StartModule, start, zcVars
  <2> QED BY <1>0, <1>2, <2>1 DEF StartModule, Loop, Stops
<1>3. CASE StopModule
  <2>1. up' = up \ {asModules[at]} BY <1>3, UpByStop DEF StopModule, stop
  <2>2. /\ phase = "stopping" /\ phase' = phase /\ asModules' = asModules
        /\ at \in 1 .. Len(asModules) /\ at' = at - 1
    BY <1>0, <1>3 DEF StopModule, Loop
  <2> QED BY <1>0, <2>1, <2>2 DEF Stops
<1>4. CASE KillModule
  <2>1. up' \subseteq up BY <1>4, UpByDie DEF KillModule, die
  <2> QED BY <1>4, <2>1 DEF KillModule, Loop, Stops
<1>5. CASE Deliver
  <2>0. phase \in {"idle", "done"} /\ asModules' = asModules BY <1>5, DeliverCases
  <2>1. CASE UNCHANGED <<phase, at, isActive, moduleVars, zcVars>>
    BY <2>0, <2>1 DEF Stops, zcVars
  <2>2. ASSUME NEW m \in Range(asModules), Execute(m, Top.msg) PROVE Stops'
    <3>1. /\ up' \subseteq up \cup {m}
          /\ \/ phase' = phase
             \/ phase' = "stopping" /\ at' = Len(asModules) /\ up' = up
      BY <2>2, UpByExecute
    <3>2. phase = "idle" BY <1>0, <2>0 DEF Stops
    <3> QED BY <1>0, <2>0, <3>1, <3>2 DEF Stops
  <2> QED BY <1>5, <2>1, <2>2, DeliverCases
<1>6. CASE Stopped
  BY <1>0, <1>6 DEF Stopped, Stops, zcVars
<1>7. CASE Killed
  BY <1>7 DEF Killed, Stops, zcVars
<1>8. CASE DeferredDelete
  BY <1>8 DEF DeferredDelete, Stops, loopVars, ZC!Destroyed
<1>9. CASE NextPhase
  BY <1>9 DEF NextPhase, Stops, zcVars
<1>10. CASE TimerQuits
  BY <1>0, <1>10 DEF TimerQuits, Quit, Stops, zcVars
<1>11. CASE Crash
  BY <1>11 DEF Crash, Stops
<1>12. CASE InitModule
  BY <1>12 DEF InitModule, Loop, Stops, zcVars
<1>13. CASE UNCHANGED <<loopVars, zcVars>>
  BY <1>13 DEF Stops, loopVars, zcVars
<1> QED
  BY <1>1, <1>2, <1>3, <1>4, <1>5, <1>6, <1>7, <1>8, <1>9, <1>10, <1>11, <1>12, <1>13
  DEF Next, Program, StartModuleCrashes, StopModuleCrashes, KillModuleCrashes,
      DeliverCrashes, Return, Send, vars

\* die() is called of no module before stop() was called of each since its last
\* start(), of inactive ones as well.
THEOREM StopsBeforeKills == Spec => []StoppedBeforeKilled
<1>1. Init => Stops BY DEF Init, Stops, ZC!Init
<1>2. Stops => StoppedBeforeKilled BY DEF Stops, StoppedBeforeKilled
<1> QED BY <1>1, <1>2, StepStops, TypeCorrect, PTL DEF Spec

\* quit() keeps its order whatever is still being said on the bus, and what is
\* said stays within three calls.
THEOREM OrderlyEnd == Spec => []EndsInOrder
BY TypeCorrect, DepthBounded, StopsBeforeKills, PTL DEF EndsInOrder
===============================================================================
