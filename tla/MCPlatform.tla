------------------------------ MODULE MCPlatform ------------------------------
(***************************************************************************)
(* TLC instance of what lies beneath QZeroConf: the client side of the     *)
(* Bonjour daemon, QZeroConf on top of it, Avahi's time events, its event  *)
(* loop, its clients for names and its lookups by ordinary DNS.  They      *)
(* share no state, so a behaviour moves one of them, chosen at the start.  *)
(***************************************************************************)
EXTENDS DaemonClient, BonjourBrowser, TimeEventQueue, SimplePoll, NameClients, WideArea, TLC

CONSTANTS o1, o2, o3, s1, s2, w1, w2, eth, wlan, d1, d2, t1, t2, t3
ThreeOps == {o1, o2, o3}
Alike == Permutations(ThreeOps)
Refs == 1 .. 5
TwoStatics == <<t1, t2>>

VARIABLE focus
Parts == {"daemon", "bonjour", "times", "loop", "resolver", "servers", "domains", "wide"}
Rests(p) ==
  /\ p # "daemon" => UNCHANGED daemonVars
  /\ p # "bonjour" => UNCHANGED bonjourVars
  /\ p # "times" => UNCHANGED timeVars
  /\ p # "loop" => UNCHANGED pollVars
  /\ p # "resolver" => UNCHANGED resolverVars
  /\ p # "servers" => UNCHANGED serverVars
  /\ p # "domains" => UNCHANGED domainVars
  /\ p # "wide" => UNCHANGED wideVars

Init ==
  /\ DaemonInit /\ BonjourInit /\ TimeInit /\ PollInit /\ ServerInit
  /\ focus \in Parts
  /\ ResolverInit /\ DomainInit /\ WideInit
  /\ focus # "resolver" => r = NewResolver("host", Nothing, FALSE)
  /\ focus # "domains" => b.kind = "browse"
  /\ dns_servers[1] = d1      \* the two are alike
  /\ focus # "wide" => Len(dns_servers) = 1
Next ==
  /\ Rests(focus) /\ UNCHANGED focus
  /\ \/ focus = "daemon" /\ DaemonNext
     \/ focus = "bonjour" /\ BonjourNext
     \/ focus = "times" /\ TimeNext
     \/ focus = "loop" /\ PollNext
     \/ focus = "resolver" /\ ResolverNext
     \/ focus = "servers" /\ ServerNext
     \/ focus = "domains" /\ DomainNext
     \/ focus = "wide" /\ WideNext
vars == <<daemonVars, bonjourVars, timeVars, pollVars, resolverVars, serverVars, domainVars, wideVars, focus>>
Spec == Init /\ [][Next]_vars

=============================================================================
