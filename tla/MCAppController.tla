---------------------------- MODULE MCAppController ----------------------------
(* TLC instances of AppController: plain modules, the ZeroConf module, and   *)
(* the modules that serve; messages to all, to one, and to nobody.           *)
EXTENDS AppController, TLC

CONSTANTS a, ctl, web, odd, e1

Kinds == [m \in Module |->
            CASE m = zcUID -> "ZeroConf" [] m = ctl -> "AppControl" [] m = web -> "HTTPS"
              [] m = odd -> "unknown" [] OTHER -> "Base"]

OrderControl == <<ctl, odd, a, zcUID>>

Owner == [e \in Entry |-> a]

Senders == {a, ctl, None}
Lists == {<<>>, <<odd, a>>}
===============================================================================
