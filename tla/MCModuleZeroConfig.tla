-------------------------- MODULE MCModuleZeroConfig --------------------------
(* TLC instances of ModuleZeroConfig: the ZeroConf module with an entry of   *)
(* its own, a module with one entry to publish and one not to, and one with  *)
(* a single entry.                                                           *)
EXTENDS ModuleZeroConfig, TLC

CONSTANTS m1, m2, e0, e1, e2, e3

Owner == (e0 :> zcUID @@ e1 :> m1 @@ e2 :> m1 @@ e3 :> m2)
===============================================================================
