--------------------------- MODULE MCServiceClient ---------------------------
EXTENDS ServiceClient, TLC
CONSTANTS v4, v6, h1, h2
MCMoves == v4 :> {Ptr, Txt, Srv(h1), Srv(h2), Addr(h1), Addr(h2)} @@ v6 :> {Ptr, Txt, Srv(h1), Addr(h1)}
=============================================================================
