--------------------------- MODULE MCAvahiServer ---------------------------
\* A TLC instance of AvahiServer: two interfaces, one of which may have an address
\* of global and one of local scope, the other a global one; one service.
EXTENDS AvahiServer
CONSTANTS i1, i2, a1, a2, a3, h1, h2
MCOn == a1 :> i1 @@ a2 :> i2 @@ a3 :> i1
MCAddresses == <<a1, a2, a3>>
=============================================================================
