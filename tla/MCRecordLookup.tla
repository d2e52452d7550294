--------------------------- MODULE MCRecordLookup ---------------------------
\* TLC instance of RecordLookup: two records of a host, a CNAME that leads to it.
EXTENDS RecordLookup, TLC
CONSTANTS b1, b2, alias, host, a, x, c
MCBrowseKey == b1 :> alias @@ b2 :> host
MCKeyOf == a :> host @@ x :> host
MCAlias == c :> alias
MCTarget == c :> host
=============================================================================
