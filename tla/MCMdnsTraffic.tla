--------------------------- MODULE MCMdnsTraffic ---------------------------
\* TLC instance of MdnsTraffic: a PTR record and the SRV record it refers to.
EXTENDS MdnsTraffic
CONSTANTS ptr, srv
MCKeyOf == [r \in Record |-> r]
MCAux == [r \in Record |-> IF r = ptr THEN {srv} ELSE {}]
=============================================================================
