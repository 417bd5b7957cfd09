--------------------------- MODULE MCEnumeration ---------------------------
(* Instances of Enumeration for TLC. *)
EXTENDS Enumeration

CONSTANTS d1, d2, g1, g2, w1, w2, e1

\* d1 has two groups, two wqs and an engine, d2 has a wq and no group.
MCGroupDir  == [d \in {d1, d2} |-> IF d = d1 THEN <<g1, g2>> ELSE <<>>]
MCWqDir     == [d \in {d1, d2} |-> IF d = d1 THEN <<w1, w2>> ELSE <<w1>>]
MCEngineDir == [d \in {d1, d2} |-> IF d = d1 THEN <<e1>> ELSE <<>>]
MCDeviceDir == <<d1, d2>>
=============================================================================
