---------------------------- MODULE MCThresholds ----------------------------
(* Instances of Thresholds for TLC. *)
EXTENDS Thresholds

CONSTANTS t1, t2, d1, d2

\* Two requests about one threshold are two about its device: messages stand
\* for one another, and those about the other device do not.
OneEach == [r \in Rows |-> IF r = t1 THEN d1 ELSE d2]
=============================================================================
