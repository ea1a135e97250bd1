--------------------------- MODULE MCSessionSetup ---------------------------
(***************************************************************************)
(* SessionSetup on small instances.                                        *)
(***************************************************************************)
EXTENDS SetupInvariants

CONSTANTS p1, p2, p3

\* p1 and p2 run one build, p3 another.
Builds == [x \in Peers |-> IF x = p3 THEN 2 ELSE 1]
OneBuild == [x \in Peers |-> 1]
=============================================================================
