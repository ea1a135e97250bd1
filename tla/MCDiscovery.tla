----------------------------- MODULE MCDiscovery -----------------------------
(***************************************************************************)
(* Discovery on small instances.                                           *)
(***************************************************************************)
EXTENDS Discovery

\* The two config files of the repository: each sends to the other's port.
Others == [p \in Peers |-> Peers \ {p}]
=============================================================================
