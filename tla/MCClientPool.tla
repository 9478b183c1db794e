----------------------------- MODULE MCClientPool -----------------------------
(* Instances of ClientPool for TLC: all syncers have the same credentials. *)
EXTENDS ClientPool

CONSTANTS x, y, shared, ns1, ns2

OneSet == [j \in Syncers |-> shared]
DefaultOnly == [j \in Syncers |-> DefaultSet]
\* x and y disagree on the namespace.
TwoNs == [j \in Syncers |-> IF j = x THEN ns1 ELSE ns2]
\* y names no namespace.
OneNs == [j \in Syncers |-> IF j = x THEN ns1 ELSE NoNs]
=============================================================================
