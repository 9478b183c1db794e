---------------------------- MODULE MCSyncService ----------------------------
(* Instances of SyncService for TLC. *)
EXTENDS SyncService

CONSTANTS n1, c1, c2

\* Every configuration lists every name, with other contents.
AllNames == [c \in Configs |-> Names]

OneScheduler == {1}
ThreeSchedulers == 1..3

\* The two configurations differ in name only: start with c1.
InitFirst == SvcInit /\ disk = c1
FromFirst == InitFirst /\ [][SvcNext]_svcVars /\ SvcFairness
=============================================================================
