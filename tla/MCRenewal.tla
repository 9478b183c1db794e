------------------------------ MODULE MCRenewal ------------------------------
(* An instance of Renewal for TLC. *)
EXTENDS Renewal
=============================================================================
