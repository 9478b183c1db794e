---------------------------- MODULE MCReloadSidecar ----------------------------
(* An instance of ReloadSidecar for TLC. *)
EXTENDS ReloadSidecar
=============================================================================
