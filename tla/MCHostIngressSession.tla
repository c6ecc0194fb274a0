-------------------------- MODULE MCHostIngressSession --------------------------
(* The constants are given in the configurations. *)
EXTENDS HostIngressSession
=============================================================================
