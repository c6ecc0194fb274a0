-------------------------- MODULE MCTcpProxySession --------------------------
(* The constants are given in the configurations. *)
EXTENDS TcpProxySessionProofs
=============================================================================
