-------------------------- MODULE MCVmnetTcpConnect --------------------------
(* Two destinations on the same port: a listener and a handle can serve either.*)
EXTENDS VmnetTcpConnect

CONSTANTS d1, d2
MCPortOf == [d \in {d1, d2} |-> 80]
=============================================================================
