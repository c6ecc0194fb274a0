------------------------- MODULE MCStatusSubscription -------------------------
(* Two tasks and a channel smaller than the number of forwarders. *)
EXTENDS StatusSubscriptionProofs
MCTasks == <<"vmnet-gateway", "qemu">>
=============================================================================
