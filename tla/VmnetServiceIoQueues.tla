------------------------- MODULE VmnetServiceIoQueues -------------------------
(***************************************************************************)
(* The owner/service boundary as vmnet_service_io.rs promises it: the      *)
(* in-process queues (VmnetServiceIoQueues) whose semantics any            *)
(* Tokio-backed replacement must preserve: "bounded FIFO in both           *)
(* directions and explicit rejection when either queue is full".           *)
(*                                                                         *)
(* `serving' holds the items the service has taken and not handed back: a  *)
(* service that is told its completion queue is full still has the item.   *)
(***************************************************************************)
EXTENDS Naturals, Sequences

CONSTANTS
  Items,               \* what travels through the queues
  CommandCapacity,     \* limits.command_capacity
  CompletionCapacity   \* limits.completion_capacity

VARIABLES commands, serving, completions

qvars == <<commands, serving, completions>>

Init == commands = <<>> /\ serving = <<>> /\ completions = <<>>

\* owner_send: a full command queue hands the command back to the owner.
owner_send(c) ==
  /\ Len(commands) < CommandCapacity
  /\ commands' = Append(commands, c)
  /\ UNCHANGED <<serving, completions>>

\* service_recv_command
service_recv_command ==
  /\ commands # <<>>
  /\ serving = <<>>
  /\ serving' = <<Head(commands)>>
  /\ commands' = Tail(commands)
  /\ UNCHANGED completions

\* service_complete: a full completion queue hands the completion back.
service_complete ==
  /\ serving # <<>>
  /\ Len(completions) < CompletionCapacity
  /\ completions' = Append(completions, Head(serving))
  /\ serving' = <<>>
  /\ UNCHANGED commands

\* owner_recv_completion
owner_recv_completion ==
  /\ completions # <<>>
  /\ completions' = Tail(completions)
  /\ UNCHANGED <<commands, serving>>

Next ==
  \/ \E c \in Items : owner_send(c)
  \/ service_recv_command
  \/ service_complete
  \/ owner_recv_completion

Spec == Init /\ [][Next]_qvars
=============================================================================
