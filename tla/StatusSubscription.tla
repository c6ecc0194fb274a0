--------------------------- MODULE StatusSubscription ---------------------------
(***************************************************************************)
(* One status subscription of the control socket (supervisor_control.rs,   *)
(* stream_status_subscription): a first snapshot, then one forwarder per   *)
(* watch channel that puts a unit into a bounded mpsc channel whenever its *)
(* channel has changed, and a fresh snapshot for each unit received.       *)
(*                                                                         *)
(* A watch channel is the number of times it was set.  The receivers that  *)
(* subscribe_task_status and subscribe_shutdown clone have seen nothing:   *)
(* LaunchSupervisor only ever borrows from the ones it keeps.  A snapshot  *)
(* reads the shutdown channel and then each task, one at a time, while     *)
(* the tasks go on.                                                        *)
(***************************************************************************)
EXTENDS Naturals, Sequences

CONSTANTS
  Tasks,        \* the tasks, in the order of the plan: a sequence
  Capacity,     \* of the mpsc channel
  MaxSet        \* bound on how often a task's status is set

Shutdown == "shutdown"
Reads == <<Shutdown>> \o Tasks
Channels == {Reads[i] : i \in 1 .. Len(Reads)}

ASSUME SubscriptionAssumption ==
  /\ Tasks \in Seq(Channels \ {Shutdown})
  /\ Capacity \in Nat \ {0} /\ MaxSet \in Nat \ {0}

VARIABLES
  value,        \* the watch channels
  seen,         \* the version each forwarder's receiver has seen
  forwarder,    \* "none", waiting in changed, or sending
  units,        \* units in the mpsc channel
  pc, at,       \* place in stream_status_subscription; the next channel to read
  snapshot,     \* what has been read
  shown         \* the snapshot last written to the client

vars == <<value, seen, forwarder, units, pc, at, snapshot, shown>>

Versions == 0 .. MaxSet
\* How often a channel is set: a second shutdown request changes only the reason.
Limit(c) == IF c = Shutdown THEN 1 ELSE MaxSet

Zero == [c \in Channels |-> 0]

Init ==
  /\ value = Zero /\ seen = Zero
  /\ forwarder = [c \in Channels |-> "none"] /\ units = 0
  /\ pc = "first" /\ at = 1 /\ snapshot = Zero /\ shown = Zero

\* A task's controller, or request_shutdown.
Set(c) ==
  /\ value[c] < Limit(c)
  /\ value' = [value EXCEPT ![c] = @ + 1]
  /\ UNCHANGED <<seen, forwarder, units, pc, at, snapshot, shown>>

\* SupervisorControlSnapshot::from_supervisor.
ReadOne ==
  /\ pc \in {"first", "snapshot"} /\ at <= Len(Reads)
  /\ snapshot' = [snapshot EXCEPT ![Reads[at]] = value[Reads[at]]]
  /\ at' = at + 1
  /\ UNCHANGED <<value, seen, forwarder, units, pc, shown>>

\* Mutant: a receiver that starts from the current value.
Mut_Write_SubscribesNow ==
  /\ pc \in {"first", "snapshot"} /\ at > Len(Reads)
  /\ shown' = snapshot
  /\ IF pc = "first"
     THEN forwarder' = [c \in Channels |-> "wait"] /\ seen' = value /\ pc' = "recv"
     ELSE UNCHANGED <<forwarder, seen>> /\ pc' = IF value[Shutdown] = 1 THEN "done" ELSE "recv"
  /\ UNCHANGED <<value, units, at, snapshot>>

\* write_control_message; after the first, subscribe_status_changes spawns the
\* forwarders; after the others, shutdown_requested ends the stream.
Write ==
  /\ pc \in {"first", "snapshot"} /\ at > Len(Reads)
  /\ shown' = snapshot
  /\ IF pc = "first"
     THEN forwarder' = [c \in Channels |-> "wait"] /\ pc' = "recv"
     ELSE UNCHANGED forwarder /\ pc' = IF value[Shutdown] = 1 THEN "done" ELSE "recv"
  /\ UNCHANGED <<value, seen, units, at, snapshot>>

\* The client has gone.
WriteFails ==
  /\ pc \in {"first", "snapshot"} /\ at > Len(Reads)
  /\ pc' = "gone"
  /\ UNCHANGED <<value, seen, forwarder, units, at, snapshot, shown>>

\* Mutant: a unit is received after the channels were read for it.
Mut_Recv_KeepsSnapshot ==
  /\ pc = "recv" /\ units > 0
  /\ units' = units - 1
  /\ pc' = "snapshot" /\ UNCHANGED at
  /\ UNCHANGED <<value, seen, forwarder, snapshot, shown>>

Recv ==
  /\ pc = "recv" /\ units > 0
  /\ units' = units - 1
  /\ pc' = "snapshot" /\ at' = 1
  /\ UNCHANGED <<value, seen, forwarder, snapshot, shown>>

\* changed: several settings are seen as one.
Changed(c) ==
  /\ forwarder[c] = "wait" /\ seen[c] # value[c]
  /\ seen' = [seen EXCEPT ![c] = value[c]]
  /\ forwarder' = [forwarder EXCEPT ![c] = "send"]
  /\ UNCHANGED <<value, units, pc, at, snapshot, shown>>

\* Mutant: an unbounded channel.
Mut_Send_Unbounded(c) ==
  /\ forwarder[c] = "send" /\ units' = units + 1
  /\ forwarder' = [forwarder EXCEPT ![c] = "wait"]
  /\ UNCHANGED <<value, seen, pc, at, snapshot, shown>>

\* tx.send waits for room, and fails once the stream has ended.
Send(c) ==
  /\ forwarder[c] = "send"
  /\ IF pc \in {"done", "gone"}
     THEN UNCHANGED units /\ forwarder' = [forwarder EXCEPT ![c] = "none"]
     ELSE /\ units < Capacity /\ units' = units + 1
          /\ forwarder' = [forwarder EXCEPT ![c] = "wait"]
  /\ UNCHANGED <<value, seen, pc, at, snapshot, shown>>

Next == \/ ReadOne \/ Write \/ WriteFails \/ Recv
        \/ \E c \in Channels : Set(c) \/ Changed(c) \/ Send(c)

Spec == Init /\ [][Next]_vars

\* The client reads or goes; tokio runs every task that can go on.
Fairness == /\ WF_vars(ReadOne) /\ WF_vars(Write \/ WriteFails) /\ WF_vars(Recv)
            /\ \A c \in Channels : WF_vars(Changed(c)) /\ SF_vars(Send(c))

FairSpec == Spec /\ Fairness

-----------------------------------------------------------------------------
\* The variables have their types, and the mpsc channel keeps its capacity.
TypeOK ==
  /\ value \in [Channels -> Versions] /\ snapshot \in [Channels -> Versions]
  /\ seen \in [Channels -> Versions]
  /\ forwarder \in [Channels -> {"none", "wait", "send"}]
  /\ units \in 0 .. Capacity
  /\ pc \in {"first", "snapshot", "recv", "done", "gone"} /\ at \in 1 .. Len(Reads) + 1

\* No change is lost: whatever the client has not been shown is announced, by
\* a forwarder that has it to see or to send, by a unit, or by a snapshot that
\* has still to read the channel.
ChangeIsAnnounced ==
  pc \notin {"first", "done", "gone"} =>
    \A c \in Channels :
      shown[c] # value[c] =>
        \/ seen[c] # value[c] \/ forwarder[c] = "send" \/ units > 0
        \/ pc = "snapshot" /\ (snapshot[c] = value[c] \/ \E i \in at .. Len(Reads) : Reads[i] = c)

\* A subscriber is shown every status a task keeps, unless the shutdown ends the
\* stream first or the client goes.
ClientCatchesUp ==
  \A c \in Channels : \A n \in 1 .. MaxSet :
    value[c] = n ~> shown[c] >= n \/ pc \in {"done", "gone"}

\* A requested shutdown ends every stream.
StreamEnds == value[Shutdown] = 1 ~> pc \in {"done", "gone"}
=============================================================================
