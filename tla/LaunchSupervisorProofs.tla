------------------------- MODULE LaunchSupervisorProofs -------------------------
(***************************************************************************)
(* The endings of a launch, for any list of services: QEMU is waited for,  *)
(* every task has a terminal status, and the statuses and the state file   *)
(* tell the same story.                                                    *)
(***************************************************************************)
EXTENDS LaunchSupervisor, SequenceTheorems, TLAPS

Starting == {"start", "ready"}
Ending == {"timeout", "failure", "terminate"}
Over == {"control", "stopping", "returned", "exited"}

\* The place of the launch task says what has become of QEMU and of the state
\* file, and that there is a service to wait for.
QemuPlace ==
  /\ pc \in Starting => qemu = "none" /\ state_json = "starting"
  /\ pc = "ready" => next \in 1 .. Len(Order)
  /\ pc \in {"select"} \cup Ending => qemu \in {"running", "exited"} /\ state_json = "running"
  /\ pc \in Over /\ state_json # "starting" /\ ~lost => qemu = "reaped"

\* The state file is final only when the launch is over.
FilePlace == state_json \notin {"starting", "running"} => pc \in Over

\* The first completed monitor stays the first, and its service's own result
\* stays until the launch is ended by something else.
CulpritPlace ==
  /\ first # <<>> => mon[Head(first)] = "done"
  /\ pc = "select" => \A s \in Services : mon[s] = "done" => status[s] \in {"Finished", "Failed"}
  /\ pc = "failure" \/ state_json = "service_failed" =>
       first # <<>> /\ status[Head(first)] \in {"Finished", "Failed"}

\* No monitor exists before QEMU is started.
Untouched == pc \in Starting => first = <<>> /\ \A s \in Services : mon[s] = "none"

\* QEMU's status and the place agree with the file that is written next.
QemuStatus ==
  /\ pc = "failure" \/ state_json \in {"timed_out", "service_failed"} => status[Qemu] = "Failed"
  /\ state_json = "exited" => status[Qemu] = "Finished"
  /\ pc = "terminate" \/ state_json = "terminated" => status[Qemu] = "Cancelled" /\ shutdown

\* Once the peers are cancelled every status is terminal, and stays so.
Settled ==
  pc \in {"failure", "terminate"} \/ qemu = "reaped" => \A t \in Tasks : status[t] \in Terminal

IInv == TypeOK /\ QemuPlace /\ FilePlace /\ CulpritPlace /\ Untouched /\ QemuStatus
        /\ Settled

LEMMA TaskFacts == /\ Qemu \in Tasks /\ Services \subseteq Tasks /\ Qemu \notin Services
                   /\ \A t \in Tasks : t # Qemu => t \in Services
                   /\ Terminal \subseteq Statuses /\ Len(Order) \in Nat
                   /\ \A i \in 1 .. Len(Order) : Order[i] \in Services
  BY LaunchAssumption DEF Tasks, Statuses, Services

\* A status is set.
LEMMA MarkFacts ==
  ASSUME TypeOK, NEW t \in Tasks, NEW v \in Statuses
  PROVE  /\ [status EXCEPT ![t] = v] \in [Tasks -> Statuses]
         /\ \A u \in Tasks : [status EXCEPT ![t] = v][u] = IF u = t THEN v ELSE status[u]
  BY DEF TypeOK

\* What cancel_unfinished_services leaves.
LEMMA CancelledFacts ==
  ASSUME NEW st \in [Tasks -> Statuses], NEW skip \in Tasks
  PROVE  /\ Cancelled(st, skip) \in [Tasks -> Statuses]
         /\ Cancelled(st, skip)[Qemu] = st[Qemu]
         /\ Cancelled(st, skip)[skip] = st[skip]
         /\ \A t \in Tasks : t \notin {Qemu, skip} => Cancelled(st, skip)[t] = "Cancelled"
  BY TaskFacts DEF Cancelled, Statuses, Terminal

\* The list of completed monitors grows at its end.
LEMMA FirstFacts ==
  ASSUME TypeOK, NEW s \in Services
  PROVE  /\ Append(first, s) \in Seq(Services) /\ Append(first, s) # <<>>
         /\ first = <<>> => Head(Append(first, s)) = s
         /\ first # <<>> => Head(Append(first, s)) = Head(first)
         /\ first # <<>> => Head(first) \in Services
<1>1. first \in Seq(Services)
  BY DEF TypeOK
<1>2. Append(first, s) \in Seq(Services) /\ Append(first, s) # <<>>
  BY <1>1, AppendProperties
<1>3. Head(Append(first, s)) = IF first = <<>> THEN s ELSE Head(first)
  BY <1>1, HeadTailAppend
<1>4. first # <<>> => Head(first) \in Services
  BY <1>1, HeadTailProperties
<1> QED BY <1>2, <1>3, <1>4

LEMMA HeadIsService == TypeOK /\ first # <<>> => Head(first) \in Services
<1> SUFFICES ASSUME TypeOK, first # <<>> PROVE Head(first) \in Services
  OBVIOUS
<1>1. first \in Seq(Services)
  BY DEF TypeOK
<1> QED BY <1>1, HeadTailProperties

\* The first state.
LEMMA InitHolds == Init => IInv
<1> SUFFICES ASSUME Init PROVE IInv
  OBVIOUS
<1>1. status \in [Tasks -> Statuses]
  BY DEF Init, Statuses
<1>2. first \in Seq(Services)
  BY EmptySeq DEF Init
<1>3. next \in 1 .. Len(Order) + 1
  BY TaskFacts DEF Init
<1>4. TypeOK
  BY <1>1, <1>2, <1>3 DEF Init, TypeOK
<1> QED BY <1>4 DEF IInv, Init, QemuPlace, FilePlace, CulpritPlace, QemuStatus, Settled, Untouched,
                    Starting, Ending, Over

\* Dropping the JoinSet keeps the monitors that have completed.
LEMMA DropFacts ==
  ASSUME TypeOK, DropMonitors
  PROVE  /\ mon' \in [Services -> {"none", "wait", "done", "aborted"}]
         /\ \A s \in Services : mon[s] = "done" => mon'[s] = "done"
         /\ \A s \in Services : mon'[s] = "done" => mon[s] = "done"
<1> PICK running \in SUBSET {s \in Services : mon[s] = "wait" /\ Ended(s)} :
      mon' = [s \in Services |-> IF mon[s] = "wait" /\ s \notin running THEN "aborted" ELSE mon[s]]
  BY DEF DropMonitors
<1> QED BY DEF TypeOK

-----------------------------------------------------------------------------
(* One lemma per action. *)

LEMMA StartServiceKeeps == ASSUME IInv, StartService PROVE IInv'
<1> USE TaskFacts DEF StartService, IInv, client
<1>1. Current \in Services
  BY DEF Current, TypeOK
<1>2. "Starting" \in Statuses /\ TypeOK
  BY DEF Statuses
<1>3. status' \in [Tasks -> Statuses] /\ status'[Qemu] = status[Qemu]
  BY <1>1, <1>2, MarkFacts DEF Mark
<1>4. TypeOK'
  BY <1>1, <1>3 DEF TypeOK
<1>5. next' \in 1 .. Len(Order)
  BY DEF TypeOK
<1> QED BY <1>3, <1>4, <1>5 DEF QemuPlace, FilePlace, CulpritPlace, QemuStatus, Settled, Untouched,
                          Starting, Ending, Over

LEMMA ServiceReadyKeeps == ASSUME IInv, ServiceReady PROVE IInv'
<1> USE TaskFacts DEF ServiceReady, IInv, client
<1>1. Current \in Services
  BY DEF TypeOK
<1>2. "Ready" \in Statuses /\ TypeOK
  BY DEF Statuses
<1>3. status' \in [Tasks -> Statuses] /\ status'[Qemu] = status[Qemu]
  BY <1>1, <1>2, MarkFacts DEF Mark
<1>4. next' \in 1 .. Len(Order) + 1
  BY DEF QemuPlace
<1>5. TypeOK'
  BY <1>1, <1>3, <1>4 DEF TypeOK, services
<1> QED BY <1>3, <1>5 DEF QemuPlace, FilePlace, CulpritPlace, QemuStatus, Settled, Untouched,
                          Starting, Ending, Over, services

LEMMA ServiceNotReadyKeeps == ASSUME IInv, ServiceNotReady PROVE IInv'
<1> USE TaskFacts DEF ServiceNotReady, IInv, client
<1>1. Current \in Services
  BY DEF Current, QemuPlace
<1>2. "Failed" \in Statuses /\ TypeOK
  BY DEF Statuses, Terminal
<1>3. status' \in [Tasks -> Statuses] /\ status'[Qemu] = status[Qemu]
  BY <1>1, <1>2, MarkFacts DEF Mark
<1>4. svc' \in [Services -> {"off", "run", "ok", "err"}] /\ told' \in SUBSET Services
  BY <1>1 DEF TypeOK
<1>5. TypeOK'
  BY <1>3, <1>4 DEF TypeOK, Return
<1> QED BY <1>3, <1>5 DEF QemuPlace, FilePlace, CulpritPlace, QemuStatus, Settled, Untouched,
                          Starting, Ending, Over, Return

LEMMA SpawnQemuKeeps == ASSUME IInv, SpawnQemu PROVE IInv'
<1> USE TaskFacts DEF SpawnQemu, IInv, client
<1>1. TypeOK /\ {"Starting", "Ready", "Failed"} \subseteq Statuses
  BY DEF Statuses, Terminal
<1>2. CASE qemu' = "running" /\ Mark(Qemu, "Ready") /\ state_json' = "running"
           /\ mon' = [s \in Services |-> "wait"] /\ pc' = "select"
           /\ UNCHANGED <<result, told>>
  <2>1. status' \in [Tasks -> Statuses]
    BY <1>1, <1>2, MarkFacts DEF Mark
  <2>2. TypeOK'
    BY <1>2, <2>1 DEF TypeOK
  <2>3. first = <<>>
    BY DEF Untouched, Starting
  <2> QED BY <1>2, <2>2, <2>3 DEF QemuPlace, FilePlace, CulpritPlace, QemuStatus, Settled, Untouched,
                                  Starting, Ending, Over
<1>3. CASE /\ (Mark(Qemu, "Failed") /\ UNCHANGED qemu) \/ (Mark(Qemu, "Starting") /\ qemu' = "running")
           /\ pc' = "control" /\ result' = "err" /\ told' = Services
           /\ UNCHANGED <<mon, state_json>>
  <2>1. status' \in [Tasks -> Statuses]
    BY <1>1, <1>3, MarkFacts DEF Mark
  <2>2. TypeOK'
    BY <1>3, <2>1 DEF TypeOK
  <2> QED BY <1>3, <2>2 DEF QemuPlace, FilePlace, CulpritPlace, QemuStatus, Settled, Untouched,
                            Starting, Ending, Over
<1> QED BY <1>2, <1>3

LEMMA QemuExitedKeeps == ASSUME IInv, QemuExited PROVE IInv'
<1> USE TaskFacts DEF QemuExited, IInv, client
<1> DEFINE st == [status EXCEPT ![Qemu] = "Finished"]
<1>1. TypeOK /\ "Finished" \in Statuses /\ {"Finished", "Cancelled"} \subseteq Terminal
  BY DEF Statuses, Terminal
<1>2. st \in [Tasks -> Statuses] /\ st[Qemu] = "Finished"
  BY <1>1, MarkFacts
<1>3. /\ status' \in [Tasks -> Statuses] /\ status'[Qemu] = "Finished"
      /\ \A t \in Tasks : status'[t] \in Terminal
  <2>1. status' = Cancelled(st, Qemu)
    OBVIOUS
  <2> HIDE DEF st, QemuExited, IInv
  <2>2. /\ Cancelled(st, Qemu) \in [Tasks -> Statuses]
        /\ Cancelled(st, Qemu)[Qemu] = st[Qemu]
        /\ \A t \in Tasks : t \notin {Qemu, Qemu} => Cancelled(st, Qemu)[t] = "Cancelled"
    BY <1>2, CancelledFacts
  <2> QED BY <1>1, <1>2, <2>1, <2>2
<1>4. DropMonitors
  BY DEF Leave
<1>5. mon' \in [Services -> {"none", "wait", "done", "aborted"}]
  BY <1>1, <1>4, DropFacts
<1>6. TypeOK'
  BY <1>3, <1>5 DEF TypeOK, Leave
<1>7. first # <<>> => mon'[Head(first)] = "done"
  BY <1>1, <1>4, DropFacts, HeadIsService DEF CulpritPlace
<1>8. CulpritPlace'
  BY <1>7 DEF CulpritPlace, QemuPlace, Ending, Leave
<1> QED BY <1>3, <1>6, <1>8 DEF QemuPlace, FilePlace, QemuStatus, Settled, Untouched,
                                Starting, Ending, Over, Leave

LEMMA TimeoutReapedKeeps == ASSUME IInv, TimeoutReaped PROVE IInv'
<1> USE TaskFacts DEF TimeoutReaped, IInv, client
<1> DEFINE st == [status EXCEPT ![Qemu] = "Failed"]
<1>1. TypeOK /\ "Failed" \in Statuses /\ {"Failed", "Cancelled"} \subseteq Terminal
  BY DEF Statuses, Terminal
<1>2. st \in [Tasks -> Statuses] /\ st[Qemu] = "Failed"
  BY <1>1, MarkFacts
<1>3. /\ status' \in [Tasks -> Statuses] /\ status'[Qemu] = "Failed"
      /\ \A t \in Tasks : status'[t] \in Terminal
  <2>1. status' = Cancelled(st, Qemu)
    OBVIOUS
  <2> HIDE DEF st, TimeoutReaped, IInv
  <2>2. /\ Cancelled(st, Qemu) \in [Tasks -> Statuses]
        /\ Cancelled(st, Qemu)[Qemu] = st[Qemu]
        /\ \A t \in Tasks : t \notin {Qemu, Qemu} => Cancelled(st, Qemu)[t] = "Cancelled"
    BY <1>2, CancelledFacts
  <2> QED BY <1>1, <1>2, <2>1, <2>2
<1>4. DropMonitors
  BY DEF Leave
<1>5. mon' \in [Services -> {"none", "wait", "done", "aborted"}]
  BY <1>1, <1>4, DropFacts
<1>6. TypeOK'
  BY <1>3, <1>5 DEF TypeOK, Leave
<1>7. first # <<>> => mon'[Head(first)] = "done"
  BY <1>1, <1>4, DropFacts, HeadIsService DEF CulpritPlace
<1>8. CulpritPlace'
  BY <1>7 DEF CulpritPlace, QemuPlace, Ending, Leave
<1> QED BY <1>3, <1>6, <1>8 DEF QemuPlace, FilePlace, QemuStatus, Settled, Untouched,
                                Starting, Ending, Over, Leave

LEMMA QemuTimedOutKeeps == ASSUME IInv, QemuTimedOut PROVE IInv'
<1>1. TypeOK'
  BY DEF QemuTimedOut, IInv, TypeOK, services, client
<1> QED BY <1>1 DEF QemuTimedOut, IInv, services, client, QemuPlace, FilePlace, CulpritPlace,
                    QemuStatus, Settled, Untouched, Starting, Ending, Over

LEMMA ServiceCompletedKeeps == ASSUME IInv, ServiceCompleted PROVE IInv'
<1> USE TaskFacts DEF ServiceCompleted, IInv, client
<1> DEFINE st == Cancelled(status, Head(first))
<1>1. /\ TypeOK /\ {"Finished", "Failed", "Cancelled"} \subseteq Terminal
      /\ status \in [Tasks -> Statuses] /\ Head(first) \in Services
  BY HeadIsService DEF Terminal, TypeOK
<1>2. status[Head(first)] \in {"Finished", "Failed"}
  BY <1>1 DEF CulpritPlace
<1>3. /\ st \in [Tasks -> Statuses] /\ st[Head(first)] = status[Head(first)]
      /\ \A t \in Tasks : t \notin {Qemu, Head(first)} => st[t] = "Cancelled"
  BY <1>1, CancelledFacts
<1>4. /\ status' \in [Tasks -> Statuses] /\ status'[Qemu] = "Failed"
      /\ status'[Head(first)] \in {"Finished", "Failed"}
      /\ \A t \in Tasks : status'[t] \in Terminal
  <2>1. status' = [st EXCEPT ![Qemu] = "Failed"]
    OBVIOUS
  <2> HIDE DEF st, ServiceCompleted, IInv
  <2>2. "Failed" \in Statuses
    BY DEF Statuses, Terminal
  <2> QED BY <1>1, <1>2, <1>3, <2>1, <2>2
<1>5. TypeOK'
  BY <1>4 DEF TypeOK, services
<1>6. CulpritPlace'
  BY <1>4 DEF CulpritPlace, services
<1> QED BY <1>4, <1>5, <1>6 DEF QemuPlace, FilePlace, QemuStatus, Settled, Untouched,
                                Starting, Ending, Over, services

LEMMA ShutdownSeenKeeps == ASSUME IInv, ShutdownSeen PROVE IInv'
<1> USE TaskFacts DEF ShutdownSeen, IInv, client
<1> DEFINE st == Cancelled(status, Qemu)
<1>1. TypeOK /\ "Cancelled" \in Terminal /\ status \in [Tasks -> Statuses]
  BY DEF Terminal, TypeOK
<1>2. /\ st \in [Tasks -> Statuses]
      /\ \A t \in Tasks : t \notin {Qemu} => st[t] = "Cancelled"
  BY <1>1, CancelledFacts
<1>3. /\ status' \in [Tasks -> Statuses] /\ status'[Qemu] = "Cancelled"
      /\ \A t \in Tasks : status'[t] \in Terminal
  <2>1. status' = [st EXCEPT ![Qemu] = "Cancelled"]
    OBVIOUS
  <2> HIDE DEF st, ShutdownSeen, IInv
  <2> QED BY <1>1, <1>2, <2>1
<1>4. TypeOK'
  BY <1>3 DEF TypeOK, services
<1> QED BY <1>3, <1>4 DEF QemuPlace, FilePlace, CulpritPlace, QemuStatus, Settled, Untouched,
                          Starting, Ending, Over, services

LEMMA FailureReapedKeeps == ASSUME IInv, FailureReaped PROVE IInv'
<1> USE DEF FailureReaped, IInv, client
<1>1. TypeOK /\ DropMonitors
  BY DEF Leave
<1>2. mon' \in [Services -> {"none", "wait", "done", "aborted"}]
  BY <1>1, DropFacts
<1>3. TypeOK'
  BY <1>2 DEF TypeOK, Leave
<1>4. first # <<>> => mon'[Head(first)] = "done"
  BY <1>1, DropFacts, HeadIsService DEF CulpritPlace
<1>5. CulpritPlace'
  BY <1>4 DEF CulpritPlace, Leave
<1> QED BY <1>3, <1>5 DEF QemuPlace, FilePlace, QemuStatus, Settled, Untouched,
                          Starting, Ending, Over, Leave

LEMMA ShutdownReapedKeeps == ASSUME IInv, ShutdownReaped PROVE IInv'
<1> USE DEF ShutdownReaped, IInv, client
<1>1. TypeOK /\ DropMonitors
  BY DEF Leave
<1>2. mon' \in [Services -> {"none", "wait", "done", "aborted"}]
  BY <1>1, DropFacts
<1>3. TypeOK'
  BY <1>2 DEF TypeOK, Leave
<1>4. first # <<>> => mon'[Head(first)] = "done"
  BY <1>1, DropFacts, HeadIsService DEF CulpritPlace
<1>5. CulpritPlace'
  BY <1>4 DEF CulpritPlace, Leave
<1> QED BY <1>3, <1>5 DEF QemuPlace, FilePlace, QemuStatus, Settled, Untouched,
                          Starting, Ending, Over, Leave

\* An error of the wait changes no status and leaves the file as it is.
LEMMA WaitFailsKeeps == ASSUME IInv, WaitFails PROVE IInv'
<1> USE DEF WaitFails, IInv, client
<1>1. TypeOK /\ DropMonitors
  OBVIOUS
<1>2. mon' \in [Services -> {"none", "wait", "done", "aborted"}]
  BY <1>1, DropFacts
<1>3. TypeOK'
  BY <1>2 DEF TypeOK
<1>4. first # <<>> => mon'[Head(first)] = "done"
  BY <1>1, DropFacts, HeadIsService DEF CulpritPlace
<1>5. CulpritPlace'
  BY <1>4 DEF CulpritPlace
<1> QED BY <1>3, <1>5 DEF QemuPlace, FilePlace, QemuStatus, Settled, Untouched,
                          Starting, Ending, Over

\* The end of the launch touches neither the statuses nor the file.
LEMMA EndKeeps ==
  ASSUME IInv, StopControl \/ ControlStopped \/ ProcessExit PROVE IInv'
<1> USE DEF StopControl, ControlStopped, ProcessExit, IInv, services, client
<1>1. TypeOK'
  <2>1. CASE StopControl
    BY <2>1 DEF TypeOK
  <2>2. CASE ControlStopped
    BY <2>2 DEF TypeOK
  <2>3. CASE ProcessExit
    BY <2>3 DEF TypeOK
  <2> QED BY <2>1, <2>2, <2>3
<1>2. QemuPlace' /\ FilePlace'
  BY DEF QemuPlace, FilePlace, Starting, Ending, Over
<1>3. CulpritPlace' /\ Untouched'
  BY DEF CulpritPlace, Untouched, Starting
<1>4. QemuStatus' /\ Settled'
  BY DEF QemuStatus, Settled
<1> QED BY <1>1, <1>2, <1>3, <1>4

\* Neither do QEMU, the control server and its clients.
LEMMA CommonKeeps ==
  ASSUME IInv, QemuExits \/ RequestShutdown \/ ControlStops PROVE IInv'
<1> USE DEF QemuExits, RequestShutdown, ControlStops, IInv, services, client
<1>1. TypeOK'
  <2>1. CASE QemuExits
    BY <2>1 DEF TypeOK
  <2>2. CASE RequestShutdown
    BY <2>2 DEF TypeOK
  <2>3. CASE ControlStops
    BY <2>3 DEF TypeOK
  <2> QED BY <2>1, <2>2, <2>3
<1>2. QemuPlace' /\ FilePlace'
  BY DEF QemuPlace, FilePlace, Starting, Ending, Over
<1>3. CulpritPlace' /\ Untouched'
  BY DEF CulpritPlace, Untouched, Starting
<1>4. QemuStatus' /\ Settled'
  BY DEF QemuStatus, Settled
<1> QED BY <1>1, <1>2, <1>3, <1>4

\* Nor the command and its payload.
LEMMA ClientKeeps == ASSUME IInv, Client PROVE IInv'
<1> USE DEF Client, PayloadStarts, PayloadEnds, StdinReturns, IInv, services
<1>1. TypeOK'
  <2>1. CASE PayloadStarts
    BY <2>1 DEF TypeOK
  <2>2. CASE PayloadEnds
    <3>1. shutdown' \in BOOLEAN
      BY <2>2, Zenon DEF TypeOK
    <3>2. payload' \in {"none", "waiting", "running", "ok", "err"}
      BY <2>2
    <3> QED
      BY <2>2, <3>1, <3>2 DEF TypeOK
  <2>3. CASE StdinReturns
    <3>1. stdin' \in BOOLEAN
      BY <2>3, Zenon
    <3> QED
      BY <2>3, <3>1 DEF TypeOK
  <2> QED BY <2>1, <2>2, <2>3
<1>2. QemuPlace' /\ FilePlace'
  BY DEF QemuPlace, FilePlace, Starting, Ending, Over
<1>3. CulpritPlace' /\ Untouched'
  BY DEF CulpritPlace, Untouched, Starting
<1>4. QemuStatus' /\ Settled'
  BY DEF QemuStatus, Settled
<1> QED BY <1>1, <1>2, <1>3, <1>4

\* Nor the services.
LEMMA PeersKeep ==
  ASSUME IInv, NEW s \in Services, ServiceBinds(s) \/ QemuConnects(s) \/ ServiceEnds(s)
  PROVE  IInv'
<1> USE DEF ServiceBinds, QemuConnects, ServiceEnds, IInv, services, client
<1>1. TypeOK'
  BY DEF TypeOK
<1>2. QemuPlace' /\ FilePlace'
  BY DEF QemuPlace, FilePlace, Starting, Ending, Over
<1>3. CulpritPlace' /\ Untouched'
  BY DEF CulpritPlace, Untouched, Starting
<1>4. QemuStatus' /\ Settled'
  BY DEF QemuStatus, Settled
<1> QED BY <1>1, <1>2, <1>3, <1>4

LEMMA MonitorMarksKeeps ==
  ASSUME IInv, NEW s \in Services, MonitorMarks(s) PROVE IInv'
<1> USE TaskFacts DEF MonitorMarks, IInv, client
<1> DEFINE v == IF svc[s] = "ok" THEN "Finished" ELSE "Failed"
<1>1. TypeOK /\ v \in Statuses /\ v \in {"Finished", "Failed"} /\ v \in Terminal /\ s \in Tasks
  BY DEF Statuses, Terminal
<1>2. /\ status' \in [Tasks -> Statuses]
      /\ \A t \in Tasks : status'[t] = IF t = s THEN v ELSE status[t]
  <2> HIDE DEF v
  <2>1. status' = [status EXCEPT ![s] = v]
    BY DEF Mark, v
  <2> QED BY <1>1, <2>1, MarkFacts
<1>3. mon' = [mon EXCEPT ![s] = "done"] /\ mon \in [Services -> {"none", "wait", "done", "aborted"}]
  BY DEF TypeOK
<1>4. /\ first' \in Seq(Services) /\ first' # <<>> /\ Head(first') \in Services
      /\ first = <<>> => Head(first') = s
      /\ first # <<>> => Head(first') = Head(first)
  BY <1>1, FirstFacts
<1>5. TypeOK'
  BY <1>2, <1>3, <1>4 DEF TypeOK
<1>6. mon'[Head(first')] = "done"
  BY <1>3, <1>4 DEF CulpritPlace
<1>7. ASSUME pc = "failure" \/ state_json = "service_failed"
      PROVE  status'[Head(first')] \in {"Finished", "Failed"}
  <2> HIDE DEF v
  <2>1. first # <<>> /\ status[Head(first)] \in {"Finished", "Failed"}
    BY <1>7 DEF CulpritPlace
  <2> QED BY <1>1, <1>2, <1>4, <2>1
<1>8. ASSUME pc = "select", NEW t \in Services, mon'[t] = "done"
      PROVE  status'[t] \in {"Finished", "Failed"}
  <2> HIDE DEF v
  <2>1. CASE t = s
    BY <1>1, <1>2, <2>1
  <2>2. CASE t # s
    BY <1>2, <1>3, <1>8, <2>2 DEF CulpritPlace
  <2> QED BY <2>1, <2>2
<1>9. CulpritPlace'
  BY <1>4, <1>6, <1>7, <1>8 DEF CulpritPlace
<1>10. QemuStatus' /\ Settled'
  <2> HIDE DEF v
  <2> QED BY <1>1, <1>2 DEF QemuStatus, Settled
<1> QED BY <1>5, <1>9, <1>10 DEF QemuPlace, FilePlace, Untouched, Starting, Ending, Over

-----------------------------------------------------------------------------
\* IInv holds in every state of a launch: the place of the launch task, QEMU, the
\* monitors, the statuses and the state file move together at every step.
THEOREM LaunchInductive == Spec => []IInv
<1>1. ASSUME IInv, [Next]_vars PROVE IInv'
  <2>1. CASE Launch
    BY <1>1, <2>1, StartServiceKeeps, ServiceReadyKeeps, ServiceNotReadyKeeps, SpawnQemuKeeps,
       QemuExitedKeeps, QemuTimedOutKeeps, TimeoutReapedKeeps, ServiceCompletedKeeps,
       FailureReapedKeeps, ShutdownSeenKeeps, ShutdownReapedKeeps, EndKeeps DEF Launch
  <2>2. CASE QemuExits \/ RequestShutdown \/ ControlStops
    BY <1>1, <2>2, CommonKeeps
  <2>3. CASE \E s \in Services : ServiceBinds(s) \/ QemuConnects(s) \/ ServiceEnds(s)
                                 \/ MonitorMarks(s)
    BY <1>1, <2>3, PeersKeep, MonitorMarksKeeps
  <2>5. CASE WaitFails \/ Client
    BY <1>1, <2>5, WaitFailsKeeps, ClientKeeps
  <2>4. CASE UNCHANGED vars
    BY <1>1, <2>4 DEF vars, services, client, IInv, TypeOK, QemuPlace, FilePlace, CulpritPlace,
       QemuStatus, Settled, Untouched
  <2> QED BY <1>1, <2>1, <2>2, <2>3, <2>4, <2>5 DEF Next
<1> QED BY InitHolds, <1>1, PTL DEF Spec

\* A launch that has recorded QEMU as running ends only after waiting for it, unless
\* the wait itself fails.
THEOREM LaunchReapsQemu == Spec => []RecordedQemuReaped
<1>1. IInv => RecordedQemuReaped
  BY DEF IInv, QemuPlace, RecordedQemuReaped, Over
<1> QED BY <1>1, LaunchInductive, PTL

\* A launch that has started QEMU returns with a terminal status for every task.
THEOREM LaunchSettlesServices == Spec => []ServicesSettled
<1>1. IInv => ServicesSettled
  BY DEF IInv, Settled, ServicesSettled
<1> QED BY <1>1, LaunchInductive, PTL

\* When a service ends the launch, the status of that service keeps its own result.
THEOREM LaunchKeepsCulprit == Spec => []CulpritKept
<1>1. IInv => CulpritKept
  BY DEF IInv, CulpritPlace, CulpritKept
<1> QED BY <1>1, LaunchInductive, PTL

\* The status of QEMU and the state file report the same ending.
THEOREM LaunchEndingsAgree == Spec => []EndingsAgree
<1>1. IInv => EndingsAgree
  BY DEF IInv, QemuStatus, EndingsAgree
<1> QED BY <1>1, LaunchInductive, PTL
=============================================================================
