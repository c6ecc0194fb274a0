---------------------------- MODULE LaunchSupervisor ----------------------------
(***************************************************************************)
(* The lifecycle of one launch (launch.rs, supervisor.rs): the services    *)
(* are started one after the other, QEMU is started, and the first of QEMU *)
(* exit, timeout, service completion and requested shutdown ends it all.   *)
(*                                                                         *)
(* Concurrent with the launch task: the services, one monitor per service, *)
(* QEMU, control clients, and the command that started the launch, which   *)
(* may run a payload in the guest.  Between two awaits the launch task and *)
(* a monitor each take one step; they run on different threads.            *)
(***************************************************************************)
EXTENDS Naturals, Sequences, FiniteSets

CONSTANTS
  Order,          \* the services, in the order they are started
  Blocking,       \* those run with spawn_blocking, which cannot be aborted
  Heeding,        \* those that end when told to (DockerProxy)
  HasTimeout      \* a qemu_timeout is configured

Services == {Order[i] : i \in 1 .. Len(Order)}
Qemu == "qemu"
Tasks == Services \cup {Qemu}

ASSUME LaunchAssumption ==
  /\ Order \in Seq(Services) /\ Qemu \notin Services
  /\ Blocking \subseteq Services /\ Heeding \subseteq Services \ Blocking
  /\ HasTimeout \in BOOLEAN

VARIABLES
  status,       \* the watch channel of each task
  svc,          \* what each service really does
  bound,        \* services whose socket exists
  connected,    \* services QEMU has connected to
  told,         \* services whose shutdown_tx was sent true or dropped
  mon,          \* the monitor of each service (SupervisedBlockingService::wait)
  first,        \* the services whose monitors have completed, in order
  qemu,         \* the QEMU process
  lost,         \* an I/O error ended the wait for it: nobody reaps it any more
  shutdown,     \* a shutdown was requested
  control,      \* serve_control_listener_until_shutdown
  state_json,   \* the status last written by write_launch_state
  pc, next,     \* place in the launch task; the next service to start
  result,       \* what the launch returns
  payload,      \* the payload of the command: none, or how far it is
  stdin         \* a read of the terminal, which cannot be cancelled, is under way

services == <<svc, bound, connected, mon, first>>
client == <<payload, stdin>>
vars == <<status, services, told, qemu, shutdown, control, state_json, pc, next, result,
          lost, client>>

Terminal == {"Finished", "Failed", "Cancelled"}
Ended(s) == svc[s] \in {"ok", "err"}

Init ==
  /\ status = [t \in Tasks |-> "Planned"]
  /\ svc = [s \in Services |-> "off"]
  /\ bound = {} /\ connected = {} /\ told = {}
  /\ mon = [s \in Services |-> "none"] /\ first = <<>>
  /\ qemu = "none" /\ shutdown = FALSE /\ control = "serving"
  /\ state_json = "starting" /\ pc = "start" /\ next = 1
  /\ result = "none" /\ lost = FALSE
  /\ payload \in {"none", "waiting"} /\ stdin = FALSE

Current == Order[next]
Mark(t, s) == status' = [status EXCEPT ![t] = s]
Return(r) == result' = r /\ pc' = "returned"

-----------------------------------------------------------------------------
(* Starting the services. *)

\* spawn_supervised_{blocking,async}_service_until_ready.
StartService ==
  /\ pc = "start" /\ next <= Len(Order)
  /\ svc' = [svc EXCEPT ![Current] = "run"]
  /\ Mark(Current, "Starting")
  /\ pc' = "ready"
  /\ UNCHANGED <<bound, connected, mon, first, told, qemu, shutdown, control, state_json,
                 next, result, lost, client>>

\* wait_for_supervised_service_ready: the socket exists.
ServiceReady ==
  /\ pc = "ready" /\ Current \in bound
  /\ Mark(Current, "Ready")
  /\ next' = next + 1 /\ pc' = "start"
  /\ UNCHANGED <<services, told, qemu, shutdown, control, state_json, result, lost, client>>

\* Mutant: the wait for the socket has no timeout.
Mut_ServiceNotReady_NoTimeout ==
  /\ pc = "ready" /\ Ended(Current)
  /\ told' = Services
  /\ Mark(Current, "Failed")
  /\ Return("err")
  /\ UNCHANGED <<services, qemu, shutdown, control, state_json, next, lost, client>>

\* The wait for the socket times out, or the service ends first: the launch
\* returns the error, and leaves the services before it running.
ServiceNotReady ==
  /\ pc = "ready"
  /\ Current \notin bound \/ Ended(Current)
  /\ told' = Services
  /\ svc' = IF Current \in Blocking \/ Ended(Current) THEN svc
            ELSE [svc EXCEPT ![Current] = "err"]
  /\ Mark(Current, "Failed")
  /\ Return("err")
  /\ UNCHANGED <<bound, connected, mon, first, qemu, shutdown, control, state_json, next,
                 lost, client>>

\* spawn_supervised_qemu_process_with_state_async, then the monitors.  When the
\* state file cannot be written the child is dropped, which does not end it.
SpawnQemu ==
  /\ pc = "start" /\ next > Len(Order)
  /\ \/ /\ qemu' = "running" /\ Mark(Qemu, "Ready") /\ state_json' = "running"
        /\ mon' = [s \in Services |-> "wait"]
        /\ pc' = "select" /\ UNCHANGED <<result, told>>
     \/ /\ \/ Mark(Qemu, "Failed") /\ UNCHANGED qemu
           \/ Mark(Qemu, "Starting") /\ qemu' = "running"
        /\ pc' = "control" /\ result' = "err" /\ told' = Services
        /\ UNCHANGED <<mon, state_json>>
  /\ UNCHANGED <<svc, bound, connected, first, shutdown, control, next, lost, client>>

-----------------------------------------------------------------------------
(* wait_for_qemu_or_service_failure. *)

\* Mutant: the service that ended the launch is cancelled like its peers.
Mut_Cancelled_SkipsNone(st, skip) == [t \in Tasks |-> IF t = Qemu THEN st[t] ELSE "Cancelled"]

\* cancel_unfinished_services marks every service but one, whatever its status.
Cancelled(st, skip) ==
  [t \in Tasks |-> IF t \in {Qemu, skip} THEN st[t] ELSE "Cancelled"]

\* Dropping the JoinSet aborts the monitors; one that is running completes.
DropMonitors ==
  \E running \in SUBSET {s \in Services : mon[s] = "wait" /\ Ended(s)} :
    mon' = [s \in Services |-> IF mon[s] = "wait" /\ s \notin running THEN "aborted" ELSE mon[s]]

\* The function returns, after the state file is written or that has failed.
Leave(json, r) ==
  /\ pc' = "control" /\ DropMonitors
  /\ \/ state_json' = json /\ result' = r
     \/ state_json' = state_json /\ result' = "err"
  /\ UNCHANGED <<svc, bound, connected, first>>

QemuExited ==
  /\ pc = "select" /\ qemu = "exited"
  /\ qemu' = "reaped"
  /\ status' = Cancelled([status EXCEPT ![Qemu] = "Finished"], Qemu)
  /\ told' = Services
  /\ Leave("exited", "ok")
  /\ UNCHANGED <<shutdown, control, next, lost, client>>

\* kill_timed_out_qemu: start_kill, and the wait for the child is an await.
QemuTimedOut ==
  /\ pc = "select" /\ HasTimeout
  /\ pc' = "timeout"
  /\ UNCHANGED <<status, services, told, qemu, shutdown, control, state_json, next, result,
                 lost, client>>

TimeoutReaped ==
  /\ pc = "timeout" /\ qemu = "exited" /\ qemu' = "reaped"
  /\ status' = Cancelled([status EXCEPT ![Qemu] = "Failed"], Qemu)
  /\ told' = Services
  /\ Leave("timed_out", "ok")
  /\ UNCHANGED <<shutdown, control, next, lost, client>>

\* The first monitor has completed: terminate_qemu_after_service_failure.
ServiceCompleted ==
  /\ pc = "select" /\ first # <<>>
  /\ status' = [Cancelled(status, Head(first)) EXCEPT ![Qemu] = "Failed"]
  /\ told' = Services \ {Head(first)}
  /\ pc' = "failure"
  /\ UNCHANGED <<services, qemu, shutdown, control, state_json, next, result, lost, client>>

\* Mutant: a child that does not answer is left to itself.
Mut_FailureReaped_NoWait ==
  /\ pc = "failure"
  /\ UNCHANGED qemu
  /\ Leave("service_failed", "err")
  /\ UNCHANGED <<status, told, shutdown, control, next, lost, client>>

FailureReaped ==
  /\ pc = "failure" /\ qemu = "exited" /\ qemu' = "reaped"
  /\ Leave("service_failed", "err")
  /\ UNCHANGED <<status, told, shutdown, control, next, lost, client>>

\* Mutant: the services are not cancelled.
Mut_ShutdownSeen_KeepsServices ==
  /\ pc = "select" /\ shutdown
  /\ status' = [status EXCEPT ![Qemu] = "Cancelled"]
  /\ told' = Services
  /\ pc' = "terminate"
  /\ UNCHANGED <<services, qemu, shutdown, control, state_json, next, result, lost, client>>

\* terminate_qemu_after_supervisor_shutdown.
ShutdownSeen ==
  /\ pc = "select" /\ shutdown
  /\ status' = [Cancelled(status, Qemu) EXCEPT ![Qemu] = "Cancelled"]
  /\ told' = Services
  /\ pc' = "terminate"
  /\ UNCHANGED <<services, qemu, shutdown, control, state_json, next, result, lost, client>>
ShutdownReaped ==
  /\ pc = "terminate" /\ qemu = "exited" /\ qemu' = "reaped"
  /\ Leave("terminated", "ok")
  /\ UNCHANGED <<status, told, shutdown, control, next, lost, client>>

\* child.wait, try_wait or start_kill fails: the function returns the error.  It
\* drops the child, which does not end QEMU, and all it held of the services.
WaitFails ==
  /\ pc \in {"select", "timeout", "failure", "terminate"}
  /\ lost' = TRUE
  /\ told' = Services
  /\ pc' = "control" /\ result' = "err" /\ DropMonitors
  /\ UNCHANGED <<status, svc, bound, connected, first, qemu, shutdown, control, state_json,
                 next, client>>

\* The launch asks the control server to end, and waits for it.
StopControl ==
  /\ pc = "control" /\ pc' = "stopping" /\ shutdown' = TRUE
  /\ UNCHANGED <<status, services, told, qemu, control, state_json, next, result, lost, client>>
ControlStopped ==
  /\ pc = "stopping" /\ control # "serving" /\ pc' = "returned"
  /\ result' = IF control = "failed" THEN "err" ELSE result
  /\ UNCHANGED <<status, services, told, qemu, shutdown, control, state_json, next, lost, client>>

\* The command leaves by process::exit when its payload and the launch have
\* succeeded.
Succeeded == payload = "ok" /\ result = "ok"

\* Otherwise main drops the runtime, which waits for every blocking task: the
\* services run with spawn_blocking and a read of the terminal.
RuntimeDropped == ~stdin /\ \A s \in Blocking : svc[s] # "run"

ProcessExit ==
  /\ pc = "returned" /\ payload # "running"
  /\ Succeeded \/ RuntimeDropped
  /\ pc' = "exited"
  /\ UNCHANGED <<status, services, told, qemu, shutdown, control, state_json, next, result,
                 lost, client>>

-----------------------------------------------------------------------------
(* The services, their monitors, QEMU and the control clients. *)

Alive == pc # "exited"
Gone == qemu \in {"exited", "reaped"}

ServiceBinds(s) ==
  /\ Alive /\ svc[s] = "run" /\ s \notin bound /\ bound' = bound \cup {s}
  /\ UNCHANGED <<status, svc, connected, mon, first, told, qemu, shutdown, control, state_json,
                 pc, next, result, lost, client>>

QemuConnects(s) ==
  /\ Alive /\ qemu = "running" /\ svc[s] = "run" /\ s \notin connected
  /\ connected' = connected \cup {s}
  /\ UNCHANGED <<status, svc, bound, mon, first, told, qemu, shutdown, control, state_json,
                 pc, next, result, lost, client>>

\* Mutant: the file system server listens again after QEMU has disconnected.
Mut_Dismissed_Listens(s) == s \in told \cap Heeding

Dismissed(s) == (Gone /\ s \in connected) \/ s \in told \cap Heeding

\* A service fails by itself, ends when QEMU has disconnected or when told to.
ServiceEnds(s) ==
  /\ Alive /\ svc[s] = "run"
  /\ \/ svc' = [svc EXCEPT ![s] = "err"]
     \/ Dismissed(s) /\ svc' = [svc EXCEPT ![s] = "ok"]
  /\ UNCHANGED <<status, bound, connected, mon, first, told, qemu, shutdown, control, state_json,
                 pc, next, result, lost, client>>

\* SupervisedBlockingService::wait: the service has ended; its status is set.
MonitorMarks(s) ==
  /\ mon[s] = "wait" /\ Ended(s)
  /\ mon' = [mon EXCEPT ![s] = "done"]
  /\ first' = Append(first, s)
  /\ Mark(s, IF svc[s] = "ok" THEN "Finished" ELSE "Failed")
  /\ UNCHANGED <<svc, bound, connected, told, qemu, shutdown, control, state_json, pc, next,
                 result, lost, client>>

\* The guest powers off, QEMU fails, or it has been killed.
QemuExits ==
  /\ qemu = "running" /\ qemu' = "exited"
  /\ UNCHANGED <<status, services, told, shutdown, control, state_json, pc, next, result,
                 lost, client>>

\* RequestShutdown on the control socket.
RequestShutdown ==
  /\ Alive /\ control = "serving" /\ ~shutdown /\ shutdown' = TRUE
  /\ UNCHANGED <<status, services, told, qemu, control, state_json, pc, next, result, lost, client>>

\* The guest is ready: the payload's session starts, with or without the terminal
\* as its input.
PayloadStarts ==
  /\ payload = "waiting" /\ qemu = "running" /\ pc = "select"
  /\ payload' = "running" /\ stdin' \in BOOLEAN
  /\ UNCHANGED <<status, services, told, qemu, shutdown, control, state_json, pc, next, result,
                 lost>>

\* The session ends, or the guest never became ready; either way the command asks
\* for the shutdown of the launch, if the control server still answers.
PayloadEnds ==
  /\ Alive
  /\ \/ payload = "waiting" /\ payload' = "err"
     \/ payload = "running" /\ payload' \in {"ok", "err"}
  /\ (control = "serving" /\ shutdown' = TRUE) \/ UNCHANGED shutdown
  /\ UNCHANGED <<status, services, told, qemu, control, state_json, pc, next, result, lost, stdin>>

\* The terminal is closed, or has input when no session is left to read on.
StdinReturns ==
  /\ stdin /\ stdin' = FALSE
  /\ UNCHANGED <<status, services, told, qemu, shutdown, control, state_json, pc, next, result,
                 lost, payload>>

\* serve_control_listener_until_shutdown ends, or fails to accept.
ControlStops ==
  /\ control = "serving"
  /\ (shutdown /\ control' = "stopped") \/ control' = "failed"
  /\ UNCHANGED <<status, services, told, qemu, shutdown, state_json, pc, next, result,
                 lost, client>>

Launch == \/ StartService \/ ServiceReady \/ ServiceNotReady \/ SpawnQemu
          \/ QemuExited \/ QemuTimedOut \/ TimeoutReaped \/ ServiceCompleted \/ FailureReaped
          \/ ShutdownSeen \/ ShutdownReaped \/ StopControl \/ ControlStopped \/ ProcessExit
Client == PayloadStarts \/ PayloadEnds \/ StdinReturns
Next == \/ Launch \/ WaitFails \/ Client \/ QemuExits \/ RequestShutdown \/ ControlStops
        \/ \E s \in Services : ServiceBinds(s) \/ QemuConnects(s) \/ ServiceEnds(s)
                               \/ MonitorMarks(s)

Spec == Init /\ [][Next]_vars

Killed == pc \in {"timeout", "failure", "terminate"}

\* The launch task and the monitors run; a killed QEMU exits; a service notices
\* that QEMU is gone, or that it is told to end; the control server ends.  With QEMU
\* the vmnet service ends, and with it the connection of the payload's session.
\* Nothing makes a read of the terminal return.
Fairness ==
  /\ WF_vars(Launch) /\ WF_vars(Killed /\ QemuExits) /\ WF_vars(shutdown /\ ControlStops)
  /\ WF_vars(Gone /\ PayloadEnds)
  /\ \A s \in Services : WF_vars(MonitorMarks(s)) /\ WF_vars(Dismissed(s) /\ ServiceEnds(s))

FairSpec == Spec /\ Fairness

-----------------------------------------------------------------------------
(* Properties. *)

Statuses == {"Planned", "Starting", "Ready"} \cup Terminal

\* The variables have their types, and the places of the launch task agree with
\* the state of QEMU and of the monitors.
TypeOK ==
  /\ status \in [Tasks -> Statuses]
  /\ svc \in [Services -> {"off", "run", "ok", "err"}]
  /\ {bound, connected, told} \subseteq SUBSET Services
  /\ mon \in [Services -> {"none", "wait", "done", "aborted"}]
  /\ first \in Seq(Services)
  /\ qemu \in {"none", "running", "exited", "reaped"}
  /\ shutdown \in BOOLEAN /\ control \in {"serving", "stopped", "failed"}
  /\ state_json \in {"starting", "running", "exited", "timed_out", "service_failed", "terminated"}
  /\ pc \in {"start", "ready", "select", "timeout", "failure", "terminate", "control",
             "stopping", "returned", "exited"}
  /\ next \in 1 .. Len(Order) + 1
  /\ result \in {"none", "ok", "err"}
  /\ lost \in BOOLEAN /\ stdin \in BOOLEAN
  /\ payload \in {"none", "waiting", "running", "ok", "err"}

\* Once QEMU is recorded as running, every ending waits for it: exit, timeout,
\* failure of a service, shutdown, and each of them with a state file that cannot
\* be written.  Only an error of the wait itself leaves it behind.
RecordedQemuReaped ==
  pc \in {"control", "stopping", "returned", "exited"} /\ state_json # "starting" /\ ~lost =>
    qemu = "reaped"

\* A launch that reached QEMU returns only when no service is reported as still
\* ready: each has been cancelled, or has its own result.
ServicesSettled ==
  pc \in {"returned", "exited"} /\ qemu = "reaped" => \A t \in Tasks : status[t] \in Terminal

\* When the completion of a service ends the launch, its own result stays: the
\* cancellation of its peers does not hide which service it was.
CulpritKept ==
  state_json = "service_failed" => status[Head(first)] \in {"Finished", "Failed"}

\* The state file and the status of QEMU tell the same ending.
EndingsAgree ==
  pc \in {"returned", "exited"} =>
    /\ state_json \in {"timed_out", "service_failed"} => status[Qemu] = "Failed"
    /\ state_json = "exited" => status[Qemu] = "Finished"
    /\ state_json = "terminated" => status[Qemu] = "Cancelled" /\ shutdown

\* A requested shutdown ends the launch, whatever it was doing: still starting,
\* waiting, or ending for another reason.
ShutdownReturns == shutdown ~> pc \in {"returned", "exited"}

\* After the exit of QEMU the process ends, if QEMU had connected to every
\* blocking service: their threads then end.  The code leaves one case open: a
\* payload that did not succeed and a terminal still being read, for the runtime
\* waits until that read returns.  A payload that succeeded waits for neither.
ExitEnds ==
  qemu = "reaped" /\ Blocking \subseteq connected ~>
    pc = "exited" \/ (stdin /\ ~Succeeded)
=============================================================================
