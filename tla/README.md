# TLA+ verification of the wrapper's microVM sandbox

This directory holds TLA+ models of the `agentvm` sandbox in `src/`, TLC
configurations that check them on small instances, and TLAPS proofs of the
results that hold for every instance. `PROJECT.json` is the index: components,
runs, the source lines each definition models, mutations that each property
detects, disagreements between code and documentation, hazards and theorems.

    tlc -workers 2 -config LaunchSupervisor.cfg MCLaunchSupervisor
    tlapm LaunchSupervisorProofs.tla

## 1. The system

A project-scoped QEMU microVM runs one payload. The host process
(`vm-frontend`) starts QEMU and serves it: a userspace network gateway
(`vmnet`) that terminates the guest's TCP, a composed file system over
vhost-user, and a Docker socket proxy. In the guest a small service starts the
payload and carries its terminal over a framed stream.

| Component | State | Operations | What makes it hard |
|---|---|---|---|
| Service IO boundary, `vmnet_service_io.rs` | token counter, pending table, command and completion channel, worker task | submit, insert, execute, complete, drain, disconnect, shut down | two bounded channels, enqueue before insert, worker panic |
| Owner loop, `vmnet_runtime.rs` | gateway, bridges, fd registrations, services | one select branch, then plan, submit, pump, reap | one loop for all; anything that blocks stops every session |
| TCP proxy, `tcp_proxy.rs`, `tls_mitm.rs` | sessions by socket handle, pending connects, buffers, TLS states | plan, complete connect, pump, read, flush, close | handles are reused; partial writes; TLS handshakes; closes on either side |
| Guest TCP core, `guest_tcp.rs`, `l2_gateway.rs`, `vmnet_gateway.rs` | smoltcp socket set, listener and session slots | add listener, connect, list sessions, close, reap | three tables that name one socket |
| Host ingress, `host_ingress.rs` | listeners, accept queue, sessions with two buffers | accept, open, pump, close | the guest may refuse, reset or half-close; readiness is level-triggered |
| Launch, `launch.rs`, `cli_main.rs` | QEMU child, service tasks and monitors, state file | start services, spawn, select on four endings, cancel, kill, wait | endings race; blocking services; failing writes |
| Supervisor and control socket, `supervisor.rs`, `supervisor_control.rs` | watch channels of task statuses and shutdown, unit channel per subscriber | mark, request shutdown, snapshot, subscribe | state read in one await and sent in another |
| Guest service, `guest-service/` | client permits, the primary slot, child, pty, output channel | accept, start, control frame, output, exit | a select over a reader that cannot be cancelled; blocking pty writes |
| Payload client, `payload_client.rs` | event and command channels, signal policy | read, write, forward signals | two tasks and a terminal |
| Payload protocol, QEMU stream framing | reader position | read and write a frame | cancellation in the middle of a frame |
| Composed file system, `composed-fs/` | inode table with lookup counts, handles, locks | FUSE operations | long operation sequences; stale paths |
| Docker proxy, DNS proxy, policy | connection permits; verdict functions | accept, copy; evaluate | limits; precedence of rules |
| Configuration, command line, TUI, wrapper | records | parse, plan, render | nothing concurrent, apart from the payload/launch race of `launch_cli.rs` |

The owner loop calls the bridges; both bridges share the guest TCP core; the
TCP proxy uses the connect service, the DNS proxy the DNS service. The launch
starts the gateway, the file system and the proxies as tasks, reports through
the supervisor, and the control socket reads what the supervisor holds.

## 2. Modules

| Module | Models |
|---|---|
| `VmnetServiceIoQueues` | the promise of a service: bounded in-process command and completion queues (`BoundedCommandQueue`, `BoundedCompletionQueue`) |
| `VmnetServiceIo` | one service as the owner loop and its Tokio worker run it; refines the queues |
| `VmnetTcpConnect` | the owner loop with the guest's outbound sessions: socket handles, listeners, pending connects, the connect service; composes `VmnetServiceIo` |
| `TcpProxySession` | the data path of one proxied session: plain, HTTP or intercepted TLS |
| `HostIngressSession` | the data path of one published-port connection |
| `LaunchSupervisor` | a launch from the first service to the end of the process |
| `StatusSubscription` | one subscriber of the control socket |
| `GuestService` | the guest's payload service: permits, the primary slot, the session of the primary payload |
| `…Proofs` | the theorems about the module of that name |
| `MC…` | instances for TLC |

**`VmnetServiceIo`.** `SubmitEnqueue`/`SubmitRejected` and `SubmitInsert` are the
two halves of `submit_to` (the command is on the channel before its token
is in the table), the worker's actions are the steps of
`spawn_dns_service_task` and of the blocking call in it, `OwnerApply` is
a completion taken by the select and removed from the table,
`OwnerDisconnected` the branch for a closed channel. Tokens stand for the
64-bit counter; `MaxToken` bounds how many are used.

**`VmnetTcpConnect`.** One turn of the loop is: an event (guest frame,
completion, descriptor, timer), planning and submission of connects
(`SubmitPlan`, `SubmitMark`, `SubmitFails`), the pump, and the reaping of closed
sockets. A socket is a smoltcp state and a handle; handles are reused, lowest
first. The variable `id` numbers guest sessions for the properties: the code has
no such number. Bytes are left out here; that a pump may close a session
because of its bytes is a choice.

**`TcpProxySession`.** `pc` walks through `process_gateway_with_readiness` and
the functions it calls for one session. Bytes are items: the n-th chunk, or a
flight of a TLS handshake. The limits of `TcpProxyBufferLimits` and the socket
buffers are constants, counted in items; every write may be partial. Upstream
plaintext for a guest that has not finished its handshake stays inside rustls:
`held`, up to `HeldLimit`. A TLS upstream may send records without data
(`Ticket`) as often as it likes, so that it need never fall silent.

**`HostIngressSession`.** The same for `host_ingress.rs`, with the read and
write limits of one pump. A refused or reset guest socket loses its endpoints
and with them its place in the list of sessions, as in smoltcp.

**`LaunchSupervisor`.** `pc` is the place of the launch task: starting the
services in `Order`, spawning QEMU, waiting in the select, one of the four
endings. A service is started, ready, ended; a monitor task reports its end.
A write of the state file may fail wherever the code writes it. `Blocking`
services run on blocking threads and end only when QEMU, having connected, is
gone; `Heeding` services watch the shutdown channel. `payload` and `stdin` are
the command's side of it (`launch_cli.rs`): the session of the payload, and the
read of the terminal that it leaves on a blocking thread and cannot cancel.
`ProcessExit` leaves by `process::exit` after success; otherwise it waits for
every blocking thread, as dropping a Tokio runtime does. `WaitFails` is an I/O
error of waiting for or killing QEMU; `lost` records it.

**`StatusSubscription`.** A status is a version number: a snapshot is read
channel by channel, then written. One forwarder task per channel waits for a
change and sends a unit into a bounded channel, on which the subscriber waits.

**`GuestService`.** `task` is the place of `handle_client` for each client; the
places from `select` to `exit` are those of `run_primary_request`. Output is
numbered chunks on their way from the child through the pty, the output thread
and the channel to the client. A control frame arrives as a front and a rest:
`OutputTaken` drops the reading future and with it a front already read, after
which `OutOfStep`, `GarbageFrame`, `GarbageRejected` and `ReadFails` are what
`decode_header` can make of the rest. `FrameRejected` (a SIGNAL or RESIZE that
does not parse or cannot be applied), `GarbageRejected` and `WaitFails` are the
error returns that end a session without a signal; `abandoned` records the
child they leave. A write of input is done in the
background by Tokio's `File`; a second one waits for it (`input`). A diagnostic
is its permit only. What a client or a left child does after the request has
returned touches nothing of the service and is left out.

## 3. What the runs check

Each passing run checks one module's invariants, action properties and liveness
on one instance. Violation runs are listed in section 5.

* `service`: over full channels, rejections, panics and shutdown, the owner never
  meets a completion it does not expect (`EveryCompletionExpected`, although the
  entry is inserted after the command is sent), answers belong to their requests
  and come in order, and the Tokio channels refine the in-process queues. A
  pending request is answered while the worker lives, and the worker ends after
  the owner.
* `connect`: the pump never connects synchronously (that would block all
  sessions), each pending mark has an answer on its way even when handles are
  reused, one session causes one connect, and sockets, slots and sessions stay in
  step. An established session gets its upstream or ends. The connect service is
  an instance of `VmnetServiceIo`, whose actions the owner loop's actions use.
* `session` and `ingress`: bytes are delivered, buffered or unread, once and in
  order; an end of stream follows all data, except what rustls holds for a guest
  that never finished its handshake; buffers keep their limits; a session
  that is cut leaves the upstream a prefix; guest payload is handled in frame
  turns only. The fd interest that the bridges register is enough for pending
  bytes to move on, in a proxied session once the upstream has fallen silent, and
  a guest's FIN ends an ingress session.
* `launch`: a recorded QEMU is waited for, unless the wait itself fails; each
  task ends with a terminal status; the service that ended a launch keeps its
  result. A requested shutdown ends the launch from every place. After QEMU, once
  connected to the blocking services, the process ends, unless the command has
  failed and its read of the terminal is still pending.
* `subscription`: a change the client has not been shown is announced; a client
  that reads is shown what stays, and a shutdown ends its stream.
* `guest`: at most one session runs and the flag says so, on every path to its
  end; until its session returns, output is neither lost, repeated nor
  reordered; after a disconnect the session ends, or waits for a payload that
  ignores SIGTERM. Two exceptions are part of the property because the code has
  them: a write that never returns, since neither writes to the client nor
  writes of input have a deadline (`Stuck`), and an error return that sends no
  signal (`abandoned`).

### Bounds

Bounds are constants of the modules and are given in the `.cfg` files.

* Service: capacities 2 and 1, two requests, five tokens. Both channels fill
  with a command executing, and one more submission is rejected.
* Connect: two handles and three sessions, so that a handle is reused while a
  connect for its first user is in flight, with another session beside it. The
  run about destinations has two of them on one port.
* Session: three chunks from the guest and two from the upstream, buffers of one
  to three items, one held: each buffer fills, is partly flushed, and overflows,
  with either handshake under way.
* Ingress: three chunks each way, reads of two, four per pump: a pump reads
  twice, stops at a full buffer and goes on later; the host's buffer overflows.
* Launch: a service that blocks until QEMU goes and one that heeds the shutdown;
  either can end first, at any place. One payload, with or without the terminal
  as its input. Safety is proved for any list.
* Subscription: two tasks and the shutdown channel, one unit of capacity, two
  changes each: a forwarder waits for room while its status changes again.
* Guest: two clients, so that one asks while the other holds the slot; one chunk
  in each buffer, two chunks of output and three control frames: the channel
  fills with a chunk in the thread's hands, and a third INPUT frame waits behind
  a stuck write. `MaxWire` lets a client of the passing run send its next frame
  when the last has been taken off the wire.

Nothing in the code depends on the larger values: channels and buffers
are compared only with their limits, handles only with one another.

### Fairness

* The tasks of the process run on a multi-threaded Tokio runtime: weak fairness
  of the worker, of a monitor and of the launch task's own steps.
* `tokio::select!` polls its branches in random order: a branch that is ready
  again and again is taken (strong fairness of `TcpCompletion`, of the bridges'
  descriptors, and of sending into a channel that is full now and then). Within
  the branch for descriptors `wait_async_fd_registrations` tries readable before
  writable: an upstream that goes on sending can keep its own writes waiting for
  ever. The fairness of `UpstreamWritable` is therefore conditional on the
  upstream falling silent (`Silent`), and so is `PendingReachesUpstream`.
* Blocking calls that the code bounds with a timeout return. QEMU after a kill
  ends. A service that was told to stop, and the control server after a
  shutdown, end.
* A peer that reads makes room, and the guest's TCP stack acknowledges: assumed
  in the data-path models, and of the acknowledgement (`GuestAck`) also in
  `VmnetTcpConnect`; strong because acknowledging may be disabled between turns.
  No peer is assumed to send, to close, or to connect.

* After QEMU the vmnet service ends and with it the connection of the payload's
  session, so the session ends. Nothing makes a read of the terminal return.
* In the guest, a ready task is polled and a write to a terminal with room
  returns. A write to a client need neither succeed nor fail. Nothing is assumed
  of the payload: it need not read, write or heed SIGTERM.

## 4. What is proved

The proofs hold for all values of the constants that the named assumptions
(`LimitsAssumption`, `SessionAssumption`, `LaunchAssumption`,
`SubscriptionAssumption`) admit; these ask only for the types of the constants
and for positive capacities.

* **`VmnetServiceIoProofs`**: `ServiceSafety`, `ServiceAnswersInOrder` and
  `ServiceRefinesQueues`. That an answer fits its request is not inductive by
  itself: the invariant adds that the tokens on the wire increase from
  completions through the executing command to the commands (`WireOrdered`),
  that all are below `next_token` (`TokensSpent`), that each entry on the wire
  names the request its token stands for (`WireNamed`), and that applied answers
  precede the wire (`AnswersPrecedeWire`).
* **`TcpProxySessionProofs`**: `SessionBuffersBounded`, `SessionStreamsKept`
  and `SessionPayloadInFrameTurns`. The key part of the invariant is `Unread`:
  between turns the guest's bytes are left unread only when a full transmit
  buffer blocks the pump, so payload is never handled in a turn that a
  descriptor started.
* **`LaunchSupervisorProofs`**: `LaunchReapsQemu`, `LaunchSettlesServices`,
  `LaunchKeepsCulprit`, `LaunchEndingsAgree`, for any list of services. The
  invariant ties the place of the launch task to the state of QEMU, to the
  statuses and to the file that is written next.
* **`StatusSubscriptionProofs`**: `NoLostChange`. The strengthening covers the
  middle of a snapshot: a channel not yet read is still to be read, and one
  already read has changed since only if its forwarder has not seen it.

Only model-checked: all liveness (fairness is outside the prover's reach),
`VmnetTcpConnect`, `HostIngressSession`, `GuestService`, and the TLS streams of
`TcpProxySession` (the theorem is about plain sessions).

## 5. Where code and documentation disagree

Each run below is expected to find a counterexample to a sentence of the
repository's documents; `PROJECT.json` quotes it.

| Run | What the code does |
|---|---|
| `connect_reuse` | a late connect is installed for the next session on the handle |
| `connect_late_failure` | a connect that fails after its socket was reaped uses a missing handle |
| `session_drop` | bytes waiting for a writable upstream are dropped with a half-closed session |
| `ingress_reset` | a refused or reset connection leaves the bridge session behind |
| `guest_control` | output that arrives in the middle of a control frame makes the service lose the part it has read, and terminate the payload of a connected client |

The models show more behaviours that a reader of the code may not expect. They
have no run of their own; the hazard list names the line of each.

* Requests that are pending when a service worker is gone stay pending.
* The socket of a guest that closes first stays in CLOSE-WAIT, for outbound and
  for published-port sessions.
* Data that a host client sends before the guest has answered wakes the owner
  loop again and again for a session that the pump passes over.
* Cancelling the peers of a launch overwrites the result of a service that had
  already ended, unless it was the one that ended the launch.
* An exit of QEMU can be reported as a service failure, when the monitor of a
  service that ended with it is polled first.
* QEMU goes on running when the state file cannot be written after the spawn, or
  when waiting for it fails.
* A failed command with the terminal as its input may end only when the terminal
  is next touched.
* Upstream plaintext that rustls holds for a guest in its handshake is lost when
  the upstream closes first.
* An upstream that never stops sending can keep the guest's bytes from being
  written to it.
* `docker/guest-service-rust-spike.md:41-44` asks for write deadlines and for KILL
  after a grace period; the guest service has neither, and an error of a control
  frame or of the wait sends no signal at all.
* A payload that does not read its input keeps the service from noticing that the
  client is gone, once a write is stuck.
* The last snapshot of a status subscription need not show the shutdown that
  ended the stream.

## 6. Not modelled, and the plan

Left out for good: parsing and formatting (frames, JSON, manifests, HTTP
headers, certificates), cryptography, rendering, the vendored `virtiofsd`, and
TCP itself (smoltcp is external: socket states as the code uses them).

Planned, in this order:

1. Payload client with its signal policy, composed with the guest service; QEMU
   stream framing, whose reader keeps its position when it is cancelled.
2. The inside of a diagnostic (timeout, output limit, the wait after both) and
   the Docker bridge of the guest service.
3. Composed file system: inode table with lookup counts and pruning, handles,
   locks, directory paging, rename.
4. Host ingress listeners: accept queue, local ports, several sessions.
5. Verdict functions of policy, DNS and TCP destinations against a reference
   definition; HTTP inspection with its lifetime limit.
6. Docker proxy and Docker bridge limits.

Proofs planned: the byte-stream invariants of `HostIngressSession`, the table
invariants of `VmnetTcpConnect`, the slot and output invariants of
`GuestService`, and the inode-table invariant of the composed file system.
