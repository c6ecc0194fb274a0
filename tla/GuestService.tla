------------------------------ MODULE GuestService ------------------------------
(***************************************************************************)
(* The guest's payload service (guest-service/src/lib.rs): admission of    *)
(* clients, the slot of the single primary payload, the session that       *)
(* carries its terminal (the child and its pty, the output thread with its *)
(* bounded channel, the select over output, control frames and exit), and  *)
(* the permits of the diagnostics that run beside it.                      *)
(*                                                                         *)
(* A control frame arrives in two parts: "front" stands for any proper     *)
(* prefix of its bytes, "rest" for the others.  read_frame_async keeps its *)
(* place in its future, which select! drops when another branch wins: the  *)
(* front it holds is lost, and the rest is then taken for a header.        *)
(*                                                                         *)
(* The Command that spawned the child keeps the pty's slave open until the *)
(* session returns, so before that the output thread meets no end of file, *)
(* a write to the pty no error, and the output channel is never closed.    *)
(* The session's data is that of the slot's holder.  What a client, or a   *)
(* child that is left running, does after its request has returned touches *)
(* nothing of the service and is left out.                                 *)
(***************************************************************************)
EXTENDS Naturals, Sequences, FiniteSets

CONSTANTS
  Clients,          \* each connects at most once
  MaxClients,       \* GuestServiceLimits.max_clients
  MaxDiagnostics,   \* GuestServiceLimits.max_diagnostics
  OutputCapacity,   \* the output channel, in chunks
  PtyCapacity,      \* what the pty holds in either direction, in chunks
  MaxOut,           \* bound on the chunks a primary child writes
  MaxFrames,        \* bound on the control frames a client sends
  MaxWire           \* bound on the parts under way when it sends another

ASSUME GuestAssumption ==
  /\ IsFiniteSet(Clients)
  /\ {MaxClients, MaxDiagnostics, OutputCapacity, PtyCapacity} \subseteq Nat \ {0}
  /\ {MaxOut, MaxFrames, MaxWire} \subseteq Nat

VARIABLES
  client,          \* each client's end of its connection: "away", "open" or "gone"
  task,            \* the place of each client's handle_client
  primary_active,  \* the admission flag of the primary payload
  child,           \* each client's child: "none", "running" or "ended"
  term,            \* the clients whose child was sent SIGTERM
  abandoned,       \* those whose session returned an error without a signal to the child
  written, pty,    \* chunks the primary child has written; those in the pty
  hand,            \* the chunk in the hands of the output thread
  channel,         \* output_tx to output_rx
  sending, sent,   \* the chunk being sent; the chunks sent to the client
  frames, wire,    \* control frames the client has sent; parts not yet read
  partial,         \* what the reading future holds
  control_closed,
  writing, tty_in  \* a write to the pty is under way; input the child can read

admission == <<client, task, primary_active, child, term, abandoned>>
output == <<written, pty, hand, channel, sending, sent>>
control == <<frames, wire, partial, control_closed>>
input == <<writing, tty_in>>
vars == <<admission, output, control, input>>

Part(p, k) == [part |-> p, kind |-> k]
Parts == [part : {"front", "rest"}, kind : {"INPUT", "SIGNAL"}]
Nothing == Part("nothing", "none")
Garbage == Part("garbage", "none")

Running == {"select", "send", "input", "drain", "drain_send", "exit"}
In(places) == {c \in Clients : task[c] \in places}

Init ==
  /\ client = [c \in Clients |-> "away"]
  /\ task = [c \in Clients |-> "none"]
  /\ child = [c \in Clients |-> "none"]
  /\ primary_active = FALSE /\ term = {} /\ abandoned = {}
  /\ written = 0 /\ pty = <<>> /\ hand = <<>> /\ channel = <<>> /\ sending = <<>> /\ sent = <<>>
  /\ frames = 0 /\ wire = <<>> /\ partial = Nothing /\ control_closed = FALSE
  /\ writing = FALSE /\ tty_in = 0

At(c, place) == task' = [task EXCEPT ![c] = place]
Child(c, s) == child' = [child EXCEPT ![c] = s]
Terminate(c) == term' = term \cup {c}

\* run_primary_request returns: the pty, the channel and PrimarySession are dropped.
Returns(c) ==
  /\ At(c, "done") /\ primary_active' = FALSE
  /\ written' = 0 /\ pty' = <<>> /\ hand' = <<>> /\ channel' = <<>>
  /\ sending' = <<>> /\ sent' = <<>>
  /\ frames' = 0 /\ wire' = <<>> /\ partial' = Nothing /\ control_closed' = FALSE
  /\ writing' = FALSE /\ tty_in' = 0

\* It returns an error by a path that does not signal the child.
Abandon(c) == Returns(c) /\ abandoned' = abandoned \cup {c}

-----------------------------------------------------------------------------
(* Admission. *)

\* serve_listener, try_acquire_client: a client over the limit is closed at once.
Connect(c) ==
  /\ client[c] = "away" /\ client' = [client EXCEPT ![c] = "open"]
  /\ At(c, IF Cardinality(In(Running \cup {"initial", "diagnostic"})) < MaxClients
             THEN "initial" ELSE "done")
  /\ UNCHANGED <<primary_active, child, term, abandoned, output, control, input>>

\* The client is answered or dropped, and gives its permit back: a PING, a first
\* frame that is late, malformed or unexpected, a request that is refused (the
\* slot is taken, no diagnostic permit) or whose setup fails.
NotStarted(c) ==
  /\ task[c] = "initial" /\ At(c, "done")
  /\ UNCHANGED <<client, primary_active, child, term, abandoned, output, control, input>>

\* Mutant: the flag is set and not asked for.
Mut_RunPrimary_NoFlag(c) ==
  /\ task[c] = "initial" /\ primary_active' = TRUE
  /\ At(c, "select") /\ Child(c, "running")
  /\ UNCHANGED <<client, term, abandoned, output, control, input>>

\* A RUN_PRIMARY frame: try_start_primary, then the pty, the child, the channel and
\* the output thread of run_primary_request.
RunPrimary(c) ==
  /\ task[c] = "initial" /\ ~primary_active /\ primary_active' = TRUE
  /\ At(c, "select") /\ Child(c, "running")
  /\ UNCHANGED <<client, term, abandoned, output, control, input>>

\* A RUN_DIAGNOSTIC frame: try_start_diagnostic, ...
RunDiagnostic(c) ==
  /\ task[c] = "initial" /\ Cardinality(In({"diagnostic"})) < MaxDiagnostics
  /\ At(c, "diagnostic")
  /\ UNCHANGED <<client, primary_active, child, term, abandoned, output, control, input>>

\* ... and run_diagnostic_request returns, by whichever of its paths.
DiagnosticReturns(c) ==
  /\ task[c] = "diagnostic" /\ At(c, "done")
  /\ UNCHANGED <<client, primary_active, child, term, abandoned, output, control, input>>

-----------------------------------------------------------------------------
(* The child of the primary payload, its terminal and the output thread. *)

ChildWrites(c) ==
  /\ task[c] \in Running /\ child[c] = "running"
  /\ written < MaxOut /\ Len(pty) < PtyCapacity
  /\ written' = written + 1 /\ pty' = Append(pty, written + 1)
  /\ UNCHANGED <<admission, hand, channel, sending, sent, control, input>>

ChildReads(c) ==
  /\ task[c] \in Running /\ child[c] = "running" /\ tty_in > 0
  /\ tty_in' = tty_in - 1
  /\ UNCHANGED <<admission, output, control, writing>>

\* A child ends by itself or by a signal; it may ignore SIGTERM.
ChildEnds(c) ==
  /\ child[c] = "running" /\ task[c] # "done" /\ Child(c, "ended")
  /\ UNCHANGED <<client, task, primary_active, term, abandoned, output, control, input>>

\* The write that tokio's File does in the background returns once the terminal
\* has room.
WriteDone(c) ==
  /\ task[c] \in Running /\ writing /\ tty_in < PtyCapacity
  /\ writing' = FALSE /\ tty_in' = tty_in + 1
  /\ UNCHANGED <<admission, output, control>>

\* spawn_pty_output_reader: read ...
ThreadReads(c) ==
  /\ task[c] \in Running /\ hand = <<>> /\ pty # <<>>
  /\ hand' = <<Head(pty)>> /\ pty' = Tail(pty)
  /\ UNCHANGED <<admission, written, channel, sending, sent, control, input>>

\* Mutant: the channel has no bound.
Mut_ThreadSends_Unbounded(c) ==
  /\ task[c] \in Running /\ hand # <<>>
  /\ channel' = channel \o hand /\ hand' = <<>>
  /\ UNCHANGED <<admission, written, pty, sending, sent, control, input>>

\* Mutant: a chunk that does not fit is dropped (try_send).
Mut_ThreadSends_Drops(c) ==
  /\ task[c] \in Running /\ hand # <<>>
  /\ channel' = IF Len(channel) < OutputCapacity THEN channel \o hand ELSE channel
  /\ hand' = <<>>
  /\ UNCHANGED <<admission, written, pty, sending, sent, control, input>>

\* ... then blocking_send.
ThreadSends(c) ==
  /\ task[c] \in Running /\ hand # <<>> /\ Len(channel) < OutputCapacity
  /\ channel' = channel \o hand /\ hand' = <<>>
  /\ UNCHANGED <<admission, written, pty, sending, sent, control, input>>

-----------------------------------------------------------------------------
(* The client of the primary payload. *)

\* A control frame is sent; its parts travel together or apart.
ClientSends(c, k) ==
  /\ client[c] = "open" /\ task[c] \in Running
  /\ frames < MaxFrames /\ Len(wire) < MaxWire
  /\ frames' = frames + 1
  /\ wire' = wire \o <<Part("front", k), Part("rest", k)>>
  /\ UNCHANGED <<admission, output, partial, control_closed, input>>

ClientCloses(c) ==
  /\ client[c] = "open" /\ task[c] # "done"
  /\ client' = [client EXCEPT ![c] = "gone"]
  /\ UNCHANGED <<task, primary_active, child, term, abandoned, output, control, input>>

-----------------------------------------------------------------------------
(* run_primary_request: the branches of its select. *)

\* output_rx.recv() wins, and the reading future is dropped with what it holds.
OutputTaken(c) ==
  /\ task[c] = "select" /\ channel # <<>>
  /\ sending' = <<Head(channel)>> /\ channel' = Tail(channel)
  /\ partial' = Nothing /\ At(c, "send")
  /\ UNCHANGED <<client, primary_active, child, term, abandoned, written, pty, hand, sent,
                 frames, wire, control_closed, input>>

\* send_output: a write to a client that is gone may still be accepted.
Sent(c) ==
  /\ task[c] \in {"send", "drain_send"}
  /\ At(c, IF task[c] = "send" THEN "select" ELSE "drain")
  /\ sent' = sent \o sending /\ sending' = <<>>
  /\ UNCHANGED <<client, primary_active, child, term, abandoned, written, pty, hand, channel,
                 control, input>>

\* It fails: SIGTERM and return; while draining there is no child to signal.
SendFails(c) ==
  /\ task[c] \in {"send", "drain_send"} /\ client[c] = "gone"
  /\ IF task[c] = "send" THEN Terminate(c) ELSE UNCHANGED term
  /\ Returns(c)
  /\ UNCHANGED <<client, child, abandoned>>

Reading(c) == task[c] = "select" /\ ~control_closed

\* The front of a frame is there, and the rest not yet.
FrontRead(c) ==
  /\ Reading(c) /\ partial = Nothing /\ wire # <<>> /\ Head(wire).part = "front"
  /\ partial' = Head(wire) /\ wire' = Tail(wire)
  /\ UNCHANGED <<admission, output, frames, control_closed, input>>

\* handle_primary_control_frame on an INPUT frame: write_all waits for the write
\* before it and leaves its own to the background.
Write(c) ==
  IF writing THEN At(c, "input") /\ UNCHANGED input
             ELSE writing' = TRUE /\ UNCHANGED <<tty_in, task>>

\* The frame is whole: it is handled.  A forwarded signal may end the child,
\* which ChildEnds allows at any time.
FrameRead(c) ==
  /\ Reading(c) /\ partial.part = "front" /\ wire # <<>>
  /\ wire' = Tail(wire) /\ partial' = Nothing
  /\ IF partial.kind = "INPUT" THEN Write(c) ELSE UNCHANGED <<input, task>>
  /\ UNCHANGED <<client, primary_active, child, term, abandoned, output, frames, control_closed>>

\* The frame is a SIGNAL or RESIZE whose JSON does not parse, or whose resize the
\* terminal refuses: the error is returned.
FrameRejected(c) ==
  /\ Reading(c) /\ partial = Part("front", "SIGNAL") /\ wire # <<>>
  /\ Abandon(c)
  /\ UNCHANGED <<client, child, term>>

\* Bytes inside a frame are decoded as a header that asks for more.
OutOfStep(c) ==
  /\ Reading(c) /\ wire # <<>>
  /\ partial = Garbage \/ (partial = Nothing /\ Head(wire).part = "rest")
  /\ partial' = Garbage /\ wire' = Tail(wire)
  /\ UNCHANGED <<admission, output, frames, control_closed, input>>

\* The bytes asked for have come, and make a frame of no known kind, or INPUT.
GarbageFrame(c) ==
  /\ Reading(c) /\ partial = Garbage /\ partial' = Nothing
  /\ Write(c) \/ UNCHANGED <<task, input>>
  /\ UNCHANGED <<client, primary_active, child, term, abandoned, output, frames, wire,
                 control_closed>>

\* Or they make a SIGNAL or RESIZE that does not parse: an error, returned without
\* a signal to the child.
GarbageRejected(c) ==
  /\ Reading(c) /\ partial = Garbage
  /\ Abandon(c)
  /\ UNCHANGED <<client, child, term>>

\* Mutant: the loop goes on without the signal.
Mut_ReadFails_NoTerm(c) ==
  /\ Reading(c)
  /\ client[c] = "gone" \/ (partial = Nothing /\ wire # <<>> /\ Head(wire).part = "rest")
  /\ control_closed' = TRUE /\ partial' = Nothing
  /\ UNCHANGED <<admission, output, frames, wire, input>>

\* read_frame_async fails: end of file or a reset by the client, or bytes inside a
\* frame decoded as a header with a length over MAX_FRAME_PAYLOAD.
ReadFails(c) ==
  /\ Reading(c)
  /\ client[c] = "gone" \/ (partial = Nothing /\ wire # <<>> /\ Head(wire).part = "rest")
  /\ control_closed' = TRUE /\ partial' = Nothing /\ Terminate(c)
  /\ UNCHANGED <<client, task, primary_active, child, abandoned, output, frames, wire, input>>

\* The write before has returned, and write_all goes on.
InputAccepted(c) ==
  /\ task[c] = "input" /\ ~writing
  /\ writing' = TRUE /\ At(c, "select")
  /\ UNCHANGED <<client, primary_active, child, term, abandoned, output, control, tty_in>>

\* wait_task wins.
ExitSeen(c) ==
  /\ task[c] = "select" /\ child[c] = "ended" /\ At(c, "drain")
  /\ UNCHANGED <<client, primary_active, child, term, abandoned, output, control, input>>

\* Or it reports that waiting for the child has failed.
WaitFails(c) ==
  /\ task[c] = "select" /\ Abandon(c)
  /\ UNCHANGED <<client, child, term>>

\* drain_recent_primary_output: a chunk within 50 ms, or the end of the output.
Drain(c) ==
  /\ task[c] = "drain"
  /\ IF channel = <<>>
       THEN At(c, "exit") /\ UNCHANGED <<sending, channel>>
       ELSE /\ sending' = <<Head(channel)>> /\ channel' = Tail(channel)
            /\ At(c, "drain_send")
  /\ UNCHANGED <<client, primary_active, child, term, abandoned, written, pty, hand, sent,
                 control, input>>

\* send_exit, whether or not the client can be written to.
ExitSent(c) ==
  /\ task[c] = "exit" /\ Returns(c)
  /\ UNCHANGED <<client, child, term, abandoned>>

-----------------------------------------------------------------------------
Admit(c) ==
  Connect(c) \/ NotStarted(c) \/ RunPrimary(c) \/ RunDiagnostic(c) \/ DiagnosticReturns(c)

Environment(c) ==
  \/ ChildWrites(c) \/ ChildReads(c) \/ ChildEnds(c)
  \/ ClientCloses(c) \/ \E k \in {"INPUT", "SIGNAL"} : ClientSends(c, k)

ReadControl(c) ==
  FrontRead(c) \/ FrameRead(c) \/ FrameRejected(c) \/ OutOfStep(c) \/ GarbageFrame(c)
  \/ GarbageRejected(c) \/ ReadFails(c)

Session(c) ==
  \/ ReadControl(c) \/ OutputTaken(c) \/ Sent(c) \/ SendFails(c) \/ InputAccepted(c)
  \/ ExitSeen(c) \/ WaitFails(c) \/ Drain(c) \/ ExitSent(c)

Thread(c) == ThreadReads(c) \/ ThreadSends(c)

Next ==
  \E c \in Clients :
    Admit(c) \/ Environment(c) \/ Session(c) \/ Thread(c) \/ WriteDone(c)

Spec == Init /\ [][Next]_vars

\* The runtime polls a task that is ready, and select! picks at random among the
\* ready branches: one that is ready again and again is taken, of which only the
\* weak half is assumed.  The kernel finishes a write to the terminal that has room.
\* Nothing is assumed of the child, nor of the client: it may never read, and a
\* write to it, even when it is gone, may neither return nor fail.
FairSpec ==
  /\ Spec
  /\ \A c \in Clients :
       /\ WF_vars(ReadFails(c)) /\ WF_vars(OutputTaken(c)) /\ WF_vars(ExitSeen(c))
       /\ WF_vars(InputAccepted(c)) /\ WF_vars(Drain(c))
       /\ WF_vars(Thread(c)) /\ WF_vars(WriteDone(c))

-----------------------------------------------------------------------------
(* Properties. *)

\* The variables have their types, and no queue exceeds its capacity: the output
\* channel of 16 chunks is the only buffer between the pty and a slow client.
TypeOK ==
  /\ client \in [Clients -> {"away", "open", "gone"}]
  /\ task \in [Clients -> {"none", "initial", "diagnostic", "done"} \cup Running]
  /\ child \in [Clients -> {"none", "running", "ended"}]
  /\ primary_active \in BOOLEAN /\ term \cup abandoned \subseteq Clients
  /\ written \in 0 .. MaxOut
  /\ \A q \in {pty, hand, channel, sending, sent} : q \in Seq(1 .. MaxOut)
  /\ Len(pty) <= PtyCapacity /\ Len(channel) <= OutputCapacity
  /\ Len(hand) <= 1 /\ Len(sending) <= 1
  /\ frames \in 0 .. MaxFrames /\ wire \in Seq(Parts)
  /\ partial \in Parts \cup {Nothing, Garbage}
  /\ control_closed \in BOOLEAN /\ writing \in BOOLEAN /\ tty_in \in 0 .. PtyCapacity

\* The admission flag is set exactly while a session runs, at most one session
\* runs, and neither clients nor diagnostics exceed their permits, whatever path
\* the sessions before took to their end (try_start_primary, Drop).
OnePrimary ==
  /\ primary_active <=> In(Running) # {}
  /\ Cardinality(In(Running)) <= 1
  /\ Cardinality(In({"diagnostic"})) <= MaxDiagnostics
  /\ Cardinality(In(Running \cup {"initial", "diagnostic"})) <= MaxClients

\* Until its session returns, no output of the payload is lost, repeated or reordered
\* on its way to the client: what was sent, is being sent, is queued, is in the
\* thread's hands and is in the pty make up what the child wrote.
OutputKept ==
  sent \o sending \o channel \o hand \o pty = [i \in 1 .. written |-> i]

\* The session is in a write without a deadline: of output or the exit to its
\* client, or of input to a terminal that the child does not read.
Stuck(c) == \/ task[c] \in {"send", "drain_send", "exit"}
            \/ task[c] = "input" /\ writing /\ tty_in = PtyCapacity

\* When its client is gone a session ends and frees the slot, with its payload
\* ended or sent SIGTERM, or it waits for a payload that ignores the SIGTERM.  The
\* code leaves two cases open: a write without a deadline never returns, or the
\* session returned an error by a path that sends no signal.
DisconnectSettles ==
  \A c \in Clients :
    \/ <>[]Stuck(c)
    \/ (client[c] = "gone" /\ task[c] \in Running)
         ~> \/ task[c] = "done" /\ (child[c] = "ended" \/ c \in term \cup abandoned)
            \/ task[c] \in Running /\ child[c] = "running" /\ c \in term

\* Every control frame of the client is acted on and nothing else is: a frame is
\* read from its first byte, and reading does not end on a client that is there.
ControlForwarded ==
  /\ (partial = Nothing /\ wire # <<>>) => Head(wire).part = "front"
  /\ control_closed => \E c \in Clients : client[c] = "gone"
=============================================================================
