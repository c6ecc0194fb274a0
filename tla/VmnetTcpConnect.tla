---------------------------- MODULE VmnetTcpConnect ----------------------------
(***************************************************************************)
(* The vmnet owner loop with the guest's outbound TCP sessions: the guest  *)
(* sockets (guest_tcp.rs over smoltcp), the proxy's sessions and pending   *)
(* connects (tcp_proxy.rs), and the TCP connect service (VmnetServiceIo).  *)
(*                                                                         *)
(* One turn of the loop takes one event, then plans and submits connects,  *)
(* then pumps the proxy and reaps closed sockets.  A socket handle is an    *)
(* index that smoltcp reuses (lowest free first), while a connect is known *)
(* by its handle for as long as the worker takes.  `id' numbers the guest  *)
(* sessions: the code has no such number; the properties compare with it.  *)
(*                                                                         *)
(* Payload bytes are left out here (see TcpProxySession): a pump may close  *)
(* a session because its buffers overflowed or its TLS failed.             *)
(***************************************************************************)
EXTENDS Naturals, Sequences

CONSTANTS
  Dests,               \* destinations the policy allows
  PortOf,              \* [Dests -> ports]: a listener is per port
  MaxHandles,          \* bound on the sockets alive at once
  MaxId,               \* bound on the guest sessions opened
  CommandCapacity, CompletionCapacity

ASSUME ConnectAssumption == /\ MaxHandles \in Nat \ {0}
                            /\ MaxId \in Nat \ {0}

Handles == 0 .. MaxHandles - 1
Ids == 1 .. MaxId
None == [dest |-> "none", id |-> 0]
Upstream == [dest : Dests, id : Ids]
ConnectRequests == [handle : Handles, dest : Dests, id : Ids]

SocketStates == {"Free", "Listen", "SynReceived", "Established", "CloseWait",
                 "LastAck", "FinWait", "TimeWait", "Closed"}

VARIABLES
  \* VmnetServiceIo
  next_token, pending, inserting, commands, executing, completions,
  worker, owner, disconnected, replies,
  socks,             \* SocketSet: handle -> [st, dest, id]
  listeners,         \* GuestTcpCore.listeners, in order of creation
  sessions,          \* TcpProxyBridge.sessions: handle -> upstream or None
  pending_connects,  \* TcpProxyBridge.pending_connects
  phase,             \* where the owner is in its loop
  plans,             \* handles planned and not yet submitted
  ready,             \* the upstream session whose fd is ready this turn
  next_id, panicked

\* Every guest session is submitted at most once, so this many tokens suffice.
Service == INSTANCE VmnetServiceIo WITH Requests <- ConnectRequests, MaxToken <- MaxId

tvars == <<socks, listeners, sessions, pending_connects, phase, plans, ready,
           next_id, panicked>>
vars == <<next_token, pending, inserting, commands, executing, completions,
          worker, owner, disconnected, replies, tvars>>
service == <<next_token, pending, inserting, commands, executing, completions,
             worker, owner, disconnected, replies>>

FreeSocket == [st |-> "Free", dest |-> "none", id |-> 0]

Init ==
  /\ Service!Init
  /\ socks = [h \in Handles |-> FreeSocket]
  /\ listeners = <<>>
  /\ sessions = [h \in Handles |-> None]
  /\ pending_connects = {}
  /\ phase = "select"
  /\ plans = <<>>
  /\ ready = {}
  /\ next_id = 1
  /\ panicked = FALSE

-----------------------------------------------------------------------------
(* Sockets. *)

\* smoltcp's Socket::close.
Closed(st) ==
  CASE st \in {"SynReceived", "Established"} -> "FinWait"
    [] st = "CloseWait" -> "LastAck"
    [] st = "Listen" -> "Closed"
    [] OTHER -> st

\* session(handle) is None for a socket without endpoints.
Established(sk) == {h \in Handles : sk[h].st = "Established"}

\* Mutant: planned from the socket states before the event.
Mut_PlanConnects_Stale(sk, ss, pc) ==
  SelectSeq(listeners', LAMBDA h : h \in Established(socks) /\ ss[h] = None /\ h \notin pc)

\* plan_connects_for_service, over the listener slots.
PlanConnects(sk, ss, pc) ==
  SelectSeq(listeners', LAMBDA h : h \in Established(sk) /\ ss[h] = None /\ h \notin pc)

\* What every event is followed by: the plans of this turn are computed.
ToSubmit ==
  /\ phase' = "submit"
  /\ plans' = PlanConnects(socks', sessions', pending_connects')

Selecting == phase = "select" /\ owner = "running" /\ ~panicked

-----------------------------------------------------------------------------
(* Events from the guest: one QEMU frame each. *)

FrameEvent ==
  /\ Selecting
  /\ ready' = {}
  /\ UNCHANGED <<service, sessions, pending_connects, panicked>>
  /\ ToSubmit

SetState(h, st) == socks' = [socks EXCEPT ![h].st = st]

\* ensure_listener, listen_tcp, and the poll that hands the SYN to the listener.
Listening(d) == {h \in Handles : socks[h].st = "Listen" /\ PortOf[socks[h].dest] = PortOf[d]}
FreeHandles == {h \in Handles : socks[h].st = "Free"}
Lowest(H) == CHOOSE h \in H : \A k \in H : h <= k

GuestSyn(d) ==
  /\ next_id \in Ids
  /\ \/ /\ Listening(d) # {}
        /\ socks' = [socks EXCEPT ![Lowest(Listening(d))] =
                       [st |-> "SynReceived", dest |-> d, id |-> next_id]]
        /\ UNCHANGED listeners
     \/ /\ Listening(d) = {}
        /\ FreeHandles # {}
        /\ socks' = [socks EXCEPT ![Lowest(FreeHandles)] =
                       [st |-> "SynReceived", dest |-> d, id |-> next_id]]
        /\ listeners' = Append(listeners, Lowest(FreeHandles))
  /\ next_id' = next_id + 1
  /\ FrameEvent

\* An acknowledgement: of the SYN, or of the FIN in LastAck.
GuestAck(h) ==
  /\ \/ socks[h].st = "SynReceived" /\ SetState(h, "Established")
     \/ socks[h].st = "LastAck" /\ SetState(h, "Closed")
  /\ UNCHANGED <<listeners, next_id>>
  /\ FrameEvent

\* The guest closes its side.
GuestFin(h) ==
  /\ \/ socks[h].st \in {"SynReceived", "Established"} /\ SetState(h, "CloseWait")
     \/ socks[h].st = "FinWait" /\ SetState(h, "TimeWait")
  /\ UNCHANGED <<listeners, next_id>>
  /\ FrameEvent

\* The guest aborts: a half-open socket listens again, any other is closed.
GuestRst(h) ==
  /\ \/ socks[h].st = "SynReceived" /\ SetState(h, "Listen")
     \/ /\ socks[h].st \in {"Established", "CloseWait", "LastAck", "FinWait", "TimeWait"}
        /\ SetState(h, "Closed")
  /\ UNCHANGED <<listeners, next_id>>
  /\ FrameEvent

\* A timer turn; TIME-WAIT ends by the clock.
Timer ==
  /\ \/ UNCHANGED socks
     \/ \E h \in Handles : socks[h].st = "TimeWait" /\ SetState(h, "Closed")
  /\ UNCHANGED <<listeners, next_id>>
  /\ FrameEvent

\* FdReady on an upstream session.
UpstreamReady(h) ==
  /\ Selecting
  /\ sessions[h] # None
  /\ ready' = {h}
  /\ UNCHANGED <<service, socks, listeners, sessions, pending_connects, next_id, panicked>>
  /\ ToSubmit

-----------------------------------------------------------------------------
(* Service events. *)

\* Mutant: the handle stays marked.
Mut_CompleteConnect_KeepsMark(p, result) ==
  /\ UNCHANGED pending_connects
  /\ \/ /\ result = "Ok"
        /\ sessions' = [sessions EXCEPT ![p.handle] = [dest |-> p.dest, id |-> p.id]]
        /\ UNCHANGED <<socks, panicked>>
     \/ /\ result # "Ok"
        /\ socks' = [socks EXCEPT ![p.handle].st = Closed(@)]
        /\ panicked' = (socks[p.handle].st = "Free")
        /\ UNCHANGED sessions

\* Mutant: a failed connect is reported and the guest's socket left open.
Mut_CompleteConnect_LeavesOpen(p, result) ==
  /\ pending_connects' = pending_connects \ {p.handle}
  /\ sessions' = IF result = "Ok"
                 THEN [sessions EXCEPT ![p.handle] = [dest |-> p.dest, id |-> p.id]]
                 ELSE sessions
  /\ UNCHANGED <<socks, panicked>>

\* TcpCompletion: complete_connect with the context found under the token.
\* Socket handles are checked by smoltcp: closing a removed one panics.
CompleteConnect(p, result) ==
  /\ pending_connects' = pending_connects \ {p.handle}
  /\ \/ /\ result = "Ok"
        /\ sessions' = [sessions EXCEPT ![p.handle] = [dest |-> p.dest, id |-> p.id]]
        /\ UNCHANGED <<socks, panicked>>
     \/ /\ result # "Ok"
        /\ socks' = [socks EXCEPT ![p.handle].st = Closed(@)]
        /\ panicked' = (socks[p.handle].st = "Free")
        /\ UNCHANGED sessions

TcpCompletion ==
  /\ Selecting
  /\ Service!OwnerApply
  /\ LET c == Head(completions) IN
       IF c.token \in DOMAIN pending
       THEN CompleteConnect(pending[c.token], c.result)
       ELSE UNCHANGED <<pending_connects, sessions, socks, panicked>>
  /\ ready' = {}
  /\ UNCHANGED <<listeners, next_id>>
  /\ ToSubmit

\* TcpDisconnected: only logged, and the turn goes on.
TcpDisconnected ==
  /\ Selecting
  /\ Service!OwnerDisconnected
  /\ ready' = {}
  /\ UNCHANGED <<socks, listeners, sessions, pending_connects, next_id, panicked>>
  /\ ToSubmit

QemuEof ==
  /\ Selecting
  /\ Service!OwnerReturn
  /\ UNCHANGED tvars

-----------------------------------------------------------------------------
(* The rest of the turn. *)

Planned == [handle |-> Head(plans), dest |-> socks[Head(plans)].dest,
            id |-> socks[Head(plans)].id]

\* submit_tcp_connects_to_async_worker, one plan at a time: accepted ...
SubmitPlan ==
  /\ phase = "submit" /\ plans # <<>>
  /\ Service!SubmitEnqueue(Planned)
  /\ UNCHANGED tvars

\* Mutant: submitted and not marked.
Mut_SubmitMark_Unmarked ==
  /\ phase = "submit"
  /\ Service!SubmitInsert
  /\ plans' = Tail(plans)
  /\ UNCHANGED <<socks, listeners, sessions, pending_connects, phase, ready, next_id, panicked>>

\* ... and marked once its pending entry is in place ...
SubmitMark ==
  /\ phase = "submit"
  /\ Service!SubmitInsert
  /\ pending_connects' = pending_connects \cup {Head(inserting).request.handle}
  /\ plans' = Tail(plans)
  /\ UNCHANGED <<socks, listeners, sessions, phase, ready, next_id, panicked>>

\* ... or rejected, and completed with an error on the spot.
SubmitFails ==
  /\ phase = "submit" /\ plans # <<>>
  /\ Service!SubmitRejected(Planned)
  /\ CompleteConnect(Planned, "Unavailable")
  /\ plans' = Tail(plans)
  /\ UNCHANGED <<listeners, phase, ready, next_id>>

\* process_gateway_with_readiness and reap_closed_tcp_sessions.  `failed' are
\* the sessions closed by a full buffer or a TLS error; they stay in the map
\* until the next pump.  A ready upstream may have ended.  The branch that
\* connects synchronously is not here: NoBlockingConnect shows it is dead.
AfterPump(h, active, failed, ended) ==
  IF h \in active /\ h \in failed \cup ended THEN Closed(socks[h].st) ELSE socks[h].st

\* Mutant: closed sockets are removed and their slots are not.
Mut_Pump_KeepsSlots(failed, ended) ==
  LET active == Established(socks)
      live == {h \in active : sessions[h] # None}
      gone == {h \in Handles : AfterPump(h, active, failed, ended) = "Closed"}
  IN
  /\ phase = "submit" /\ plans = <<>>
  /\ inserting = <<>> /\ owner = "running" /\ ~panicked
  /\ failed \subseteq live
  /\ ended \subseteq ready \cap live
  /\ pending_connects' = pending_connects \cap active
  /\ sessions' = [h \in Handles |-> IF h \in active \ ended THEN sessions[h] ELSE None]
  /\ socks' = [h \in Handles |->
                 IF h \in gone THEN FreeSocket
                 ELSE [socks[h] EXCEPT !.st = AfterPump(h, active, failed, ended)]]
  /\ phase' = "select"
  /\ ready' = {}
  /\ UNCHANGED <<service, listeners, plans, next_id, panicked>>

\* Mutant: sessions of guest sockets no longer established are retained.
Mut_Pump_RetainsSessions(failed, ended) ==
  LET active == Established(socks)
      live == {h \in active : sessions[h] # None}
      gone == {h \in Handles : AfterPump(h, active, failed, ended) = "Closed"}
  IN
  /\ phase = "submit" /\ plans = <<>>
  /\ inserting = <<>> /\ owner = "running" /\ ~panicked
  /\ failed \subseteq live
  /\ ended \subseteq ready \cap live
  /\ pending_connects' = pending_connects \cap active
  /\ sessions' = [h \in Handles |-> IF h \notin ended THEN sessions[h] ELSE None]
  /\ socks' = [h \in Handles |->
                 IF h \in gone THEN FreeSocket
                 ELSE [socks[h] EXCEPT !.st = AfterPump(h, active, failed, ended)]]
  /\ listeners' = SelectSeq(listeners, LAMBDA h : h \notin gone)
  /\ phase' = "select"
  /\ ready' = {}
  /\ UNCHANGED <<service, plans, next_id, panicked>>

Pump(failed, ended) ==
  LET active == Established(socks)
      live == {h \in active : sessions[h] # None}
      gone == {h \in Handles : AfterPump(h, active, failed, ended) = "Closed"}
  IN
  /\ phase = "submit" /\ plans = <<>>
  /\ inserting = <<>> /\ owner = "running" /\ ~panicked
  /\ failed \subseteq live
  /\ ended \subseteq ready \cap live
  /\ pending_connects' = pending_connects \cap active
  /\ sessions' = [h \in Handles |-> IF h \in active \ ended THEN sessions[h] ELSE None]
  /\ socks' = [h \in Handles |->
                 IF h \in gone THEN FreeSocket
                 ELSE [socks[h] EXCEPT !.st = AfterPump(h, active, failed, ended)]]
  /\ listeners' = SelectSeq(listeners, LAMBDA h : h \notin gone)
  /\ phase' = "select"
  /\ ready' = {}
  /\ UNCHANGED <<service, plans, next_id, panicked>>

WorkerStep == Service!WorkerStep /\ UNCHANGED tvars

Next ==
  \/ \E d \in Dests : GuestSyn(d)
  \/ \E h \in Handles : GuestAck(h)
  \/ \E h \in Handles : GuestFin(h)
  \/ \E h \in Handles : GuestRst(h)
  \/ Timer
  \/ \E h \in Handles : UpstreamReady(h)
  \/ TcpCompletion
  \/ TcpDisconnected
  \/ QemuEof
  \/ SubmitPlan
  \/ SubmitMark
  \/ SubmitFails
  \/ \E failed, ended \in SUBSET Handles : Pump(failed, ended)
  \/ WorkerStep

Spec == Init /\ [][Next]_vars

\* A turn of the loop ends; select! takes a completion sooner or later; the
\* blocking connect has a timeout; the guest's stack acknowledges.
Fairness ==
  /\ WF_vars(SubmitPlan) /\ WF_vars(SubmitMark) /\ WF_vars(SubmitFails)
  /\ WF_vars(\E failed, ended \in SUBSET Handles : Pump(failed, ended))
  /\ SF_vars(TcpCompletion)
  /\ WF_vars(WorkerStep)
  /\ \A h \in Handles : SF_vars(GuestAck(h))

FairSpec == Spec /\ Fairness

-----------------------------------------------------------------------------
(* Properties. *)

\* The variables of the owner loop have their types.
TypeOK ==
  /\ socks \in [Handles -> [st : SocketStates, dest : Dests \cup {"none"}, id : Ids \cup {0}]]
  /\ listeners \in Seq(Handles) /\ Len(listeners) <= MaxHandles
  /\ sessions \in [Handles -> Upstream \cup {None}]
  /\ pending_connects \subseteq Handles
  /\ phase \in {"select", "submit"}
  /\ plans \in Seq(Handles)
  /\ ready \subseteq Handles
  /\ next_id \in 1 .. MaxId + 1
  /\ panicked \in BOOLEAN

\* When the pump runs, every established guest session has an upstream or a
\* connect in flight: the pump's own connector.connect(), which would block
\* the whole gateway, is never reached, not even after a rejected submission
\* or when the worker is gone.
NoBlockingConnect ==
  phase = "submit" /\ plans = <<>> /\ inserting = <<>> =>
    \A h \in Established(socks) : sessions[h] # None \/ h \in pending_connects

\* A handle marked as connecting has a request the owner still waits for, so
\* no session is left marked with nothing to unmark it, even when handles
\* have been reused and several requests name the same one.
MarkAwaitsAnswer ==
  owner = "running" =>
    \A h \in pending_connects : \E t \in DOMAIN pending : pending[t].handle = h

\* One guest session causes at most one upstream connect.
Asked == {<<t, pending[t].id>> : t \in DOMAIN pending}
           \cup {<<r.token, r.request.id>> : r \in replies}
ConnectOnce == \A x, y \in Asked : x[2] = y[2] => x = y

\* The listener slots name exactly the sockets alive, each once, and between
\* turns no closed socket is left: reaping keeps both tables in step.
SlotsMatchSockets ==
  /\ \A h \in Handles : socks[h].st # "Free" <=> \E i \in 1 .. Len(listeners) : listeners[i] = h
  /\ \A i, j \in 1 .. Len(listeners) : listeners[i] = listeners[j] => i = j
  /\ phase = "select" => \A h \in Handles : socks[h].st # "Closed"

\* Between turns an upstream session belongs to a guest socket that is
\* established or was closed by the last pump: a connection that arrives
\* after its guest session ended is dropped in the same turn.
SessionsAreLive ==
  phase = "select" =>
    \A h \in Handles : sessions[h] # None => socks[h].st \in {"Established", "FinWait"}

\* The sockets, the listener slots and the bridge's sessions stay in step.
TablesAgree == SlotsMatchSockets /\ SessionsAreLive

\* As long as the worker runs, an established guest session gets its upstream
\* or ends.
EstablishedServed ==
  \A h \in Handles, i \in Ids :
    socks[h].st = "Established" /\ socks[h].id = i ~>
      \/ sessions[h] # None
      \/ socks[h].st # "Established" \/ socks[h].id # i
      \/ worker # "running" \/ owner = "returned" \/ panicked

\* vm-frontend/README.md: the original destination is preserved; a guest
\* session is bridged to the destination the guest connected to.
UpstreamIsOwn ==
  \A h \in Established(socks) : sessions[h] # None => sessions[h].dest = socks[h].dest

\* wra-7ixt: frames from the guest do not make the gateway panic.
NoPanic == ~panicked
=============================================================================
