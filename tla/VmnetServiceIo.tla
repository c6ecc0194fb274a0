---------------------------- MODULE VmnetServiceIo ----------------------------
(***************************************************************************)
(* One owner and one Tokio service worker (DNS lookups or TCP connects):   *)
(* vmnet_service_io.rs and the parts of vmnet_runtime.rs that submit       *)
(* requests, apply completions and notice a worker that is gone.           *)
(*                                                                         *)
(* The owner correlates a completion with what it was waiting for by a     *)
(* token, so what can go wrong is that a request is lost, answered twice   *)
(* or answered with another request's result.  `replies' records what the  *)
(* owner did with each request: the request it answered, the request the   *)
(* worker really executed under that token, and the result.                *)
(*                                                                         *)
(* The owner is one thread, so its handlers do not interleave; the worker  *)
(* is another, and may run between the owner's enqueue and its insertion   *)
(* of the pending entry.                                                   *)
(***************************************************************************)
EXTENDS Naturals, Sequences

CONSTANTS
  Requests,            \* what the owner may submit (a DNS query, a connect)
  CommandCapacity,     \* limits.command_capacity
  CompletionCapacity,  \* limits.completion_capacity
  MaxToken             \* bound on the tokens handed out

ASSUME LimitsAssumption == /\ CommandCapacity \in Nat \ {0}
                           /\ CompletionCapacity \in Nat \ {0}
                           /\ MaxToken \in Nat

VARIABLES
  next_token,   \* VmnetServiceTokenSource.next
  pending,      \* VmnetServicePending.items: token -> request
  inserting,    \* the command just enqueued whose pending entry is not inserted
  commands,     \* the command channel; what it holds when the worker exits dies
  executing,    \* the command the worker holds (0 or 1); it dies if it breaks
  completions,  \* the completion channel
  worker,       \* "running", "breaking" (out of its loop), "exited" (dropped)
  owner,        \* "running", or "returned" once QEMU's stream ended
  disconnected, \* the owner saw the closed completion channel
  replies       \* the answers the owner produced

svars == <<next_token, pending, inserting, commands, executing, completions,
           worker, owner, disconnected, replies>>

Results == {"Ok", "Failed"}      \* what exchange() or connect() returned
Unavailable == "Unavailable"     \* what the owner answers when it is rejected

Tokens == 1 .. MaxToken
Command == [token : Tokens, request : Requests]
Completion == [token : Tokens, request : Requests, result : Results]
Reply == [token : Tokens, request : Requests, executed : SUBSET Requests,
          result : Results \cup {Unavailable}]

TokensOf(s) == {s[i].token : i \in 1 .. Len(s)}

Init ==
  /\ next_token = 1
  /\ pending = <<>>
  /\ inserting = <<>>
  /\ commands = <<>>
  /\ executing = <<>>
  /\ completions = <<>>
  /\ worker = "running"
  /\ owner = "running"
  /\ disconnected = FALSE
  /\ replies = {}

-----------------------------------------------------------------------------
(* The owner. *)

OwnerReady == owner = "running" /\ inserting = <<>>

\* Mutant: the bound is off by one.
Mut_Accepts == worker # "exited" /\ Len(commands) <= CommandCapacity

\* The command channel accepts until the worker's task has dropped its end.
Accepts == worker # "exited" /\ Len(commands) < CommandCapacity

\* Mutant: the token source does not advance.
Mut_SubmitEnqueue_SameToken(r) ==
  /\ OwnerReady
  /\ next_token \in Tokens
  /\ Accepts
  /\ commands' = Append(commands, [token |-> next_token, request |-> r])
  /\ inserting' = <<[token |-> next_token, request |-> r]>>
  /\ UNCHANGED <<next_token, pending, executing, completions, worker, owner,
                 disconnected, replies>>

\* submit_to, enqueue Ok: the command is in the worker's reach from here on.
SubmitEnqueue(r) ==
  /\ OwnerReady
  /\ next_token \in Tokens
  /\ Accepts
  /\ next_token' = next_token + 1
  /\ commands' = Append(commands, [token |-> next_token, request |-> r])
  /\ inserting' = <<[token |-> next_token, request |-> r]>>
  /\ UNCHANGED <<pending, executing, completions, worker, owner, disconnected, replies>>

\* pending.insert, after the enqueue; a duplicate is the code's unreachable!().
SubmitInsert ==
  /\ owner = "running"
  /\ inserting # <<>>
  /\ LET c == Head(inserting)
     IN pending' = [t \in DOMAIN pending \cup {c.token} |->
                      IF t = c.token THEN c.request ELSE pending[t]]
  /\ inserting' = <<>>
  /\ UNCHANGED <<next_token, commands, executing, completions, worker, owner,
                 disconnected, replies>>

\* submit_to, enqueue Err (full or closed): the token is spent, the request
\* comes back and its caller answers it at once with Unavailable.
SubmitRejected(r) ==
  /\ OwnerReady
  /\ next_token \in Tokens
  /\ ~Accepts
  /\ next_token' = next_token + 1
  /\ replies' = replies \cup {[token |-> next_token, request |-> r,
                               executed |-> {}, result |-> Unavailable]}
  /\ UNCHANGED <<pending, inserting, commands, executing, completions, worker,
                 owner, disconnected>>

\* remove_pending_for_completion, then the answer; a completion without a
\* pending entry is dropped.
OwnerApply ==
  /\ OwnerReady
  /\ completions # <<>>
  /\ LET c == Head(completions)
     IN IF c.token \in DOMAIN pending
        THEN /\ pending' = [t \in DOMAIN pending \ {c.token} |-> pending[t]]
             /\ replies' = replies \cup {[token |-> c.token, request |-> pending[c.token],
                                          executed |-> {c.request}, result |-> c.result]}
        ELSE UNCHANGED <<pending, replies>>
  /\ completions' = Tail(completions)
  /\ UNCHANGED <<next_token, inserting, commands, executing, worker, owner, disconnected>>

\* recv_completion returned None: the disconnect is logged, and that is all.
OwnerDisconnected ==
  /\ OwnerReady
  /\ worker = "exited"
  /\ completions = <<>>
  /\ disconnected' = TRUE
  /\ UNCHANGED <<next_token, pending, inserting, commands, executing, completions,
                 worker, owner, replies>>

\* QemuEof: the loop returns and drops its pending entries and channel ends.
OwnerReturn ==
  /\ OwnerReady
  /\ owner' = "returned"
  /\ pending' = <<>>
  /\ UNCHANGED <<next_token, inserting, commands, executing, completions, worker,
                 disconnected, replies>>

-----------------------------------------------------------------------------
(* The worker task. *)

\* Mutant: the newest command first.
Mut_WorkerRecv_Lifo ==
  /\ worker = "running"
  /\ executing = <<>>
  /\ commands # <<>>
  /\ executing' = <<commands[Len(commands)]>>
  /\ commands' = SubSeq(commands, 1, Len(commands) - 1)
  /\ UNCHANGED <<next_token, pending, inserting, completions, worker, owner,
                 disconnected, replies>>

\* Mutant: a command the worker does not recognise is skipped without an answer.
Mut_WorkerRecv_Skips ==
  /\ worker = "running"
  /\ executing = <<>>
  /\ commands # <<>>
  /\ executing' \in {<<>>, <<Head(commands)>>}
  /\ commands' = Tail(commands)
  /\ UNCHANGED <<next_token, pending, inserting, completions, worker, owner,
                 disconnected, replies>>

\* command_rx.recv() yields a command; a closed channel is drained first.
WorkerRecv ==
  /\ worker = "running"
  /\ executing = <<>>
  /\ commands # <<>>
  /\ executing' = <<Head(commands)>>
  /\ commands' = Tail(commands)
  /\ UNCHANGED <<next_token, pending, inserting, completions, worker, owner,
                 disconnected, replies>>

\* Mutant: the completion is labelled with the token of the next command.
Mut_WorkerComplete_WrongToken(res) ==
  /\ worker = "running"
  /\ executing # <<>>
  /\ owner = "running"
  /\ Len(completions) < CompletionCapacity
  /\ completions' = Append(completions,
                           [token |-> IF commands = <<>> THEN Head(executing).token
                                      ELSE Head(commands).token,
                            request |-> Head(executing).request, result |-> res])
  /\ executing' = <<>>
  /\ UNCHANGED <<next_token, pending, inserting, commands, worker, owner,
                 disconnected, replies>>

\* The blocking call returned and try_send took the completion.
WorkerComplete(res) ==
  /\ worker = "running"
  /\ executing # <<>>
  /\ owner = "running"
  /\ Len(completions) < CompletionCapacity
  /\ completions' = Append(completions, [token |-> Head(executing).token,
                                         request |-> Head(executing).request,
                                         result |-> res])
  /\ executing' = <<>>
  /\ UNCHANGED <<next_token, pending, inserting, commands, worker, owner,
                 disconnected, replies>>

\* Mutant: the completion that does not fit is dropped and the worker goes on.
Mut_WorkerSendFails_Drops ==
  /\ worker = "running"
  /\ executing # <<>>
  /\ owner = "returned" \/ Len(completions) = CompletionCapacity
  /\ executing' = <<>>
  /\ UNCHANGED <<next_token, pending, inserting, commands, completions, worker,
                 owner, disconnected, replies>>

\* try_send failed (full, or the owner dropped its end): break.
WorkerSendFails ==
  /\ worker = "running"
  /\ executing # <<>>
  /\ owner = "returned" \/ Len(completions) = CompletionCapacity
  /\ worker' = "breaking"
  /\ UNCHANGED <<next_token, pending, inserting, commands, executing, completions,
                 owner, disconnected, replies>>

\* The blocking call panicked: the JoinError breaks the loop.
WorkerPanic ==
  /\ worker = "running"
  /\ executing # <<>>
  /\ worker' = "breaking"
  /\ UNCHANGED <<next_token, pending, inserting, commands, executing, completions,
                 owner, disconnected, replies>>

\* Mutant: a forgotten clone of the sender keeps the channel open.
Mut_WorkerNoMoreCommands_Never == FALSE /\ UNCHANGED svars

\* recv() returned None: the owner is gone and the channel is drained.
WorkerNoMoreCommands ==
  /\ worker = "running"
  /\ owner = "returned"
  /\ executing = <<>>
  /\ commands = <<>>
  /\ worker' = "breaking"
  /\ UNCHANGED <<next_token, pending, inserting, commands, executing, completions,
                 owner, disconnected, replies>>

\* The task's captured channel ends are dropped.
WorkerExit ==
  /\ worker = "breaking"
  /\ worker' = "exited"
  /\ UNCHANGED <<next_token, pending, inserting, commands, executing, completions,
                 owner, disconnected, replies>>

WorkerStep ==
  \/ WorkerRecv
  \/ \E res \in Results : WorkerComplete(res)
  \/ WorkerSendFails
  \/ WorkerPanic
  \/ WorkerNoMoreCommands
  \/ WorkerExit

Next ==
  \/ \E r \in Requests : SubmitEnqueue(r)
  \/ SubmitInsert
  \/ \E r \in Requests : SubmitRejected(r)
  \/ OwnerApply
  \/ OwnerDisconnected
  \/ OwnerReturn
  \/ WorkerStep

Spec == Init /\ [][Next]_svars

\* connect_timeout and the socket read timeout bound the blocking calls, the
\* runtime schedules the task, and select! polls its branches in random order.
Fairness ==
  /\ WF_svars(SubmitInsert)
  /\ WF_svars(OwnerApply)
  /\ WF_svars(OwnerDisconnected)
  /\ WF_svars(WorkerStep)

FairSpec == Spec /\ Fairness

-----------------------------------------------------------------------------
(* Properties. *)

\* Every variable has its type and neither channel outgrows its capacity.
TypeOK ==
  /\ next_token \in 1 .. MaxToken + 1
  /\ DOMAIN pending \subseteq Tokens
  /\ pending \in [DOMAIN pending -> Requests]
  /\ inserting \in Seq(Command) /\ Len(inserting) <= 1
  /\ commands \in Seq(Command) /\ Len(commands) <= CommandCapacity
  /\ executing \in Seq(Command) /\ Len(executing) <= 1
  /\ completions \in Seq(Completion) /\ Len(completions) <= CompletionCapacity
  /\ worker \in {"running", "breaking", "exited"}
  /\ owner \in {"running", "returned"}
  /\ disconnected \in BOOLEAN
  /\ replies \subseteq Reply

InTransit == TokensOf(commands) \cup TokensOf(executing) \cup TokensOf(completions)

\* A request the owner waits for is somewhere between the two channels: no
\* completion is thrown away by a worker that goes on to the next command.
\* Once the worker is gone, what is in `commands' and `executing' died with it.
NoRequestLost == DOMAIN pending \subseteq InTransit

\* While the owner runs, whatever the worker may complete is still expected:
\* the owner never meets a completion it has no pending entry for, although
\* the entry is inserted only after the command is in the worker's hands.
EveryCompletionExpected ==
  owner = "running" => InTransit \subseteq DOMAIN pending \cup TokensOf(inserting)

\* The insertion never meets an existing entry (the unreachable!() of
\* submit_to), whatever the interleaving of answers and submissions.
InsertIsFresh == \A i \in 1 .. Len(inserting) : inserting[i].token \notin DOMAIN pending

\* An answer carries the result of executing the very request it answers.
AnswerMatchesRequest ==
  \A r \in replies : r.executed = IF r.result = Unavailable THEN {} ELSE {r.request}

\* No request is answered twice, and a request that was answered (or rejected
\* with Unavailable) is neither awaited nor on its way to being executed.
AnsweredOnce ==
  /\ \A r, q \in replies : r.token = q.token => r = q
  /\ \A r \in replies : r.token \notin InTransit \cup DOMAIN pending \cup TokensOf(inserting)

\* The worker's answers reach the owner in the order of submission.
AnsweredInOrder ==
  [][\A r \in replies' \ replies, q \in replies :
       r.result # Unavailable /\ q.result # Unavailable => q.token < r.token]_svars

\* As long as neither the worker nor the owner stops, an awaited request is
\* answered.
PendingAnswered ==
  \A t \in Tokens :
    t \in DOMAIN pending ~> t \notin DOMAIN pending \/ worker # "running"

\* The worker task does not outlive the gateway: it ends after the owner
\* returned, even with commands queued or a blocking call in progress.
WorkerStopsAfterOwner == owner = "returned" ~> worker = "exited"

\* The Tokio channels keep the promise of the in-process queues: bounded FIFO
\* both ways, and an item the service cannot hand back is not discarded while
\* the service goes on.
Delivered == [i \in 1 .. Len(completions) |->
                [token |-> completions[i].token, request |-> completions[i].request]]
Queues == INSTANCE VmnetServiceIoQueues
            WITH Items <- Command, serving <- executing, completions <- Delivered
RefinesQueues == Queues!Spec
=============================================================================
