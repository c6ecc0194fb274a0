------------------------ MODULE VmnetServiceIoProofs ------------------------
(***************************************************************************)
(* Proofs about VmnetServiceIo, for every set of requests, every capacity   *)
(* and every bound on the tokens.                                          *)
(*                                                                         *)
(* The invariants are not inductive alone.  What carries them is that the   *)
(* tokens on the wire (completions, then the one executing, then commands) *)
(* are increasing and below next_token, and that an entry of the wire names *)
(* the request that is pending under its token.                            *)
(***************************************************************************)
EXTENDS VmnetServiceIo, TLAPS, SequenceTheorems

Increasing(s) ==
  \A i, j \in 1 .. Len(s) : i < j => s[i].token < s[j].token

AllBelow(S, T) == \A t \in S, u \in T : t < u

\* The wire is ordered, so its tokens are distinct.
WireOrdered ==
  /\ Increasing(completions)
  /\ Increasing(commands)
  /\ AllBelow(TokensOf(completions), TokensOf(executing))
  /\ AllBelow(TokensOf(completions), TokensOf(commands))
  /\ AllBelow(TokensOf(executing), TokensOf(commands))

\* Every token in use was handed out.
TokensSpent ==
  /\ AllBelow(InTransit, {next_token})
  /\ AllBelow(DOMAIN pending, {next_token})
  /\ \A r \in replies : r.token < next_token

\* A command enqueued and not yet inserted is on the wire.
InsertingInTransit == TokensOf(inserting) \subseteq InTransit

\* An entry of s names the request that its token stands for on the owner's side.
Named(s) ==
  \A i \in 1 .. Len(s) :
    /\ s[i].token \in DOMAIN pending => pending[s[i].token] = s[i].request
    /\ \A j \in 1 .. Len(inserting) :
         inserting[j].token = s[i].token => inserting[j].request = s[i].request
WireNamed == Named(commands) /\ Named(executing) /\ Named(completions)

\* What was answered after execution precedes what is still on the wire.
AnswersPrecedeWire ==
  \A r \in replies : r.result # Unavailable => AllBelow({r.token}, InTransit)

OwnerGone == owner = "returned" => inserting = <<>> /\ DOMAIN pending = {}

IInv ==
  /\ TypeOK
  /\ NoRequestLost
  /\ EveryCompletionExpected
  /\ InsertIsFresh
  /\ AnswerMatchesRequest
  /\ AnsweredOnce
  /\ WireOrdered
  /\ TokensSpent
  /\ InsertingInTransit
  /\ WireNamed
  /\ AnswersPrecedeWire
  /\ OwnerGone

-----------------------------------------------------------------------------
(* The tokens of a channel when an element enters or leaves it. *)

\* Appending to a channel adds one token.
LEMMA TokensOfAppend ==
  ASSUME NEW S, NEW s \in Seq(S), NEW x \in S
  PROVE  TokensOf(Append(s, x)) = TokensOf(s) \cup {x.token}
  BY DEF TokensOf

\* Taking the head of a channel removes one token.
LEMMA TokensOfTail ==
  ASSUME NEW S, NEW s \in Seq(S), s # <<>>
  PROVE  TokensOf(s) = {Head(s).token} \cup TokensOf(Tail(s))
<1>1. TokensOf(s) \subseteq {Head(s).token} \cup TokensOf(Tail(s))
  <2>1. SUFFICES ASSUME NEW i \in 1 .. Len(s)
                 PROVE  s[i].token \in {Head(s).token} \cup TokensOf(Tail(s))
    BY DEF TokensOf
  <2>2. CASE i = 1
    BY <2>2
  <2>3. CASE i # 1
    <3>1. i - 1 \in 1 .. Len(Tail(s)) /\ Tail(s)[i - 1] = s[i]
      BY <2>3
    <3> QED BY <3>1 DEF TokensOf
  <2> QED BY <2>2, <2>3
<1>2. {Head(s).token} \cup TokensOf(Tail(s)) \subseteq TokensOf(s)
  <2>1. 1 \in 1 .. Len(s) /\ Head(s) = s[1]
    OBVIOUS
  <2>2. \A i \in 1 .. Len(Tail(s)) : i + 1 \in 1 .. Len(s) /\ Tail(s)[i] = s[i + 1]
    OBVIOUS
  <2> QED BY <2>1, <2>2 DEF TokensOf
<1> QED BY <1>1, <1>2

\* The empty channel and the channel of one element.
LEMMA TokensOfSmall ==
  /\ TokensOf(<<>>) = {}
  /\ \A x : TokensOf(<<x>>) = {x.token}
  BY DEF TokensOf

\* A channel of at most one element is known by its head.
LEMMA AtMostOne ==
  ASSUME NEW S, NEW s \in Seq(S), Len(s) <= 1, s # <<>>
  PROVE  /\ Head(s) \in S
         /\ Len(s) = 1
         /\ Head(s) = s[1]
         /\ TokensOf(s) = {Head(s).token}
<1>1. Len(s) \in Nat /\ Head(s) = s[1]
  OBVIOUS
<1>2. Len(s) # 0
  OBVIOUS
<1>3. Len(s) = 1
  <2>1. \A n \in Nat : n <= 1 /\ n # 0 => n = 1
    OBVIOUS
  <2> QED BY ONLY <2>1, <1>1, <1>2, Len(s) <= 1
<1>4. Head(s) \in S
  BY <1>1, <1>3
<1> QED BY <1>1, <1>3, <1>4 DEF TokensOf

\* An ordered channel stays ordered when its head leaves, and the head was
\* its smallest token.
LEMMA IncreasingTail ==
  ASSUME NEW s \in Seq(Completion) \cup Seq(Command), s # <<>>, Increasing(s)
  PROVE  /\ Increasing(Tail(s))
         /\ AllBelow({Head(s).token}, TokensOf(Tail(s)))
<1>1. \A i \in 1 .. Len(Tail(s)) : i + 1 \in 1 .. Len(s) /\ Tail(s)[i] = s[i + 1]
  OBVIOUS
<1>2. 1 \in 1 .. Len(s) /\ Head(s) = s[1]
  OBVIOUS
<1>3. Len(s) \in Nat /\ Len(Tail(s)) \in Nat
  OBVIOUS
<1> QED BY <1>1, <1>2, <1>3 DEF Increasing, AllBelow, TokensOf

\* An ordered channel stays ordered when a larger token enters it.
LEMMA IncreasingAppend ==
  ASSUME NEW S, NEW s \in Seq(S), NEW x \in S, Increasing(s),
         AllBelow(TokensOf(s), {x.token})
  PROVE  Increasing(Append(s, x))
<1>1. \A i \in 1 .. Len(s) : Append(s, x)[i] = s[i]
  OBVIOUS
<1>2. Len(Append(s, x)) = Len(s) + 1 /\ Append(s, x)[Len(s) + 1] = x /\ Len(s) \in Nat
  OBVIOUS
<1> QED BY <1>1, <1>2 DEF Increasing, AllBelow, TokensOf

\* The tokens on the wire are natural numbers.
LEMMA WireTokens ==
  ASSUME TypeOK
  PROVE  /\ TokensOf(commands) \subseteq Nat
         /\ TokensOf(executing) \subseteq Nat
         /\ TokensOf(completions) \subseteq Nat
         /\ TokensOf(inserting) \subseteq Nat
         /\ DOMAIN pending \subseteq Nat
         /\ next_token \in Nat
         /\ \A r \in replies : r.token \in Nat
         /\ Tokens \subseteq Nat
<1>1. Tokens \subseteq Nat
  BY LimitsAssumption DEF Tokens
<1>2. \A s \in Seq(Command) : TokensOf(s) \subseteq Tokens
  <2>1. SUFFICES ASSUME NEW s \in Seq(Command), NEW i \in 1 .. Len(s)
                 PROVE  s[i].token \in Tokens
    BY DEF TokensOf
  <2>2. s[i] \in Command
    OBVIOUS
  <2> QED BY <2>2 DEF Command
<1>3. \A s \in Seq(Completion) : TokensOf(s) \subseteq Tokens
  <2>1. SUFFICES ASSUME NEW s \in Seq(Completion), NEW i \in 1 .. Len(s)
                 PROVE  s[i].token \in Tokens
    BY DEF TokensOf
  <2>2. s[i] \in Completion
    OBVIOUS
  <2> QED BY <2>2 DEF Completion
<1>4. \A r \in replies : r.token \in Tokens
  BY DEF TypeOK, Reply
<1> QED BY <1>1, <1>2, <1>3, <1>4 DEF TypeOK

-----------------------------------------------------------------------------
(* The invariant is inductive: one lemma per action that moves a token. *)

\* A successful enqueue keeps the invariant: the fresh token is above the wire.
LEMMA SubmitEnqueueStep ==
  ASSUME IInv, NEW r \in Requests, SubmitEnqueue(r)
  PROVE  IInv'
<1> DEFINE c == [token |-> next_token, request |-> r]
<1>1. c \in Command /\ TypeOK
  BY DEF SubmitEnqueue, Command, IInv
<1>2. TypeOK'
  BY <1>1, LimitsAssumption DEF SubmitEnqueue, TypeOK, Accepts, Tokens
<1>3. TokensOf(commands)' = TokensOf(commands) \cup {next_token}
  BY <1>1, TokensOfAppend DEF SubmitEnqueue, TypeOK
<1>4. TokensOf(inserting)' = {next_token} /\ inserting = <<>> /\ owner = "running"
  BY TokensOfSmall DEF SubmitEnqueue, OwnerReady
<1>5. InTransit' = InTransit \cup {next_token}
  BY <1>3 DEF SubmitEnqueue, InTransit
<1>6. UNCHANGED <<pending, executing, completions, worker, owner, replies>> /\ next_token' = next_token + 1
  BY DEF SubmitEnqueue
<1>7. next_token \in Nat /\ InTransit \subseteq Nat /\ DOMAIN pending \subseteq Nat
      /\ TokensOf(commands) \subseteq Nat
      /\ \A q \in replies : q.token \in Nat
  BY <1>1, WireTokens DEF InTransit
<1>8. NoRequestLost' /\ EveryCompletionExpected' /\ InsertingInTransit' /\ OwnerGone'
  BY <1>4, <1>5, <1>6, TokensOfSmall
     DEF IInv, NoRequestLost, EveryCompletionExpected, InsertingInTransit, OwnerGone
<1>9. next_token \notin DOMAIN pending /\ next_token \notin InTransit
      /\ \A q \in replies : q.token # next_token
  BY <1>7 DEF IInv, TokensSpent, AllBelow
<1>10. InsertIsFresh'
  BY <1>9, <1>6 DEF SubmitEnqueue, InsertIsFresh
<1>11. AnswerMatchesRequest'
  BY <1>6 DEF IInv, AnswerMatchesRequest
<1>12. AnsweredOnce'
  BY <1>4, <1>5, <1>6, <1>9 DEF IInv, AnsweredOnce
<1>13. WireOrdered'
  <2>1. AllBelow(TokensOf(commands), {next_token})
    BY DEF IInv, TokensSpent, InTransit, AllBelow
  <2>2. Increasing(commands)'
    BY <1>1, <2>1, IncreasingAppend DEF IInv, WireOrdered, SubmitEnqueue, TypeOK
  <2> QED BY <1>3, <1>6, <2>2 DEF IInv, WireOrdered, TokensSpent, InTransit, AllBelow
<1>14. TokensSpent'
  BY <1>5, <1>6, <1>7 DEF IInv, TokensSpent, AllBelow
<1>15. WireNamed'
  <2>1. \A i \in 1 .. Len(commands') :
           \/ i \in 1 .. Len(commands) /\ commands'[i] = commands[i]
           \/ commands'[i] = c
    BY <1>1 DEF SubmitEnqueue, TypeOK
  <2>2. Len(inserting') = 1 /\ inserting'[1] = c
    BY DEF SubmitEnqueue
  <2>3. Named(commands)'
    <3>1. \A i \in 1 .. Len(commands) : commands[i].token # next_token
      BY <1>9 DEF InTransit, TokensOf
    <3> QED BY <1>6, <1>9, <2>1, <2>2, <3>1 DEF IInv, WireNamed, Named
  <2>4. Named(executing)'
    <3>1. \A i \in 1 .. Len(executing) : executing[i].token # next_token
      BY <1>9 DEF InTransit, TokensOf
    <3> QED BY <1>6, <2>2, <3>1 DEF IInv, WireNamed, Named
  <2>5. Named(completions)'
    <3>1. \A i \in 1 .. Len(completions) : completions[i].token # next_token
      BY <1>9 DEF InTransit, TokensOf
    <3> QED BY <1>6, <2>2, <3>1 DEF IInv, WireNamed, Named
  <2> QED BY <2>3, <2>4, <2>5 DEF WireNamed
<1>16. AnswersPrecedeWire'
  BY <1>5, <1>6 DEF IInv, AnswersPrecedeWire, TokensSpent, AllBelow
<1> QED
  BY <1>2, <1>8, <1>10, <1>11, <1>12, <1>13, <1>14, <1>15, <1>16 DEF IInv

\* The insertion keeps the invariant: it moves a token from `inserting' to
\* `pending', whatever the worker did to the command in the meantime.
LEMMA SubmitInsertStep ==
  ASSUME IInv, SubmitInsert
  PROVE  IInv'
<1> DEFINE c == Head(inserting)
<1>1. /\ TypeOK /\ c \in Command /\ Len(inserting) = 1 /\ inserting[1] = c
      /\ TokensOf(inserting) = {c.token}
  BY AtMostOne DEF IInv, TypeOK, SubmitInsert
<1>2. /\ pending' = [t \in DOMAIN pending \cup {c.token} |->
                      IF t = c.token THEN c.request ELSE pending[t]]
      /\ inserting' = <<>> /\ owner = "running"
      /\ UNCHANGED <<next_token, commands, executing, completions, worker, owner,
                     disconnected, replies>>
  BY DEF SubmitInsert
<1>3. DOMAIN pending' = DOMAIN pending \cup {c.token} /\ TokensOf(inserting') = {}
  BY <1>2, TokensOfSmall
<1>4. InTransit' = InTransit
  BY <1>2 DEF InTransit
<1>5. c.token \in InTransit
  BY <1>1 DEF IInv, InsertingInTransit
<1>6. TypeOK'
  BY <1>1, <1>2, <1>3 DEF TypeOK, Command
<1>7. NoRequestLost' /\ EveryCompletionExpected' /\ InsertingInTransit' /\ OwnerGone'
  BY <1>1, <1>2, <1>3, <1>4, <1>5
     DEF IInv, NoRequestLost, EveryCompletionExpected, InsertingInTransit, OwnerGone
<1>8. InsertIsFresh'
  BY <1>2 DEF InsertIsFresh
<1>9. AnswerMatchesRequest' /\ AnsweredOnce'
  BY <1>1, <1>2, <1>3, <1>4 DEF IInv, AnswerMatchesRequest, AnsweredOnce
<1>10. WireOrdered' /\ AnswersPrecedeWire'
  BY <1>2, <1>4 DEF IInv, WireOrdered, AnswersPrecedeWire
<1>11. TokensSpent'
  BY <1>2, <1>3, <1>4, <1>5 DEF IInv, TokensSpent, AllBelow
<1>12. WireNamed'
  BY <1>1, <1>2, <1>3 DEF IInv, WireNamed, Named
<1> QED
  BY <1>6, <1>7, <1>8, <1>9, <1>10, <1>11, <1>12 DEF IInv

\* A rejected submission keeps the invariant: its token is never on the wire.
LEMMA SubmitRejectedStep ==
  ASSUME IInv, NEW r \in Requests, SubmitRejected(r)
  PROVE  IInv'
<1> DEFINE q == [token |-> next_token, request |-> r, executed |-> {}, result |-> Unavailable]
<1>1. /\ TypeOK /\ next_token \in Tokens /\ inserting = <<>>
      /\ next_token' = next_token + 1
      /\ replies' = replies \cup {q}
      /\ UNCHANGED <<pending, inserting, commands, executing, completions, worker,
                     owner, disconnected>>
  BY DEF IInv, SubmitRejected, OwnerReady
<1>2. q \in Reply /\ q.token = next_token /\ q.result = Unavailable /\ q.executed = {}
  BY <1>1 DEF Reply
<1> HIDE DEF q
<1>3. TypeOK'
  <2>1. replies' \subseteq Reply
    BY <1>1, <1>2 DEF TypeOK
  <2>2. next_token' \in 1 .. MaxToken + 1
    BY <1>1, LimitsAssumption DEF Tokens
  <2> QED BY <1>1, <2>1, <2>2 DEF TypeOK
<1>4. InTransit' = InTransit
  BY <1>1 DEF InTransit
<1>5. next_token \in Nat /\ InTransit \subseteq Nat /\ DOMAIN pending \subseteq Nat
      /\ \A p \in replies : p.token \in Nat
  BY <1>1, WireTokens DEF InTransit
<1>6. next_token \notin DOMAIN pending /\ next_token \notin InTransit
      /\ \A p \in replies : p.token # next_token
  BY <1>5 DEF IInv, TokensSpent, AllBelow
<1>7. NoRequestLost' /\ EveryCompletionExpected' /\ InsertIsFresh' /\ InsertingInTransit'
      /\ OwnerGone' /\ WireOrdered' /\ WireNamed'
  BY <1>1, <1>4 DEF IInv, NoRequestLost, EveryCompletionExpected, InsertIsFresh,
                    InsertingInTransit, OwnerGone, WireOrdered, WireNamed, Named
<1>8. AnswerMatchesRequest'
  BY <1>1, <1>2 DEF IInv, AnswerMatchesRequest
<1>9. AnsweredOnce'
  BY <1>1, <1>2, <1>4, <1>6, TokensOfSmall DEF IInv, AnsweredOnce
<1>10. TokensSpent'
  BY <1>1, <1>2, <1>4, <1>5 DEF IInv, TokensSpent, AllBelow
<1>11. AnswersPrecedeWire'
  BY <1>1, <1>2, <1>4 DEF IInv, AnswersPrecedeWire
<1> QED
  BY <1>3, <1>7, <1>8, <1>9, <1>10, <1>11 DEF IInv

\* Applying a completion keeps the invariant: its entry is there, it is the
\* one the completion was executed for, and no other item carries its token.
LEMMA OwnerApplyStep ==
  ASSUME IInv, OwnerApply
  PROVE  IInv'
<1> DEFINE c == Head(completions)
           q == [token |-> c.token, request |-> pending[c.token],
                 executed |-> {c.request}, result |-> c.result]
<1>1. /\ TypeOK /\ inserting = <<>> /\ owner = "running" /\ completions # <<>>
      /\ completions \in Seq(Completion) /\ c \in Completion
  BY DEF IInv, OwnerApply, OwnerReady, TypeOK
<1>2. TokensOf(completions) = {c.token} \cup TokensOf(Tail(completions))
  BY <1>1, TokensOfTail
<1>3. c.token \in DOMAIN pending
  BY <1>1, <1>2, TokensOfSmall DEF IInv, EveryCompletionExpected, InTransit
<1>4. /\ pending' = [t \in DOMAIN pending \ {c.token} |-> pending[t]]
      /\ replies' = replies \cup {q}
      /\ completions' = Tail(completions)
      /\ UNCHANGED <<next_token, inserting, commands, executing, worker, owner, disconnected>>
  BY <1>3 DEF OwnerApply
<1>5. c.request = pending[c.token]
  <2>1. 1 \in 1 .. Len(completions) /\ completions[1] = c
    BY <1>1
  <2> QED BY <1>3, <2>1 DEF IInv, WireNamed, Named
<1>6. /\ q \in Reply /\ q.token = c.token /\ q.request = pending[c.token]
      /\ q.executed = {c.request} /\ q.result = c.result /\ q.result # Unavailable
  BY <1>1, <1>3, <1>5 DEF Reply, Completion, Results, Unavailable
<1> HIDE DEF q
<1>7. Increasing(Tail(completions)) /\ AllBelow({c.token}, TokensOf(Tail(completions)))
  BY <1>1, IncreasingTail DEF IInv, WireOrdered
<1>8. /\ InTransit = InTransit' \cup {c.token}
      /\ AllBelow({c.token}, InTransit')
  <2>1. InTransit' = TokensOf(commands) \cup TokensOf(executing) \cup TokensOf(Tail(completions))
    BY <1>4 DEF InTransit
  <2> QED BY <1>2, <1>7, <2>1 DEF IInv, InTransit, WireOrdered, AllBelow
<1>9. InTransit' \subseteq Nat /\ c.token \in Nat
  BY <1>1, <1>8, WireTokens DEF InTransit
<1>10. c.token \notin InTransit'
  BY <1>8, <1>9 DEF AllBelow
<1>11. DOMAIN pending' = DOMAIN pending \ {c.token}
  BY <1>4
<1>12. TypeOK'
  <2>1. replies' \subseteq Reply
    BY <1>1, <1>4, <1>6 DEF TypeOK
  <2>2. completions' \in Seq(Completion) /\ Len(completions') <= CompletionCapacity
    BY <1>1, <1>4, LimitsAssumption DEF TypeOK
  <2>3. pending' \in [DOMAIN pending' -> Requests] /\ DOMAIN pending' \subseteq Tokens
    BY <1>1, <1>4, <1>11 DEF TypeOK
  <2> QED BY <1>1, <1>4, <2>1, <2>2, <2>3 DEF TypeOK
<1>13. NoRequestLost' /\ EveryCompletionExpected' /\ InsertingInTransit' /\ OwnerGone'
  BY <1>1, <1>4, <1>8, <1>10, <1>11, TokensOfSmall
     DEF IInv, NoRequestLost, EveryCompletionExpected, InsertingInTransit, OwnerGone
<1>14. InsertIsFresh'
  BY <1>4, <1>11 DEF IInv, InsertIsFresh
<1>15. AnswerMatchesRequest'
  BY <1>4, <1>5, <1>6 DEF IInv, AnswerMatchesRequest
<1>16. AnsweredOnce'
  <2>1. \A r \in replies : r.token # c.token
    BY <1>3 DEF IInv, AnsweredOnce
  <2> QED BY <1>1, <1>4, <1>6, <1>8, <1>10, <1>11, <2>1, TokensOfSmall DEF IInv, AnsweredOnce
<1>17. WireOrdered'
  BY <1>2, <1>4, <1>7 DEF IInv, WireOrdered, AllBelow
<1>18. TokensSpent'
  <2>1. c.token < next_token
    BY <1>8 DEF IInv, TokensSpent, AllBelow
  <2> QED BY <1>4, <1>6, <1>8, <1>11, <2>1 DEF IInv, TokensSpent, AllBelow
<1>19. WireNamed'
  <2>1. \A i \in 1 .. Len(completions') :
          i + 1 \in 1 .. Len(completions) /\ completions'[i] = completions[i + 1]
    BY <1>1, <1>4
  <2>2. \A t \in DOMAIN pending' : pending'[t] = pending[t] /\ t \in DOMAIN pending
    BY <1>4, <1>11
  <2> QED BY <1>1, <1>4, <2>1, <2>2 DEF IInv, WireNamed, Named
<1>20. AnswersPrecedeWire'
  BY <1>4, <1>6, <1>8 DEF IInv, AnswersPrecedeWire, AllBelow
<1> QED
  BY <1>12, <1>13, <1>14, <1>15, <1>16, <1>17, <1>18, <1>19, <1>20 DEF IInv

\* Receiving keeps the invariant: the smallest command token becomes executing.
LEMMA WorkerRecvStep ==
  ASSUME IInv, WorkerRecv
  PROVE  IInv'
<1> DEFINE c == Head(commands)
<1>1. /\ TypeOK /\ executing = <<>> /\ commands # <<>>
      /\ commands \in Seq(Command) /\ c \in Command
  BY DEF IInv, WorkerRecv, TypeOK
<1>2. /\ executing' = <<c>> /\ commands' = Tail(commands)
      /\ UNCHANGED <<next_token, pending, inserting, completions, worker, owner,
                     disconnected, replies>>
  BY DEF WorkerRecv
<1>3. /\ TokensOf(commands) = {c.token} \cup TokensOf(Tail(commands))
      /\ TokensOf(executing') = {c.token} /\ TokensOf(executing) = {}
  BY <1>1, <1>2, TokensOfTail, TokensOfSmall
<1>4. InTransit' = InTransit
  BY <1>2, <1>3 DEF InTransit
<1>5. Increasing(Tail(commands)) /\ AllBelow({c.token}, TokensOf(Tail(commands)))
  BY <1>1, IncreasingTail DEF IInv, WireOrdered
<1>6. TypeOK'
  <2>1. executing' \in Seq(Command) /\ Len(executing') <= 1
    BY <1>1, <1>2
  <2>2. commands' \in Seq(Command) /\ Len(commands') <= CommandCapacity
    BY <1>1, <1>2, LimitsAssumption DEF TypeOK
  <2> QED BY <1>1, <1>2, <2>1, <2>2 DEF TypeOK
<1>7. WireOrdered'
  BY <1>2, <1>3, <1>5 DEF IInv, WireOrdered, AllBelow
<1>8. WireNamed'
  <2>1. \A i \in 1 .. Len(commands') :
          i + 1 \in 1 .. Len(commands) /\ commands'[i] = commands[i + 1]
    BY <1>1, <1>2
  <2>2. 1 \in 1 .. Len(commands) /\ commands[1] = c
    BY <1>1
  <2>3. Len(executing') = 1 /\ executing'[1] = c
    BY <1>2
  <2>4. Named(commands)'
    BY <1>2, <2>1 DEF IInv, WireNamed, Named
  <2>5. Named(executing)'
    BY <1>2, <2>2, <2>3 DEF IInv, WireNamed, Named
  <2> QED BY <1>2, <2>4, <2>5 DEF IInv, WireNamed, Named
<1> QED
  BY <1>2, <1>4, <1>6, <1>7, <1>8
     DEF IInv, NoRequestLost, EveryCompletionExpected, InsertIsFresh, AnswerMatchesRequest,
         AnsweredOnce, TokensSpent, InsertingInTransit, AnswersPrecedeWire, OwnerGone

\* Completing keeps the invariant: the executing token follows the completions.
LEMMA WorkerCompleteStep ==
  ASSUME IInv, NEW res \in Results, WorkerComplete(res)
  PROVE  IInv'
<1> DEFINE c == [token |-> Head(executing).token, request |-> Head(executing).request,
                 result |-> res]
<1>1. /\ TypeOK /\ Head(executing) \in Command /\ Len(executing) = 1
      /\ executing[1] = Head(executing) /\ TokensOf(executing) = {Head(executing).token}
  BY AtMostOne DEF IInv, WorkerComplete, TypeOK
<1>2. c \in Completion /\ c.token = Head(executing).token /\ c.request = Head(executing).request
  BY <1>1 DEF Completion, Command
<1>3. /\ completions' = Append(completions, c) /\ executing' = <<>>
      /\ Len(completions) < CompletionCapacity
      /\ UNCHANGED <<next_token, pending, inserting, commands, worker, owner,
                     disconnected, replies>>
  BY DEF WorkerComplete
<1> HIDE DEF c
<1>4. completions \in Seq(Completion) /\ commands \in Seq(Command)
  BY <1>1 DEF TypeOK
<1>5. TokensOf(completions') = TokensOf(completions) \cup {c.token} /\ TokensOf(executing') = {}
  BY <1>2, <1>3, <1>4, TokensOfAppend, TokensOfSmall
<1>6. InTransit' = InTransit
  BY <1>1, <1>2, <1>3, <1>5 DEF InTransit
<1>7. Increasing(completions)'
  <2>1. AllBelow(TokensOf(completions), {c.token})
    BY <1>1, <1>2 DEF IInv, WireOrdered, AllBelow
  <2> QED BY <1>2, <1>3, <1>4, <2>1, IncreasingAppend DEF IInv, WireOrdered
<1>8. TypeOK'
  <2>1. completions' \in Seq(Completion) /\ Len(completions') <= CompletionCapacity
    BY <1>2, <1>3, <1>4, LimitsAssumption
  <2> QED BY <1>1, <1>3, <2>1 DEF TypeOK
<1>9. WireOrdered'
  BY <1>1, <1>2, <1>3, <1>5, <1>7 DEF IInv, WireOrdered, AllBelow
<1>10. WireNamed'
  <2>1. \A i \in 1 .. Len(completions') :
           \/ i \in 1 .. Len(completions) /\ completions'[i] = completions[i]
           \/ completions'[i] = c
    BY <1>2, <1>3, <1>4
  <2>2. Named(completions)'
    BY <1>1, <1>2, <1>3, <2>1 DEF IInv, WireNamed, Named
  <2> QED BY <1>3, <2>2 DEF IInv, WireNamed, Named
<1> QED
  BY <1>3, <1>6, <1>8, <1>9, <1>10
     DEF IInv, NoRequestLost, EveryCompletionExpected, InsertIsFresh, AnswerMatchesRequest,
         AnsweredOnce, TokensSpent, InsertingInTransit, AnswersPrecedeWire, OwnerGone

\* The invariant holds initially.
LEMMA InitIInv == Init => IInv
<1> SUFFICES ASSUME Init PROVE IInv
  OBVIOUS
<1>1. InTransit = {} /\ DOMAIN pending = {} /\ replies = {} /\ TokensOf(inserting) = {}
  BY TokensOfSmall DEF Init, InTransit
<1>2. TypeOK
  <2>1. next_token \in 1 .. MaxToken + 1
    BY LimitsAssumption DEF Init
  <2>2. pending \in [DOMAIN pending -> Requests]
    BY <1>1 DEF Init
  <2>3. inserting \in Seq(Command) /\ Len(inserting) <= 1
        /\ executing \in Seq(Command) /\ Len(executing) <= 1
    BY DEF Init
  <2>4. commands \in Seq(Command) /\ Len(commands) <= CommandCapacity
        /\ completions \in Seq(Completion) /\ Len(completions) <= CompletionCapacity
    BY LimitsAssumption DEF Init
  <2> QED BY <1>1, <2>1, <2>2, <2>3, <2>4 DEF Init, TypeOK
<1>3. WireOrdered /\ WireNamed
  BY TokensOfSmall DEF Init, WireOrdered, Increasing, AllBelow, WireNamed, Named
<1> QED
  BY <1>1, <1>2, <1>3
     DEF Init, IInv, NoRequestLost, EveryCompletionExpected, InsertIsFresh,
         AnswerMatchesRequest, AnsweredOnce, TokensSpent, AllBelow, InsertingInTransit,
         AnswersPrecedeWire, OwnerGone

\* Every step of the owner or the worker keeps the invariant.
LEMMA NextIInv == IInv /\ [Next]_svars => IInv'
<1> SUFFICES ASSUME IInv, [Next]_svars PROVE IInv'
  OBVIOUS
<1>1. ASSUME NEW r \in Requests, SubmitEnqueue(r) PROVE IInv'
  BY <1>1, SubmitEnqueueStep
<1>2. CASE SubmitInsert
  BY <1>2, SubmitInsertStep
<1>3. ASSUME NEW r \in Requests, SubmitRejected(r) PROVE IInv'
  BY <1>3, SubmitRejectedStep
<1>4. CASE OwnerApply
  BY <1>4, OwnerApplyStep
<1>5. CASE WorkerRecv
  BY <1>5, WorkerRecvStep
<1>6. ASSUME NEW res \in Results, WorkerComplete(res) PROVE IInv'
  BY <1>6, WorkerCompleteStep
<1>7. CASE OwnerReturn
  <2>1. /\ owner' = "returned" /\ pending' = <<>> /\ inserting = <<>> /\ DOMAIN pending' = {}
        /\ UNCHANGED <<next_token, inserting, commands, executing, completions, worker,
                       disconnected, replies>>
    BY <1>7 DEF OwnerReturn, OwnerReady
  <2>2. TypeOK'
    BY <2>1 DEF IInv, TypeOK
  <2>3. InTransit' = InTransit
    BY <2>1 DEF InTransit
  <2>4. NoRequestLost' /\ EveryCompletionExpected' /\ InsertIsFresh' /\ InsertingInTransit'
        /\ OwnerGone'
    BY <2>1, <2>3 DEF IInv, NoRequestLost, EveryCompletionExpected, InsertIsFresh,
                      InsertingInTransit, OwnerGone
  <2>5. AnswerMatchesRequest' /\ AnsweredOnce' /\ AnswersPrecedeWire' /\ TokensSpent'
    BY <2>1, <2>3 DEF IInv, AnswerMatchesRequest, AnsweredOnce, AnswersPrecedeWire,
                      TokensSpent, AllBelow
  <2>6. WireOrdered' /\ WireNamed'
    BY <2>1 DEF IInv, WireOrdered, WireNamed, Named
  <2> QED
    BY <2>2, <2>4, <2>5, <2>6 DEF IInv
<1>8. CASE UNCHANGED <<next_token, pending, inserting, commands, executing, completions,
                       owner, replies>> /\ worker' \in {"running", "breaking", "exited"}
           /\ disconnected' \in BOOLEAN
  <2>1. TypeOK'
    BY <1>8 DEF IInv, TypeOK
  <2>2. InTransit' = InTransit
    BY <1>8 DEF InTransit
  <2>3. NoRequestLost' /\ EveryCompletionExpected' /\ InsertIsFresh' /\ InsertingInTransit'
        /\ OwnerGone'
    BY <1>8, <2>2 DEF IInv, NoRequestLost, EveryCompletionExpected, InsertIsFresh,
                      InsertingInTransit, OwnerGone
  <2>4. AnswerMatchesRequest' /\ AnsweredOnce' /\ AnswersPrecedeWire' /\ TokensSpent'
    BY <1>8, <2>2 DEF IInv, AnswerMatchesRequest, AnsweredOnce, AnswersPrecedeWire, TokensSpent
  <2>5. WireOrdered' /\ WireNamed'
    BY <1>8 DEF IInv, WireOrdered, WireNamed, Named
  <2> QED
    BY <2>1, <2>3, <2>4, <2>5 DEF IInv
<1>9. CASE OwnerDisconnected
  BY <1>8, <1>9 DEF OwnerDisconnected, IInv, TypeOK
<1>10. CASE WorkerSendFails \/ WorkerPanic \/ WorkerNoMoreCommands \/ WorkerExit
  BY <1>8, <1>10
     DEF WorkerSendFails, WorkerPanic, WorkerNoMoreCommands, WorkerExit, IInv, TypeOK
<1>11. CASE UNCHANGED svars
  BY <1>8, <1>11 DEF svars, IInv, TypeOK
<1> QED
  BY <1>1, <1>2, <1>3, <1>4, <1>5, <1>6, <1>7, <1>9, <1>10, <1>11 DEF Next, WorkerStep

-----------------------------------------------------------------------------
(* Theorems. *)

\* The strengthened invariant holds in every reachable state.
THEOREM ServiceInductive == Spec => []IInv
  BY InitIInv, NextIInv, PTL DEF Spec

\* In every reachable state of owner and worker: the channels keep their
\* bounds, no awaited request is lost, no completion is unexpected, the
\* insertion is fresh (the unreachable!() is never reached), answers belong to
\* their requests and no request is answered twice.
THEOREM ServiceSafety ==
  Spec => [](/\ TypeOK
             /\ NoRequestLost
             /\ EveryCompletionExpected
             /\ InsertIsFresh
             /\ AnswerMatchesRequest
             /\ AnsweredOnce)
<1>1. IInv => /\ TypeOK
              /\ NoRequestLost
              /\ EveryCompletionExpected
              /\ InsertIsFresh
              /\ AnswerMatchesRequest
              /\ AnsweredOnce
  BY DEF IInv
<1> QED BY <1>1, ServiceInductive, PTL

\* What the worker executed is answered in the order of submission.
THEOREM ServiceAnswersInOrder == Spec => AnsweredInOrder
<1> DEFINE InOrder == \A r \in replies' \ replies, q \in replies :
                        r.result # Unavailable /\ q.result # Unavailable => q.token < r.token
<1>1. IInv /\ [Next]_svars => [InOrder]_svars
  <2> SUFFICES ASSUME IInv, [Next]_svars PROVE InOrder \/ UNCHANGED svars
    OBVIOUS
  <2>1. CASE replies' = replies
    BY <2>1
  <2>2. ASSUME NEW r \in Requests, SubmitRejected(r) PROVE InOrder
    BY <2>2 DEF SubmitRejected
  <2>3. CASE OwnerApply
    <3>1. completions \in Seq(Completion) /\ completions # <<>>
      BY <2>3 DEF IInv, TypeOK, OwnerApply
    <3>2. Head(completions).token \in InTransit
      BY <3>1, TokensOfTail DEF InTransit
    <3>3. \A r \in replies' \ replies : r.token = Head(completions).token
      BY <2>3 DEF OwnerApply
    <3> QED BY <3>2, <3>3 DEF IInv, AnswersPrecedeWire, AllBelow
  <2>4. CASE UNCHANGED svars
    BY <2>4
  <2> QED
    BY <2>1, <2>2, <2>3, <2>4
       DEF Next, WorkerStep, SubmitEnqueue, SubmitInsert, OwnerDisconnected, OwnerReturn,
           WorkerRecv, WorkerComplete, WorkerSendFails, WorkerPanic, WorkerNoMoreCommands,
           WorkerExit
<1> QED BY <1>1, ServiceInductive, PTL DEF Spec, AnsweredInOrder

-----------------------------------------------------------------------------
(* Refinement. *)

\* Dropping the results keeps the length and yields commands.
LEMMA WithoutResults ==
  ASSUME NEW s \in Seq(Completion)
  PROVE  LET d == [i \in 1 .. Len(s) |-> [token |-> s[i].token, request |-> s[i].request]]
         IN d \in Seq(Command) /\ Len(d) = Len(s)
<1>1. ASSUME NEW i \in 1 .. Len(s)
      PROVE  [token |-> s[i].token, request |-> s[i].request] \in Command
  <2>1. s[i] \in Completion
    OBVIOUS
  <2>2. s[i].token \in Tokens /\ s[i].request \in Requests
    BY <2>1 DEF Completion
  <2> QED BY <2>2 DEF Command
<1>2. Len(s) \in Nat
  OBVIOUS
<1> QED BY <1>1, <1>2

\* Delivered is the completion channel without the results, before a step ...
LEMMA DeliveredFacts ==
  ASSUME completions \in Seq(Completion)
  PROVE  /\ Delivered \in Seq(Command)
         /\ Len(Delivered) = Len(completions)
         /\ (Delivered = <<>>) <=> (completions = <<>>)
<1>1. Delivered \in Seq(Command) /\ Len(Delivered) = Len(completions)
  BY WithoutResults DEF Delivered
<1>2. (Delivered = <<>>) <=> (Len(Delivered) = 0)
  BY <1>1
<1>3. (completions = <<>>) <=> (Len(completions) = 0)
  OBVIOUS
<1> QED BY <1>1, <1>2, <1>3

\* ... and after it.
LEMMA DeliveredNext ==
  ASSUME completions' \in Seq(Completion)
  PROVE  Delivered' \in Seq(Command) /\ Len(Delivered') = Len(completions')
  BY WithoutResults DEF Delivered

\* The Tokio channels implement the in-process queues they replaced: every
\* step of owner or worker is a step of the queues or leaves them alone.
THEOREM ServiceRefinesQueues == Spec => RefinesQueues
<1>1. Init => Queues!Init
  BY DEF Init, Queues!Init, Delivered
<1>2. IInv /\ [Next]_svars => [Queues!Next]_(Queues!qvars)
  <2> SUFFICES ASSUME IInv, [Next]_svars
               PROVE  Queues!Next \/ UNCHANGED Queues!qvars
    OBVIOUS
  <2>1. completions \in Seq(Completion) /\ commands \in Seq(Command)
        /\ executing \in Seq(Command) /\ Len(executing) <= 1
    BY DEF IInv, TypeOK
  <2>2. ASSUME NEW r \in Requests, SubmitEnqueue(r) PROVE Queues!Next
    <3> DEFINE c == [token |-> next_token, request |-> r]
    <3>1. c \in Command
      BY <2>2 DEF SubmitEnqueue, Command
    <3>2. Queues!owner_send(c)
      BY <2>2 DEF SubmitEnqueue, Accepts, Queues!owner_send, Delivered
    <3> QED BY <3>1, <3>2 DEF Queues!Next
  <2>3. CASE WorkerRecv
    BY <2>3 DEF WorkerRecv, Queues!Next, Queues!service_recv_command, Delivered
  <2>4. ASSUME NEW res \in Results, WorkerComplete(res) PROVE Queues!Next
    <3> DEFINE h == Head(executing)
    <3>1. h \in Command /\ h = [token |-> h.token, request |-> h.request]
      <4>1. h \in Command
        BY <2>1, <2>4, AtMostOne DEF WorkerComplete
      <4> QED BY <4>1 DEF Command
    <3>2. Len(Delivered) < CompletionCapacity
      BY <2>1, <2>4, DeliveredFacts DEF WorkerComplete
    <3>3. Delivered' = Append(Delivered, h)
      <4> DEFINE c == [token |-> h.token, request |-> h.request, result |-> res]
      <4>1. completions' = Append(completions, c) /\ c \in Completion
            /\ c.token = h.token /\ c.request = h.request
        BY <2>4, <3>1 DEF WorkerComplete, Completion, Command
      <4> HIDE DEF c
      <4>2. Len(completions') = Len(completions) + 1 /\ Len(completions) \in Nat
            /\ completions'[Len(completions) + 1] = c
            /\ \A i \in 1 .. Len(completions) : completions'[i] = completions[i]
        BY <2>1, <4>1
      <4>3. Delivered \in Seq(Command) /\ Len(Delivered) = Len(completions)
        BY <2>1, DeliveredFacts
      <4>4. Append(Delivered, h) \in Seq(Command) /\ Len(Append(Delivered, h)) = Len(completions) + 1
            /\ Append(Delivered, h)[Len(completions) + 1] = h
            /\ \A i \in 1 .. Len(completions) : Append(Delivered, h)[i] = Delivered[i]
        BY <3>1, <4>3
      <4>5. Delivered' = [i \in 1 .. Len(completions') |->
                [token |-> completions'[i].token, request |-> completions'[i].request]]
        BY DEF Delivered
      <4>6. \A i \in 1 .. Len(completions) + 1 : Delivered'[i] = Append(Delivered, h)[i]
        BY <3>1, <4>1, <4>2, <4>4, <4>5 DEF Delivered
      <4>7. Delivered' \in Seq(Command) /\ Len(Delivered') = Len(completions) + 1
        <5>1. completions' \in Seq(Completion)
          BY <2>1, <4>1
        <5>2. Delivered' \in Seq(Command) /\ Len(Delivered') = Len(completions')
          BY <5>1, DeliveredNext
        <5> QED BY <4>2, <5>2
      <4> QED BY <4>4, <4>6, <4>7, SeqEqual
    <3>4. Queues!service_complete
      BY <2>4, <3>2, <3>3 DEF WorkerComplete, Queues!service_complete
    <3> QED BY <3>4 DEF Queues!Next
  <2>5. CASE OwnerApply
    <3>1. completions # <<>> /\ completions' = Tail(completions)
          /\ UNCHANGED <<commands, executing>>
      BY <2>5 DEF OwnerApply
    <3>2. Delivered \in Seq(Command) /\ Len(Delivered) = Len(completions) /\ Delivered # <<>>
      BY <2>1, <3>1, DeliveredFacts
    <3>3. Delivered' = Tail(Delivered)
      <4>1. Len(completions') = Len(completions) - 1
            /\ \A i \in 1 .. Len(completions') : completions'[i] = completions[i + 1]
                                                /\ i + 1 \in 1 .. Len(completions)
        BY <2>1, <3>1
      <4>2. Tail(Delivered) \in Seq(Command) /\ Len(Tail(Delivered)) = Len(completions')
            /\ \A i \in 1 .. Len(completions') : Tail(Delivered)[i] = Delivered[i + 1]
        BY <3>2, <4>1
      <4>3. Delivered' = [i \in 1 .. Len(completions') |->
                [token |-> completions'[i].token, request |-> completions'[i].request]]
        BY DEF Delivered
      <4>4. \A i \in 1 .. Len(completions') : Delivered'[i] = Tail(Delivered)[i]
        BY <4>1, <4>2, <4>3 DEF Delivered
      <4>5. Delivered' \in Seq(Command) /\ Len(Delivered') = Len(completions')
        <5>1. completions' \in Seq(Completion)
          BY <2>1, <3>1
        <5> QED BY <5>1, DeliveredNext
      <4> QED BY <4>2, <4>4, <4>5, SeqEqual
    <3> QED BY <3>1, <3>2, <3>3 DEF Queues!Next, Queues!owner_recv_completion
  <2>6. CASE UNCHANGED <<commands, executing, completions>>
    BY <2>6 DEF Queues!qvars, Delivered
  <2> QED
    BY <2>2, <2>3, <2>4, <2>5, <2>6
       DEF Next, WorkerStep, svars, SubmitInsert, SubmitRejected, OwnerDisconnected,
           OwnerReturn, WorkerSendFails, WorkerPanic, WorkerNoMoreCommands, WorkerExit
<1> QED BY <1>1, <1>2, ServiceInductive, PTL DEF Spec, Queues!Spec, RefinesQueues
=============================================================================
