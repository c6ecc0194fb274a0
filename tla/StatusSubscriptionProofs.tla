----------------------- MODULE StatusSubscriptionProofs -----------------------
(***************************************************************************)
(* A subscription announces every change, for any number of tasks, any     *)
(* capacity of the mpsc channel and any number of changes.                 *)
(***************************************************************************)
EXTENDS StatusSubscription, TLAPS

\* Nothing read or seen is ahead of its channel, nothing shown is ahead of what
\* is read next, and the receivers have seen
\* nothing until they are spawned.
NotAhead ==
  \A c \in Channels :
    /\ seen[c] <= value[c] /\ snapshot[c] <= value[c]
    /\ shown[c] <= value[c] /\ shown[c] <= snapshot[c]
    /\ pc = "first" => seen[c] = 0 /\ forwarder[c] = "none"

\* A snapshot being read has the value of a channel, or will read it, or the
\* channel has changed since.
Reading(c) ==
  \/ snapshot[c] = value[c]
  \/ \E i \in at .. Len(Reads) : Reads[i] = c

Announced(c) ==
  \/ shown[c] = value[c] \/ seen[c] # value[c] \/ forwarder[c] = "send" \/ units > 0
  \/ pc = "snapshot" /\ Reading(c)

IInv ==
  /\ TypeOK /\ shown \in [Channels -> Versions]
  /\ NotAhead
  /\ pc \notin {"first", "done", "gone"} => \A c \in Channels : Announced(c)

LEMMA ReadsType == /\ Len(Reads) \in Nat
                   /\ \A i \in 1 .. Len(Reads) : Reads[i] \in Channels
                   /\ Shutdown \in Channels
<1>1. Reads \in Seq({Shutdown} \cup (Channels \ {Shutdown}))
  BY SubscriptionAssumption DEF Reads
<1>2. Len(Reads) \in Nat
  BY <1>1
<1>3. \A i \in 1 .. Len(Reads) : Reads[i] \in Channels
  BY DEF Channels
<1>4. Reads[1] = Shutdown /\ 1 \in 1 .. Len(Reads)
  BY SubscriptionAssumption DEF Reads
<1> QED BY <1>2, <1>3, <1>4

LEMMA VersionsType == /\ Versions \subseteq Nat /\ 0 \in Versions
                      /\ \A c \in Channels : Limit(c) \in Nat /\ Limit(c) <= MaxSet
  BY SubscriptionAssumption DEF Versions, Limit

\* The first state.
LEMMA InitHolds == Init => IInv
<1> SUFFICES ASSUME Init PROVE IInv
  OBVIOUS
<1>1. Zero \in [Channels -> Versions] /\ \A c \in Channels : Zero[c] = 0
  BY VersionsType DEF Zero
<1>2. TypeOK /\ shown \in [Channels -> Versions]
  BY <1>1, ReadsType, SubscriptionAssumption DEF Init, TypeOK
<1>3. NotAhead
  BY <1>1 DEF Init, NotAhead
<1> QED BY <1>2, <1>3 DEF IInv, Init

\* Setting a channel: its forwarder has it to see.
LEMMA SetKeeps == ASSUME IInv, NEW c \in Channels, Set(c) PROVE IInv'
<1>1. value' \in [Channels -> Versions]
  BY VersionsType, SubscriptionAssumption DEF IInv, TypeOK, Set, Versions
<1>2. TypeOK' /\ shown' \in [Channels -> Versions]
  BY <1>1 DEF IInv, TypeOK, Set
<1>3. \A d \in Channels : value[d] \in Nat /\ value'[d] = IF d = c THEN value[d] + 1 ELSE value[d]
  BY VersionsType DEF IInv, TypeOK, Set
<1>4. \A d \in Channels : seen[d] \in Nat /\ snapshot[d] \in Nat /\ shown[d] \in Nat
  BY VersionsType DEF IInv, TypeOK
<1>5. NotAhead'
  BY <1>3, <1>4 DEF IInv, NotAhead, Set
<1>6. ASSUME pc \notin {"first", "done", "gone"}, NEW d \in Channels PROVE Announced(d)'
  <2>1. CASE d = c
    <3>1. seen[d] # value'[d]
      BY <2>1, <1>3, <1>4 DEF IInv, NotAhead
    <3> QED BY <3>1 DEF Announced, Set
  <2>2. CASE d # c
    <3>1. value'[d] = value[d]
      BY <2>2, <1>3
    <3> QED BY <3>1, <1>6 DEF IInv, Announced, Reading, Set
  <2> QED BY <2>1, <2>2
<1>7. pc' = pc
  BY DEF Set
<1> QED BY <1>2, <1>5, <1>6, <1>7 DEF IInv

\* Reading a channel for a snapshot.
LEMMA ReadOneKeeps == ASSUME IInv, ReadOne PROVE IInv'
<1>1. /\ at \in 1 .. Len(Reads) /\ at' = at + 1 /\ Reads[at] \in Channels
      /\ UNCHANGED <<value, seen, forwarder, units, pc, shown>>
  BY ReadsType DEF IInv, TypeOK, ReadOne
<1>2. snapshot' \in [Channels -> Versions]
      /\ \A d \in Channels : snapshot'[d] = IF d = Reads[at] THEN value[d] ELSE snapshot[d]
  BY <1>1 DEF IInv, TypeOK, ReadOne
<1>3. TypeOK' /\ shown' \in [Channels -> Versions]
  BY <1>1, <1>2, ReadsType DEF IInv, TypeOK
<1>4. \A d \in Channels : value[d] \in Nat
  BY VersionsType DEF IInv, TypeOK
<1>5. NotAhead'
  BY <1>1, <1>2, <1>4 DEF IInv, NotAhead
<1>6. ASSUME NEW d \in Channels, Reading(d) PROVE Reading(d)'
  <2>1. CASE d = Reads[at]
    BY <2>1, <1>1, <1>2 DEF Reading
  <2>2. CASE d # Reads[at] /\ snapshot[d] = value[d]
    BY <2>2, <1>1, <1>2 DEF Reading
  <2>3. CASE d # Reads[at] /\ \E i \in at .. Len(Reads) : Reads[i] = d
    <3>1. PICK i \in at .. Len(Reads) : Reads[i] = d
      BY <2>3
    <3>2. i \in at' .. Len(Reads)
      BY <3>1, <2>3, <1>1, ReadsType
    <3> QED BY <3>1, <3>2 DEF Reading
  <2> QED BY <1>6, <2>1, <2>2, <2>3 DEF Reading
<1>7. ASSUME pc \notin {"first", "done", "gone"}, NEW d \in Channels PROVE Announced(d)'
  BY <1>6, <1>7, <1>1 DEF IInv, Announced
<1> QED BY <1>1, <1>3, <1>5, <1>7 DEF IInv

\* Writing a snapshot: what it has of a channel is shown, and what it has not
\* will be read, or has changed and is there to be seen.
LEMMA WriteKeeps == ASSUME IInv, Write PROVE IInv'
<1>1. /\ at \in Nat /\ at > Len(Reads) /\ shown' = snapshot /\ pc \in {"first", "snapshot"}
      /\ UNCHANGED <<value, seen, units, at, snapshot>>
      /\ pc' \in {"recv", "done"} /\ (pc = "first" => pc' = "recv")
      /\ forwarder' \in [Channels -> {"none", "wait", "send"}]
      /\ (pc = "snapshot" => forwarder' = forwarder)
  BY ReadsType DEF IInv, TypeOK, Write
<1>2. TypeOK' /\ shown' \in [Channels -> Versions]
  BY <1>1 DEF IInv, TypeOK
<1>3. NotAhead'
  <2>1. \A c \in Channels : snapshot[c] \in Nat
    BY VersionsType DEF IInv, TypeOK
  <2> QED BY <2>1, <1>1 DEF IInv, NotAhead
<1>4. ASSUME NEW d \in Channels PROVE Announced(d)'
  <2>1. CASE pc = "first"
    <3>1. /\ seen[d] = 0 /\ snapshot[d] <= value[d]
          /\ snapshot[d] \in Nat /\ value[d] \in Nat
      BY <2>1, VersionsType DEF IInv, NotAhead, TypeOK
    <3> QED BY <3>1, <1>1 DEF Announced
  <2>2. CASE pc = "snapshot"
    <3>1. Announced(d)
      BY <2>2 DEF IInv
    <3>2. ~ \E i \in at .. Len(Reads) : Reads[i] = d
      BY <1>1, ReadsType
    <3>3. CASE snapshot[d] = value[d]
      BY <3>3, <1>1 DEF Announced
    <3>4. CASE seen[d] # value[d] \/ forwarder[d] = "send" \/ units > 0
      BY <3>4, <2>2, <1>1 DEF Announced
    <3>5. CASE shown[d] = value[d]
      <4>1. /\ shown[d] <= snapshot[d] /\ snapshot[d] <= value[d]
            /\ snapshot[d] \in Nat /\ value[d] \in Nat
        BY VersionsType DEF IInv, NotAhead, TypeOK
      <4> QED BY <4>1, <3>5, <3>3
    <3> QED BY <3>1, <3>2, <3>3, <3>4, <3>5 DEF Announced, Reading
  <2> QED BY <1>1, <2>1, <2>2
<1> QED BY <1>1, <1>2, <1>3, <1>4 DEF IInv

LEMMA WriteFailsKeeps == ASSUME IInv, WriteFails PROVE IInv'
<1>1. TypeOK' /\ shown' \in [Channels -> Versions]
  BY DEF IInv, TypeOK, WriteFails
<1>2. NotAhead'
  BY DEF IInv, NotAhead, WriteFails
<1> QED BY <1>1, <1>2 DEF IInv, WriteFails

\* Receiving a unit: every channel will be read.
LEMMA RecvKeeps == ASSUME IInv, Recv PROVE IInv'
<1>1. /\ units' \in 0 .. Capacity /\ pc' = "snapshot" /\ at' = 1 /\ pc = "recv"
      /\ UNCHANGED <<value, seen, forwarder, snapshot, shown>>
  BY SubscriptionAssumption DEF IInv, TypeOK, Recv
<1>2. TypeOK' /\ shown' \in [Channels -> Versions]
  BY <1>1, ReadsType DEF IInv, TypeOK
<1>3. NotAhead'
  BY <1>1 DEF IInv, NotAhead
<1>4. ASSUME NEW d \in Channels PROVE Announced(d)'
  <2>1. \E i \in 1 .. Len(Reads) : Reads[i] = d
    BY DEF Channels
  <2> QED BY <2>1, <1>1 DEF Announced, Reading
<1> QED BY <1>1, <1>2, <1>3, <1>4 DEF IInv

\* A forwarder that has seen a change has a unit to send.
LEMMA ChangedKeeps == ASSUME IInv, NEW c \in Channels, Changed(c) PROVE IInv'
<1>1. /\ UNCHANGED <<value, units, pc, at, snapshot, shown>>
      /\ seen' \in [Channels -> Versions]
      /\ forwarder' \in [Channels -> {"none", "wait", "send"}]
      /\ \A d \in Channels : d # c => seen'[d] = seen[d] /\ forwarder'[d] = forwarder[d]
      /\ seen'[c] = value[c] /\ forwarder'[c] = "send" /\ forwarder[c] = "wait"
  BY DEF IInv, TypeOK, Changed
<1>2. TypeOK' /\ shown' \in [Channels -> Versions]
  BY <1>1 DEF IInv, TypeOK
<1>3. NotAhead'
  <2>1. value[c] \in Nat /\ pc # "first"
    BY <1>1, VersionsType DEF IInv, TypeOK, NotAhead
  <2> QED BY <2>1, <1>1 DEF IInv, NotAhead
<1>4. ASSUME pc \notin {"first", "done", "gone"}, NEW d \in Channels PROVE Announced(d)'
  <2>1. CASE d = c
    BY <2>1, <1>1 DEF Announced
  <2>2. CASE d # c
    BY <2>2, <1>4, <1>1 DEF IInv, Announced, Reading
  <2> QED BY <2>1, <2>2
<1> QED BY <1>1, <1>2, <1>3, <1>4 DEF IInv

\* A unit in the channel announces every change.
LEMMA SendKeeps == ASSUME IInv, NEW c \in Channels, Send(c) PROVE IInv'
<1>1. /\ UNCHANGED <<value, seen, pc, at, snapshot, shown>>
      /\ forwarder' \in [Channels -> {"none", "wait", "send"}]
      /\ units' \in 0 .. Capacity /\ (pc \notin {"done", "gone"} => units' > 0)
      /\ forwarder[c] = "send"
  <2>1. units \in Nat /\ Capacity \in Nat /\ units <= Capacity
    BY SubscriptionAssumption DEF IInv, TypeOK
  <2>2. UNCHANGED <<value, seen, pc, at, snapshot, shown>> /\ forwarder[c] = "send"
    BY DEF Send
  <2>3. forwarder' \in [Channels -> {"none", "wait", "send"}]
    BY DEF IInv, TypeOK, Send
  <2>4. \/ pc \in {"done", "gone"} /\ units' = units
        \/ units < Capacity /\ units' = units + 1
    BY DEF Send
  <2> QED BY <2>1, <2>2, <2>3, <2>4
<1>2. TypeOK' /\ shown' \in [Channels -> Versions]
  BY <1>1 DEF IInv, TypeOK
<1>3. NotAhead'
  <2>1. pc # "first"
    BY <1>1 DEF IInv, NotAhead
  <2> QED BY <2>1, <1>1 DEF IInv, NotAhead
<1>4. ASSUME pc \notin {"first", "done", "gone"}, NEW d \in Channels PROVE Announced(d)'
  BY <1>4, <1>1 DEF Announced
<1> QED BY <1>1, <1>2, <1>3, <1>4 DEF IInv

LEMMA NextKeeps == IInv /\ [Next]_vars => IInv'
<1> SUFFICES ASSUME IInv, [Next]_vars PROVE IInv'
  OBVIOUS
<1>1. CASE ReadOne
  BY <1>1, ReadOneKeeps
<1>2. CASE Write \/ WriteFails
  BY <1>2, WriteKeeps, WriteFailsKeeps
<1>3. CASE Recv
  BY <1>3, RecvKeeps
<1>4. CASE \E c \in Channels : Set(c) \/ Changed(c) \/ Send(c)
  BY <1>4, SetKeeps, ChangedKeeps, SendKeeps
<1>5. CASE UNCHANGED vars
  BY <1>5 DEF vars, IInv, TypeOK, NotAhead, Announced, Reading
<1> QED BY <1>1, <1>2, <1>3, <1>4, <1>5 DEF Next

LEMMA Implied == IInv => TypeOK /\ ChangeIsAnnounced
  BY DEF IInv, ChangeIsAnnounced, Announced, Reading

\* Spec keeps the inductive invariant: for any plan, capacity and number of
\* changes, stream_status_subscription keeps what it has shown, read and seen in
\* step with the watch channels.
THEOREM SubscriptionInductive == Spec => []IInv
<1> QED BY InitHolds, NextKeeps, PTL DEF Spec

\* The mpsc channel of subscribe_status_changes keeps its capacity.
THEOREM SubscriptionTyped == Spec => []TypeOK
<1>1. IInv => TypeOK
  BY Implied
<1> QED BY <1>1, SubscriptionInductive, PTL

\* No change of a task's status or of the shutdown is lost between the first
\* snapshot and the forwarders, in a full channel or while a snapshot is read.
THEOREM NoLostChange == Spec => []ChangeIsAnnounced
<1>1. IInv => ChangeIsAnnounced
  BY Implied
<1> QED BY <1>1, SubscriptionInductive, PTL
=============================================================================
