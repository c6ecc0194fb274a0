------------------------- MODULE TcpProxySessionProofs -------------------------
(***************************************************************************)
(* Theorems about TcpProxySession, for every limit and capacity.           *)
(***************************************************************************)
EXTENDS TcpProxySession, TLAPS, SequenceTheorems

\* Between turns the pump leaves guest bytes unread only when bytes for the
\* guest fill the transmit buffer: then only a guest frame makes room.
Blocked == pending_guest_bytes # <<>> /\ Len(tx) = TxCapacity
Unread ==
  /\ mapped /\ sock = "Established" /\ (pc = "select" \/ (pc = "flush" /\ (rd \/ wr))) =>
       rx = <<>> \/ Blocked
  /\ pc = "recv" /\ (rd \/ wr) => rx = <<>>
  /\ pc \notin {"select", "flush", "recv"} => rx = <<>>

\* Where the pump is says what it holds: payload only in process_guest_payload,
\* which runs in a frame's turn, and nothing for the guest from recv on, until
\* a handshake flight or upstream data is sent to it.
Flow ==
  /\ pc \in {"tls", "ensure", "payload"} => ~rd /\ ~wr
  /\ pc \notin {"tls", "ensure", "payload"} => hand = <<>>
  /\ pc \in {"recv", "tls", "plaintext", "plaintext2", "bytes", "read"} =>
       pending_guest_bytes = <<>>
  /\ pc # "select" => mapped

\* A session that is not TLS uses neither TLS nor the plaintext buffer.
Plain == ~Https => /\ pc \notin {"tls", "ensure"}
                   /\ pending_upstream_plaintext = <<>>

IInv == TypeOK /\ Unread /\ Flow /\ Plain /\ PlainStreamsKept

-----------------------------------------------------------------------------
(* Sequences and items. *)

\* A prefix and the rest of a buffer: what write and send_slice take, and what
\* drain(..count) leaves.
LEMMA TakeDrop ==
  ASSUME NEW S, NEW s \in Seq(S), NEW k \in 0 .. Len(s)
  PROVE  /\ Take(s, k) \in Seq(S) /\ Len(Take(s, k)) = k
         /\ Drop(s, k) \in Seq(S) /\ Len(Drop(s, k)) = Len(s) - k
         /\ Take(s, k) \o Drop(s, k) = s
<1>1. Len(s) \in Nat
  BY LenProperties
<1>2. \A i \in 1 .. Len(s) : s[i] \in S
  BY ElementOfSeq
<1>3. Take(s, k) \in Seq(S) /\ Len(Take(s, k)) = k
  BY <1>1, <1>2, SubSeqProperties DEF Take
<1>4. Drop(s, k) \in Seq(S) /\ Len(Drop(s, k)) = Len(s) - k
  BY <1>1, <1>2, SubSeqProperties DEF Drop
<1>5. Take(s, k) \o Drop(s, k) = SubSeq(s, 1, Len(s))
  <2>1. 1 \in 1 .. Len(s) + 1 /\ k \in 1 - 1 .. Len(s) /\ Len(s) \in k .. Len(s)
    BY <1>1
  <2> QED
    BY <2>1, ConcatAdjacentSubSeq DEF Take, Drop
<1> QED
  BY <1>3, <1>4, <1>5, SubSeqFull

\* Concatenation of item sequences may be regrouped.
LEMMA Regroup ==
  ASSUME NEW s \in Seq(Items), NEW t \in Seq(Items), NEW u \in Seq(Items)
  PROVE  (s \o t) \o u = s \o (t \o u)
<1> DEFINE l == (s \o t) \o u
           r == s \o (t \o u)
<1>1. Len(s) \in Nat /\ Len(t) \in Nat /\ Len(u) \in Nat
  BY LenProperties
<1>2. /\ s \o t \in Seq(Items) /\ Len(s \o t) = Len(s) + Len(t)
      /\ t \o u \in Seq(Items) /\ Len(t \o u) = Len(t) + Len(u)
  BY ConcatProperties
<1>3. l \in Seq(Items) /\ Len(l) = Len(s) + Len(t) + Len(u)
  BY <1>1, <1>2, ConcatProperties
<1>4. r \in Seq(Items) /\ Len(r) = Len(s) + Len(t) + Len(u)
  BY <1>1, <1>2, ConcatProperties
<1>5. ASSUME NEW i \in 1 .. Len(l) PROVE l[i] = r[i]
  BY <1>1, <1>2, <1>3, <1>5
<1> HIDE DEF l, r
<1>6. l = r
  BY <1>3, <1>4, <1>5, SeqEqual
<1> QED
  BY <1>6 DEF l, r

\* The items are what the types say.
LEMMA ItemTypes ==
  /\ Part \in Items /\ Hello \in Items /\ Finished \in Items /\ Ticket \in Items
  /\ \A n \in 1 .. MaxSent + MaxUp : Data(n) \in Items
BY DEF Items

\* How much of some bytes fits a buffer with room.
LEMMA MinFits ==
  ASSUME NEW a \in Nat, NEW b \in Nat
  PROVE  Min(a, b) \in 0 .. b /\ Min(a, b) <= a /\ (Min(a, b) # b => Min(a, b) = a)
BY DEF Min

\* The room in the transmit buffer.
LEMMA RoomType ==
  ASSUME GuestTypes
  PROVE  Room \in Nat /\ Len(tx) + Room <= TxCapacity
BY SessionAssumption, LenProperties DEF GuestTypes, Room

-----------------------------------------------------------------------------
(* What the writing operations leave behind. *)

\* write_pending_best_effort keeps every byte: written or still pending.
LEMMA WriteKeeps ==
  ASSUME UpstreamTypes, NEW bytes \in Seq(Items), Len(bytes) <= UpstreamLimit, Write(bytes)
  PROVE  /\ pending_upstream_bytes' \in Seq(Items)
         /\ Len(pending_upstream_bytes') <= UpstreamLimit
         /\ out' \in Seq(Items)
         /\ out' \o pending_upstream_bytes' = out \o bytes
<1>1. Len(bytes) \in Nat /\ out \in Seq(Items)
  BY LenProperties DEF UpstreamTypes
<1>2. CASE broken
  BY <1>1, <1>2 DEF Write
<1>3. CASE ~broken
  <2>1. PICK k \in 0 .. Len(bytes) : /\ out' = out \o Take(bytes, k)
                                     /\ pending_upstream_bytes' = Drop(bytes, k)
    BY <1>3 DEF Write
  <2>2. /\ Take(bytes, k) \in Seq(Items) /\ Drop(bytes, k) \in Seq(Items)
        /\ Len(Drop(bytes, k)) = Len(bytes) - k
        /\ Take(bytes, k) \o Drop(bytes, k) = bytes
    BY TakeDrop
  <2>3. (out \o Take(bytes, k)) \o Drop(bytes, k) = out \o (Take(bytes, k) \o Drop(bytes, k))
    BY <1>1, <2>2, Regroup
  <2>4. out \o Take(bytes, k) \in Seq(Items)
    BY <1>1, <2>2, ConcatProperties
  <2>5. Len(Drop(bytes, k)) <= UpstreamLimit
    <3>1. UpstreamLimit \in Nat
      BY SessionAssumption
    <3>2. Len(bytes) - k <= UpstreamLimit
      BY <1>1, <3>1
    <3> QED
      BY <2>2, <3>2
  <2> QED
    BY <2>1, <2>2, <2>3, <2>4, <2>5
<1> QED
  BY <1>2, <1>3

\* A closed guest socket stays typed, and the session is no longer open.
LEMMA CloseTypes ==
  ASSUME GuestTypes, SessionTypes, NEW why \in {"limit", "guest_limit", "tls", "eof"},
         CloseGuest(why)
  PROVE  /\ sock' \in {"Established", "CloseWait", "FinWait", "Closed"}
         /\ sock' # "Established"
         /\ reason' \in {"open", "limit", "guest_limit", "tls", "eof", "guest"}
         /\ reason' # "open"
BY DEF CloseGuest, GuestTypes, SessionTypes

\* Writing to the upstream, or buffering for it, keeps every byte or closes.
LEMMA UpstreamKeeps ==
  ASSUME GuestTypes, SessionTypes, UpstreamTypes, BufferTypes, NEW bytes \in Seq(Items),
         WriteUpstream(bytes) \/ BufferUpstream(bytes)
  PROVE  /\ pending_upstream_bytes' \in Seq(Items)
         /\ Len(pending_upstream_bytes') <= UpstreamLimit
         /\ out' \in Seq(Items)
         /\ sock' \in {"Established", "CloseWait", "FinWait", "Closed"}
         /\ reason' \in {"open", "limit", "guest_limit", "tls", "eof", "guest"}
         /\ reason' = "open" =>
              /\ reason = "open" /\ sock' = sock
              /\ out' \o pending_upstream_bytes' = (out \o pending_upstream_bytes) \o bytes
<1> DEFINE all == pending_upstream_bytes \o bytes
<1>1. /\ all \in Seq(Items) /\ Len(all) = Len(pending_upstream_bytes) + Len(bytes)
      /\ Len(all) \in Nat
  BY ConcatProperties, LenProperties DEF BufferTypes
<1>2. out \in Seq(Items) /\ pending_upstream_bytes \in Seq(Items)
  BY DEF UpstreamTypes, BufferTypes
<1>3. out \o all = (out \o pending_upstream_bytes) \o bytes
  BY <1>2, Regroup
<1> HIDE DEF all
<1>4. CASE Len(all) > UpstreamLimit
  <2>1. CloseGuest("limit") /\ UNCHANGED <<pending_upstream_bytes, out>>
    BY <1>1, <1>4 DEF WriteUpstream, BufferUpstream
  <2> QED
    BY <2>1, CloseTypes DEF BufferTypes, UpstreamTypes
<1>5. CASE ~(Len(all) > UpstreamLimit)
  <2>1. Len(all) <= UpstreamLimit
    BY <1>1, <1>5, SessionAssumption
  <2>2. sock' = sock /\ reason' = reason
    BY <1>1, <1>5 DEF WriteUpstream, BufferUpstream, KeepGuest
  <2>3. CASE WriteUpstream(bytes)
    <3>1. Write(all)
      BY <1>1, <1>5, <2>3 DEF WriteUpstream, all
    <3> QED
      BY <1>1, <1>3, <2>1, <2>2, <3>1, WriteKeeps DEF GuestTypes, SessionTypes
  <2>4. CASE BufferUpstream(bytes)
    <3>1. pending_upstream_bytes' = all /\ out' = out
      BY <1>1, <1>5, <2>4 DEF BufferUpstream, all
    <3> QED
      BY <1>1, <1>2, <1>3, <2>1, <2>2, <3>1 DEF GuestTypes, SessionTypes
  <2> QED
    BY <2>3, <2>4
<1> QED
  BY <1>4, <1>5

\* flush_pending_guest_bytes keeps every byte, and leaves some only in front of
\* a full transmit buffer, which it then has not touched.
LEMMA FlushKeeps ==
  ASSUME GuestTypes, BufferTypes, FlushGuest
  PROVE  /\ tx' \in Seq(Items) /\ Len(tx') <= TxCapacity /\ got' = got
         /\ pending_guest_bytes' \in Seq(Items) /\ Len(pending_guest_bytes') <= GuestLimit
         /\ tx' \o pending_guest_bytes' = tx \o pending_guest_bytes
         /\ sock = "Established" /\ pending_guest_bytes' # <<>> => Len(tx') = TxCapacity
         /\ Blocked => pending_guest_bytes' # <<>>
<1> DEFINE k == Min(Room, Len(pending_guest_bytes))
           t == Take(pending_guest_bytes, k)
           d == Drop(pending_guest_bytes, k)
<1>1. /\ tx \in Seq(Items) /\ Len(tx) \in Nat /\ pending_guest_bytes \in Seq(Items)
      /\ Len(pending_guest_bytes) \in Nat /\ Len(pending_guest_bytes) <= GuestLimit
      /\ Room \in Nat /\ Len(tx) + Room <= TxCapacity /\ TxCapacity \in Nat /\ GuestLimit \in Nat
  BY RoomType, LenProperties, SessionAssumption DEF GuestTypes, BufferTypes
<1>2. k \in 0 .. Len(pending_guest_bytes) /\ k <= Room /\ (k # Len(pending_guest_bytes) => k = Room)
  BY <1>1, MinFits
<1> HIDE DEF k
<1>3. /\ t \in Seq(Items) /\ Len(t) = k /\ d \in Seq(Items)
      /\ Len(d) = Len(pending_guest_bytes) - k /\ t \o d = pending_guest_bytes
  BY <1>1, <1>2, TakeDrop
<1>4. tx' = tx \o t /\ pending_guest_bytes' = d /\ got' = got
  BY DEF FlushGuest, k
<1> HIDE DEF t, d
<1>5. tx \o t \in Seq(Items) /\ Len(tx \o t) = Len(tx) + k
  BY <1>1, <1>3, ConcatProperties
<1>6. (tx \o t) \o d = tx \o (t \o d)
  BY <1>1, <1>3, Regroup
<1>7. Len(tx') <= TxCapacity
  BY <1>1, <1>2, <1>4, <1>5
<1>8. Len(pending_guest_bytes') <= GuestLimit
  BY <1>1, <1>2, <1>3, <1>4
<1>9. ASSUME sock = "Established", pending_guest_bytes' # <<>> PROVE Len(tx') = TxCapacity
  <2>1. Len(d) # 0
    BY <1>3, <1>4, <1>9, EmptySeq
  <2>2. k = Room
    BY <1>1, <1>2, <1>3, <2>1
  <2>3. Room = TxCapacity - Len(tx)
    BY <1>9 DEF Room
  <2> QED
    BY <1>1, <1>4, <1>5, <2>2, <2>3
<1>10. ASSUME Blocked PROVE pending_guest_bytes' # <<>>
  <2>1. k = 0
    BY <1>1, <1>2, <1>10 DEF Blocked
  <2>2. Len(d) = Len(pending_guest_bytes)
    BY <1>1, <1>3, <2>1
  <2>3. Len(pending_guest_bytes) # 0
    BY <1>1, <1>10, EmptySeq DEF Blocked
  <2> QED
    BY <1>4, <2>2, <2>3, EmptySeq
<1> QED
  BY <1>3, <1>4, <1>5, <1>6, <1>7, <1>8, <1>9, <1>10

\* send_guest_buffered with nothing pending keeps every byte or closes.
LEMMA SendKeeps ==
  ASSUME GuestTypes, SessionTypes, BufferTypes, NEW bytes \in Seq(Items), SendGuest(bytes),
         pending_guest_bytes = <<>>
  PROVE  /\ tx' \in Seq(Items) /\ Len(tx') <= TxCapacity /\ got' = got
         /\ pending_guest_bytes' \in Seq(Items) /\ Len(pending_guest_bytes') <= GuestLimit
         /\ sock' \in {"Established", "CloseWait", "FinWait", "Closed"}
         /\ reason' \in {"open", "limit", "guest_limit", "tls", "eof", "guest"}
         /\ reason' = "open" =>
              /\ reason = "open" /\ sock' = sock
              /\ tx' \o pending_guest_bytes' = tx \o bytes
<1> DEFINE k == Min(Room, Len(bytes))
           t == Take(bytes, k)
           d == Drop(bytes, k)
<1>1. /\ tx \in Seq(Items) /\ Len(tx) \in Nat /\ Len(bytes) \in Nat
      /\ Room \in Nat /\ Len(tx) + Room <= TxCapacity /\ TxCapacity \in Nat /\ GuestLimit \in Nat
  BY RoomType, LenProperties, SessionAssumption DEF GuestTypes
<1>2. k \in 0 .. Len(bytes) /\ k <= Room
  BY <1>1, MinFits
<1> HIDE DEF k
<1>3. /\ t \in Seq(Items) /\ Len(t) = k /\ d \in Seq(Items)
      /\ Len(d) = Len(bytes) - k /\ t \o d = bytes
  BY <1>1, <1>2, TakeDrop
<1>4. /\ tx' = tx \o t /\ got' = got
      /\ IF Len(bytes) - k > GuestLimit
         THEN CloseGuest("guest_limit") /\ UNCHANGED pending_guest_bytes
         ELSE pending_guest_bytes' = d /\ KeepGuest
  BY DEF SendGuest, k
<1> HIDE DEF t, d
<1>5. tx \o t \in Seq(Items) /\ Len(tx \o t) = Len(tx) + k
  BY <1>1, <1>3, ConcatProperties
<1>6. (tx \o t) \o d = tx \o (t \o d)
  BY <1>1, <1>3, Regroup
<1>7. tx' \in Seq(Items) /\ Len(tx') <= TxCapacity /\ got' = got
  BY <1>1, <1>2, <1>4, <1>5
<1>8. CASE Len(bytes) - k > GuestLimit
  BY <1>4, <1>7, <1>8, CloseTypes DEF BufferTypes
<1>9. CASE ~(Len(bytes) - k > GuestLimit)
  <2>1. pending_guest_bytes' = d /\ sock' = sock /\ reason' = reason
    BY <1>4, <1>9 DEF KeepGuest
  <2>2. Len(d) <= GuestLimit
    BY <1>1, <1>2, <1>3, <1>9
  <2>3. tx' \o pending_guest_bytes' = tx \o bytes
    BY <1>3, <1>4, <1>6, <2>1
  <2> QED
    BY <1>3, <1>7, <2>1, <2>2, <2>3 DEF GuestTypes, SessionTypes
<1> QED
  BY <1>8, <1>9
-----------------------------------------------------------------------------
(* The inductive invariant. *)

\* The empty sequence of chunks.
LEMMA NoChunks == UpTo(0) = <<>>
<1>1. UpTo(0) \in Seq({}) /\ Len(UpTo(0)) = 0
  BY DEF UpTo
<1> QED
  BY <1>1, EmptySeq

\* One more chunk.
LEMMA NextChunk ==
  ASSUME NEW n \in Nat
  PROVE  UpTo(n + 1) = UpTo(n) \o <<Data(n + 1)>>
BY DEF UpTo, Data

\* Four buffers, seen as the two in the middle and their surroundings.
Regrouped(a, b, c, d) == (a \o b) \o (c \o d) = a \o ((b \o c) \o d)

\* The stream through four buffers depends on the middle two only through their
\* concatenation.
LEMMA Middle ==
  ASSUME NEW a \in Seq(Items), NEW b \in Seq(Items), NEW c \in Seq(Items), NEW d \in Seq(Items)
  PROVE  Regrouped(a, b, c, d)
<1>1. c \o d \in Seq(Items)
  BY ConcatProperties
<1>2. (a \o b) \o (c \o d) = a \o (b \o (c \o d))
  BY <1>1, Regroup
<1>3. b \o (c \o d) = (b \o c) \o d
  BY Regroup
<1> QED
  BY <1>2, <1>3 DEF Regrouped

\* Moving bytes between two neighbouring buffers leaves the stream as it is.
Moves(a, b, c, d, b2, c2) ==
  b2 \o c2 = b \o c => (a \o b2) \o (c2 \o d) = (a \o b) \o (c \o d)

\* Bytes moved from c to b, as a flush does.
LEMMA Neighbours ==
  ASSUME NEW a \in Seq(Items), NEW b \in Seq(Items), NEW c \in Seq(Items), NEW d \in Seq(Items),
         NEW b2 \in Seq(Items), NEW c2 \in Seq(Items)
  PROVE  Moves(a, b, c, d, b2, c2)
<1>1. Regrouped(a, b, c, d) /\ Regrouped(a, b2, c2, d)
  BY Middle
<1> QED
  BY <1>1, Zenon DEF Regrouped, Moves

\* A chunk appended to the last buffer extends the stream.
Extends(a, b, c, x) == a \o (b \o Append(c, x)) = (a \o (b \o c)) \o <<x>>

\* A chunk received.
LEMMA Extend ==
  ASSUME NEW a \in Seq(Items), NEW b \in Seq(Items), NEW c \in Seq(Items), NEW x \in Items
  PROVE  Extends(a, b, c, x)
<1>1. <<x>> \in Seq(Items) /\ b \o c \in Seq(Items) /\ Append(c, x) = c \o <<x>>
  BY ConcatProperties, AppendIsConcat
<1>2. b \o (c \o <<x>>) = (b \o c) \o <<x>>
  BY <1>1, Regroup
<1>3. a \o ((b \o c) \o <<x>>) = (a \o (b \o c)) \o <<x>>
  BY <1>1, Regroup
<1> QED
  BY <1>1, <1>2, <1>3 DEF Extends

\* What a transmission takes from the front of a buffer.
Split(a, s, k) ==
  /\ a \o Take(s, k) \in Seq(Items) /\ Drop(s, k) \in Seq(Items)
  /\ Len(Drop(s, k)) = Len(s) - k /\ (a \o Take(s, k)) \o Drop(s, k) = a \o s

\* The first k items move to the end of a.
LEMMA Splits ==
  ASSUME NEW a \in Seq(Items), NEW s \in Seq(Items), NEW k \in 0 .. Len(s)
  PROVE  Split(a, s, k)
<1>1. /\ Take(s, k) \in Seq(Items) /\ Drop(s, k) \in Seq(Items)
      /\ Len(Drop(s, k)) = Len(s) - k /\ Take(s, k) \o Drop(s, k) = s
  BY TakeDrop
<1>2. a \o Take(s, k) \in Seq(Items)
  BY <1>1, ConcatProperties
<1>3. (a \o Take(s, k)) \o Drop(s, k) = a \o (Take(s, k) \o Drop(s, k))
  BY <1>1, Regroup
<1> QED
  BY <1>1, <1>2, <1>3 DEF Split

\* The invariant holds at the start.
LEMMA InitEstablishes == Init => IInv
<1> SUFFICES ASSUME Init PROVE IInv
  OBVIOUS
<1>1. <<>> \in Seq(Items) /\ Len(<<>>) = 0
  BY EmptySeq
<1>2. /\ 0 \in 0 .. MaxSent /\ 0 \in 0 .. MaxUp /\ 0 \in 0 .. HttpLimit
      /\ 0 <= RxCapacity /\ 0 <= TxCapacity /\ 0 <= UpstreamLimit /\ 0 <= PlaintextLimit
      /\ 0 <= GuestLimit /\ 0 <= HeldLimit
  BY SessionAssumption
<1>5. GuestTypes /\ UpstreamTypes
  BY <1>1, <1>2 DEF Init, GuestTypes, UpstreamTypes
<1>6. SessionTypes
  BY <1>2 DEF Init, SessionTypes
<1>7. BufferTypes /\ TurnTypes
  BY <1>1, <1>2 DEF Init, BufferTypes, TurnTypes
<1>3. Unread /\ Flow /\ Plain
  BY DEF Init, Unread, Flow, Plain
<1>4. PlainStreamsKept
  <2>1. <<>> \o <<>> = <<>>
    BY <1>1, ConcatEmptySeq
  <2> QED
    BY <2>1, NoChunks DEF Init, PlainStreamsKept
<1> QED
  BY <1>3, <1>4, <1>5, <1>6, <1>7 DEF IInv, TypeOK

\* A turn of another event preserves the invariant.
LEMMA OtherEventKeeps == ASSUME IInv, OtherEvent PROVE IInv'
<1> USE DEF guestvars, txvars, tlsvars, upvars, turn
<1>1. /\ GuestTypes /\ UpstreamTypes /\ SessionTypes /\ BufferTypes /\ TurnTypes
      /\ Unread /\ Flow /\ Plain /\ PlainStreamsKept
  BY DEF IInv, TypeOK
<1>TurnTypes. TurnTypes'
  BY <1>1 DEF OtherEvent, Turn, TurnTypes, Flow
<1>Unread. Unread'
  BY <1>1 DEF OtherEvent, Turn, Unread, Blocked
<1>Flow. Flow'
  BY <1>1 DEF OtherEvent, Turn, Flow
<1>Plain. Plain'
  BY <1>1 DEF OtherEvent, Turn, Plain, Https
<1>PlainStreamsKept. PlainStreamsKept'
  BY <1>1 DEF OtherEvent, PlainStreamsKept, Https
<1>same. GuestTypes' /\ UpstreamTypes' /\ SessionTypes' /\ BufferTypes'
  BY <1>1 DEF OtherEvent, GuestTypes, UpstreamTypes, SessionTypes, BufferTypes
<1> QED
  BY <1>TurnTypes, <1>Unread, <1>Flow, <1>Plain, <1>PlainStreamsKept, <1>same DEF IInv, TypeOK

\* A readable turn preserves the invariant.
LEMMA UpstreamReadableKeeps == ASSUME IInv, UpstreamReadable PROVE IInv'
<1> USE DEF guestvars, txvars, tlsvars, upvars, turn
<1>1. /\ GuestTypes /\ UpstreamTypes /\ SessionTypes /\ BufferTypes /\ TurnTypes
      /\ Unread /\ Flow /\ Plain /\ PlainStreamsKept
  BY DEF IInv, TypeOK
<1>TurnTypes. TurnTypes'
  BY <1>1 DEF UpstreamReadable, Turn, TurnTypes, Flow
<1>Unread. Unread'
  BY <1>1 DEF UpstreamReadable, Turn, Unread, Blocked
<1>Flow. Flow'
  BY <1>1 DEF UpstreamReadable, Turn, Flow
<1>Plain. Plain'
  BY <1>1 DEF UpstreamReadable, Turn, Plain, Https
<1>PlainStreamsKept. PlainStreamsKept'
  BY <1>1 DEF UpstreamReadable, PlainStreamsKept, Https
<1>same. GuestTypes' /\ UpstreamTypes' /\ SessionTypes' /\ BufferTypes'
  BY <1>1 DEF UpstreamReadable, GuestTypes, UpstreamTypes, SessionTypes, BufferTypes
<1> QED
  BY <1>TurnTypes, <1>Unread, <1>Flow, <1>Plain, <1>PlainStreamsKept, <1>same DEF IInv, TypeOK

\* A writable turn preserves the invariant.
LEMMA UpstreamWritableKeeps == ASSUME IInv, UpstreamWritable PROVE IInv'
<1> USE DEF guestvars, txvars, tlsvars, upvars, turn
<1>1. /\ GuestTypes /\ UpstreamTypes /\ SessionTypes /\ BufferTypes /\ TurnTypes
      /\ Unread /\ Flow /\ Plain /\ PlainStreamsKept
  BY DEF IInv, TypeOK
<1>TurnTypes. TurnTypes'
  BY <1>1 DEF UpstreamWritable, Turn, TurnTypes, Flow
<1>Unread. Unread'
  BY <1>1 DEF UpstreamWritable, Turn, Unread, Blocked
<1>Flow. Flow'
  BY <1>1 DEF UpstreamWritable, Turn, Flow
<1>Plain. Plain'
  BY <1>1 DEF UpstreamWritable, Turn, Plain, Https
<1>PlainStreamsKept. PlainStreamsKept'
  BY <1>1 DEF UpstreamWritable, PlainStreamsKept, Https
<1>same. GuestTypes' /\ UpstreamTypes' /\ SessionTypes' /\ BufferTypes'
  BY <1>1 DEF UpstreamWritable, GuestTypes, UpstreamTypes, SessionTypes, BufferTypes
<1> QED
  BY <1>TurnTypes, <1>Unread, <1>Flow, <1>Plain, <1>PlainStreamsKept, <1>same DEF IInv, TypeOK

\* A segment of the guest that fits the receive buffer.
LEMMA SegmentTypes ==
  ASSUME GuestTypes, NEW x \in Candidates, GuestSegment(x)
  PROVE  /\ rx' \in Seq(Items) /\ Len(rx') <= RxCapacity /\ sent' \in 0 .. MaxSent
         /\ ~Https => /\ x = Data(sent + 1) /\ x \in Items
                      /\ sent' = sent + 1 /\ rx' = Append(rx, x)
<1>1. MaxSent \in Nat /\ MaxUp \in Nat /\ RxCapacity \in Nat /\ sent \in 0 .. MaxSent
  BY SessionAssumption DEF GuestTypes
<1>2. \/ x \in {Part, Hello, Finished}
      \/ x = Data(sent + 1) /\ sent < MaxSent
  BY DEF GuestSegment, Sends, Candidates
<1>3. x \in Items
  BY <1>1, <1>2, ItemTypes
<1>4. sent' \in 0 .. MaxSent
  BY <1>1, <1>2 DEF GuestSegment, IsData, Part, Hello, Finished
<1>5. rx' \in Seq(Items) /\ Len(rx') = Len(rx) + 1 /\ Len(rx) \in Nat
  BY <1>3, AppendProperties, LenProperties DEF GuestSegment, GuestTypes
<1>6. Len(rx') <= RxCapacity
  BY <1>1, <1>5 DEF GuestSegment
<1>7. ~Https => x = Data(sent + 1)
  BY DEF GuestSegment, Sends
<1>8. x = Data(sent + 1) => sent' = sent + 1
  BY DEF GuestSegment, IsData, Data
<1> QED
  BY <1>3, <1>4, <1>5, <1>6, <1>7, <1>8 DEF GuestSegment

\* A data segment of the guest preserves the invariant.
LEMMA GuestDataKeeps == ASSUME IInv, GuestData PROVE IInv'
<1> USE DEF guestvars, txvars, tlsvars, upvars, turn
<1>1. /\ GuestTypes /\ UpstreamTypes /\ SessionTypes /\ BufferTypes /\ TurnTypes
      /\ Unread /\ Flow /\ Plain /\ PlainStreamsKept
  BY DEF IInv, TypeOK
<1>2. /\ rx \in Seq(Items) /\ tx \in Seq(Items) /\ got \in Seq(Items) /\ out \in Seq(Items)
      /\ up_in \in Seq(Items) /\ hand \in Seq(Items) /\ pending_upstream_bytes \in Seq(Items)
      /\ pending_upstream_plaintext \in Seq(Items) /\ pending_guest_bytes \in Seq(Items)
  BY <1>1 DEF GuestTypes, UpstreamTypes, BufferTypes, TurnTypes
<1>3. PICK x \in Candidates : GuestSegment(x)
  BY DEF GuestData
<1>4. /\ rx' \in Seq(Items) /\ Len(rx') <= RxCapacity /\ sent' \in 0 .. MaxSent
      /\ ~Https => /\ x = Data(sent + 1) /\ x \in Items
                   /\ sent' = sent + 1 /\ rx' = Append(rx, x)
  BY <1>1, <1>3, SegmentTypes
<1>GuestTypes. GuestTypes'
  BY <1>1, <1>4 DEF GuestData, GuestTypes
<1>TurnTypes. TurnTypes'
  BY <1>1 DEF GuestData, Turn, TurnTypes
<1>Unread. Unread'
  BY <1>1 DEF GuestData, Turn, Unread
<1>Flow. Flow'
  BY <1>1 DEF GuestData, Turn, Flow
<1>Plain. Plain'
  BY <1>1 DEF GuestData, Turn, Plain, Https
<1>PlainStreamsKept. PlainStreamsKept'
  <2> SUFFICES ASSUME ~Https, reason = "open" PROVE PlainStreamsKept'
    BY DEF GuestData, PlainStreamsKept, Https
  <2> DEFINE o == out \o pending_upstream_bytes
  <2>1. o \in Seq(Items)
    BY <1>2, ConcatProperties
  <2>2. o \o (hand \o rx) = UpTo(sent)
    BY <1>1 DEF PlainStreamsKept
  <2>3. sent \in Nat
    BY <1>1 DEF GuestTypes
  <2>4. UpTo(sent + 1) = UpTo(sent) \o <<x>>
    BY <1>4, <2>3, NextChunk
  <2> HIDE DEF o
  <2>5. Extends(o, hand, rx, x)
    BY <1>2, <1>4, <2>1, Extend
  <2>6. o \o (hand \o rx') = UpTo(sent')
    BY <1>4, <2>2, <2>4, <2>5, Zenon DEF Extends
  <2>7. (out' \o pending_upstream_bytes') \o (hand' \o rx') = UpTo(sent')
    BY <2>6 DEF o, GuestData
  <2> QED
    BY <1>1, <2>7 DEF PlainStreamsKept, GuestData
<1>same. UpstreamTypes' /\ SessionTypes' /\ BufferTypes'
  BY <1>1 DEF GuestData, UpstreamTypes, SessionTypes, BufferTypes
<1> QED
  BY <1>GuestTypes, <1>TurnTypes, <1>Unread, <1>Flow, <1>Plain, <1>PlainStreamsKept, <1>same DEF IInv, TypeOK

\* FIN or RST preserves the invariant.
LEMMA GuestClosesKeeps == ASSUME IInv, GuestCloses PROVE IInv'
<1> USE DEF guestvars, txvars, tlsvars, upvars, turn
<1>1. /\ GuestTypes /\ UpstreamTypes /\ SessionTypes /\ BufferTypes /\ TurnTypes
      /\ Unread /\ Flow /\ Plain /\ PlainStreamsKept
  BY DEF IInv, TypeOK
<1>2. rx' \in Seq(Items) /\ Len(rx') <= RxCapacity /\ sent' \in 0 .. MaxSent
  <2>1. CASE UNCHANGED guestvars
    BY <1>1, <2>1 DEF GuestTypes
  <2>2. CASE \E x \in Candidates : GuestSegment(x)
    BY <1>1, <2>2, SegmentTypes
  <2> QED
    BY <2>1, <2>2 DEF GuestCloses
<1>3. sock' \in {"CloseWait", "Closed"} /\ reason' = "guest"
  BY DEF GuestCloses
<1>GuestTypes. GuestTypes'
  BY <1>1, <1>2, <1>3 DEF GuestCloses, GuestTypes
<1>SessionTypes. SessionTypes'
  BY <1>1, <1>3 DEF GuestCloses, SessionTypes
<1>TurnTypes. TurnTypes'
  BY <1>1 DEF GuestCloses, Turn, TurnTypes
<1>Unread. Unread'
  BY <1>1 DEF GuestCloses, Turn, Unread
<1>Flow. Flow'
  BY <1>1 DEF GuestCloses, Turn, Flow
<1>Plain. Plain'
  BY <1>1 DEF GuestCloses, Turn, Plain, Https
<1>PlainStreamsKept. PlainStreamsKept'
  BY <1>3 DEF PlainStreamsKept
<1>same. UpstreamTypes' /\ BufferTypes'
  BY <1>1 DEF GuestCloses, UpstreamTypes, BufferTypes
<1> QED
  BY <1>GuestTypes, <1>SessionTypes, <1>TurnTypes, <1>Unread, <1>Flow, <1>Plain, <1>PlainStreamsKept, <1>same DEF IInv, TypeOK

\* An acknowledgement of the guest preserves the invariant.
LEMMA GuestAckKeeps == ASSUME IInv, GuestAck PROVE IInv'
<1> USE DEF guestvars, txvars, tlsvars, upvars, turn
<1>1. /\ GuestTypes /\ UpstreamTypes /\ SessionTypes /\ BufferTypes /\ TurnTypes
      /\ Unread /\ Flow /\ Plain /\ PlainStreamsKept
  BY DEF IInv, TypeOK
<1>2. /\ rx \in Seq(Items) /\ tx \in Seq(Items) /\ got \in Seq(Items) /\ out \in Seq(Items)
      /\ up_in \in Seq(Items) /\ hand \in Seq(Items) /\ pending_upstream_bytes \in Seq(Items)
      /\ pending_upstream_plaintext \in Seq(Items) /\ pending_guest_bytes \in Seq(Items)
  BY <1>1 DEF GuestTypes, UpstreamTypes, BufferTypes, TurnTypes
<1>3. PICK k \in 1 .. Len(tx) : got' = got \o Take(tx, k) /\ tx' = Drop(tx, k)
  BY DEF GuestAck
<1>4. Len(tx) \in Nat /\ Len(tx) <= TxCapacity /\ TxCapacity \in Nat
  BY <1>1, LenProperties, SessionAssumption DEF GuestTypes
<1>5. k \in 0 .. Len(tx) /\ k \in Nat
  BY <1>4
<1>6. Split(got, tx, k)
  BY <1>2, <1>5, Splits
<1>7. got' \in Seq(Items) /\ tx' \in Seq(Items) /\ got' \o tx' = got \o tx
  BY <1>3, <1>6 DEF Split
<1>8. Len(tx') <= TxCapacity
  BY <1>3, <1>4, <1>5, <1>6 DEF Split
<1>GuestTypes. GuestTypes'
  BY <1>1, <1>7, <1>8 DEF GuestAck, GuestTypes
<1>TurnTypes. TurnTypes'
  BY <1>1 DEF GuestAck, Turn, TurnTypes
<1>Unread. Unread'
  BY <1>1 DEF GuestAck, Turn, Unread
<1>Flow. Flow'
  BY <1>1 DEF GuestAck, Turn, Flow
<1>Plain. Plain'
  BY <1>1 DEF GuestAck, Turn, Plain, Https
<1>PlainStreamsKept. PlainStreamsKept'
  BY <1>1, <1>7 DEF GuestAck, PlainStreamsKept, Https
<1>same. UpstreamTypes' /\ SessionTypes' /\ BufferTypes'
  BY <1>1 DEF GuestAck, UpstreamTypes, SessionTypes, BufferTypes
<1> QED
  BY <1>GuestTypes, <1>TurnTypes, <1>Unread, <1>Flow, <1>Plain, <1>PlainStreamsKept, <1>same DEF IInv, TypeOK

\* Flushing the bytes for the guest preserves the invariant.
LEMMA FlushFirstKeeps == ASSUME IInv, FlushFirst PROVE IInv'
<1> USE DEF guestvars, txvars, tlsvars, upvars, turn
<1>1. /\ GuestTypes /\ UpstreamTypes /\ SessionTypes /\ BufferTypes /\ TurnTypes
      /\ Unread /\ Flow /\ Plain /\ PlainStreamsKept
  BY DEF IInv, TypeOK
<1>2. /\ rx \in Seq(Items) /\ tx \in Seq(Items) /\ got \in Seq(Items) /\ out \in Seq(Items)
      /\ up_in \in Seq(Items) /\ hand \in Seq(Items) /\ pending_upstream_bytes \in Seq(Items)
      /\ pending_upstream_plaintext \in Seq(Items) /\ pending_guest_bytes \in Seq(Items)
  BY <1>1 DEF GuestTypes, UpstreamTypes, BufferTypes, TurnTypes
<1>3. mapped
  BY <1>1 DEF FlushFirst, Flow
<1>4. ASSUME sock = "Established"
      PROVE  /\ tx' \in Seq(Items) /\ Len(tx') <= TxCapacity /\ got' = got
             /\ pending_guest_bytes' \in Seq(Items) /\ Len(pending_guest_bytes') <= GuestLimit
             /\ tx' \o pending_guest_bytes' = tx \o pending_guest_bytes
             /\ pending_guest_bytes' # <<>> => Len(tx') = TxCapacity
             /\ Blocked => pending_guest_bytes' # <<>>
  BY <1>1, <1>4, FlushKeeps DEF FlushFirst
<1>GuestTypes. GuestTypes'
  BY <1>1, <1>4 DEF FlushFirst, GuestTypes
<1>SessionTypes. SessionTypes'
  BY <1>1 DEF FlushFirst, SessionTypes
<1>BufferTypes. BufferTypes'
  BY <1>1, <1>4 DEF FlushFirst, BufferTypes
<1>TurnTypes. TurnTypes'
  BY <1>1 DEF FlushFirst, TurnTypes
<1>Unread. Unread'
  BY <1>1, <1>3, <1>4 DEF FlushFirst, Unread, Blocked
<1>Flow. Flow'
  BY <1>1, <1>3 DEF FlushFirst, Flow
<1>Plain. Plain'
  BY <1>1 DEF FlushFirst, Plain, Https
<1>PlainStreamsKept. PlainStreamsKept'
  <2>1. (got' \o tx') \o (pending_guest_bytes' \o up_in)
          = (got \o tx) \o (pending_guest_bytes \o up_in)
    <3>1. CASE sock = "Established"
      <4>1. /\ tx' \in Seq(Items) /\ pending_guest_bytes' \in Seq(Items) /\ got' = got
            /\ tx' \o pending_guest_bytes' = tx \o pending_guest_bytes
        BY <1>4, <3>1
      <4>2. Moves(got, tx, pending_guest_bytes, up_in, tx', pending_guest_bytes')
        BY <1>2, <4>1, Neighbours
      <4> QED
        BY <4>1, <4>2, Zenon DEF Moves
    <3>2. CASE sock # "Established"
      BY <3>2 DEF FlushFirst
    <3> QED
      BY <3>1, <3>2
  <2> QED
    BY <1>1, <2>1 DEF FlushFirst, PlainStreamsKept, Https
<1>same. UpstreamTypes'
  BY <1>1 DEF FlushFirst, UpstreamTypes
<1> QED
  BY <1>GuestTypes, <1>SessionTypes, <1>BufferTypes, <1>TurnTypes, <1>Unread, <1>Flow, <1>Plain, <1>PlainStreamsKept, <1>same DEF IInv, TypeOK

\* Receiving from the guest socket preserves the invariant.
LEMMA RecvKeeps == ASSUME IInv, Recv PROVE IInv'
<1> USE DEF guestvars, txvars, tlsvars, upvars, turn
<1>1. /\ GuestTypes /\ UpstreamTypes /\ SessionTypes /\ BufferTypes /\ TurnTypes
      /\ Unread /\ Flow /\ Plain /\ PlainStreamsKept
  BY DEF IInv, TypeOK
<1>2. /\ rx \in Seq(Items) /\ tx \in Seq(Items) /\ got \in Seq(Items) /\ out \in Seq(Items)
      /\ up_in \in Seq(Items) /\ hand \in Seq(Items) /\ pending_upstream_bytes \in Seq(Items)
      /\ pending_upstream_plaintext \in Seq(Items) /\ pending_guest_bytes \in Seq(Items)
  BY <1>1 DEF GuestTypes, UpstreamTypes, BufferTypes, TurnTypes
<1>3. hand = <<>> /\ pending_guest_bytes = <<>> /\ mapped
  BY <1>1 DEF Recv, Flow
<1>4. <<>> \in Seq(Items) /\ Len(<<>>) = 0 /\ 0 <= RxCapacity
  BY EmptySeq, SessionAssumption
<1>GuestTypes. GuestTypes'
  BY <1>1, <1>4 DEF Recv, GuestTypes
<1>TurnTypes. TurnTypes'
  BY <1>1, <1>2 DEF Recv, TurnTypes
<1>Unread. Unread'
  BY <1>1 DEF Recv, Unread
<1>Flow. Flow'
  BY <1>1, <1>3 DEF Recv, Flow, Unread
<1>Plain. Plain'
  BY <1>1 DEF Recv, Plain, Https
<1>PlainStreamsKept. PlainStreamsKept'
  <2>1. rx \o <<>> = rx /\ <<>> \o rx = rx
    BY <1>2, ConcatEmptySeq
  <2>2. hand' \o rx' = hand \o rx
    BY <1>3, <2>1 DEF Recv
  <2> QED
    BY <1>1, <2>2 DEF Recv, PlainStreamsKept, Https
<1>same. UpstreamTypes' /\ SessionTypes' /\ BufferTypes'
  BY <1>1 DEF Recv, UpstreamTypes, SessionTypes, BufferTypes
<1> QED
  BY <1>GuestTypes, <1>TurnTypes, <1>Unread, <1>Flow, <1>Plain, <1>PlainStreamsKept, <1>same DEF IInv, TypeOK

\* What rustls hands out of a non-empty read.
LEMMA PlaintextType ==
  ASSUME NEW s \in Seq(Items), s # <<>>
  PROVE  Plaintext(s) \in Seq(Items)
BY HeadTailProperties DEF Plaintext

\* Reading the TLS records of the guest preserves the invariant.
LEMMA ReadGuestTlsKeeps == ASSUME IInv, ReadGuestTls PROVE IInv'
<1> USE DEF guestvars, txvars, tlsvars, upvars, turn
<1>1. /\ GuestTypes /\ UpstreamTypes /\ SessionTypes /\ BufferTypes /\ TurnTypes
      /\ Unread /\ Flow /\ Plain /\ PlainStreamsKept
  BY DEF IInv, TypeOK
<1>2. Https /\ pending_guest_bytes = <<>> /\ hand # <<>> /\ hand \in Seq(Items)
  BY <1>1 DEF ReadGuestTls, Flow, Plain, TurnTypes
<1>3. /\ tx' \in Seq(Items) /\ Len(tx') <= TxCapacity /\ got' = got
      /\ pending_guest_bytes' \in Seq(Items) /\ Len(pending_guest_bytes') <= GuestLimit
      /\ sock' \in {"Established", "CloseWait", "FinWait", "Closed"}
      /\ reason' \in {"open", "limit", "guest_limit", "tls", "eof", "guest"}
  <2>1. CASE SendGuest(<<Hello>>)
    <3>1. <<Hello>> \in Seq(Items)
      BY ItemTypes
    <3> QED
      BY <1>1, <1>2, <2>1, <3>1, SendKeeps
  <2>2. CASE KeepGuest /\ UNCHANGED <<txvars, pending_guest_bytes>>
    BY <1>1, <2>2 DEF KeepGuest, GuestTypes, SessionTypes, BufferTypes
  <2>3. CASE CloseGuest("tls") /\ UNCHANGED <<gtls, txvars, pending_guest_bytes>>
    BY <1>1, <2>3, CloseTypes DEF GuestTypes, BufferTypes
  <2>4. CASE SendGuest(held)
    <3>1. held \in Seq(Items)
      BY <1>1 DEF BufferTypes
    <3> QED
      BY <1>1, <1>2, <2>4, <3>1, SendKeeps
  <2> QED
    BY <2>1, <2>2, <2>3, <2>4 DEF ReadGuestTls
<1>4. hand' \in Seq(Items)
  BY <1>2, PlaintextType, EmptySeq DEF ReadGuestTls
<1>5. gtls' \in {"start", "part", "hello", "done"}
  BY <1>1 DEF ReadGuestTls, SessionTypes
<1>6. held' \in Seq(Items) /\ Len(held') <= HeldLimit
  <2>1. held' \in {held, <<>>}
    BY DEF ReadGuestTls
  <2>2. 0 <= HeldLimit
    BY SessionAssumption
  <2> QED
    BY <1>1, <2>1, <2>2, EmptySeq DEF BufferTypes
<1>GuestTypes. GuestTypes'
  BY <1>1, <1>3 DEF ReadGuestTls, GuestTypes
<1>SessionTypes. SessionTypes'
  BY <1>1, <1>3, <1>5 DEF ReadGuestTls, SessionTypes
<1>BufferTypes. BufferTypes'
  BY <1>1, <1>3, <1>6 DEF ReadGuestTls, BufferTypes
<1>TurnTypes. TurnTypes'
  BY <1>1, <1>4 DEF ReadGuestTls, TurnTypes
<1>Unread. Unread'
  BY <1>1 DEF ReadGuestTls, Unread
<1>Flow. Flow'
  BY <1>1 DEF ReadGuestTls, Flow
<1>Plain. Plain'
  BY <1>2 DEF ReadGuestTls, Plain, Https
<1>PlainStreamsKept. PlainStreamsKept'
  BY <1>2 DEF ReadGuestTls, PlainStreamsKept, Https
<1>same. UpstreamTypes'
  BY <1>1 DEF ReadGuestTls, UpstreamTypes
<1> QED
  BY <1>GuestTypes, <1>SessionTypes, <1>BufferTypes, <1>TurnTypes, <1>Unread, <1>Flow, <1>Plain, <1>PlainStreamsKept, <1>same DEF IInv, TypeOK

\* Starting the upstream handshake preserves the invariant.
LEMMA EnsureUpstreamTlsKeeps == ASSUME IInv, EnsureUpstreamTls PROVE IInv'
<1> USE DEF guestvars, txvars, tlsvars, upvars, turn
<1>1. /\ GuestTypes /\ UpstreamTypes /\ SessionTypes /\ BufferTypes /\ TurnTypes
      /\ Unread /\ Flow /\ Plain /\ PlainStreamsKept
  BY DEF IInv, TypeOK
<1>2. Https /\ hand \in Seq(Items)
  BY <1>1 DEF EnsureUpstreamTls, Plain, TurnTypes
<1>3. /\ pending_upstream_bytes' \in Seq(Items) /\ Len(pending_upstream_bytes') <= UpstreamLimit
      /\ out' \in Seq(Items)
      /\ sock' \in {"Established", "CloseWait", "FinWait", "Closed"}
      /\ reason' \in {"open", "limit", "guest_limit", "tls", "eof", "guest"}
  <2>1. CASE WriteUpstream(<<Hello>>) \/ BufferUpstream(<<Hello>>)
    <3>1. <<Hello>> \in Seq(Items)
      BY ItemTypes
    <3> QED
      BY <1>1, <2>1, <3>1, UpstreamKeeps
  <2>2. CASE KeepGuest /\ UNCHANGED <<pending_upstream_bytes, out>>
    BY <1>1, <2>2 DEF KeepGuest, GuestTypes, SessionTypes, BufferTypes, UpstreamTypes
  <2>3. CASE CloseGuest("tls") /\ UNCHANGED <<pending_upstream_bytes, out>>
    BY <1>1, <2>3, CloseTypes DEF BufferTypes, UpstreamTypes
  <2> QED
    BY <2>1, <2>2, <2>3 DEF EnsureUpstreamTls
<1>4. hand' \in Seq(Items) /\ utls' \in {"none", "handshaking", "done"}
  BY <1>1, <1>2, EmptySeq DEF EnsureUpstreamTls, SessionTypes
<1>5. pc' \in {"payload", "flush2"} /\ (pc' = "flush2" => hand' = <<>>)
  BY DEF EnsureUpstreamTls
<1>GuestTypes. GuestTypes'
  BY <1>1, <1>3 DEF EnsureUpstreamTls, GuestTypes
<1>UpstreamTypes. UpstreamTypes'
  BY <1>1, <1>3 DEF EnsureUpstreamTls, UpstreamTypes
<1>SessionTypes. SessionTypes'
  BY <1>1, <1>3, <1>4 DEF EnsureUpstreamTls, SessionTypes
<1>BufferTypes. BufferTypes'
  BY <1>1, <1>3 DEF EnsureUpstreamTls, BufferTypes
<1>TurnTypes. TurnTypes'
  BY <1>1, <1>4, <1>5 DEF EnsureUpstreamTls, TurnTypes
<1>Unread. Unread'
  BY <1>1, <1>5 DEF EnsureUpstreamTls, Unread
<1>Flow. Flow'
  BY <1>1, <1>5 DEF EnsureUpstreamTls, Flow
<1>Plain. Plain'
  BY <1>2 DEF EnsureUpstreamTls, Plain, Https
<1>PlainStreamsKept. PlainStreamsKept'
  BY <1>2 DEF EnsureUpstreamTls, PlainStreamsKept, Https
<1> QED
  BY <1>GuestTypes, <1>UpstreamTypes, <1>SessionTypes, <1>BufferTypes, <1>TurnTypes, <1>Unread, <1>Flow, <1>Plain, <1>PlainStreamsKept DEF IInv, TypeOK

\* Handling the payload of the guest preserves the invariant.
LEMMA PayloadKeeps == ASSUME IInv, Payload PROVE IInv'
<1> USE DEF guestvars, txvars, tlsvars, upvars, turn
<1>1. /\ GuestTypes /\ UpstreamTypes /\ SessionTypes /\ BufferTypes /\ TurnTypes
      /\ Unread /\ Flow /\ Plain /\ PlainStreamsKept
  BY DEF IInv, TypeOK
<1>2. /\ rx \in Seq(Items) /\ tx \in Seq(Items) /\ got \in Seq(Items) /\ out \in Seq(Items)
      /\ up_in \in Seq(Items) /\ hand \in Seq(Items) /\ pending_upstream_bytes \in Seq(Items)
      /\ pending_upstream_plaintext \in Seq(Items) /\ pending_guest_bytes \in Seq(Items)
  BY <1>1 DEF GuestTypes, UpstreamTypes, BufferTypes, TurnTypes
<1>3. ~rd /\ ~wr /\ rx = <<>> /\ mapped
  BY <1>1 DEF Payload, Flow, Unread
<1>4. http' \in 0 .. HttpLimit
  <2>1. Len(hand) \in Nat /\ HttpLimit \in Nat /\ http \in 0 .. HttpLimit
    BY <1>1, LenProperties, SessionAssumption DEF TurnTypes, SessionTypes
  <2>2. http' = http \/ (http' = http + Len(hand) /\ ~(http + Len(hand) > HttpLimit))
    BY DEF Payload
  <2> QED
    BY <2>1, <2>2
<1>5. \/ /\ CloseGuest("limit")
         /\ UNCHANGED <<pending_upstream_bytes, pending_upstream_plaintext, out>>
      \/ /\ hand = <<>> /\ KeepGuest
         /\ UNCHANGED <<pending_upstream_bytes, pending_upstream_plaintext, out>>
      \/ Https /\ BufferPlaintext(hand) /\ UNCHANGED <<pending_upstream_bytes, out>>
      \/ BufferUpstream(hand) /\ UNCHANGED pending_upstream_plaintext
  BY <1>3 DEF Payload
<1>6. /\ pending_upstream_plaintext' \in Seq(Items)
      /\ Len(pending_upstream_plaintext') <= PlaintextLimit
  <2>1. CASE UNCHANGED pending_upstream_plaintext
    BY <1>1, <2>1 DEF BufferTypes
  <2>2. CASE BufferPlaintext(hand)
    <3> DEFINE all == pending_upstream_plaintext \o hand
    <3>1. /\ all \in Seq(Items) /\ Len(all) = Len(pending_upstream_plaintext) + Len(hand)
          /\ Len(pending_upstream_plaintext) \in Nat /\ Len(hand) \in Nat
      BY <1>2, ConcatProperties, LenProperties
    <3> HIDE DEF all
    <3>2. CASE Len(pending_upstream_plaintext) + Len(hand) > PlaintextLimit
      BY <1>1, <2>2, <3>2 DEF BufferPlaintext, BufferTypes
    <3>3. CASE ~(Len(pending_upstream_plaintext) + Len(hand) > PlaintextLimit)
      <4>1. pending_upstream_plaintext' = all
        BY <2>2, <3>3 DEF BufferPlaintext, all
      <4>2. Len(all) <= PlaintextLimit
        BY <3>1, <3>3, SessionAssumption
      <4> QED
        BY <3>1, <4>1, <4>2
    <3> QED
      BY <3>2, <3>3
  <2> QED
    BY <1>5, <2>1, <2>2
<1>7. /\ pending_upstream_bytes' \in Seq(Items) /\ Len(pending_upstream_bytes') <= UpstreamLimit
      /\ out' \in Seq(Items)
      /\ sock' \in {"Established", "CloseWait", "FinWait", "Closed"}
      /\ reason' \in {"open", "limit", "guest_limit", "tls", "eof", "guest"}
      /\ reason' = "open" /\ ~Https =>
           /\ reason = "open"
           /\ out' \o pending_upstream_bytes' = (out \o pending_upstream_bytes) \o hand
  <2>1. CASE CloseGuest("limit") /\ UNCHANGED <<pending_upstream_bytes, out>>
    BY <1>1, <2>1, CloseTypes DEF BufferTypes, UpstreamTypes
  <2>2. CASE hand = <<>> /\ KeepGuest /\ UNCHANGED <<pending_upstream_bytes, out>>
    <3>1. out \o pending_upstream_bytes \in Seq(Items)
      BY <1>2, ConcatProperties
    <3>2. (out \o pending_upstream_bytes) \o <<>> = out \o pending_upstream_bytes
      BY <3>1, ConcatEmptySeq
    <3> QED
      BY <1>1, <2>2, <3>2 DEF KeepGuest, GuestTypes, SessionTypes, BufferTypes, UpstreamTypes
  <2>3. CASE Https /\ BufferPlaintext(hand) /\ UNCHANGED <<pending_upstream_bytes, out>>
    <3>1. CloseGuest("limit") \/ KeepGuest
      BY <2>3 DEF BufferPlaintext
    <3> QED
      BY <1>1, <2>3, <3>1, CloseTypes DEF KeepGuest, GuestTypes, SessionTypes, BufferTypes, UpstreamTypes
  <2>4. CASE BufferUpstream(hand)
    BY <1>1, <1>2, <2>4, UpstreamKeeps
  <2> QED
    BY <1>5, <2>1, <2>2, <2>3, <2>4
<1>GuestTypes. GuestTypes'
  BY <1>1, <1>7 DEF Payload, GuestTypes
<1>UpstreamTypes. UpstreamTypes'
  BY <1>1, <1>7 DEF Payload, UpstreamTypes
<1>SessionTypes. SessionTypes'
  BY <1>1, <1>4, <1>7 DEF Payload, SessionTypes
<1>BufferTypes. BufferTypes'
  BY <1>1, <1>6, <1>7 DEF Payload, BufferTypes
<1>TurnTypes. TurnTypes'
  BY <1>1, EmptySeq DEF Payload, TurnTypes
<1>Unread. Unread'
  BY <1>3 DEF Payload, Unread
<1>Flow. Flow'
  BY <1>1 DEF Payload, Flow
<1>Plain. Plain'
  <2>1. ~Https => pending_upstream_plaintext' = pending_upstream_plaintext
    BY <1>5
  <2> QED
    BY <1>1, <2>1 DEF Payload, Plain, Https
<1>PlainStreamsKept. PlainStreamsKept'
  <2> SUFFICES ASSUME ~Https, reason' = "open"
               PROVE  (out' \o pending_upstream_bytes') \o (hand' \o rx')
                        = (out \o pending_upstream_bytes) \o (hand \o rx)
    BY <1>1, <1>7 DEF Payload, PlainStreamsKept, Https
  <2>1. out' \o pending_upstream_bytes' = (out \o pending_upstream_bytes) \o hand
    BY <1>7
  <2>2. hand' = <<>> /\ rx' = <<>>
    BY <1>3 DEF Payload
  <2>3. out' \o pending_upstream_bytes' \in Seq(Items)
    BY <1>7, ConcatProperties
  <2>4. (out' \o pending_upstream_bytes') \o <<>> = out' \o pending_upstream_bytes'
    BY <2>3, ConcatEmptySeq
  <2>5. <<>> \o <<>> = <<>> /\ hand \o <<>> = hand
    BY <1>2, EmptySeq, ConcatEmptySeq
  <2> QED
    BY <1>3, <2>1, <2>2, <2>4, <2>5, Zenon
<1> QED
  BY <1>GuestTypes, <1>UpstreamTypes, <1>SessionTypes, <1>BufferTypes, <1>TurnTypes, <1>Unread, <1>Flow, <1>Plain, <1>PlainStreamsKept DEF IInv, TypeOK

\* The second flush preserves the invariant.
LEMMA FlushSecondKeeps == ASSUME IInv, FlushSecond PROVE IInv'
<1> USE DEF guestvars, txvars, tlsvars, upvars, turn
<1>1. /\ GuestTypes /\ UpstreamTypes /\ SessionTypes /\ BufferTypes /\ TurnTypes
      /\ Unread /\ Flow /\ Plain /\ PlainStreamsKept
  BY DEF IInv, TypeOK
<1>2. /\ rx \in Seq(Items) /\ tx \in Seq(Items) /\ got \in Seq(Items) /\ out \in Seq(Items)
      /\ up_in \in Seq(Items) /\ hand \in Seq(Items) /\ pending_upstream_bytes \in Seq(Items)
      /\ pending_upstream_plaintext \in Seq(Items) /\ pending_guest_bytes \in Seq(Items)
  BY <1>1 DEF GuestTypes, UpstreamTypes, BufferTypes, TurnTypes
<1>3. /\ tx' \in Seq(Items) /\ Len(tx') <= TxCapacity /\ got' = got
      /\ pending_guest_bytes' \in Seq(Items) /\ Len(pending_guest_bytes') <= GuestLimit
      /\ tx' \o pending_guest_bytes' = tx \o pending_guest_bytes
  BY <1>1, FlushKeeps DEF FlushSecond
<1>4. /\ pc' \in {"select", "plaintext", "read"}
      /\ pc' # "select" => pending_guest_bytes' = <<>>
  BY DEF FlushSecond
<1>5. rx = <<>> /\ hand = <<>> /\ mapped
  BY <1>1 DEF FlushSecond, Unread, Flow
<1>GuestTypes. GuestTypes'
  BY <1>1, <1>3 DEF FlushSecond, GuestTypes
<1>BufferTypes. BufferTypes'
  BY <1>1, <1>3 DEF FlushSecond, BufferTypes
<1>TurnTypes. TurnTypes'
  BY <1>1, <1>4 DEF FlushSecond, TurnTypes
<1>Unread. Unread'
  BY <1>4, <1>5 DEF FlushSecond, Unread
<1>Flow. Flow'
  BY <1>4, <1>5 DEF FlushSecond, Flow
<1>Plain. Plain'
  BY <1>1, <1>4 DEF FlushSecond, Plain, Https
<1>PlainStreamsKept. PlainStreamsKept'
  <2>1. Moves(got, tx, pending_guest_bytes, up_in, tx', pending_guest_bytes')
    BY <1>2, <1>3, Neighbours
  <2>2. (got \o tx') \o (pending_guest_bytes' \o up_in) = (got \o tx) \o (pending_guest_bytes \o up_in)
    BY <1>3, <2>1, Zenon DEF Moves
  <2> QED
    BY <1>1, <1>3, <2>2 DEF FlushSecond, PlainStreamsKept, Https
<1>same. UpstreamTypes' /\ SessionTypes'
  BY <1>1 DEF FlushSecond, UpstreamTypes, SessionTypes
<1> QED
  BY <1>GuestTypes, <1>BufferTypes, <1>TurnTypes, <1>Unread, <1>Flow, <1>Plain, <1>PlainStreamsKept, <1>same DEF IInv, TypeOK

\* Flushing the HTTPS plaintext preserves the invariant.
LEMMA FlushPlaintextKeeps == ASSUME IInv, FlushPlaintext PROVE IInv'
<1> USE DEF guestvars, txvars, tlsvars, upvars, turn
<1>1. /\ GuestTypes /\ UpstreamTypes /\ SessionTypes /\ BufferTypes /\ TurnTypes
      /\ Unread /\ Flow /\ Plain /\ PlainStreamsKept
  BY DEF IInv, TypeOK
<1>2. /\ rx \in Seq(Items) /\ tx \in Seq(Items) /\ got \in Seq(Items) /\ out \in Seq(Items)
      /\ up_in \in Seq(Items) /\ hand \in Seq(Items) /\ pending_upstream_bytes \in Seq(Items)
      /\ pending_upstream_plaintext \in Seq(Items) /\ pending_guest_bytes \in Seq(Items)
  BY <1>1 DEF GuestTypes, UpstreamTypes, BufferTypes, TurnTypes
<1>3. /\ rx = <<>> /\ hand = <<>> /\ mapped /\ pending_guest_bytes = <<>>
      /\ pc' \in {"bytes", "select"}
  BY <1>1 DEF FlushPlaintext, Unread, Flow
<1>4. \/ /\ Https /\ pending_upstream_plaintext' = <<>>
         /\ WriteUpstream(pending_upstream_plaintext)
      \/ /\ Https /\ pending_upstream_plaintext' = <<>>
         /\ CloseGuest("tls") /\ UNCHANGED <<pending_upstream_bytes, out>>
      \/ KeepGuest /\ UNCHANGED <<pending_upstream_plaintext, pending_upstream_bytes, out>>
  BY <1>1 DEF FlushPlaintext, Plain
<1>5. /\ pending_upstream_plaintext' \in Seq(Items)
      /\ Len(pending_upstream_plaintext') <= PlaintextLimit
  <2>1. 0 <= PlaintextLimit
    BY SessionAssumption
  <2> QED
    BY <1>1, <1>4, <2>1, EmptySeq DEF BufferTypes
<1>6. /\ pending_upstream_bytes' \in Seq(Items) /\ Len(pending_upstream_bytes') <= UpstreamLimit
      /\ out' \in Seq(Items)
      /\ sock' \in {"Established", "CloseWait", "FinWait", "Closed"}
      /\ reason' \in {"open", "limit", "guest_limit", "tls", "eof", "guest"}
      /\ ~Https => UNCHANGED <<pending_upstream_plaintext, pending_upstream_bytes, out, reason>>
  <2>1. CASE Https /\ WriteUpstream(pending_upstream_plaintext)
    BY <1>1, <1>2, <2>1, UpstreamKeeps
  <2>2. CASE KeepGuest /\ UNCHANGED <<pending_upstream_plaintext, pending_upstream_bytes, out>>
    BY <1>1, <2>2 DEF KeepGuest, GuestTypes, SessionTypes, BufferTypes, UpstreamTypes
  <2>3. CASE Https /\ CloseGuest("tls") /\ UNCHANGED <<pending_upstream_bytes, out>>
    BY <1>1, <2>3, CloseTypes DEF BufferTypes, UpstreamTypes
  <2> QED
    BY <1>4, <2>1, <2>2, <2>3
<1>GuestTypes. GuestTypes'
  BY <1>1, <1>6 DEF FlushPlaintext, GuestTypes
<1>UpstreamTypes. UpstreamTypes'
  BY <1>1, <1>6 DEF FlushPlaintext, UpstreamTypes
<1>SessionTypes. SessionTypes'
  BY <1>1, <1>6 DEF FlushPlaintext, SessionTypes
<1>BufferTypes. BufferTypes'
  BY <1>1, <1>5, <1>6 DEF FlushPlaintext, BufferTypes
<1>TurnTypes. TurnTypes'
  BY <1>1, <1>3 DEF FlushPlaintext, TurnTypes
<1>Unread. Unread'
  BY <1>3 DEF FlushPlaintext, Unread
<1>Flow. Flow'
  BY <1>3 DEF FlushPlaintext, Flow
<1>Plain. Plain'
  BY <1>1, <1>3, <1>6 DEF FlushPlaintext, Plain, Https
<1>PlainStreamsKept. PlainStreamsKept'
  BY <1>1, <1>6 DEF FlushPlaintext, PlainStreamsKept, Https
<1> QED
  BY <1>GuestTypes, <1>UpstreamTypes, <1>SessionTypes, <1>BufferTypes, <1>TurnTypes, <1>Unread, <1>Flow, <1>Plain, <1>PlainStreamsKept DEF IInv, TypeOK

\* Flushing the bytes for the upstream preserves the invariant.
LEMMA FlushUpstreamKeeps == ASSUME IInv, FlushUpstream PROVE IInv'
<1> USE DEF guestvars, txvars, tlsvars, upvars, turn
<1>1. /\ GuestTypes /\ UpstreamTypes /\ SessionTypes /\ BufferTypes /\ TurnTypes
      /\ Unread /\ Flow /\ Plain /\ PlainStreamsKept
  BY DEF IInv, TypeOK
<1>2. /\ rx \in Seq(Items) /\ tx \in Seq(Items) /\ got \in Seq(Items) /\ out \in Seq(Items)
      /\ up_in \in Seq(Items) /\ hand \in Seq(Items) /\ pending_upstream_bytes \in Seq(Items)
      /\ pending_upstream_plaintext \in Seq(Items) /\ pending_guest_bytes \in Seq(Items)
  BY <1>1 DEF GuestTypes, UpstreamTypes, BufferTypes, TurnTypes
<1>3. /\ rx = <<>> /\ hand = <<>> /\ mapped /\ pending_guest_bytes = <<>>
      /\ pc' \in {"plaintext2", "select"}
  BY <1>1 DEF FlushUpstream, Unread, Flow
<1>4. /\ pending_upstream_bytes' \in Seq(Items) /\ Len(pending_upstream_bytes') <= UpstreamLimit
      /\ out' \in Seq(Items)
      /\ out' \o pending_upstream_bytes' = out \o pending_upstream_bytes
  <2>1. CASE Write(pending_upstream_bytes)
    <3>1. Len(pending_upstream_bytes) <= UpstreamLimit
      BY <1>1 DEF BufferTypes
    <3> QED
      BY <1>1, <1>2, <2>1, <3>1, WriteKeeps
  <2>2. CASE UNCHANGED <<pending_upstream_bytes, out>>
    BY <1>1, <2>2 DEF BufferTypes, UpstreamTypes
  <2> QED
    BY <2>1, <2>2 DEF FlushUpstream
<1>5. ready' \in BOOLEAN
  BY <1>1 DEF FlushUpstream, SessionTypes
<1>GuestTypes. GuestTypes'
  BY <1>1 DEF FlushUpstream, GuestTypes
<1>UpstreamTypes. UpstreamTypes'
  BY <1>1, <1>4 DEF FlushUpstream, UpstreamTypes
<1>SessionTypes. SessionTypes'
  BY <1>1, <1>5 DEF FlushUpstream, SessionTypes
<1>BufferTypes. BufferTypes'
  BY <1>1, <1>4 DEF FlushUpstream, BufferTypes
<1>TurnTypes. TurnTypes'
  BY <1>1, <1>3 DEF FlushUpstream, TurnTypes
<1>Unread. Unread'
  BY <1>3 DEF FlushUpstream, Unread
<1>Flow. Flow'
  BY <1>3 DEF FlushUpstream, Flow
<1>Plain. Plain'
  BY <1>1, <1>3 DEF FlushUpstream, Plain, Https
<1>PlainStreamsKept. PlainStreamsKept'
  BY <1>1, <1>4 DEF FlushUpstream, PlainStreamsKept, Https
<1> QED
  BY <1>GuestTypes, <1>UpstreamTypes, <1>SessionTypes, <1>BufferTypes, <1>TurnTypes, <1>Unread, <1>Flow, <1>Plain, <1>PlainStreamsKept DEF IInv, TypeOK

\* The end of the upstream preserves the invariant.
LEMMA ReadEndsKeeps == ASSUME IInv, ReadEnds PROVE IInv'
<1> USE DEF guestvars, txvars, tlsvars, upvars, turn
<1>1. /\ GuestTypes /\ UpstreamTypes /\ SessionTypes /\ BufferTypes /\ TurnTypes
      /\ Unread /\ Flow /\ Plain /\ PlainStreamsKept
  BY DEF IInv, TypeOK
<1>2. /\ rx = <<>> /\ hand = <<>> /\ pending_guest_bytes = <<>>
  BY <1>1 DEF ReadEnds, Unread, Flow
<1>3. /\ sock' \in {"Established", "CloseWait", "FinWait", "Closed"}
      /\ reason' \in {"open", "limit", "guest_limit", "tls", "eof", "guest"}
      /\ reason' = "open" => reason = "open"
      /\ mapped' \in BOOLEAN
  BY <1>1, CloseTypes DEF ReadEnds, KeepGuest, GuestTypes, SessionTypes
<1>GuestTypes. GuestTypes'
  BY <1>1, <1>3 DEF ReadEnds, GuestTypes
<1>SessionTypes. SessionTypes'
  BY <1>1, <1>3 DEF ReadEnds, SessionTypes
<1>TurnTypes. TurnTypes'
  BY <1>1 DEF ReadEnds, TurnTypes
<1>Unread. Unread'
  BY <1>2 DEF ReadEnds, Unread
<1>Flow. Flow'
  BY <1>2 DEF ReadEnds, Flow
<1>Plain. Plain'
  BY <1>1 DEF ReadEnds, Plain, Https
<1>PlainStreamsKept. PlainStreamsKept'
  BY <1>1, <1>3 DEF ReadEnds, PlainStreamsKept, Https
<1>same. UpstreamTypes' /\ BufferTypes'
  BY <1>1 DEF ReadEnds, UpstreamTypes, BufferTypes
<1> QED
  BY <1>GuestTypes, <1>SessionTypes, <1>TurnTypes, <1>Unread, <1>Flow, <1>Plain, <1>PlainStreamsKept, <1>same DEF IInv, TypeOK

\* One read of the upstream: at least one item, and the rest stays.
LEMMA AvailableFits ==
  ASSUME up_in \in Seq(Items), up_in # <<>>
  PROVE  /\ Available \in 0 .. Len(up_in)
         /\ Take(up_in, Available) \in Seq(Items) /\ Take(up_in, Available) # <<>>
         /\ Drop(up_in, Available) \in Seq(Items)
<1>1. Len(up_in) \in Nat \ {0} /\ GuestLimit \in Nat \ {0}
  BY EmptySeq, SessionAssumption
<1>2. Available \in 0 .. Len(up_in) /\ Available # 0
  BY <1>1 DEF Available, Min
<1>3. /\ Take(up_in, Available) \in Seq(Items) /\ Len(Take(up_in, Available)) = Available
      /\ Drop(up_in, Available) \in Seq(Items)
  BY <1>2, TakeDrop
<1>4. Take(up_in, Available) # <<>>
  BY <1>2, <1>3, EmptySeq
<1> QED
  BY <1>2, <1>3, <1>4

\* Passing upstream bytes on to the guest preserves the invariant.
LEMMA ReadPlainKeeps == ASSUME IInv, ReadPlain PROVE IInv'
<1> USE DEF guestvars, txvars, tlsvars, upvars, turn
<1>1. /\ GuestTypes /\ UpstreamTypes /\ SessionTypes /\ BufferTypes /\ TurnTypes
      /\ Unread /\ Flow /\ Plain /\ PlainStreamsKept
  BY DEF IInv, TypeOK
<1>2. /\ rx \in Seq(Items) /\ tx \in Seq(Items) /\ got \in Seq(Items) /\ out \in Seq(Items)
      /\ up_in \in Seq(Items) /\ hand \in Seq(Items) /\ pending_upstream_bytes \in Seq(Items)
      /\ pending_upstream_plaintext \in Seq(Items) /\ pending_guest_bytes \in Seq(Items)
  BY <1>1 DEF GuestTypes, UpstreamTypes, BufferTypes, TurnTypes
<1>3. /\ rx = <<>> /\ hand = <<>> /\ mapped /\ pending_guest_bytes = <<>>
  BY <1>1 DEF ReadPlain, Unread, Flow
<1> DEFINE t == Take(up_in, Available)
           d == Drop(up_in, Available)
<1>4. Available \in 0 .. Len(up_in) /\ t \in Seq(Items) /\ d \in Seq(Items)
  BY <1>2, AvailableFits DEF ReadPlain
<1>5. t \o d = up_in
  BY <1>2, <1>4, TakeDrop
<1>6. up_in' = d /\ SendGuest(t)
  BY DEF ReadPlain
<1> HIDE DEF t, d
<1>7. /\ tx' \in Seq(Items) /\ Len(tx') <= TxCapacity /\ got' = got
      /\ pending_guest_bytes' \in Seq(Items) /\ Len(pending_guest_bytes') <= GuestLimit
      /\ sock' \in {"Established", "CloseWait", "FinWait", "Closed"}
      /\ reason' \in {"open", "limit", "guest_limit", "tls", "eof", "guest"}
      /\ reason' = "open" => reason = "open" /\ tx' \o pending_guest_bytes' = tx \o t
  BY <1>1, <1>3, <1>4, <1>6, SendKeeps
<1>GuestTypes. GuestTypes'
  BY <1>1, <1>7 DEF ReadPlain, GuestTypes
<1>UpstreamTypes. UpstreamTypes'
  BY <1>1, <1>4, <1>6 DEF ReadPlain, UpstreamTypes
<1>SessionTypes. SessionTypes'
  BY <1>1, <1>7 DEF ReadPlain, SessionTypes
<1>BufferTypes. BufferTypes'
  BY <1>1, <1>7 DEF ReadPlain, BufferTypes
<1>TurnTypes. TurnTypes'
  BY <1>1 DEF ReadPlain, TurnTypes
<1>Unread. Unread'
  BY <1>3 DEF ReadPlain, Unread
<1>Flow. Flow'
  BY <1>3 DEF ReadPlain, Flow
<1>Plain. Plain'
  BY <1>1 DEF ReadPlain, Plain, Https
<1>PlainStreamsKept. PlainStreamsKept'
  <2> SUFFICES ASSUME reason' = "open"
               PROVE  (got' \o tx') \o (pending_guest_bytes' \o up_in')
                        = (got \o tx) \o (pending_guest_bytes \o up_in)
    BY <1>1, <1>7 DEF ReadPlain, PlainStreamsKept, Https
  <2>1. Moves(got, tx, t, d, tx', pending_guest_bytes')
    BY <1>2, <1>4, <1>7, Neighbours
  <2>2. (got \o tx') \o (pending_guest_bytes' \o d) = (got \o tx) \o (t \o d)
    BY <1>7, <2>1, Zenon DEF Moves
  <2>3. <<>> \o up_in = up_in
    BY <1>2, ConcatEmptySeq
  <2> QED
    BY <1>3, <1>5, <1>6, <1>7, <2>2, <2>3, Zenon
<1> QED
  BY <1>GuestTypes, <1>UpstreamTypes, <1>SessionTypes, <1>BufferTypes, <1>TurnTypes, <1>Unread, <1>Flow, <1>Plain, <1>PlainStreamsKept DEF IInv, TypeOK

\* Reading the TLS records of the upstream preserves the invariant.
LEMMA ReadTlsKeeps == ASSUME IInv, ReadTls PROVE IInv'
<1> USE DEF guestvars, txvars, tlsvars, upvars, turn
<1>1. /\ GuestTypes /\ UpstreamTypes /\ SessionTypes /\ BufferTypes /\ TurnTypes
      /\ Unread /\ Flow /\ Plain /\ PlainStreamsKept
  BY DEF IInv, TypeOK
<1>2. /\ rx \in Seq(Items) /\ tx \in Seq(Items) /\ got \in Seq(Items) /\ out \in Seq(Items)
      /\ up_in \in Seq(Items) /\ hand \in Seq(Items) /\ pending_upstream_bytes \in Seq(Items)
      /\ pending_upstream_plaintext \in Seq(Items) /\ pending_guest_bytes \in Seq(Items)
  BY <1>1 DEF GuestTypes, UpstreamTypes, BufferTypes, TurnTypes
<1>3. /\ rx = <<>> /\ hand = <<>> /\ mapped /\ pending_guest_bytes = <<>> /\ Https
  BY <1>1 DEF ReadTls, Unread, Flow
<1> DEFINE t == Take(up_in, Available)
           full == Flight(t) = Hello /\ Len(pending_upstream_bytes) + 1 > UpstreamLimit
<1>4. t \in Seq(Items) /\ t # <<>> /\ up_in' \in Seq(Items)
  BY <1>2, AvailableFits DEF ReadTls
<1>5. Plaintext(t) \in Seq(Items)
  BY <1>4, PlaintextType
<1>6. /\ \/ SendGuest(Plaintext(t))
         \/ CloseGuest("limit") /\ UNCHANGED <<txvars, pending_guest_bytes>>
         \/ CloseGuest("tls") /\ UNCHANGED <<txvars, pending_guest_bytes>>
         \/ KeepGuest /\ UNCHANGED <<txvars, pending_guest_bytes>>
      /\ \/ UNCHANGED held
         \/ held' = held \o Plaintext(t) /\ ~(Len(held) + Len(Plaintext(t)) > HeldLimit)
  BY DEF ReadTls, WriteGuestPlaintext
<1>7. /\ \/ UNCHANGED pending_upstream_bytes
         \/ /\ pending_upstream_bytes' = Append(pending_upstream_bytes, Finished)
            /\ ~(Len(pending_upstream_bytes) + 1 > UpstreamLimit)
      /\ utls' \in {utls, "done"} /\ ready' \in {ready, TRUE, FALSE} /\ out' = out
  BY DEF ReadTls
<1> HIDE DEF t
<1>8. /\ tx' \in Seq(Items) /\ Len(tx') <= TxCapacity /\ got' = got
      /\ pending_guest_bytes' \in Seq(Items) /\ Len(pending_guest_bytes') <= GuestLimit
      /\ sock' \in {"Established", "CloseWait", "FinWait", "Closed"}
      /\ reason' \in {"open", "limit", "guest_limit", "tls", "eof", "guest"}
  <2>1. CASE SendGuest(Plaintext(t))
    BY <1>1, <1>3, <1>5, <2>1, SendKeeps
  <2>2. CASE CloseGuest("limit") /\ UNCHANGED <<txvars, pending_guest_bytes>>
    BY <1>1, <2>2, CloseTypes DEF GuestTypes, BufferTypes
  <2>3. CASE CloseGuest("tls") /\ UNCHANGED <<txvars, pending_guest_bytes>>
    BY <1>1, <2>3, CloseTypes DEF GuestTypes, BufferTypes
  <2>4. CASE KeepGuest /\ UNCHANGED <<txvars, pending_guest_bytes>>
    BY <1>1, <2>4 DEF KeepGuest, GuestTypes, SessionTypes, BufferTypes
  <2> QED
    BY <1>6, <2>1, <2>2, <2>3, <2>4
<1>9. /\ pending_upstream_bytes' \in Seq(Items)
      /\ Len(pending_upstream_bytes') <= UpstreamLimit
  <2>1. CASE UNCHANGED pending_upstream_bytes
    BY <1>1, <2>1 DEF BufferTypes
  <2>2. CASE /\ pending_upstream_bytes' = Append(pending_upstream_bytes, Finished)
             /\ ~(Len(pending_upstream_bytes) + 1 > UpstreamLimit)
    <3>1. /\ Append(pending_upstream_bytes, Finished) \in Seq(Items)
          /\ Len(Append(pending_upstream_bytes, Finished)) = Len(pending_upstream_bytes) + 1
          /\ Len(pending_upstream_bytes) \in Nat
      BY <1>2, ItemTypes, AppendProperties, LenProperties
    <3> QED
      BY <2>2, <3>1, SessionAssumption
  <2> QED
    BY <1>7, <2>1, <2>2
<1>10. held' \in Seq(Items) /\ Len(held') <= HeldLimit
  <2>1. CASE UNCHANGED held
    BY <1>1, <2>1 DEF BufferTypes
  <2>2. CASE held' = held \o Plaintext(t) /\ ~(Len(held) + Len(Plaintext(t)) > HeldLimit)
    <3>1. held \in Seq(Items)
      BY <1>1 DEF BufferTypes
    <3>2. /\ held \o Plaintext(t) \in Seq(Items)
          /\ Len(held \o Plaintext(t)) = Len(held) + Len(Plaintext(t))
          /\ Len(held) \in Nat /\ Len(Plaintext(t)) \in Nat
      BY <1>5, <3>1, ConcatProperties, LenProperties
    <3> QED
      BY <2>2, <3>2, SessionAssumption
  <2> QED
    BY <1>6, <2>1, <2>2
<1>GuestTypes. GuestTypes'
  BY <1>1, <1>8 DEF ReadTls, GuestTypes
<1>UpstreamTypes. UpstreamTypes'
  BY <1>1, <1>4, <1>7 DEF ReadTls, UpstreamTypes
<1>SessionTypes. SessionTypes'
  BY <1>1, <1>7, <1>8 DEF ReadTls, SessionTypes
<1>BufferTypes. BufferTypes'
  BY <1>1, <1>8, <1>9, <1>10 DEF ReadTls, BufferTypes
<1>TurnTypes. TurnTypes'
  BY <1>1 DEF ReadTls, TurnTypes
<1>Unread. Unread'
  BY <1>3 DEF ReadTls, Unread
<1>Flow. Flow'
  BY <1>3 DEF ReadTls, Flow
<1>Plain. Plain'
  BY <1>3 DEF ReadTls, Plain, Https
<1>PlainStreamsKept. PlainStreamsKept'
  BY <1>3 DEF ReadTls, PlainStreamsKept, Https
<1> QED
  BY <1>GuestTypes, <1>UpstreamTypes, <1>SessionTypes, <1>BufferTypes, <1>TurnTypes, <1>Unread, <1>Flow, <1>Plain, <1>PlainStreamsKept DEF IInv, TypeOK

\* Data of the upstream preserves the invariant.
LEMMA UpstreamSendsKeeps == ASSUME IInv, UpstreamSends PROVE IInv'
<1> USE DEF guestvars, txvars, tlsvars, upvars, turn
<1>1. /\ GuestTypes /\ UpstreamTypes /\ SessionTypes /\ BufferTypes /\ TurnTypes
      /\ Unread /\ Flow /\ Plain /\ PlainStreamsKept
  BY DEF IInv, TypeOK
<1>2. /\ rx \in Seq(Items) /\ tx \in Seq(Items) /\ got \in Seq(Items) /\ out \in Seq(Items)
      /\ up_in \in Seq(Items) /\ hand \in Seq(Items) /\ pending_upstream_bytes \in Seq(Items)
      /\ pending_upstream_plaintext \in Seq(Items) /\ pending_guest_bytes \in Seq(Items)
  BY <1>1 DEF GuestTypes, UpstreamTypes, BufferTypes, TurnTypes
<1>3. /\ up_sent \in Nat /\ MaxSent \in Nat /\ MaxUp \in Nat /\ up_sent \in 0 .. MaxUp
  BY <1>1, SessionAssumption DEF UpstreamTypes
<1> DEFINE x == Data(up_sent + 1)
<1>4. \/ up_sent < MaxUp /\ up_in' = Append(up_in, x) /\ up_sent' = up_sent + 1
      \/ Https /\ up_in' = Append(up_in, Hello) /\ UNCHANGED up_sent
      \/ Https /\ up_in' = <<Ticket>> /\ UNCHANGED up_sent
  BY DEF UpstreamSends
<1>5. up_sent < MaxUp => x \in Items
  BY <1>3, ItemTypes
<1>6. up_in' \in Seq(Items) /\ up_sent' \in 0 .. MaxUp
  <2>1. CASE up_sent < MaxUp /\ up_in' = Append(up_in, x) /\ up_sent' = up_sent + 1
    <3>1. x \in Items /\ up_sent + 1 \in 0 .. MaxUp
      BY <1>3, <1>5, <2>1
    <3> QED
      BY <1>2, <2>1, <3>1, AppendProperties
  <2>2. CASE up_in' = Append(up_in, Hello) /\ UNCHANGED up_sent
    BY <1>2, <1>3, <2>2, ItemTypes, AppendProperties
  <2>3. CASE up_in' = <<Ticket>> /\ UNCHANGED up_sent
    BY <1>3, <2>3, ItemTypes
  <2> QED
    BY <1>4, <2>1, <2>2, <2>3
<1>UpstreamTypes. UpstreamTypes'
  BY <1>1, <1>6 DEF UpstreamSends, UpstreamTypes
<1>Unread. Unread'
  BY <1>1 DEF UpstreamSends, Unread, Blocked
<1>Plain. Plain'
  BY <1>1 DEF UpstreamSends, Plain, Https
<1>PlainStreamsKept. PlainStreamsKept'
  <2> SUFFICES ASSUME ~Https, reason = "open" PROVE PlainStreamsKept'
    BY DEF UpstreamSends, PlainStreamsKept, Https
  <2> DEFINE g == got \o tx
  <2>1. up_sent < MaxUp /\ up_in' = Append(up_in, x) /\ up_sent' = up_sent + 1 /\ x \in Items
    BY <1>4, <1>5
  <2>2. g \o (pending_guest_bytes \o up_in) = UpTo(up_sent)
    BY <1>1 DEF PlainStreamsKept
  <2>3. UpTo(up_sent + 1) = UpTo(up_sent) \o <<x>>
    BY <1>3, NextChunk
  <2>4. g \in Seq(Items)
    BY <1>2, ConcatProperties
  <2> HIDE DEF g, x
  <2>5. Extends(g, pending_guest_bytes, up_in, x)
    BY <1>2, <2>1, <2>4, Extend
  <2>6. g \o (pending_guest_bytes \o up_in') = UpTo(up_sent')
    BY <2>1, <2>2, <2>3, <2>5, Zenon DEF Extends
  <2>7. (got' \o tx') \o (pending_guest_bytes' \o up_in') = UpTo(up_sent')
    BY <2>6 DEF g, UpstreamSends
  <2> QED
    BY <1>1, <2>7 DEF PlainStreamsKept, UpstreamSends
<1>same. GuestTypes' /\ SessionTypes' /\ BufferTypes' /\ TurnTypes' /\ Flow'
  BY <1>1 DEF UpstreamSends, GuestTypes, SessionTypes, BufferTypes, TurnTypes, Flow
<1> QED
  BY <1>UpstreamTypes, <1>Unread, <1>Plain, <1>PlainStreamsKept, <1>same DEF IInv, TypeOK

\* The upstream closing or failing preserves the invariant.
LEMMA UpstreamEndsKeeps == ASSUME IInv, UpstreamEnds PROVE IInv'
<1> USE DEF guestvars, txvars, tlsvars, upvars, turn
<1>1. /\ GuestTypes /\ UpstreamTypes /\ SessionTypes /\ BufferTypes /\ TurnTypes
      /\ Unread /\ Flow /\ Plain /\ PlainStreamsKept
  BY DEF IInv, TypeOK
<1>UpstreamTypes. UpstreamTypes'
  BY <1>1 DEF UpstreamEnds, UpstreamTypes
<1>Unread. Unread'
  BY <1>1 DEF UpstreamEnds, Unread, Blocked
<1>Plain. Plain'
  BY <1>1 DEF UpstreamEnds, Plain, Https
<1>PlainStreamsKept. PlainStreamsKept'
  BY <1>1 DEF UpstreamEnds, PlainStreamsKept, Https
<1>same. GuestTypes' /\ SessionTypes' /\ BufferTypes' /\ TurnTypes' /\ Flow'
  BY <1>1 DEF UpstreamEnds, GuestTypes, SessionTypes, BufferTypes, TurnTypes, Flow
<1> QED
  BY <1>UpstreamTypes, <1>Unread, <1>Plain, <1>PlainStreamsKept, <1>same DEF IInv, TypeOK

\* The guest taking what was left for it preserves the invariant.
LEMMA GuestDrainsKeeps == ASSUME IInv, GuestDrains PROVE IInv'
<1> USE DEF guestvars, txvars, tlsvars, upvars, turn
<1>1. /\ GuestTypes /\ UpstreamTypes /\ SessionTypes /\ BufferTypes /\ TurnTypes
      /\ Unread /\ Flow /\ Plain /\ PlainStreamsKept
  BY DEF IInv, TypeOK
<1>2. /\ rx \in Seq(Items) /\ tx \in Seq(Items) /\ got \in Seq(Items) /\ out \in Seq(Items)
      /\ up_in \in Seq(Items) /\ hand \in Seq(Items) /\ pending_upstream_bytes \in Seq(Items)
      /\ pending_upstream_plaintext \in Seq(Items) /\ pending_guest_bytes \in Seq(Items)
  BY <1>1 DEF GuestTypes, UpstreamTypes, BufferTypes, TurnTypes
<1>3. /\ Head(tx) \in Items /\ Tail(tx) \in Seq(Items) /\ Len(Tail(tx)) = Len(tx) - 1
      /\ Len(tx) \in Nat /\ Len(tx) <= TxCapacity
  BY <1>1, HeadTailProperties, LenProperties DEF GuestDrains, GuestTypes
<1>4. got' \in Seq(Items)
  BY <1>2, <1>3, AppendProperties DEF GuestDrains
<1>5. tx' \in Seq(Items) /\ Len(tx') <= TxCapacity
  BY <1>3, SessionAssumption DEF GuestDrains
<1>6. got' \o tx' = got \o tx
  <2> DEFINE h == <<Head(tx)>>
             r == Tail(tx)
  <2>1. got' = got \o h /\ tx' = r
    BY <1>2, <1>3, AppendIsConcat DEF GuestDrains
  <2>2. h \in Seq(Items) /\ r \in Seq(Items)
    BY <1>3
  <2>3. h \o r = tx
    BY <1>2 DEF GuestDrains
  <2> HIDE DEF h, r
  <2>4. (got \o h) \o r = got \o (h \o r)
    <3>1. got \in Seq(Items)
      BY <1>2
    <3> QED
      BY <2>2, <3>1, Regroup
  <2> QED
    BY <2>1, <2>3, <2>4
<1>GuestTypes. GuestTypes'
  BY <1>1, <1>4, <1>5 DEF GuestDrains, GuestTypes
<1>Unread. Unread'
  BY DEF GuestDrains, Unread
<1>Plain. Plain'
  BY <1>1 DEF GuestDrains, Plain, Https
<1>PlainStreamsKept. PlainStreamsKept'
  BY <1>1, <1>6 DEF GuestDrains, PlainStreamsKept, Https
<1>same. UpstreamTypes' /\ SessionTypes' /\ BufferTypes' /\ TurnTypes' /\ Flow'
  BY <1>1 DEF GuestDrains, UpstreamTypes, SessionTypes, BufferTypes, TurnTypes, Flow
<1> QED
  BY <1>GuestTypes, <1>Unread, <1>Plain, <1>PlainStreamsKept, <1>same DEF IInv, TypeOK

-----------------------------------------------------------------------------
(* The theorems. *)

\* A stuttering step changes nothing the invariant reads.
LEMMA StutterKeeps == ASSUME IInv, UNCHANGED vars PROVE IInv'
<1> USE DEF vars, guestvars, txvars, tlsvars, upvars, turn
<1>1. /\ GuestTypes /\ UpstreamTypes /\ SessionTypes /\ BufferTypes /\ TurnTypes
      /\ Unread /\ Flow /\ Plain /\ PlainStreamsKept
  BY DEF IInv, TypeOK
<1>2. GuestTypes' /\ UpstreamTypes' /\ SessionTypes' /\ BufferTypes' /\ TurnTypes'
  BY <1>1 DEF GuestTypes, UpstreamTypes, SessionTypes, BufferTypes, TurnTypes
<1>3. Unread' /\ Flow' /\ Plain' /\ PlainStreamsKept'
  BY <1>1 DEF Unread, Blocked, Flow, Plain, PlainStreamsKept, Https
<1> QED
  BY <1>2, <1>3 DEF IInv, TypeOK

\* The invariant is inductive: no event of the owner loop, no step of the pump
\* and no move of either peer breaks it.
THEOREM SessionInductive == Spec => []IInv
<1>1. IInv /\ [Next]_vars => IInv'
  <2> SUFFICES ASSUME IInv, [Next]_vars PROVE IInv'
    OBVIOUS
  <2>1. CASE GuestData
    BY <2>1, GuestDataKeeps
  <2>2. CASE GuestAck
    BY <2>2, GuestAckKeeps
  <2>3. CASE GuestCloses
    BY <2>3, GuestClosesKeeps
  <2>4. CASE OtherEvent
    BY <2>4, OtherEventKeeps
  <2>5. CASE UpstreamReadable
    BY <2>5, UpstreamReadableKeeps
  <2>6. CASE UpstreamWritable
    BY <2>6, UpstreamWritableKeeps
  <2>7. CASE FlushFirst
    BY <2>7, FlushFirstKeeps
  <2>8. CASE Recv
    BY <2>8, RecvKeeps
  <2>9. CASE ReadGuestTls
    BY <2>9, ReadGuestTlsKeeps
  <2>10. CASE EnsureUpstreamTls
    BY <2>10, EnsureUpstreamTlsKeeps
  <2>11. CASE Payload
    BY <2>11, PayloadKeeps
  <2>12. CASE FlushSecond
    BY <2>12, FlushSecondKeeps
  <2>13. CASE FlushPlaintext
    BY <2>13, FlushPlaintextKeeps
  <2>14. CASE FlushUpstream
    BY <2>14, FlushUpstreamKeeps
  <2>15. CASE ReadEnds
    BY <2>15, ReadEndsKeeps
  <2>16. CASE ReadPlain
    BY <2>16, ReadPlainKeeps
  <2>17. CASE ReadTls
    BY <2>17, ReadTlsKeeps
  <2>18. CASE UpstreamSends
    BY <2>18, UpstreamSendsKeeps
  <2>19. CASE UpstreamEnds
    BY <2>19, UpstreamEndsKeeps
  <2>20. CASE GuestDrains
    BY <2>20, GuestDrainsKeeps
  <2>21. CASE UNCHANGED vars
    BY <2>21, StutterKeeps
  <2> QED
    BY <2>1, <2>2, <2>3, <2>4, <2>5, <2>6, <2>7, <2>8, <2>9, <2>10, <2>11, <2>12, <2>13, <2>14, <2>15, <2>16, <2>17, <2>18, <2>19, <2>20, <2>21 DEF Next, Event, PumpStep
<1> QED
  BY <1>1, InitEstablishes, PTL DEF Spec

\* Whatever the peers do, no pending buffer of a session outgrows the limit that
\* TcpProxyBufferLimits gives it, and its other variables keep their types.
THEOREM SessionBuffersBounded == Spec => []TypeOK
<1>1. IInv => TypeOK
  BY DEF IInv
<1> QED
  BY <1>1, SessionInductive, PTL

\* Through a session that is not TLS both byte streams pass unchanged while it
\* is open: nothing is lost, doubled or swapped by partial writes and buffering.
THEOREM SessionStreamsKept == Spec => []PlainStreamsKept
<1>1. IInv => PlainStreamsKept
  BY DEF IInv
<1> QED
  BY <1>1, SessionInductive, PTL

\* process_guest_payload never runs in the turn of a ready upstream: the order
\* of the HTTPS plaintext rests on this.
THEOREM SessionPayloadInFrameTurns == Spec => []NoPayloadInFdTurn
<1>1. IInv => NoPayloadInFdTurn
  BY DEF IInv, Unread, Flow, NoPayloadInFdTurn
<1> QED
  BY <1>1, SessionInductive, PTL

=============================================================================
