---------------------------- MODULE TcpProxySession ----------------------------
(***************************************************************************)
(* The data path of one proxied guest TCP session (tcp_proxy.rs): the      *)
(* guest socket's buffers, the upstream session's pending buffers and TLS  *)
(* state, and the upstream connection, from connect to the session's end.  *)
(*                                                                         *)
(* The owner loop takes one event and then pumps the session; pc is the     *)
(* place in process_gateway_with_readiness.  Bytes are items: the n-th      *)
(* chunk of data, a TLS handshake flight, or a TLS record without data.    *)
(* Towards the upstream rustls keeps nothing back: each call of             *)
(* TlsUpstreamSession drains it, so drain_upstream_tls_writes finds nothing *)
(* and has no step.  Towards the guest it holds the plaintext it is given   *)
(* until the guest has finished its handshake.  An fd event is readable or  *)
(* writable, never both (wait_async_fd_registrations), so the branches of a *)
(* readable pump that ask for a writable upstream have no step either.      *)
(***************************************************************************)
EXTENDS Naturals, Sequences

CONSTANTS
  Actions,             \* the decisions considered: a subset of AllActions
  MaxSent,             \* bound on the data chunks the guest sends
  MaxUp,               \* bound on the data chunks the upstream sends
  RxCapacity,          \* the guest socket's receive buffer, in items
  TxCapacity,          \* the guest socket's transmit buffer, in items
  UpstreamLimit,       \* TcpProxyBufferLimits, in items
  PlaintextLimit, GuestLimit, HttpLimit,
  HeldLimit            \* what rustls holds before the handshake, in items

AllActions == {"Connect", "InterceptHttp", "InterceptHttps"}

ASSUME SessionAssumption ==
  /\ Actions \subseteq AllActions
  /\ {MaxSent, MaxUp} \subseteq Nat
  /\ {RxCapacity, TxCapacity, UpstreamLimit, PlaintextLimit, GuestLimit, HttpLimit,
      HeldLimit} \subseteq Nat \ {0}

VARIABLES
  action,       \* the session's TcpDecision
  sock,         \* state of the guest socket
  mapped,       \* the session is in TcpProxyBridge.sessions
  sent, rx,     \* chunks the guest has sent; its items not yet received here
  tx, got,      \* items in the transmit buffer; items the guest has acknowledged
  gtls,         \* GuestTlsSession: which flights of the guest it has read
  held,         \* plaintext for the guest that GuestTlsSession holds
  utls, ready,  \* TlsUpstreamSession; upstream_tls_ready
  http,         \* length of http_buffer
  pending_upstream_bytes, pending_upstream_plaintext, pending_guest_bytes,
  out,          \* items written to the upstream connection
  up_sent, up_in, up_eof, broken,  \* the upstream peer and its connection
  pc, rd, wr,   \* place in the pump; readiness of this turn
  hand,         \* payload in the hands of process_guest_payload
  reason        \* why the session was closed, for the properties

guestvars == <<sent, rx>>
txvars == <<tx, got>>
tlsvars == <<gtls, held, utls, ready>>
upvars == <<up_sent, up_in, up_eof, broken>>
turn == <<rd, wr>>
vars == <<action, sock, mapped, guestvars, txvars, tlsvars, http, pending_upstream_bytes,
          pending_upstream_plaintext, pending_guest_bytes, out, upvars, pc, turn, hand, reason>>

Data(n) == <<"data", n>>
Part == <<"part", 0>>
Hello == <<"hello", 0>>
Finished == <<"finished", 0>>
Ticket == <<"ticket", 0>>
IsData(x) == x[1] = "data"
Items == {Part, Hello, Finished, Ticket} \cup {Data(n) : n \in 1 .. MaxSent + MaxUp}

In(x, s) == \E i \in 1 .. Len(s) : s[i] = x
Https == action = "InterceptHttps"
Min(a, b) == IF a <= b THEN a ELSE b
Take(s, k) == SubSeq(s, 1, k)
Drop(s, k) == SubSeq(s, k + 1, Len(s))

Init ==
  /\ action \in Actions
  /\ sock = "Established" /\ mapped = TRUE
  /\ sent = 0 /\ rx = <<>> /\ tx = <<>> /\ got = <<>>
  /\ gtls = "start" /\ held = <<>> /\ utls = "none" /\ ready = FALSE /\ http = 0
  /\ pending_upstream_bytes = <<>> /\ pending_upstream_plaintext = <<>>
  /\ pending_guest_bytes = <<>>
  /\ out = <<>>
  /\ up_sent = 0 /\ up_in = <<>> /\ up_eof = FALSE /\ broken = FALSE
  /\ pc = "select" /\ rd = FALSE /\ wr = FALSE
  /\ hand = <<>> /\ reason = "open"

-----------------------------------------------------------------------------
(* Events of the owner loop. *)

Turn(r, w) == /\ pc = "select" /\ mapped
              /\ pc' = "flush" /\ rd' = r /\ wr' = w

\* What the guest sends next: over TLS its hello, perhaps in two parts, and its
\* finished once the hello of the proxy has arrived, before any data.
Sends(x) ==
  IF Https
  THEN \/ x = Part /\ gtls = "start" /\ rx = <<>>
       \/ x = Hello /\ gtls \in {"start", "part"} /\ rx = <<>>
       \/ x = Finished /\ gtls = "hello" /\ rx = <<>> /\ In(Hello, got)
       \/ x = Data(sent + 1) /\ sent < MaxSent
            /\ (gtls = "done" \/ In(Finished, rx))
  ELSE x = Data(sent + 1) /\ sent < MaxSent

Candidates == {Part, Hello, Finished, Data(sent + 1)}

\* A QEMU frame with a segment for the session.
GuestSegment(x) ==
  /\ sock = "Established" /\ Len(rx) < RxCapacity
  /\ Sends(x)
  /\ rx' = Append(rx, x)
  /\ sent' = IF IsData(x) THEN sent + 1 ELSE sent

\* Mutant: a frame's turn polls every session as readable and writable.
Mut_GuestData_PollAll ==
  /\ \E x \in Candidates : GuestSegment(x)
  /\ Turn(FALSE, TRUE)
  /\ UNCHANGED <<action, sock, mapped, txvars, tlsvars, http, pending_upstream_bytes,
                 pending_upstream_plaintext, pending_guest_bytes, out, upvars, hand, reason>>

GuestData ==
  /\ \E x \in Candidates : GuestSegment(x)
  /\ Turn(FALSE, FALSE)
  /\ UNCHANGED <<action, sock, mapped, txvars, tlsvars, http, pending_upstream_bytes,
                 pending_upstream_plaintext, pending_guest_bytes, out, upvars, hand, reason>>

GuestAck ==
  /\ \E k \in 1 .. Len(tx) : got' = got \o Take(tx, k) /\ tx' = Drop(tx, k)
  /\ Turn(FALSE, FALSE)
  /\ UNCHANGED <<action, sock, mapped, guestvars, tlsvars, http, pending_upstream_bytes,
                 pending_upstream_plaintext, pending_guest_bytes, out, upvars, hand, reason>>

\* FIN, with or without a last segment, or RST.
GuestCloses ==
  /\ sock = "Established"
  /\ \/ sock' = "CloseWait" /\ UNCHANGED guestvars
     \/ sock' = "CloseWait" /\ \E x \in Candidates : GuestSegment(x)
     \/ sock' = "Closed" /\ UNCHANGED guestvars
  /\ reason' = "guest"
  /\ Turn(FALSE, FALSE)
  /\ UNCHANGED <<action, mapped, txvars, tlsvars, http, pending_upstream_bytes,
                 pending_upstream_plaintext, pending_guest_bytes, out, upvars, hand>>

\* A turn for anything else.
OtherEvent ==
  /\ Turn(FALSE, FALSE)
  /\ UNCHANGED <<action, sock, mapped, guestvars, txvars, tlsvars, http, pending_upstream_bytes,
                 pending_upstream_plaintext, pending_guest_bytes, out, upvars, hand, reason>>

\* Mutant: no read interest while writes are pending.
Mut_UpstreamReadable_NotWhileWriting ==
  /\ pending_guest_bytes = <<>> /\ pending_upstream_bytes = <<>>
  /\ up_in # <<>> \/ up_eof \/ broken
  /\ Turn(TRUE, FALSE)
  /\ UNCHANGED <<action, sock, mapped, guestvars, txvars, tlsvars, http, pending_upstream_bytes,
                 pending_upstream_plaintext, pending_guest_bytes, out, upvars, hand, reason>>

\* FdReady, as session_interest registers the upstream connection.
UpstreamReadable ==
  /\ pending_guest_bytes = <<>>
  /\ up_in # <<>> \/ up_eof \/ broken
  /\ Turn(TRUE, FALSE)
  /\ UNCHANGED <<action, sock, mapped, guestvars, txvars, tlsvars, http, pending_upstream_bytes,
                 pending_upstream_plaintext, pending_guest_bytes, out, upvars, hand, reason>>

\* Mutant: write interest for pending plaintext only.
Mut_UpstreamWritable_Plaintext ==
  /\ pending_upstream_plaintext # <<>>
  /\ Turn(FALSE, TRUE)
  /\ UNCHANGED <<action, sock, mapped, guestvars, txvars, tlsvars, http, pending_upstream_bytes,
                 pending_upstream_plaintext, pending_guest_bytes, out, upvars, hand, reason>>

UpstreamWritable ==
  /\ pending_upstream_bytes # <<>> \/ pending_upstream_plaintext # <<>>
  /\ Turn(FALSE, TRUE)
  /\ UNCHANGED <<action, sock, mapped, guestvars, txvars, tlsvars, http, pending_upstream_bytes,
                 pending_upstream_plaintext, pending_guest_bytes, out, upvars, hand, reason>>

-----------------------------------------------------------------------------
(* Writing to either side. *)

\* close_tcp_session
CloseGuest(why) ==
  /\ sock' = IF sock = "Established" THEN "FinWait" ELSE sock
  /\ reason' = IF reason = "open" THEN why ELSE reason
KeepGuest == UNCHANGED <<sock, reason>>

\* Mutant: what the connection did not take is forgotten.
Mut_Write_DropsRest(bytes) ==
  IF broken
  THEN pending_upstream_bytes' = bytes /\ UNCHANGED out
  ELSE \E k \in 0 .. Len(bytes) : out' = out \o Take(bytes, k) /\ pending_upstream_bytes' = <<>>

\* write_pending_best_effort: the connection takes a prefix, or fails.
Write(bytes) ==
  IF broken
  THEN pending_upstream_bytes' = bytes /\ UNCHANGED out
  ELSE \E k \in 0 .. Len(bytes) :
         out' = out \o Take(bytes, k) /\ pending_upstream_bytes' = Drop(bytes, k)

\* write_pending_upstream_bytes_best_effort
WriteUpstream(bytes) ==
  IF Len(pending_upstream_bytes) + Len(bytes) > UpstreamLimit
  THEN CloseGuest("limit") /\ UNCHANGED <<pending_upstream_bytes, out>>
  ELSE Write(pending_upstream_bytes \o bytes) /\ KeepGuest

\* Mutant: extend_from_slice without the limit.
Mut_BufferUpstream_NoLimit(bytes) ==
  UNCHANGED out /\ pending_upstream_bytes' = pending_upstream_bytes \o bytes /\ KeepGuest

\* buffer_pending_upstream_bytes
BufferUpstream(bytes) ==
  /\ UNCHANGED out
  /\ IF Len(pending_upstream_bytes) + Len(bytes) > UpstreamLimit
     THEN CloseGuest("limit") /\ UNCHANGED pending_upstream_bytes
     ELSE pending_upstream_bytes' = pending_upstream_bytes \o bytes /\ KeepGuest

\* buffer_pending_upstream_plaintext
BufferPlaintext(bytes) ==
  IF Len(pending_upstream_plaintext) + Len(bytes) > PlaintextLimit
  THEN CloseGuest("limit") /\ UNCHANGED pending_upstream_plaintext
  ELSE pending_upstream_plaintext' = pending_upstream_plaintext \o bytes /\ KeepGuest

\* flush_pending_guest_bytes: what the transmit buffer has room for; a socket
\* that is closing takes nothing.
Room == IF sock = "Established" THEN TxCapacity - Len(tx) ELSE 0
FlushGuest ==
  LET k == Min(Room, Len(pending_guest_bytes)) IN
  /\ tx' = tx \o Take(pending_guest_bytes, k)
  /\ pending_guest_bytes' = Drop(pending_guest_bytes, k)
  /\ UNCHANGED got

\* send_guest_buffered, reached with nothing pending: send, and queue the rest.
SendGuest(bytes) ==
  LET k == Min(Room, Len(bytes)) IN
  /\ tx' = tx \o Take(bytes, k)
  /\ UNCHANGED got
  /\ IF Len(bytes) - k > GuestLimit
     THEN CloseGuest("guest_limit") /\ UNCHANGED pending_guest_bytes
     ELSE pending_guest_bytes' = Drop(bytes, k) /\ KeepGuest

-----------------------------------------------------------------------------
(* The pump: process_gateway_with_readiness. *)

\* A session whose guest socket has left Established is not pumped, and is
\* dropped at the end.  Bytes for the guest go first, and while some are left
\* nothing else happens.
FlushFirst ==
  /\ pc = "flush"
  /\ IF sock = "Established"
     THEN /\ FlushGuest
          /\ pc' = IF pending_guest_bytes' = <<>> THEN "recv" ELSE "select"
          /\ UNCHANGED mapped
     ELSE mapped' = FALSE /\ pc' = "select" /\ UNCHANGED <<txvars, pending_guest_bytes>>
  /\ UNCHANGED <<action, sock, guestvars, tlsvars, http, pending_upstream_bytes,
                 pending_upstream_plaintext, out, upvars, turn, hand, reason>>

\* Mutant: one chunk per pump.
Mut_Recv_OneChunk ==
  /\ pc = "recv"
  /\ hand' = Take(rx, Min(1, Len(rx))) /\ rx' = Drop(rx, Min(1, Len(rx)))
  /\ pc' = CASE rx = <<>> -> "flush2" [] rx # <<>> /\ Https -> "tls" [] OTHER -> "payload"
  /\ UNCHANGED <<action, sock, mapped, sent, txvars, tlsvars, http, pending_upstream_bytes,
                 pending_upstream_plaintext, pending_guest_bytes, out, upvars, turn, reason>>

\* recv_tcp_session takes all there is.
Recv ==
  /\ pc = "recv"
  /\ hand' = rx /\ rx' = <<>>
  /\ pc' = CASE rx = <<>> -> "flush2" [] rx # <<>> /\ Https -> "tls" [] OTHER -> "payload"
  /\ UNCHANGED <<action, sock, mapped, sent, txvars, tlsvars, http, pending_upstream_bytes,
                 pending_upstream_plaintext, pending_guest_bytes, out, upvars, turn, reason>>

\* What rustls makes of the items read: a handshake flight or a record without
\* data comes first.
Flight(s) == Head(s)
Plaintext(s) == IF IsData(Head(s)) THEN s ELSE Tail(s)

\* process_guest_payload: read_guest_tls, and what rustls then has for the guest:
\* its handshake flight, or the plaintext it held until the guest had finished.
ReadGuestTls ==
  /\ pc = "tls"
  /\ \/ /\ gtls' = CASE Flight(hand) = Finished -> "done" [] Flight(hand) = Hello -> "hello"
                     [] Flight(hand) = Part -> "part" [] OTHER -> gtls
        /\ CASE Flight(hand) = Hello -> SendGuest(<<Hello>>) /\ UNCHANGED held
             [] Flight(hand) = Finished -> SendGuest(held) /\ held' = <<>>
             [] OTHER -> KeepGuest /\ UNCHANGED <<held, txvars, pending_guest_bytes>>
        /\ hand' = Plaintext(hand)
        /\ pc' = "ensure"
     \/ /\ CloseGuest("tls")
        /\ hand' = <<>> /\ pc' = "flush2"
        /\ UNCHANGED <<gtls, held, txvars, pending_guest_bytes>>
  /\ UNCHANGED <<action, mapped, guestvars, utls, ready, http, pending_upstream_bytes,
                 pending_upstream_plaintext, out, upvars, turn>>

\* ensure_https_upstream_tls: once the guest has named the server, its hello
\* goes upstream.
EnsureUpstreamTls ==
  /\ pc = "ensure"
  /\ \/ /\ utls # "none"
        /\ pc' = "payload" /\ KeepGuest
        /\ UNCHANGED <<utls, hand, pending_upstream_bytes, out>>
     \/ /\ utls = "none" /\ gtls = "part"
        /\ pc' = "flush2" /\ hand' = <<>> /\ KeepGuest
        /\ UNCHANGED <<utls, pending_upstream_bytes, out>>
     \/ /\ utls = "none" /\ gtls # "part"
        /\ IF wr THEN WriteUpstream(<<Hello>>) ELSE BufferUpstream(<<Hello>>)
        /\ IF Len(pending_upstream_bytes) + 1 > UpstreamLimit \/ (wr /\ broken)
           THEN pc' = "flush2" /\ hand' = <<>> /\ UNCHANGED utls
           ELSE pc' = "payload" /\ utls' = "handshaking" /\ UNCHANGED hand
     \/ /\ utls = "none" /\ gtls # "part"
        /\ CloseGuest("tls")
        /\ pc' = "flush2" /\ hand' = <<>>
        /\ UNCHANGED <<utls, pending_upstream_bytes, out>>
  /\ UNCHANGED <<action, mapped, guestvars, txvars, gtls, held, ready, http,
                 pending_upstream_plaintext, pending_guest_bytes, upvars, turn>>

\* record_http_request, then the payload is written or buffered.
Payload ==
  /\ pc = "payload"
  /\ IF action # "Connect" /\ http + Len(hand) > HttpLimit
     THEN /\ CloseGuest("limit")
          /\ UNCHANGED <<http, pending_upstream_bytes, pending_upstream_plaintext, out>>
     ELSE /\ http' = IF action # "Connect" THEN http + Len(hand) ELSE http
          /\ CASE hand = <<>> ->
                    KeepGuest /\ UNCHANGED <<pending_upstream_bytes, pending_upstream_plaintext, out>>
               [] hand # <<>> /\ Https /\ ~(ready /\ wr) ->
                    BufferPlaintext(hand) /\ UNCHANGED <<pending_upstream_bytes, out>>
               [] hand # <<>> /\ ~(Https /\ ~ready) /\ wr ->
                    WriteUpstream(hand) /\ UNCHANGED pending_upstream_plaintext
               [] hand # <<>> /\ ~Https /\ ~wr ->
                    BufferUpstream(hand) /\ UNCHANGED pending_upstream_plaintext
  /\ hand' = <<>> /\ pc' = "flush2"
  /\ UNCHANGED <<action, mapped, guestvars, txvars, tlsvars, pending_guest_bytes, upvars, turn>>

FlushSecond ==
  /\ pc = "flush2"
  /\ FlushGuest
  /\ pc' = CASE pending_guest_bytes' # <<>> -> "select"
             [] pending_guest_bytes' = <<>> /\ wr -> "plaintext"
             [] pending_guest_bytes' = <<>> /\ rd -> "read"
             [] OTHER -> "select"
  /\ UNCHANGED <<action, sock, mapped, guestvars, tlsvars, http, pending_upstream_bytes,
                 pending_upstream_plaintext, out, upvars, turn, hand, reason>>

\* flush_pending_https_plaintext, from the pump and again once the upstream
\* handshake is through: what is taken is encrypted and written, or rustls fails.
FlushPlaintext ==
  /\ pc \in {"plaintext", "plaintext2"}
  /\ IF ready /\ pending_upstream_plaintext # <<>>
     THEN /\ pending_upstream_plaintext' = <<>>
          /\ \/ WriteUpstream(pending_upstream_plaintext)
             \/ CloseGuest("tls") /\ UNCHANGED <<pending_upstream_bytes, out>>
     ELSE KeepGuest /\ UNCHANGED <<pending_upstream_plaintext, pending_upstream_bytes, out>>
  /\ pc' = IF pc = "plaintext" THEN "bytes" ELSE "select"
  /\ UNCHANGED <<action, mapped, guestvars, txvars, tlsvars, http, pending_guest_bytes,
                 upvars, turn, hand>>

\* flush_pending_upstream_bytes
FlushUpstream ==
  /\ pc = "bytes"
  /\ IF pending_upstream_bytes = <<>>
     THEN pc' = "select" /\ UNCHANGED <<ready, pending_upstream_bytes, out>>
     ELSE /\ Write(pending_upstream_bytes)
          /\ IF pending_upstream_bytes' = <<>> /\ utls = "done"
             THEN ready' = TRUE /\ pc' = "plaintext2"
             ELSE pc' = "select" /\ UNCHANGED ready
  /\ UNCHANGED <<action, sock, mapped, guestvars, txvars, gtls, held, utls, http, reason,
                 pending_upstream_plaintext, pending_guest_bytes, upvars, turn, hand>>

\* Mutant: end of stream wins over the bytes read before it.
Mut_ReadEnds_EofFirst ==
  /\ pc = "read" /\ (up_in = <<>> \/ up_eof)
  /\ IF up_eof \/ broken
     THEN CloseGuest("eof") /\ mapped' = FALSE
     ELSE KeepGuest /\ UNCHANGED mapped
  /\ pc' = "select"
  /\ UNCHANGED <<action, guestvars, txvars, tlsvars, http, pending_upstream_bytes, turn, hand,
                 pending_upstream_plaintext, pending_guest_bytes, out, upvars>>

\* read_available with nothing to read: end of stream or failure closes the
\* guest's side and drops the session.
ReadEnds ==
  /\ pc = "read" /\ up_in = <<>>
  /\ IF up_eof \/ broken
     THEN CloseGuest("eof") /\ mapped' = FALSE
     ELSE KeepGuest /\ UNCHANGED mapped
  /\ pc' = "select"
  /\ UNCHANGED <<action, guestvars, txvars, tlsvars, http, pending_upstream_bytes, turn, hand,
                 pending_upstream_plaintext, pending_guest_bytes, out, upvars>>

\* read_available stops at the limit of pending_guest_bytes.
Available == Min(Len(up_in), GuestLimit)
ReadPlain ==
  /\ pc = "read" /\ up_in # <<>> /\ ~Https
  /\ up_in' = Drop(up_in, Available)
  /\ SendGuest(Take(up_in, Available))
  /\ pc' = "select"
  /\ UNCHANGED <<action, mapped, guestvars, tlsvars, http, pending_upstream_bytes, out,
                 pending_upstream_plaintext, up_sent, up_eof, broken, turn, hand>>

\* write_guest_plaintext: rustls encrypts for a guest that has finished its
\* handshake, and otherwise holds what it has room for; more is an error.
WriteGuestPlaintext(bytes) ==
  IF gtls = "done"
  THEN SendGuest(bytes) /\ UNCHANGED held
  ELSE /\ UNCHANGED <<txvars, pending_guest_bytes>>
       /\ IF Len(held) + Len(bytes) > HeldLimit
          THEN CloseGuest("tls") /\ UNCHANGED held
          ELSE held' = held \o bytes /\ KeepGuest

\* read_upstream_tls: the finished flight goes upstream, the plaintext to the
\* guest; or it fails.
ReadTls ==
  /\ pc = "read" /\ up_in # <<>> /\ Https
  /\ up_in' = Drop(up_in, Available)
  /\ LET read == Take(up_in, Available)
         full == Flight(read) = Hello /\ Len(pending_upstream_bytes) + 1 > UpstreamLimit
     IN
     \/ /\ utls # "none"
        /\ UNCHANGED out
        /\ IF Flight(read) = Hello
           THEN /\ pending_upstream_bytes' = IF full THEN pending_upstream_bytes
                                            ELSE Append(pending_upstream_bytes, Finished)
                /\ utls' = "done"
                /\ ready' = ~full
           ELSE UNCHANGED <<pending_upstream_bytes, utls, ready>>
        /\ IF full
           THEN CloseGuest("limit") /\ UNCHANGED <<held, txvars, pending_guest_bytes>>
           ELSE WriteGuestPlaintext(Plaintext(read))
     \/ /\ CloseGuest("tls")
        /\ UNCHANGED <<held, utls, ready, pending_upstream_bytes, out, txvars, pending_guest_bytes>>
  /\ pc' = "select"
  /\ UNCHANGED <<action, mapped, guestvars, gtls, http, pending_upstream_plaintext,
                 up_sent, up_eof, broken, turn, hand>>

-----------------------------------------------------------------------------
(* The upstream peer, and the guest's stack after the session. *)

\* Data, the hello, or a record without data, of which there may be any number.
UpstreamSends ==
  /\ ~up_eof /\ ~broken
  /\ \/ /\ ~Https \/ utls = "done" \/ In(Hello, up_in)
        /\ up_sent < MaxUp
        /\ up_in' = Append(up_in, Data(up_sent + 1)) /\ up_sent' = up_sent + 1
     \/ /\ Https /\ In(Hello, out) /\ utls = "handshaking" /\ ~In(Hello, up_in)
        /\ up_in' = Append(up_in, Hello) /\ UNCHANGED up_sent
     \/ /\ Https /\ utls = "done" /\ up_in = <<>>
        /\ up_in' = <<Ticket>> /\ UNCHANGED up_sent
  /\ UNCHANGED <<action, sock, mapped, guestvars, txvars, tlsvars, http, pending_upstream_bytes,
                 pending_upstream_plaintext, pending_guest_bytes, out, up_eof, broken, pc,
                 turn, hand, reason>>

UpstreamEnds ==
  /\ \/ ~up_eof /\ up_eof' = TRUE /\ UNCHANGED broken
     \/ ~broken /\ broken' = TRUE /\ UNCHANGED up_eof
  /\ UNCHANGED <<action, sock, mapped, guestvars, txvars, tlsvars, http, pending_upstream_bytes,
                 pending_upstream_plaintext, pending_guest_bytes, out, up_sent, up_in, pc,
                 turn, hand, reason>>

GuestDrains ==
  /\ ~mapped /\ pc = "select" /\ sock # "Closed" /\ tx # <<>>
  /\ got' = Append(got, Head(tx)) /\ tx' = Tail(tx)
  /\ UNCHANGED <<action, sock, mapped, guestvars, tlsvars, http, pending_upstream_bytes,
                 pending_upstream_plaintext, pending_guest_bytes, out, upvars, pc, turn, hand, reason>>

Event == \/ GuestData \/ GuestAck \/ GuestCloses \/ OtherEvent
         \/ UpstreamReadable \/ UpstreamWritable
PumpStep == \/ FlushFirst \/ Recv \/ ReadGuestTls \/ EnsureUpstreamTls \/ Payload
            \/ FlushSecond \/ FlushPlaintext \/ FlushUpstream
            \/ ReadEnds \/ ReadPlain \/ ReadTls
Next == Event \/ PumpStep \/ UpstreamSends \/ UpstreamEnds \/ GuestDrains

Spec == Init /\ [][Next]_vars

\* The loop goes on; select! takes a readable upstream sooner or later, and a writable
\* one if the upstream falls silent: wait_async_fd_registrations asks for readable
\* first, so an upstream that always has something to read is never found writable.
\* A peer that reads makes room; the guest's stack acknowledges.
Silent == up_in = <<>>

Fairness ==
  /\ WF_vars(PumpStep)
  /\ SF_vars(UpstreamReadable)
  /\ <>[]Silent => SF_vars(UpstreamWritable)
  /\ SF_vars(FlushUpstream /\ out' # out)
  /\ SF_vars(GuestAck)

FairSpec == Spec /\ Fairness

-----------------------------------------------------------------------------
(* Properties. *)

DataOf(s) == SelectSeq(s, IsData)
UpTo(n) == [i \in 1 .. n |-> Data(i)]

GuestTypes ==
  /\ sock \in {"Established", "CloseWait", "FinWait", "Closed"}
  /\ sent \in 0 .. MaxSent
  /\ rx \in Seq(Items) /\ Len(rx) <= RxCapacity
  /\ tx \in Seq(Items) /\ Len(tx) <= TxCapacity
  /\ got \in Seq(Items)
UpstreamTypes ==
  /\ out \in Seq(Items)
  /\ up_sent \in 0 .. MaxUp /\ up_in \in Seq(Items)
  /\ up_eof \in BOOLEAN /\ broken \in BOOLEAN
SessionTypes ==
  /\ action \in Actions /\ mapped \in BOOLEAN
  /\ gtls \in {"start", "part", "hello", "done"}
  /\ utls \in {"none", "handshaking", "done"} /\ ready \in BOOLEAN
  /\ http \in 0 .. HttpLimit
  /\ reason \in {"open", "limit", "guest_limit", "tls", "eof", "guest"}
BufferTypes ==
  /\ pending_upstream_bytes \in Seq(Items) /\ Len(pending_upstream_bytes) <= UpstreamLimit
  /\ pending_upstream_plaintext \in Seq(Items)
  /\ Len(pending_upstream_plaintext) <= PlaintextLimit
  /\ pending_guest_bytes \in Seq(Items) /\ Len(pending_guest_bytes) <= GuestLimit
  /\ held \in Seq(Items) /\ Len(held) <= HeldLimit
TurnTypes ==
  /\ pc \in {"select", "flush", "recv", "tls", "ensure", "payload", "flush2", "plaintext",
             "plaintext2", "bytes", "read"}
  /\ rd \in BOOLEAN /\ wr \in BOOLEAN
  /\ hand \in Seq(Items)
  /\ pc = "tls" => hand # <<>>

\* The variables have their types, and no buffer of the session exceeds the
\* limit TcpProxyBufferLimits sets for it.
TypeOK == GuestTypes /\ UpstreamTypes /\ SessionTypes /\ BufferTypes /\ TurnTypes

\* While the session is open every chunk the guest has sent is written, in a
\* pending buffer, in hand or still to be received, once and in order: partial
\* writes, the TLS handshake and the two pending buffers lose and swap nothing.
GuestBytesKept ==
  reason = "open" =>
    DataOf(out) \o DataOf(pending_upstream_bytes) \o pending_upstream_plaintext
      \o DataOf(hand) \o DataOf(rx) = UpTo(sent)

\* However the session ends, the upstream has received a prefix of what the
\* guest sent: a limit or a TLS failure leaves no hole.
UpstreamGetsPrefix == DataOf(out) = UpTo(Len(DataOf(out)))

\* While the session is open every chunk of the upstream is with the guest, in
\* the transmit buffer, pending, held by rustls or unread, once and in order.
UpstreamBytesKept ==
  reason = "open" =>
    DataOf(got) \o DataOf(tx) \o DataOf(pending_guest_bytes) \o held \o DataOf(up_in)
      = UpTo(up_sent)

\* The guest sees the upstream's end of stream after all of its data: close is
\* called only when every chunk has entered the transmit buffer.  The code leaves
\* one case open: what rustls holds for a guest that has not finished its handshake
\* is lost when the upstream ends before it has, and nothing else is.
EofAfterData ==
  reason = "eof" =>
    /\ DataOf(got) \o DataOf(tx) \o held = UpTo(up_sent)
    /\ gtls = "done" => held = <<>>

\* The same for a session that is not TLS, byte for byte and in both directions.
PlainStreamsKept ==
  ~Https /\ reason = "open" =>
    /\ (out \o pending_upstream_bytes) \o (hand \o rx) = UpTo(sent)
    /\ (got \o tx) \o (pending_guest_bytes \o up_in) = UpTo(up_sent)

\* Nothing is lost, doubled or reordered in either direction, TLS or not.
StreamsKept == GuestBytesKept /\ UpstreamBytesKept

\* Guest payload is only ever handled in the turn of a guest frame.  The order
\* of HTTPS plaintext rests on it: in a writable turn process_guest_payload
\* would write new plaintext ahead of what is pending.
NoPayloadInFdTurn == pc \in {"recv", "tls", "ensure", "payload"} /\ (rd \/ wr) => rx = <<>> /\ hand = <<>>

\* Bytes pending for the upstream are written, or the session ends, once the upstream
\* has fallen silent: none is left without write interest, and bytes pending for the
\* guest, which go first, do not hold them up for ever.  Of an upstream that goes on
\* sending the code promises nothing.
PendingReachesUpstream ==
  <>[]Silent =>
    \A n \in 0 .. MaxSent + 1 :
      pending_upstream_bytes # <<>> /\ Len(out) = n ~> Len(out) > n \/ reason # "open" \/ broken

\* What the upstream has sent is read, or the session ends: read interest comes
\* back when the guest has taken what was pending for it.
UpstreamReachesGuest == up_in # <<>> ~> up_in = <<>> \/ reason # "open"

\* wra-czl0: no bytes are silently dropped under backpressure: when the guest
\* closes its side, what waited for the upstream to become writable is not lost.
NoSilentDrop ==
  ~mapped /\ sock = "CloseWait" /\ ~broken =>
    pending_upstream_bytes = <<>> /\ pending_upstream_plaintext = <<>>
=============================================================================
