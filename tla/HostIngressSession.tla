--------------------------- MODULE HostIngressSession ---------------------------
(***************************************************************************)
(* The data path of one host-ingress session (host_ingress.rs): a host     *)
(* client has connected to a published port, the bridge opens a connection *)
(* to the guest's port and copies bytes both ways until either side ends.  *)
(*                                                                         *)
(* The owner loop takes one event, pumps the bridge and reaps closed guest *)
(* sockets; pc is the place in process_gateway_with_readiness.  The n-th   *)
(* chunk of either direction is the number n.  smoltcp clears a socket's   *)
(* endpoints when it becomes Closed, so that GuestTcpCore::session, and    *)
(* with it host_ingress_sessions, no longer lists it.                      *)
(***************************************************************************)
EXTENDS Naturals, Sequences

CONSTANTS
  MaxHost,        \* bound on the chunks the host client sends
  MaxGuest,       \* bound on the chunks the guest sends
  RxCapacity, TxCapacity,           \* the guest socket's buffers, in chunks
  HostLimit, GuestLimit,            \* HostIngressBufferLimits, in chunks
  ReadLimit, WriteLimit, StreamChunk  \* HostIngressPumpLimits and one read

ASSUME IngressAssumption ==
  /\ {MaxHost, MaxGuest} \subseteq Nat
  /\ {RxCapacity, TxCapacity, HostLimit, GuestLimit, ReadLimit, WriteLimit, StreamChunk}
       \subseteq Nat \ {0}
  /\ StreamChunk <= GuestLimit

VARIABLES
  sock,                  \* the guest socket: its state, "none" or "reaped"
  guest_sent, rx,        \* chunks the guest has sent; those not yet received here
  tx, got,               \* chunks in the transmit buffer; those the guest has
  mapped,                \* the session is in HostIngressBridge.sessions
  pending_host_write, pending_guest_write, guest_closed,   \* HostIngressSession
  host_sent, host_in, host_eof, broken,  \* the host client and its connection
  out,                   \* chunks written to the host client
  pc, rd, wr,            \* place in the pump; readiness of this turn
  nread,                 \* host_read_bytes of this pump
  closed,                \* the handle is in the pump's list of closed handles
  reason                 \* why the session ended, for the properties

guestvars == <<guest_sent, rx>>
txvars == <<tx, got>>
bridgevars == <<pending_host_write, pending_guest_write, guest_closed>>
hostvars == <<host_sent, host_in, host_eof, broken>>
turn == <<rd, wr>>
vars == <<sock, guestvars, txvars, mapped, bridgevars, hostvars, out, pc, turn, nread,
          closed, reason>>

Min(a, b) == IF a <= b THEN a ELSE b
Take(s, k) == SubSeq(s, 1, k)
Drop(s, k) == SubSeq(s, k + 1, Len(s))

Init ==
  /\ sock = "none" /\ guest_sent = 0 /\ rx = <<>> /\ tx = <<>> /\ got = <<>>
  /\ mapped = FALSE /\ guest_closed = FALSE
  /\ pending_host_write = <<>> /\ pending_guest_write = <<>>
  /\ host_sent = 0 /\ host_in = <<>> /\ host_eof = FALSE /\ broken = FALSE
  /\ out = <<>>
  /\ pc = "select" /\ rd = FALSE /\ wr = FALSE /\ nread = 0
  /\ closed = FALSE /\ reason = "open"

\* host_ingress_sessions: the sockets that have endpoints.
Listed == sock \notin {"none", "Closed", "reaped"}

-----------------------------------------------------------------------------
(* Events of the owner loop.  A frame or a timer makes every host-ingress  *)
(* session ready; any other event only the one it names.                   *)

Turn(r, w) == /\ pc = "select" /\ pc' = "flush" /\ rd' = r /\ wr' = w
              /\ nread' = 0 /\ closed' = FALSE

\* accept_ready, the accept queue and open_host_ingress_session: the guest gets
\* a SYN, or connect_host_to_guest fails and the connection is dropped.
Open ==
  /\ sock = "none"
  /\ \/ sock' = "SynSent" /\ mapped' = TRUE /\ UNCHANGED reason
     \/ sock' = "reaped" /\ UNCHANGED mapped /\ reason' = "not_opened"
  /\ Turn(FALSE, FALSE)
  /\ UNCHANGED <<guestvars, txvars, bridgevars, hostvars, out>>

\* SYN-ACK.
GuestAccepts ==
  /\ sock = "SynSent" /\ sock' = "Established"
  /\ Turn(TRUE, TRUE)
  /\ UNCHANGED <<guestvars, txvars, mapped, bridgevars, hostvars, out, reason>>

Segment == /\ guest_sent < MaxGuest /\ Len(rx) < RxCapacity
           /\ guest_sent' = guest_sent + 1
           /\ rx' = Append(rx, guest_sent')

GuestData ==
  /\ sock \in {"Established", "FinWait"} /\ Segment
  /\ Turn(TRUE, TRUE)
  /\ UNCHANGED <<sock, txvars, mapped, bridgevars, hostvars, out, reason>>

GuestAck ==
  /\ Listed
  /\ \E k \in 1 .. Len(tx) : got' = got \o Take(tx, k) /\ tx' = Drop(tx, k)
  /\ Turn(TRUE, TRUE)
  /\ UNCHANGED <<sock, guestvars, mapped, bridgevars, hostvars, out, reason>>

\* FIN, with or without a last segment; it answers our own FIN in FinWait.
GuestFin ==
  /\ sock \in {"Established", "FinWait"}
  /\ sock' = IF sock = "Established" THEN "CloseWait" ELSE "TimeWait"
  /\ Segment \/ UNCHANGED guestvars
  /\ Turn(TRUE, TRUE)
  /\ UNCHANGED <<txvars, mapped, bridgevars, hostvars, out, reason>>

\* RST, which is also how a guest refuses a connection; or the ACK of our FIN in
\* LastAck.
GuestReset ==
  /\ Listed
  /\ sock' = "Closed"
  /\ Turn(TRUE, TRUE)
  /\ UNCHANGED <<guestvars, txvars, mapped, bridgevars, hostvars, out, reason>>

\* A frame or a timer that does not concern the session, or the end of TimeWait.
Timer ==
  /\ sock \notin {"none", "reaped"}
  /\ sock' = IF sock = "TimeWait" THEN "Closed" ELSE sock
  /\ Turn(TRUE, TRUE)
  /\ UNCHANGED <<guestvars, txvars, mapped, bridgevars, hostvars, out, reason>>

\* A service completion, or another connection that is ready.
OtherEvent ==
  /\ mapped
  /\ Turn(FALSE, FALSE)
  /\ UNCHANGED <<sock, guestvars, txvars, mapped, bridgevars, hostvars, out, reason>>

\* FdReady of the session's connection, with the interest of session_interest.
HostReadable ==
  /\ mapped /\ ~guest_closed /\ pending_guest_write = <<>>
  /\ host_in # <<>> \/ host_eof \/ broken
  /\ Turn(TRUE, FALSE)
  /\ UNCHANGED <<sock, guestvars, txvars, mapped, bridgevars, hostvars, out, reason>>

\* Mutant: no write interest once the guest has closed.
Mut_HostWritable_WhileOpen ==
  /\ mapped /\ pending_host_write # <<>> /\ ~guest_closed
  /\ Turn(FALSE, TRUE)
  /\ UNCHANGED <<sock, guestvars, txvars, mapped, bridgevars, hostvars, out, reason>>

HostWritable ==
  /\ mapped /\ pending_host_write # <<>>
  /\ Turn(FALSE, TRUE)
  /\ UNCHANGED <<sock, guestvars, txvars, mapped, bridgevars, hostvars, out, reason>>

\* open_session for a later connection: SocketSet::add hands out the reaped
\* handle again and sessions.insert drops what the bridge still had under it.
HandleReused ==
  /\ mapped /\ sock = "reaped" /\ pc = "select"
  /\ mapped' = FALSE /\ reason' = "replaced"
  /\ UNCHANGED <<sock, guestvars, txvars, bridgevars, hostvars, out, pc, turn, nread, closed>>

-----------------------------------------------------------------------------
(* process_gateway_with_readiness, then reap_closed_sessions. *)

\* send_pending_guest_write: what of p fits goes to the transmit buffer.
SendGuest(p) ==
  LET k == Min(Len(p), TxCapacity - Len(tx)) IN
  /\ tx' = tx \o Take(p, k)
  /\ pending_guest_write' = Drop(p, k)
  /\ UNCHANGED got

\* close_tcp_session and closed.push.
Close(why) ==
  /\ sock' = CASE sock = "Established" -> "FinWait"
               [] sock = "CloseWait" -> "LastAck"
               [] OTHER -> sock
  /\ closed' = TRUE
  /\ reason' = IF reason = "open" THEN why ELSE reason
KeepOpen == UNCHANGED <<sock, closed, reason>>

\* A session that is not listed, not in the bridge or not yet open is passed
\* over; reap_closed_sessions then removes a Closed socket.
Skip ==
  /\ pc = "flush"
  /\ ~mapped \/ ~Listed \/ sock = "SynSent"
  /\ sock' = IF sock = "Closed" THEN "reaped" ELSE sock
  /\ pc' = "select"
  /\ UNCHANGED <<guestvars, txvars, mapped, bridgevars, hostvars, out, turn, nread, closed, reason>>

\* Mutant: what is pending is sent only with the next read.
Mut_Flush_Reads ==
  /\ pc = "flush" /\ mapped /\ Listed /\ sock # "SynSent"
  /\ pc' = IF sock = "Established" /\ rd /\ pending_guest_write = <<>> THEN "read" ELSE "recv"
  /\ UNCHANGED <<sock, guestvars, txvars, mapped, bridgevars, hostvars, out,
                 turn, nread, closed, reason>>

\* An open session first sends what is pending for the guest, and reads the
\* client only when nothing is left of it.
Flush ==
  /\ pc = "flush" /\ mapped /\ Listed /\ sock # "SynSent"
  /\ IF sock = "Established"
     THEN SendGuest(pending_guest_write)
     ELSE UNCHANGED <<txvars, pending_guest_write>>
  /\ pc' = IF sock = "Established" /\ rd /\ pending_guest_write' = <<>> THEN "read" ELSE "recv"
  /\ UNCHANGED <<sock, guestvars, mapped, pending_host_write, guest_closed, hostvars, out,
                 turn, nread, closed, reason>>

\* read_available gives a payload: extend_pending_buffer, then as much as fits
\* is sent; the loop ends when some is left or the limit of the pump is reached.
ReadChunk ==
  /\ pc = "read" /\ ~broken /\ host_in # <<>> /\ nread < ReadLimit
  /\ \E n \in 1 .. Min(Min(Len(host_in), ReadLimit - nread), StreamChunk) :
       /\ host_in' = Drop(host_in, n)
       /\ nread' = nread + n
       /\ IF Len(pending_guest_write) + n > GuestLimit
          THEN Close("guest_limit") /\ UNCHANGED <<txvars, pending_guest_write>>
          ELSE SendGuest(pending_guest_write \o Take(host_in, n)) /\ KeepOpen
  /\ pc' = IF pending_guest_write' # <<>> \/ nread' >= ReadLimit \/ closed'
           THEN "recv" ELSE "read"
  /\ UNCHANGED <<guestvars, mapped, pending_host_write, guest_closed, host_sent, host_eof,
                 broken, out, turn>>

\* Mutant: the end of the stream is reported before its last bytes.
Mut_ReadEnds_EofFirst ==
  /\ pc = "read" /\ (broken \/ host_in = <<>> \/ host_eof)
  /\ IF broken THEN Close("host_failed")
     ELSE IF host_eof THEN Close("host_closed") ELSE KeepOpen
  /\ pc' = "recv"
  /\ UNCHANGED <<guestvars, txvars, mapped, bridgevars, hostvars, out, turn, nread>>

\* read_available gives an error, the end of the stream, or would block.
ReadEnds ==
  /\ pc = "read" /\ (broken \/ host_in = <<>>)
  /\ IF broken THEN Close("host_failed")
     ELSE IF host_eof THEN Close("host_closed") ELSE KeepOpen
  /\ pc' = "recv"
  /\ UNCHANGED <<guestvars, txvars, mapped, bridgevars, hostvars, out, turn, nread>>

\* write_pending_best_effort of what p holds.
WriteHost(p) ==
  IF broken
  THEN /\ Close("host_failed")
       /\ pending_host_write' = p /\ UNCHANGED out
  ELSE /\ \E k \in 0 .. Min(Len(p), WriteLimit) :
            out' = out \o Take(p, k) /\ pending_host_write' = Drop(p, k)
       /\ KeepOpen

\* Mutant: what arrived in this turn is written ahead of what is pending.
Mut_Recv_NewFirst ==
  /\ pc = "recv"
  /\ rx' = <<>> /\ UNCHANGED guest_sent
  /\ IF Len(pending_host_write) + Len(rx) > HostLimit
     THEN Close("host_limit") /\ UNCHANGED <<out, pending_host_write>>
     ELSE IF rx # <<>> \/ (wr /\ pending_host_write # <<>>)
     THEN WriteHost(rx \o pending_host_write)
     ELSE KeepOpen /\ UNCHANGED <<out, pending_host_write>>
  /\ pc' = IF reason' = "host_limit" THEN "remove" ELSE "end"
  /\ UNCHANGED <<txvars, mapped, pending_guest_write, guest_closed, hostvars, turn, nread>>

\* Mutant: pending_host_write has no limit.
Mut_Recv_NoLimit ==
  /\ pc = "recv"
  /\ rx' = <<>> /\ UNCHANGED guest_sent
  /\ pc' = "end"
  /\ IF rx # <<>> \/ (wr /\ pending_host_write # <<>>)
     THEN WriteHost(pending_host_write \o rx)
     ELSE KeepOpen /\ UNCHANGED <<out, pending_host_write>>
  /\ UNCHANGED <<txvars, mapped, pending_guest_write, guest_closed, hostvars, turn, nread>>

\* recv_tcp_session: guest bytes join what is pending and are written at once;
\* without any, what is pending is written when the connection is writable.
Recv ==
  /\ pc = "recv"
  /\ rx' = <<>> /\ UNCHANGED guest_sent
  /\ IF rx # <<>> /\ Len(pending_host_write) + Len(rx) > HostLimit
     THEN Close("host_limit") /\ UNCHANGED <<out, pending_host_write>> /\ pc' = "remove"
     ELSE /\ pc' = "end"
          /\ IF rx # <<>> \/ (wr /\ pending_host_write # <<>>)
             THEN WriteHost(pending_host_write \o rx)
             ELSE KeepOpen /\ UNCHANGED <<out, pending_host_write>>
  /\ UNCHANGED <<txvars, mapped, pending_guest_write, guest_closed, hostvars, turn, nread>>

\* Mutant: the state of the guest is not remembered.
Mut_GuestClosed_Forgets ==
  /\ pc = "end" /\ pc' = "remove"
  /\ UNCHANGED <<sock, guestvars, txvars, mapped, bridgevars, hostvars, out, turn, nread,
                 closed, reason>>

\* A guest that has closed ends the session once nothing is left to write; its
\* socket is not closed.
GuestClosed ==
  /\ pc = "end"
  /\ guest_closed' = (guest_closed \/ sock \in {"CloseWait", "LastAck"})
  /\ closed' = (closed \/ (guest_closed' /\ pending_host_write = <<>>))
  /\ reason' = IF reason = "open" /\ closed' THEN "guest_closed" ELSE reason
  /\ pc' = "remove"
  /\ UNCHANGED <<sock, guestvars, txvars, mapped, pending_host_write, pending_guest_write,
                 hostvars, out, turn, nread>>

\* The closed handles leave the bridge.
Remove ==
  /\ pc = "remove"
  /\ mapped' = ~closed
  /\ pc' = "select"
  /\ UNCHANGED <<sock, guestvars, txvars, bridgevars, hostvars, out, turn, nread, closed, reason>>

-----------------------------------------------------------------------------
(* The host client, whose bytes may arrive before the guest answers. *)

Connected == mapped \/ sock = "none"

HostSends ==
  /\ Connected /\ ~host_eof /\ ~broken /\ host_sent < MaxHost
  /\ host_sent' = host_sent + 1 /\ host_in' = Append(host_in, host_sent')
  /\ UNCHANGED <<sock, guestvars, txvars, mapped, bridgevars, host_eof, broken, out, pc,
                 turn, nread, closed, reason>>

HostEnds ==
  /\ Connected /\ ~broken
  /\ \/ ~host_eof /\ host_eof' = TRUE /\ UNCHANGED broken
     \/ broken' = TRUE /\ UNCHANGED host_eof
  /\ UNCHANGED <<sock, guestvars, txvars, mapped, bridgevars, host_sent, host_in, out, pc,
                 turn, nread, closed, reason>>

Event == \/ Open \/ GuestAccepts \/ GuestData \/ GuestAck \/ GuestFin \/ GuestReset \/ Timer
         \/ OtherEvent \/ HostReadable \/ HostWritable
PumpStep == \/ Skip \/ Flush \/ ReadChunk \/ ReadEnds \/ Recv \/ GuestClosed \/ Remove
Next == Event \/ PumpStep \/ HandleReused \/ HostSends \/ HostEnds

Spec == Init /\ [][Next]_vars

\* The loop goes on; select! takes a ready connection sooner or later; a client
\* that reads makes room; the guest answers a SYN and acknowledges data.
Fairness ==
  /\ WF_vars(PumpStep)
  /\ SF_vars(Open) /\ SF_vars(GuestAccepts) /\ SF_vars(GuestAck)
  /\ SF_vars(HostReadable) /\ SF_vars(HostWritable)
  /\ SF_vars(Recv /\ out' # out)

FairSpec == Spec /\ Fairness

-----------------------------------------------------------------------------
(* Properties. *)

UpTo(n) == [i \in 1 .. n |-> i]

\* The variables have their types, and no buffer exceeds its limit.
TypeOK ==
  /\ sock \in {"none", "SynSent", "Established", "CloseWait", "FinWait", "LastAck",
               "TimeWait", "Closed", "reaped"}
  /\ guest_sent \in 0 .. MaxGuest /\ host_sent \in 0 .. MaxHost
  /\ rx \in Seq(1 .. MaxGuest) /\ Len(rx) <= RxCapacity
  /\ tx \in Seq(1 .. MaxHost) /\ Len(tx) <= TxCapacity
  /\ got \in Seq(1 .. MaxHost) /\ host_in \in Seq(1 .. MaxHost)
  /\ out \in Seq(1 .. MaxGuest)
  /\ pending_host_write \in Seq(1 .. MaxGuest) /\ Len(pending_host_write) <= HostLimit
  /\ pending_guest_write \in Seq(1 .. MaxHost) /\ Len(pending_guest_write) <= GuestLimit
  /\ {mapped, guest_closed, host_eof, broken, rd, wr, closed} \subseteq BOOLEAN
  /\ pc \in {"select", "flush", "read", "recv", "end", "remove"}
  /\ nread \in 0 .. ReadLimit
  /\ reason \in {"open", "not_opened", "guest_limit", "host_limit", "host_failed",
                 "host_closed", "guest_closed", "replaced"}

\* While the session is open every chunk the host client has sent is with the
\* guest, in the transmit buffer, pending or unread, once and in order.
HostBytesKept ==
  reason = "open" => got \o tx \o pending_guest_write \o host_in = UpTo(host_sent)

\* While the session is open every chunk of the guest is with the host client,
\* pending or not yet received, once and in order.
GuestBytesKept ==
  reason = "open" => out \o pending_host_write \o rx = UpTo(guest_sent)

\* Nothing is lost, doubled or reordered in either direction.
StreamsKept == HostBytesKept /\ GuestBytesKept

\* A host client sees the end of the guest's stream only after all of its data:
\* GuestClosed waits until pending_host_write is empty.
HostEofAfterData == reason = "guest_closed" => out = UpTo(guest_sent)

\* The guest sees the end of the client's stream only after all of its data: the
\* connection is not read to its end while anything is pending for the guest.
GuestEofAfterData == reason = "host_closed" => got \o tx = UpTo(host_sent)

\* Neither side is told of an end of stream with data of the other still here.
EofAfterData == HostEofAfterData /\ GuestEofAfterData

\* What is pending for the host client is written, or the session ends, also
\* when the guest has closed meanwhile; unless the guest resets the connection.
PendingReachesHost ==
  pending_host_write # <<>> ~>
    pending_host_write = <<>> \/ reason # "open" \/ broken \/ ~Listed

\* What the client has sent is read, or the session ends: read interest comes
\* back when the guest has taken what was pending for it.
HostReachesGuest == host_in # <<>> ~> host_in = <<>> \/ reason # "open" \/ guest_closed \/ ~Listed

\* A guest's FIN ends the session: the client observes the end of the stream.
GuestFinEnds == sock = "CloseWait" ~> ~mapped \/ broken \/ ~Listed

\* wra-b6iu: the bridge "processes guest closed states ... drops the host
\* connection so clients observe EOF, and removes the bridge session": a
\* connection the guest refused or reset is not kept.
GuestResetEnds == sock = "Closed" ~> ~mapped
=============================================================================
