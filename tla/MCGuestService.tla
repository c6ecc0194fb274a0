--------------------------- MODULE MCGuestService ---------------------------
(* Model checking of GuestService: two clients, one of which can hold the slot  *)
(* while the other asks for it, runs a diagnostic or is refused, and terminal   *)
(* buffers so small that output and input both back up.                         *)
EXTENDS GuestService

CONSTANTS c1, c2
=============================================================================
