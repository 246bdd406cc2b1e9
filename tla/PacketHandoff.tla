---------------------------- MODULE PacketHandoff ----------------------------
(***************************************************************************)
(* What ICaptureDevice promises the main window about captured packets:    *)
(* every packet the device completes is handed over once, in the order of  *)
(* completion, and a hand-over gives everything completed so far.          *)
(* put is the sequence of all packets completed, got the sequence of all   *)
(* packets handed over.                                                    *)
(***************************************************************************)
EXTENDS Naturals, Sequences

VARIABLES put, got

vars == <<put, got>>

Init ==
  /\ put = <<>>
  /\ got = <<>>

\* The device completes one packet (addPacket).
Put ==
  /\ Len(put') = Len(put) + 1
  /\ SubSeq(put', 1, Len(put)) = put
  /\ UNCHANGED got

\* The main window fetches all it has not fetched yet (getPackets).
GetAll ==
  /\ got' = put
  /\ UNCHANGED put

Next == Put \/ GetAll

Spec == Init /\ [][Next]_vars

=============================================================================
