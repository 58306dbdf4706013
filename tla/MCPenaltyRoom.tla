--------------------------- MODULE MCPenaltyRoom ---------------------------
(* Small instances of PenaltyRoom for TLC. *)
EXTENDS PenaltyRoomProperties

=============================================================================
