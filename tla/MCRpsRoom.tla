----------------------------- MODULE MCRpsRoom -----------------------------
(* Small instances of RpsRoom for TLC. *)
EXTENDS RpsRoomProperties

=============================================================================
