----------------------------- MODULE MCDuelClient -----------------------------
(* Small instances of DuelClient for TLC. *)
EXTENDS DuelClient
=============================================================================
