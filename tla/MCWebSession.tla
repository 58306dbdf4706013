----------------------------- MODULE MCWebSession -----------------------------
(* Small instances of WebSession for TLC. *)
EXTENDS WebSession

CONSTANTS alice, g1, g2

(* A first visit, and one after a visit as a member or as a guest. *)
MCVisits == {<<>>} \cup {<<Row(u, 0)>> : u \in {alice, g1}}

=============================================================================
