------------------------------ MODULE MCPlayers ------------------------------
(* Two players on two I/O threads; see MCPlayers.cfg. *)
EXTENDS Players
=============================================================================
