---------------------------- MODULE MCRWSpinlock ----------------------------
(* The lock among a few threads; see the MCRWSpinlock*.cfg. *)
EXTENDS RWSpinlock
=============================================================================
