------------------------ MODULE MCGrandCentralExecuter ------------------------
(* A few I/O threads dispatching; see MCGrandCentralExecuter.cfg. *)
EXTENDS GrandCentralExecuter
=============================================================================
