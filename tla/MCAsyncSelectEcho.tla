------------------------- MODULE MCAsyncSelectEcho -------------------------
(* Two clients, and two handles to be reused; see MCAsyncSelectEcho.cfg. *)
EXTENDS AsyncSelectEcho
=============================================================================
