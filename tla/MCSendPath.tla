----------------------------- MODULE MCSendPath -----------------------------
(* One session served by a few I/O threads; see the MCSendPath*.cfg. *)
EXTENDS SendPath
=============================================================================
