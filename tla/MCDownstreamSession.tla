------------------------- MODULE MCDownstreamSession -------------------------
(* Three streams, of any use, POSTs, and a window shorter than what is sent. *)
EXTENDS DownstreamSession
=============================================================================
