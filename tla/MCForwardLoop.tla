--------------------------- MODULE MCForwardLoop ---------------------------
(* One instrument and the one trade it has, with one request that fails. *)
EXTENDS ForwardLoop
=============================================================================
