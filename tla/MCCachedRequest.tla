--------------------------- MODULE MCCachedRequest ---------------------------
(* Model-checking instances of CachedRequest. *)
EXTENDS CachedRequest
=============================================================================
