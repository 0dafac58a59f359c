----------------------- MODULE MCAuthCacheInvalidation -----------------------
(***************************************************************************)
(* Two instances and up to MaxVersion changes of the key.                  *)
(***************************************************************************)
EXTENDS AuthCacheInvalidation

CONSTANTS i1, i2
=============================================================================
