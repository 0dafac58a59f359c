--------------------------- MODULE MCOAuthRefresh ---------------------------
(* The instance of OAuthRefresh that TLC checks: two processes, two requests *)
(* of administrators at a time, one grant after the first, and three events, *)
(* so that a manual refresh can overlap a reauthorisation beside a fault, and *)
(* all attempts of a cycle can fail.                                         *)
EXTENDS OAuthRefresh, TLC

=============================================================================
