----------------------------- MODULE MCBackoff -----------------------------
(***************************************************************************)
(* Two goroutines with two attempts each; at most two attempts are signed  *)
(* in a tick and two are throttled.                                        *)
(***************************************************************************)
EXTENDS Backoff
=============================================================================
