--------------------------- MODULE MCAuthManager ---------------------------
(***************************************************************************)
(* Two threads that authenticate users again and again.                    *)
(***************************************************************************)
EXTENDS AuthManager
=============================================================================
