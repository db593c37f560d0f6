----------------------------- MODULE MCQueryForm ----------------------------
(* The instance of QueryForm that TLC checks. *)
EXTENDS QueryForm
=============================================================================
