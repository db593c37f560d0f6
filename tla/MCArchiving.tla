----------------------------- MODULE MCArchiving ----------------------------
(* The instances of Archiving that TLC checks. *)
EXTENDS Archiving, TLC

Interchangeable == Permutations(Flow \ Revocable)
=============================================================================
