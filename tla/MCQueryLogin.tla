---------------------------- MODULE MCQueryLogin ----------------------------
(* The instances of QueryLogin that TLC checks. *)
EXTENDS QueryLogin, TLC

(* Nonces are interchangeable, and so are session IDs. *)
Interchangeable == Permutations(Nonce) \cup Permutations(Id)
=============================================================================
