--------------------------- MODULE MCQueryRequests --------------------------
(* The instances of QueryRequests that TLC checks. *)
EXTENDS QueryRequests, TLC

(* Request slots are interchangeable, and so are repositories. *)
Interchangeable == Permutations(Request) \cup Permutations(Repo)
=============================================================================
