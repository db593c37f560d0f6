------------------------------ MODULE MCIngest ------------------------------
(* The instances of Ingest that TLC checks. *)
EXTENDS Ingest, TLC

(* Replicas and authorization flows are interchangeable: none is singled    *)
(* out by the specification.  Only used where no liveness is checked.       *)
Interchangeable == Permutations(Replica) \cup Permutations(Flow \ Revocable)
=============================================================================
