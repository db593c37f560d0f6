----------------------------- MODULE MCUserPages ----------------------------
(* The instances of UserPages that TLC checks: four items, one of them a    *)
(* team that is not shown.                                                  *)
EXTENDS UserPages

MCItem == 1..4
MCKept == {1, 2, 4}
=============================================================================
