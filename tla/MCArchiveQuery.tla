--------------------------- MODULE MCArchiveQuery ---------------------------
(* The instances of ArchiveQuery that TLC checks: an event on each of two   *)
(* days, one at the last instant of a day, one without a timestamp; two of  *)
(* another repository or action.                                            *)
EXTENDS ArchiveQuery, TLC

CONSTANTS d1, d2, d3, d4, p1, p2, ruleset, rejected, member, create

MCAudit ==
  (d1 :> [repo |-> p1, action |-> ruleset,  at |-> 0]) @@
  (d2 :> [repo |-> p1, action |-> member,   at |-> 1]) @@
  (d3 :> [repo |-> p2, action |-> rejected, at |-> 2]) @@
  (d4 :> [repo |-> p1, action |-> create,   at |-> Undated])

MCDoc == {d1, d2, d3, d4}
MCRepo == {p1, p2}
MCAction == {ruleset, rejected, member, create}
MCTyped == {member}
MCPrefixed == {ruleset, rejected}
MCListed == {member}
MCExcluded == {rejected}
MCDay == 0..1
=============================================================================
