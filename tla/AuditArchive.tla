---------------------------- MODULE AuditArchive ----------------------------
(***************************************************************************)
(* What the ingest service promises, whatever happens inside it: a growing *)
(* set of archived Audit Events and a resume point that never overtakes    *)
(* it.  Events are numbered 1, 2, ... in the order GitHub lists them       *)
(* (order=asc).  The first `expired' of them have left GitHub's retention  *)
(* window and can no longer be fetched by anybody.                         *)
(***************************************************************************)
EXTENDS Integers

CONSTANT MaxEvents          \* bound: the number of Audit Events ever published

VARIABLES
  published,    \* how many Audit Events GitHub has published
  expired,      \* how many of them have left the retention window
  archived,     \* the events that have at least one row in the Archive
  resume        \* where the next Ingest Run starts: after this event

vars == <<published, expired, archived, resume>>

Event == 1..MaxEvents

(* Nothing up to p is left for a later run to fetch. *)
Settled(p) == \A e \in 1..p : e \in archived \/ e <= expired

TypeOK ==
  /\ published \in 0..MaxEvents
  /\ expired \in 0..published
  /\ archived \subseteq 1..published
  /\ resume \in 0..published

Init ==
  /\ published = 0
  /\ expired = 0
  /\ archived = {}
  /\ resume = 0

Publish ==
  /\ published < MaxEvents
  /\ published' = published + 1
  /\ UNCHANGED <<expired, archived, resume>>

Expire ==
  /\ expired < published
  /\ expired' = expired + 1
  /\ UNCHANGED <<published, archived, resume>>

(* Rows are only ever added, and only for events GitHub has published. *)
Append(S) ==
  /\ S \subseteq 1..published
  /\ archived' = archived \cup S
  /\ UNCHANGED <<published, expired, resume>>

(* The resume point may go forward or back, but only to a settled place. *)
Resume(p) ==
  /\ Settled(p)
  /\ resume' = p
  /\ UNCHANGED <<published, expired, archived>>

Next ==
  \/ Publish
  \/ Expire
  \/ \E S \in SUBSET (1..published) : Append(S)
  \/ \E p \in 0..published : Resume(p)

Spec == Init /\ [][Next]_vars
=============================================================================
