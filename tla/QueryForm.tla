------------------------------ MODULE QueryForm -----------------------------
(***************************************************************************)
(* The query page in the user's browser (queryFormHTML in                  *)
(* internal/oauth/query_handler.go): a team is picked, its repositories    *)
(* are fetched and listed as checkboxes, and the form posts the team and   *)
(* the checked repositories.  What the service answers is left open here;  *)
(* QueryPage puts the handlers behind the page.                            *)
(*                                                                         *)
(* Every fetch is asynchronous and none is ever aborted: the user may pick *)
(* another team, or the same one again, while answers are outstanding, and *)
(* answers arrive in any order.                                            *)
(***************************************************************************)
EXTENDS Integers, FiniteSets

CONSTANTS
  Team, Repo,
  NoTeam,       \* the placeholder option, value ''
  MaxPicks      \* bound: times the user picks a team

ASSUME ConstantsAssumption ==
  /\ NoTeam \notin Team
  /\ MaxPicks \in Nat

VARIABLES
  loaded,       \* the team picker: "loading", "ready" or "failed"
  options,      \* the teams it offers beside the placeholder
  team,         \* its value
  picks,        \* times it has changed
  pending,      \* fetches under way: <<number of the pick, team>>
  boxes,        \* checkboxes in the list: [pick, of, repo], one per child
  checked,      \* those that are checked
  disabled,     \* submit.disabled
  message       \* repoMsg: "hidden", "loading", "empty" or "error"

picker == <<loaded, options>>
vars   == <<picker, team, picks, pending, boxes, checked, disabled, message>>

Box == [pick: 1..MaxPicks, of: Team, repo: Repo]

TypeOK ==
  /\ loaded \in {"loading", "ready", "failed"}
  /\ options \subseteq Team
  /\ team \in options \cup {NoTeam}
  /\ picks \in 0..MaxPicks
  /\ pending \subseteq (1..MaxPicks) \X Team
  /\ boxes \subseteq Box
  /\ checked \subseteq boxes
  /\ disabled \in BOOLEAN
  /\ message \in {"hidden", "loading", "empty", "error"}

Init ==
  /\ loaded = "loading" /\ options = {}
  /\ team = NoTeam
  /\ picks = 0
  /\ pending = {}
  /\ boxes = {} /\ checked = {}
  /\ disabled = TRUE
  /\ message = "loading"

(* The answer to /query/teams: the picker is enabled, unless the user has   *)
(* no team or the call failed.                                              *)
TeamsArrive(list) ==
  /\ loaded = "loading"
  /\ options' = list
  /\ loaded' = IF list = {} THEN "failed" ELSE "ready"
  /\ UNCHANGED <<team, picks, pending, boxes, checked, disabled, message>>

TeamsFail ==
  /\ loaded = "loading"
  /\ loaded' = "failed"
  /\ UNCHANGED <<options, team, picks, pending, boxes, checked, disabled, message>>

(* Mutant of Pick: the button stays enabled. *)
PickStaysEnabled(t) ==
  /\ t \in options \ {team}
  /\ picks < MaxPicks
  /\ team' = t
  /\ picks' = picks + 1
  /\ boxes' = {} /\ checked' = {}
  /\ message' = "loading"
  /\ pending' = pending \cup {<<picks + 1, t>>}
  /\ UNCHANGED <<picker, disabled>>

(* The picker changes to a team: clear the list and fetch that team's repos. *)
Pick(t) ==
  /\ t \in options \ {team}
  /\ picks < MaxPicks
  /\ team' = t
  /\ picks' = picks + 1
  /\ disabled' = TRUE
  /\ boxes' = {} /\ checked' = {}
  /\ message' = "loading"
  /\ pending' = pending \cup {<<picks + 1, t>>}
  /\ UNCHANGED picker

(* The picker changes back to the placeholder: the list is hidden. *)
PickNone ==
  /\ team # NoTeam
  /\ picks < MaxPicks
  /\ team' = NoTeam
  /\ picks' = picks + 1
  /\ disabled' = TRUE
  /\ boxes' = {} /\ checked' = {}
  /\ UNCHANGED <<picker, pending, message>>

(* The boxes an answer appends, all of them checked. *)
NewBoxes(f, list) == {[pick |-> f[1], of |-> f[2], repo |-> r] : r \in list}

(* /query/repos answers: nothing looks at which team is picked by now. *)
ReposArrive(f, list) ==
  /\ f \in pending
  /\ list # {}
  /\ pending' = pending \ {f}
  /\ boxes' = boxes \cup NewBoxes(f, list)
  /\ checked' = checked \cup NewBoxes(f, list)
  /\ message' = "hidden"
  /\ disabled' = FALSE
  /\ UNCHANGED <<picker, team, picks>>

(* A message whose paragraph an earlier answer has hidden stays unseen. *)
Say(text) == message' = IF message = "hidden" THEN "hidden" ELSE text

EmptyListArrives(f) ==
  /\ f \in pending
  /\ pending' = pending \ {f}
  /\ Say("empty")
  /\ UNCHANGED <<picker, team, picks, boxes, checked, disabled>>

(* Mutant of ReposFail: the rejection is not caught. *)
ReposFailUncaught(f) ==
  /\ f \in pending
  /\ pending' = pending \ {f}
  /\ UNCHANGED <<picker, team, picks, boxes, checked, disabled, message>>

ReposFail(f) ==
  /\ f \in pending
  /\ pending' = pending \ {f}
  /\ Say("error")
  /\ UNCHANGED <<picker, team, picks, boxes, checked, disabled>>

Toggle(box) ==
  /\ box \in boxes
  /\ checked' = IF box \in checked THEN checked \ {box} ELSE checked \cup {box}
  /\ UNCHANGED <<picker, team, picks, pending, boxes, disabled, message>>

(* The two buttons beside the filter box. *)
SetAll ==
  /\ boxes # {}
  /\ checked' \in {boxes, {}}
  /\ UNCHANGED <<picker, team, picks, pending, boxes, disabled, message>>

(* The form is posted: a required picker, and no submission while disabled. *)
(* The page stays, for the answer is a download.                            *)
Submit ==
  /\ ~disabled
  /\ team # NoTeam
  /\ UNCHANGED vars

Posted == {box.repo : box \in checked}

Next ==
  \/ \E list \in SUBSET Team : TeamsArrive(list)
  \/ TeamsFail \/ PickNone \/ SetAll \/ Submit
  \/ \E t \in Team : Pick(t)
  \/ \E f \in pending :
       \/ \E list \in SUBSET Repo : ReposArrive(f, list)
       \/ EmptyListArrives(f) \/ ReposFail(f)
  \/ \E box \in boxes : Toggle(box)

Spec == Init /\ [][Next]_vars

-----------------------------------------------------------------------------
(* The button is enabled only while there is a list that was loaded after   *)
(* the last pick, right team or wrong (query_handler.go:650,689).           *)
EnabledMeansListed == ~disabled => boxes # {} /\ message # "loading"

(* "that team's repos are then fetched (/query/repos?team=) and shown as a  *)
(* checkbox list" (query_handler.go:490-491): whenever the form can be      *)
(* submitted, every repository in the list is one of the picked team's.     *)
ListShowsPickedTeam ==
  ~disabled /\ team # NoTeam => \A box \in boxes : box.of = team
=============================================================================
