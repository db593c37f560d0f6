------------------------------ MODULE QueryPage -----------------------------
(***************************************************************************)
(* The query page (QueryForm) and the handlers that answer it              *)
(* (QueryRequests), for one user: what the list shows, what the session    *)
(* has cached and what a submission is narrowed to.                        *)
(*                                                                         *)
(* Each fetch of the page is a request of its own to the service; another  *)
(* slot takes /query/teams and then the submissions, one at a time.  An    *)
(* answer may be lost on its way: the server stops writing 10 s after a    *)
(* request came in (cmd/query/main.go:66), and the handler, which may have *)
(* waited longer for GitHub, has filled the caches by then.                *)
(***************************************************************************)
EXTENDS QueryForm

CONSTANTS
  User,         \* the user, and the one session they open
  MaxChanges    \* bound: changes of memberships and grants

ASSUME PageAssumption ==
  /\ Team # {}
  /\ MaxChanges \in Nat

VARIABLES
  member, grants, changes,              \* GitHub
  live, teams, teamRepos,               \* the session and its caches
  req,                                  \* the requests in flight
  wasMember, wasGranted, ended,         \* history kept by QueryRequests
  kept,         \* history: <<team, repo>> granted at all times since the login,
                \* of teams that lost none while their list was being read
  bare,         \* history: picks whose team had no repository at some time since
  shown,        \* history: repositories listed as the picked team's when the
                \* last submission was posted
  overlapped,   \* history: teams that two requests were made for at once
  late          \* history: whether an answer to an earlier pick has come in
                \* since the last one

Main == 0       \* the slot of /query/teams and of the submissions
Slot == 0..MaxPicks

Service == INSTANCE QueryRequests WITH Session <- {User}, Request <- Slot, Text <- Repo

page    == vars
service == <<member, grants, changes, live, teams, teamRepos, req,
             wasMember, wasGranted, ended>>
past    == <<kept, bare, shown, overlapped, late>>
pvars   == <<page, service, past>>

PTypeOK ==
  /\ TypeOK
  /\ Service!TypeOK
  /\ kept \subseteq Team \X Repo
  /\ bare \subseteq 1..MaxPicks
  /\ shown \subseteq Repo
  /\ overlapped \subseteq Team
  /\ late \in BOOLEAN

PInit ==
  /\ Init
  /\ Service!Init
  /\ kept = {} /\ bare = {} /\ overlapped = {}
  /\ shown = {}
  /\ late = FALSE

-----------------------------------------------------------------------------
(* The service on its own. *)

(* The user logs in; the page is behind requireSession. *)
LogIn ==
  /\ Service!Open(User)
  /\ kept' = Service!Pairs(grants)
  /\ UNCHANGED <<page, bare, shown, overlapped, late>>

(* The user logs out in another tab, or the session ends otherwise. *)
LogOut == Service!Logout(User) /\ UNCHANGED <<page, past>>

(* A repository goes between two pages of its team's list. *)
Torn(t) ==
  /\ \E q \in Slot : Service!At(q, "askRepos") /\ req[q].team = t
  /\ ~(grants[t] \subseteq grants'[t])

GitHubChanges ==
  /\ Service!Change
  /\ kept' = {p \in kept \cap Service!Pairs(grants') : ~Torn(p[1])}
  /\ bare' = bare \cup {f[1] : f \in {g \in pending : grants'[g[2]] = {}}}
  /\ UNCHANGED <<page, shown, overlapped, late>>

Handle(q) ==
  /\ \/ Service!TeamsCached(q) \/ Service!TeamsMissing(q)
     \/ Service!AskTeams(q) \/ Service!SetTeams(q)
     \/ Service!ReposCached(q) \/ Service!ReposMissing(q)
     \/ Service!AskRepos(q) \/ Service!SetTeamRepos(q)
     \/ Service!AskFails(q)
  /\ UNCHANGED <<page, past>>

-----------------------------------------------------------------------------
(* The page calls the service. *)

InFlight(t) == \E q \in Slot :
  ~Service!At(q, "free") /\ req[q].kind # "teams" /\ req[q].team = t

RecordOverlap(t) ==
  overlapped' = IF InFlight(t) THEN overlapped \cup {t} ELSE overlapped

(* The page is loaded and asks for the teams; the team sent is not looked at. *)
AskForTeams ==
  /\ loaded = "loading"
  /\ Service!Receive(Main, User, "teams", CHOOSE t \in Team : TRUE, {})
  /\ UNCHANGED <<page, past>>

(* Without a session the fetch is redirected to GitHub, which the page      *)
(* cannot read: the slot stays free and FetchFails follows.                 *)
PickTeam(t) ==
  /\ Pick(t)
  /\ RecordOverlap(t)
  /\ bare' = IF grants[t] = {} THEN bare \cup {picks'} ELSE bare
  /\ \/ Service!Receive(picks', User, "repos", t, {})
     \/ User \notin live /\ UNCHANGED service
  /\ late' = FALSE
  /\ UNCHANGED <<kept, shown>>

(* A submission without a session leaves the page for the login. *)
PostForm ==
  /\ Submit
  /\ Service!Receive(Main, User, "run", team, Posted)
  /\ RecordOverlap(team)
  /\ shown' = {box.repo : box \in {x \in boxes : x.of = team}}
  /\ UNCHANGED <<kept, bare, late>>

-----------------------------------------------------------------------------
(* The service answers the page. *)

TeamsAnswered ==
  /\ Service!Finish(Main)
  /\ req[Main].kind = "teams"
  /\ \/ Service!At(Main, "done") /\ TeamsArrive(req[Main].teams)
     \/ TeamsFail
  /\ UNCHANGED past

RecordLate(f) ==
  /\ late' = (late \/ f[1] # picks)
  /\ UNCHANGED <<kept, bare, shown, overlapped>>

FetchAnswered(f) ==
  /\ Service!At(f[1], "done")
  /\ Service!Finish(f[1])
  /\ IF req[f[1]].repos = {} THEN EmptyListArrives(f) ELSE ReposArrive(f, req[f[1]].repos)
  /\ RecordLate(f)

(* Refused, lost, or sent to the login. *)
FetchFails(f) ==
  /\ ReposFail(f)
  /\ \/ Service!Finish(f[1])
     \/ Service!At(f[1], "free") /\ UNCHANGED service
  /\ RecordLate(f)

(* The download or an error, seen or not. *)
RunAnswered ==
  /\ req[Main].kind = "run"
  /\ Service!Finish(Main)
  /\ UNCHANGED <<page, past>>

Here ==
  /\ PickNone \/ SetAll \/ \E box \in boxes : Toggle(box)
  /\ UNCHANGED <<service, past>>

ServiceStep(q) ==
  \/ Handle(q)
  \/ \E f \in pending : f[1] = q /\ (FetchAnswered(f) \/ FetchFails(f))

PNext ==
  \/ LogIn \/ LogOut \/ GitHubChanges
  \/ \E q \in Slot : ServiceStep(q)
  \/ AskForTeams \/ TeamsAnswered
  \/ \E t \in Team : PickTeam(t)
  \/ PostForm \/ RunAnswered
  \/ Here

PSpec == PInit /\ [][PNext]_pvars

(* The fetches of the page, that for the teams and those for repositories. *)
FetchStep ==
  \/ \E q \in Slot \ {Main} : ServiceStep(q)
  \/ req[Main].kind = "teams" /\ (Handle(Main) \/ TeamsAnswered)

(* While fetches are under way one of them moves on: GitHub is given 15 s   *)
(* per page.  There are only so many, and each ends after so many steps.    *)
(* Nothing is assumed of the user or of the submissions.                    *)
PFairSpec == PSpec /\ WF_pvars(FetchStep)

-----------------------------------------------------------------------------
(* The picker offers the teams that requests are checked against, for as    *)
(* long as the page is there and whatever becomes of the memberships: no    *)
(* pick is answered with 403 (query_handler.go:180-182,215-219).            *)
OffersAreCached == loaded = "ready" => options = teams[User]

(* What the list shows is what Run works with, whatever GitHub does in the  *)
(* meantime: once the picked team's list is in, a submission with one of    *)
(* its boxes checked needs nothing from GitHub any more, is not refused,    *)
(* and queries exactly those - unless two requests for the team were in     *)
(* flight at once (query_handler.go:275-284,345-357).                       *)
Asked == req[Main].filter \cap shown

RunIsAsShown ==
  req[Main].kind = "run" /\ Asked # {} /\ req[Main].team \notin overlapped =>
    /\ req[Main].place \notin {"askTeams", "askRepos", "refused"}
    /\ req[Main].place = "done" => req[Main].repos = Asked

(* Even with such requests, a checked box of the picked team that Run drops *)
(* ("silently intersected", query_handler.go:238) was not the team's on     *)
(* GitHub at some moment since the login - unless the team lost another     *)
(* while its list was read, for then a page may miss one that was granted   *)
(* all along (user_client.go:78-100).                                       *)
DroppedWasNotGranted ==
  req[Main].kind = "run" /\ req[Main].place = "done" =>
    \A r \in Asked \ req[Main].repos : <<req[Main].team, r>> \notin kept

(* While the page says that the picked team has no repositories, there was  *)
(* a moment since it was picked when it had none: an empty list is nil and  *)
(* never served from the cache, so picking the team again helps             *)
(* (query_handler.go:346).  Late answers to earlier picks are excepted:     *)
(* their message is about another team (ListShowsPickedTeam).               *)
EmptyIsFresh == message = "empty" /\ team # NoTeam /\ ~late => picks \in bare

(* The page does not keep saying that it is loading: whatever becomes of    *)
(* the requests, the one for the teams lets the user pick or ends in an     *)
(* error, and the last fetch's answer replaces the message                  *)
(* (query_handler.go:682-694,715-726).                                      *)
LoadingEnds ==
  /\ req[Main].kind = "teams" /\ ~Service!At(Main, "free") ~> loaded # "loading"
  /\ message = "loading" /\ team # NoTeam ~> message # "loading"
=============================================================================
