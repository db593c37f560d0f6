--------------------------- MODULE QueryRequests ----------------------------
(***************************************************************************)
(* The requests of logged-in users of the query service: Teams, Repos and  *)
(* Run (internal/oauth/query_handler.go) over the per-session caches of    *)
(* internal/oauth/session.go, while GitHub's memberships change, sessions  *)
(* end and several requests of one session are in flight at once.          *)
(*                                                                         *)
(* A handler takes its session once, in requireSession, and keeps the      *)
(* pointer; it reads a cache, asks GitHub page by page without holding the *)
(* lock, and writes the cache afterwards.  Each of these is an action,     *)
(* together with the local computation up to the next.  The caches hold    *)
(* slices: a list that came back empty is nil, which reads as "not yet     *)
(* fetched", so {} stands for both.                                        *)
(***************************************************************************)
EXTENDS FiniteSets, Integers

CONSTANTS
  Session,      \* one session per user
  Team,
  Repo,
  Text,         \* what a client may post as repositories: any text
  Request,      \* requests in flight at the same time
  MaxChanges    \* bound: changes of memberships and grants

ASSUME ConstantsAssumption ==
  /\ Session # {} /\ Team # {} /\ Repo \subseteq Text
  /\ MaxChanges \in Nat

VARIABLES
  member,       \* [Session -> teams the user belongs to on GitHub]
  grants,       \* [Team -> repositories the team can access on GitHub]
  changes,
  live,         \* sessions in the store
  teams,        \* [Session -> cached teams]
  teamRepos,    \* [Session -> [Team -> cached repositories]]
  req,          \* the request in each slot
  wasMember,    \* history: teams the user has belonged to since the login
  wasGranted,   \* history: [Session -> {<<team, repo>>}] granted since the login
  ended         \* history: sessions that have logged out

github  == <<member, grants, changes>>
caches  == <<teams, teamRepos>>
history == <<wasMember, wasGranted, ended>>
vars    == <<github, live, caches, req, history>>

Kind == {"teams", "repos", "run"}
Place == {"free", "teams", "askTeams", "setTeams", "repos", "askRepos", "setRepos",
          "done", "refused"}
Form == [sess: Session, kind: Kind, team: Team, filter: SUBSET Text, place: Place,
         teams: SUBSET Team, repos: SUBSET Repo, unread: SUBSET (Team \cup Repo)]

TypeOK ==
  /\ member \in [Session -> SUBSET Team]
  /\ grants \in [Team -> SUBSET Repo]
  /\ changes \in 0..MaxChanges
  /\ live \subseteq Session
  /\ teams \in [Session -> SUBSET Team]
  /\ teamRepos \in [Session -> [Team -> SUBSET Repo]]
  /\ req \in [Request -> Form]
  /\ wasMember \in [Session -> SUBSET Team]
  /\ wasGranted \in [Session -> SUBSET (Team \X Repo)]
  /\ ended \subseteq Session

Pairs(g) == UNION {{t} \X g[t] : t \in Team}

Idle == [sess |-> CHOOSE s \in Session : TRUE, kind |-> "teams",
         team |-> CHOOSE t \in Team : TRUE, filter |-> {}, place |-> "free",
         teams |-> {}, repos |-> {}, unread |-> {}]

Init ==
  /\ member \in [Session -> SUBSET Team]
  /\ grants \in [Team -> SUBSET Repo]
  /\ changes = 0
  /\ live = {} /\ ended = {}
  /\ teams = [s \in Session |-> {}]
  /\ teamRepos = [s \in Session |-> [t \in Team |-> {}]]
  /\ req = [q \in Request |-> Idle]
  /\ wasMember = [s \in Session |-> {}]
  /\ wasGranted = [s \in Session |-> {}]

-----------------------------------------------------------------------------
(* GitHub: a user joins or leaves a team, a team gains or loses a repo. *)

(* The list a request is reading, page by page (UserPages). *)
Listed(v, m, g) ==
  CASE v.place = "askTeams" -> m[v.sess]
    [] v.place = "askRepos" -> g[v.team]
    [] OTHER -> {}

(* What may be left to read of a list when an item comes or goes: the new   *)
(* item or one that it pushes over to the next page; nothing of an item     *)
(* that was left to read; and when one goes from the pages that have been   *)
(* read, the others move up and the next page may miss one.                 *)
Shifted(unread, old, new) ==
  IF old \subseteq new THEN {unread \cup {x} : x \in new \ unread}
  ELSE IF unread \subseteq new THEN {unread} \cup {unread \ {x} : x \in unread}
  ELSE {unread \cap new}

Disturbed == {q \in Request : Listed(req[q], member, grants) # Listed(req[q], member', grants')}

PagesShift ==
  \E unread \in [Disturbed -> SUBSET (Team \cup Repo)] :
    /\ \A q \in Disturbed :
         unread[q] \in Shifted(req[q].unread, Listed(req[q], member, grants),
                                              Listed(req[q], member', grants'))
    /\ req' = [q \in Request |->
                 IF q \in Disturbed THEN [req[q] EXCEPT !.unread = unread[q]] ELSE req[q]]

Record ==
  /\ wasMember' = [s \in Session |-> IF s \in live \cup ended THEN wasMember[s] \cup member'[s]
                                     ELSE wasMember[s]]
  /\ wasGranted' = [s \in Session |-> IF s \in live \cup ended THEN wasGranted[s] \cup Pairs(grants')
                                      ELSE wasGranted[s]]

Change ==
  /\ changes < MaxChanges
  /\ changes' = changes + 1
  /\ \/ \E s \in Session, t \in Team :
          /\ member' = [member EXCEPT ![s] = IF t \in @ THEN @ \ {t} ELSE @ \cup {t}]
          /\ UNCHANGED grants
     \/ \E t \in Team, r \in Repo :
          /\ grants' = [grants EXCEPT ![t] = IF r \in @ THEN @ \ {r} ELSE @ \cup {r}]
          /\ UNCHANGED member
  /\ PagesShift
  /\ Record
  /\ UNCHANGED <<live, caches, ended>>

-----------------------------------------------------------------------------
(* The session store. *)

(* A login opens the user's session; its caches are empty. *)
Open(s) ==
  /\ s \notin live \cup ended
  /\ live' = live \cup {s}
  /\ wasMember' = [wasMember EXCEPT ![s] = member[s]]
  /\ wasGranted' = [wasGranted EXCEPT ![s] = Pairs(grants)]
  /\ UNCHANGED <<github, caches, req, ended>>

(* Logout deletes the session; handlers that have it go on. *)
Logout(s) ==
  /\ s \in live
  /\ live' = live \ {s}
  /\ ended' = ended \cup {s}
  /\ UNCHANGED <<github, caches, req, wasMember, wasGranted>>

-----------------------------------------------------------------------------
(* One request.  Step(q, v) gives it new locals. *)
Step(q, v) == req' = [req EXCEPT ![q] = v]

At(q, place) == req[q].place = place

(* requireSession finds the session. *)
Receive(q, s, kind, t, filter) ==
  /\ At(q, "free")
  /\ s \in live
  /\ Step(q, [Idle EXCEPT !.sess = s, !.kind = kind, !.team = t,
                          !.filter = filter, !.place = "teams"])
  /\ UNCHANGED <<github, live, caches, history>>

(* The team and the checked repositories are whatever the client sends. *)
Arrive(q, s) ==
  \E kind \in Kind, t \in Team, filter \in SUBSET Text :
    /\ kind = "teams" => t = Idle.team      \* none is sent
    /\ kind # "run" => filter = {}
    /\ Receive(q, s, kind, t, filter)

(* Mutant of WithTeams: hasTeam is not asked. *)
AnyTeam(q, list) ==
  IF req[q].kind = "teams" THEN [req[q] EXCEPT !.teams = list, !.place = "done"]
  ELSE [req[q] EXCEPT !.teams = {}, !.place = "repos"]

(* The user's teams are known.  Teams answers with them; Repos and Run need  *)
(* the team to be among them, and have no further use for the list.          *)
WithTeams(q, list) ==
  IF req[q].kind = "teams" THEN [req[q] EXCEPT !.teams = list, !.place = "done"]
  ELSE [req[q] EXCEPT !.teams = {},
                      !.place = IF req[q].team \in list THEN "repos" ELSE "refused"]

(* Mutant of CachedTeams: the cache is never read. *)
NoCachedTeams(q) == {}

CachedTeams(q) == teams[req[q].sess]

(* A cached list is used as it is. *)
TeamsCached(q) ==
  /\ At(q, "teams")
  /\ CachedTeams(q) # {}
  /\ Step(q, WithTeams(q, CachedTeams(q)))
  /\ UNCHANGED <<github, live, caches, history>>

TeamsMissing(q) ==
  /\ At(q, "teams")
  /\ CachedTeams(q) = {}
  /\ Step(q, [req[q] EXCEPT !.place = "askTeams", !.unread = member[req[q].sess]])
  /\ UNCHANGED <<github, live, caches, history>>

(* A page is part of what is left to read, and empty only if nothing is. *)
Page(unread) == IF unread = {} THEN {{}} ELSE (SUBSET unread) \ {{}}

(* GitHub answers for the session's token: one page of the user's teams as  *)
(* they are now.                                                            *)
AskTeams(q) ==
  /\ At(q, "askTeams")
  /\ \E page \in Page(req[q].unread) :
       Step(q, [req[q] EXCEPT !.teams = @ \cup page, !.unread = @ \ page,
                  !.place = IF page = req[q].unread THEN "setTeams" ELSE @])
  /\ UNCHANGED <<github, live, caches, history>>

SetTeams(q) ==
  /\ At(q, "setTeams")
  /\ teams' = [teams EXCEPT ![req[q].sess] = req[q].teams]
  /\ Step(q, WithTeams(q, req[q].teams))
  /\ UNCHANGED <<github, live, teamRepos, history>>

(* Mutant of Scope: what is posted is not looked up in the team's list. *)
ScopePosted(repos, filter) == IF filter = {} THEN repos ELSE filter

(* Repos answers with the team's list.  Run narrows it by the checked       *)
(* boxes, no checked box meaning the whole team, and queries the Archive    *)
(* for the rest unless nothing is left.                                     *)
Scope(repos, filter) == IF filter = {} THEN repos ELSE filter \cap repos

WithRepos(q, list) ==
  LET repos == IF req[q].kind = "run" THEN Scope(list, req[q].filter) ELSE list
  IN  [req[q] EXCEPT !.repos = repos,
         !.place = IF req[q].kind = "run" /\ repos = {} THEN "refused" ELSE "done"]

(* Mutant of CachedRepos: the cache is never read. *)
NoCachedRepos(q) == {}

CachedRepos(q) == teamRepos[req[q].sess][req[q].team]

(* Mutant of ReposCached: the nil of a list never fetched passes for empty. *)
ReposCachedEmpty(q) ==
  /\ At(q, "repos")
  /\ Step(q, WithRepos(q, CachedRepos(q)))
  /\ UNCHANGED <<github, live, caches, history>>

ReposCached(q) ==
  /\ At(q, "repos")
  /\ CachedRepos(q) # {}
  /\ Step(q, WithRepos(q, CachedRepos(q)))
  /\ UNCHANGED <<github, live, caches, history>>

ReposMissing(q) ==
  /\ At(q, "repos")
  /\ CachedRepos(q) = {}
  /\ Step(q, [req[q] EXCEPT !.place = "askRepos", !.unread = grants[req[q].team]])
  /\ UNCHANGED <<github, live, caches, history>>

AskRepos(q) ==
  /\ At(q, "askRepos")
  /\ \E page \in Page(req[q].unread) :
       Step(q, [req[q] EXCEPT !.repos = @ \cup page, !.unread = @ \ page,
                  !.place = IF page = req[q].unread THEN "setRepos" ELSE @])
  /\ UNCHANGED <<github, live, caches, history>>

(* Mutant of SetTeamRepos: one list per session, not per team. *)
SetSessionRepos(q) ==
  /\ At(q, "setRepos")
  /\ teamRepos' = [teamRepos EXCEPT ![req[q].sess] = [t \in Team |-> req[q].repos]]
  /\ Step(q, WithRepos(q, req[q].repos))
  /\ UNCHANGED <<github, live, teams, history>>

SetTeamRepos(q) ==
  /\ At(q, "setRepos")
  /\ teamRepos' = [teamRepos EXCEPT ![req[q].sess][req[q].team] = req[q].repos]
  /\ Step(q, WithRepos(q, req[q].repos))
  /\ UNCHANGED <<github, live, teams, history>>

(* A call to GitHub fails: the handler answers 502 and caches nothing of    *)
(* the pages before.                                                        *)
AskFails(q) ==
  /\ At(q, "askTeams") \/ At(q, "askRepos")
  /\ Step(q, [req[q] EXCEPT !.place = "refused", !.teams = {}, !.repos = {}, !.unread = {}])
  /\ UNCHANGED <<github, live, caches, history>>

(* The answer is out and the slot free. *)
Finish(q) ==
  /\ At(q, "done") \/ At(q, "refused")
  /\ Step(q, Idle)
  /\ UNCHANGED <<github, live, caches, history>>

Next ==
  \/ Change
  \/ \E s \in Session : Open(s) \/ Logout(s)
  \/ \E q \in Request :
       \/ \E s \in Session : Arrive(q, s)
       \/ TeamsCached(q) \/ TeamsMissing(q) \/ AskTeams(q) \/ SetTeams(q)
       \/ ReposCached(q) \/ ReposMissing(q) \/ AskRepos(q) \/ SetTeamRepos(q)
       \/ AskFails(q) \/ Finish(q)

Spec == Init /\ [][Next]_vars

-----------------------------------------------------------------------------
(* What Repos and Run answer with is confined to one team of the user's     *)
(* own: the user has belonged to the team, and the team has had the repo,   *)
(* at some moment since the login - whatever requests of other teams ran    *)
(* in between (query_handler.go:254-284).                                   *)
OwnTeamOnly ==
  \A q \in Request :
    req[q].place = "done" /\ req[q].kind \in {"repos", "run"} =>
      /\ req[q].team \in wasMember[req[q].sess]
      /\ {req[q].team} \X req[q].repos \subseteq wasGranted[req[q].sess]

(* A cache only holds what GitHub said of this session's user since the     *)
(* login, also when answers come back out of order (session.go:34-55).      *)
CachesAreOwn ==
  \A s \in Session :
    /\ teams[s] \subseteq wasMember[s]
    /\ \A t \in Team : {t} \X teamRepos[s][t] \subseteq wasGranted[s]
=============================================================================
