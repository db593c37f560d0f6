------------------------ MODULE QueryRequestsProofs -------------------------
(* What TLAPS proves of QueryRequests, for every number of sessions, teams, *)
(* repositories, concurrent requests and changes on GitHub.                 *)
EXTENDS QueryRequests, TLAPS

USE ConstantsAssumption

(* An idle slot has the type of a request, for there are sessions and teams. *)
LEMMA IdleIsForm == Idle \in Form /\ Idle.place = "free"
BY DEF Idle, Form, Kind, Place

(* The locals each action of a request computes are well typed. *)
LEMMA FormsComputed ==
  ASSUME NEW f \in Form
  PROVE  /\ \A list \in SUBSET Team, p \in Place :
              [f EXCEPT !.teams = list, !.place = p] \in Form
         /\ \A list \in SUBSET Repo, p \in Place :
              [f EXCEPT !.repos = list, !.place = p] \in Form
         /\ \A rest \in SUBSET (Team \cup Repo), p \in Place :
              [f EXCEPT !.place = p, !.unread = rest] \in Form
         /\ \A list \in SUBSET Team, rest \in SUBSET (Team \cup Repo), p \in Place :
              [f EXCEPT !.teams = list, !.unread = rest, !.place = p] \in Form
         /\ \A list \in SUBSET Repo, rest \in SUBSET (Team \cup Repo), p \in Place :
              [f EXCEPT !.repos = list, !.unread = rest, !.place = p] \in Form
         /\ [f EXCEPT !.place = "refused", !.teams = {}, !.repos = {}, !.unread = {}] \in Form
BY DEF Form, Place

(* A new request is well typed, whatever the client sends. *)
LEMMA ReceivedIsForm ==
  ASSUME NEW s \in Session, NEW kind \in Kind, NEW t \in Team, NEW filter \in SUBSET Text
  PROVE  [Idle EXCEPT !.sess = s, !.kind = kind, !.team = t,
                      !.filter = filter, !.place = "teams"] \in Form
BY IdleIsForm DEF Form, Place

(* Two requests that differ at most in what they have left to read. *)
SameButUnread(f, g) ==
  /\ f.sess = g.sess /\ f.kind = g.kind /\ f.team = g.team
  /\ f.filter = g.filter /\ f.place = g.place
  /\ f.teams = g.teams /\ f.repos = g.repos

(* What a request has left to read is in the list as it is now; a request   *)
(* that reads none has nothing left.                                        *)
UnreadIsListed == \A q \in Request : req[q].unread \subseteq Listed(req[q], member, grants)

(* Only the two kinds of lists are read. *)
LEMMA ListedFacts ==
  ASSUME NEW v, NEW m, NEW g
  PROVE  /\ v.place = "askTeams" => Listed(v, m, g) = m[v.sess]
         /\ v.place = "askRepos" => Listed(v, m, g) = g[v.team]
         /\ v.place \notin {"askTeams", "askRepos"} => Listed(v, m, g) = {}
BY DEF Listed

(* Whatever a change does to the pages, what is left to read is in the list. *)
LEMMA ShiftedIsListed ==
  ASSUME NEW old, NEW new, NEW unread \in SUBSET old, NEW rest \in Shifted(unread, old, new)
  PROVE  rest \subseteq new
BY DEF Shifted

(* What is known of a request once the user's teams are known. *)
LEMMA WithTeamsFacts ==
  ASSUME TypeOK, NEW q \in Request, NEW list \in SUBSET Team
  PROVE  /\ WithTeams(q, list) \in Form
         /\ WithTeams(q, list).unread = req[q].unread
         /\ WithTeams(q, list).repos = req[q].repos
         /\ WithTeams(q, list).teams \subseteq list
         /\ WithTeams(q, list).sess = req[q].sess
         /\ WithTeams(q, list).team = req[q].team
         /\ WithTeams(q, list).kind = req[q].kind
         /\ WithTeams(q, list).place \in {"done", "repos", "refused"}
         /\ WithTeams(q, list).place = "done" => req[q].kind = "teams"
         /\ WithTeams(q, list).place = "repos" => req[q].team \in list
<1>1. req[q] \in Form
  BY DEF TypeOK
<1>2. WithTeams(q, list) \in Form
  BY <1>1, FormsComputed DEF WithTeams, Place
<1> QED
  BY <1>1, <1>2 DEF WithTeams, Form

(* And once the team's repositories are known. *)
LEMMA WithReposFacts ==
  ASSUME TypeOK, NEW q \in Request, NEW list \in SUBSET Repo
  PROVE  /\ WithRepos(q, list) \in Form
         /\ WithRepos(q, list).unread = req[q].unread
         /\ WithRepos(q, list).teams = req[q].teams
         /\ WithRepos(q, list).sess = req[q].sess
         /\ WithRepos(q, list).team = req[q].team
         /\ WithRepos(q, list).kind = req[q].kind
         /\ WithRepos(q, list).place \in {"done", "refused"}
         /\ WithRepos(q, list).repos \subseteq list
<1>1. req[q] \in Form
  BY DEF TypeOK
<1>2. WithRepos(q, list) \in Form
  BY <1>1, FormsComputed DEF WithRepos, Scope, Place
<1> QED
  BY <1>1, <1>2 DEF WithRepos, Scope, Form

(* One request moving on keeps what is known of the types of all of them. *)
LEMMA StepTypes ==
  ASSUME TypeOK, UnreadIsListed, NEW q \in Request, NEW v \in Form, Step(q, v),
         v.unread \subseteq Listed(v, member, grants), UNCHANGED github
  PROVE  req' \in [Request -> Form] /\ UnreadIsListed'
<1>1. req' \in [Request -> Form]
  BY DEF TypeOK, Step
<1>2. ASSUME NEW p \in Request
      PROVE  req'[p].unread \subseteq Listed(req'[p], member', grants')
  BY DEF TypeOK, UnreadIsListed, Step, github
<1> QED
  BY <1>1, <1>2 DEF UnreadIsListed

(* The grants as a set of pairs. *)
LEMMA PairsFacts ==
  ASSUME NEW g \in [Team -> SUBSET Repo]
  PROVE  /\ Pairs(g) \in SUBSET (Team \X Repo)
         /\ \A t \in Team : {t} \X g[t] \subseteq Pairs(g)
<1>1. \A t \in Team : {t} \X g[t] \subseteq Team \X Repo
  OBVIOUS
<1> QED
  BY <1>1 DEF Pairs

(* What a change on GitHub does to the requests in flight. *)
LEMMA ChangedRequests ==
  ASSUME TypeOK, UnreadIsListed, PagesShift,
         member' \in [Session -> SUBSET Team], grants' \in [Team -> SUBSET Repo]
  PROVE  /\ req' \in [Request -> Form]
         /\ UnreadIsListed'
         /\ \A q \in Request : SameButUnread(req'[q], req[q])
<1>1. PICK unread \in [Disturbed -> SUBSET (Team \cup Repo)] :
        /\ \A q \in Disturbed :
             unread[q] \in Shifted(req[q].unread, Listed(req[q], member, grants),
                                                  Listed(req[q], member', grants'))
        /\ req' = [q \in Request |->
                     IF q \in Disturbed THEN [req[q] EXCEPT !.unread = unread[q]] ELSE req[q]]
  BY DEF PagesShift
<1>2. ASSUME NEW q \in Request
      PROVE  /\ req'[q] \in Form /\ SameButUnread(req'[q], req[q])
             /\ req'[q].unread \subseteq Listed(req'[q], member', grants')
  <2>1. req[q] \in Form /\ req[q].unread \subseteq Listed(req[q], member, grants)
    BY DEF TypeOK, UnreadIsListed
  <2>2. CASE q \in Disturbed
    <3>1. req'[q] = [req[q] EXCEPT !.unread = unread[q]] /\ unread[q] \in SUBSET (Team \cup Repo)
      BY <1>1, <2>2
    <3>2. req'[q] \in Form /\ SameButUnread(req'[q], req[q]) /\ req'[q].unread = unread[q]
      BY <2>1, <3>1 DEF Form, SameButUnread
    <3>3. unread[q] \subseteq Listed(req[q], member', grants')
      BY <1>1, <2>1, <2>2, ShiftedIsListed
    <3>4. Listed(req'[q], member', grants') = Listed(req[q], member', grants')
      BY <3>2 DEF Listed, SameButUnread
    <3> QED
      BY <3>2, <3>3, <3>4
  <2>3. CASE q \notin Disturbed
    <3>1. req'[q] = req[q]
      BY <1>1, <2>3
    <3>2. Listed(req[q], member, grants) = Listed(req[q], member', grants')
      BY <2>3 DEF Disturbed
    <3> QED
      BY <2>1, <3>1, <3>2 DEF SameButUnread
  <2> QED
    BY <2>2, <2>3
<1>3. req' \in [Request -> Form]
  BY <1>1, <1>2
<1> QED
  BY <1>2, <1>3 DEF UnreadIsListed

(* The initial state has the types of TypeOK. *)
LEMMA InitTypeOK == Init => TypeOK
BY IdleIsForm DEF Init, TypeOK

LEMMA InitUnread == Init => UnreadIsListed
BY DEF Init, UnreadIsListed, Idle

(* What each action of a request makes of it is well typed. *)
LEMMA StepForms ==
  ASSUME TypeOK, UnreadIsListed, NEW q \in Request
  PROVE  /\ req[q] \in Form /\ req[q].sess \in Session /\ req[q].team \in Team
         /\ req[q].teams \in SUBSET Team /\ req[q].repos \in SUBSET Repo
         /\ CachedTeams(q) \in SUBSET Team /\ CachedRepos(q) \in SUBSET Repo
         /\ member[req[q].sess] \in SUBSET Team /\ grants[req[q].team] \in SUBSET Repo
         /\ At(q, "askTeams") => req[q].unread \subseteq member[req[q].sess]
         /\ At(q, "askRepos") => req[q].unread \subseteq grants[req[q].team]
         /\ ~At(q, "askTeams") /\ ~At(q, "askRepos") => req[q].unread = {}
<1>1. /\ req[q] \in Form /\ req[q].sess \in Session /\ req[q].team \in Team
      /\ req[q].teams \in SUBSET Team /\ req[q].repos \in SUBSET Repo
  BY DEF TypeOK, Form
<1>2. req[q].unread \subseteq Listed(req[q], member, grants)
  BY DEF UnreadIsListed
<1> QED
  BY <1>1, <1>2, ListedFacts DEF TypeOK, CachedTeams, CachedRepos, At

(* One lemma per action that talks to GitHub. *)
LEMMA TeamsMissingForm ==
  ASSUME TypeOK, UnreadIsListed, NEW q \in Request, TeamsMissing(q)
  PROVE  \E v \in Form :
           /\ Step(q, v) /\ v.sess = req[q].sess /\ v.team = req[q].team /\ v.place = "askTeams"
           /\ v.teams = req[q].teams /\ v.repos = req[q].repos /\ v.unread = member[v.sess]
<1> DEFINE v == [req[q] EXCEPT !.place = "askTeams", !.unread = member[req[q].sess]]
<1>1. v \in Form
  BY StepForms, FormsComputed DEF Place
<1>2. /\ v.sess = req[q].sess /\ v.team = req[q].team /\ v.place = "askTeams"
      /\ v.teams = req[q].teams /\ v.repos = req[q].repos /\ v.unread = member[v.sess]
  BY StepForms DEF Form
<1>3. Step(q, v)
  BY DEF TeamsMissing
<1> QED
  BY <1>1, <1>2, <1>3

LEMMA ReposMissingForm ==
  ASSUME TypeOK, UnreadIsListed, NEW q \in Request, ReposMissing(q)
  PROVE  \E v \in Form :
           /\ Step(q, v) /\ v.sess = req[q].sess /\ v.team = req[q].team /\ v.place = "askRepos"
           /\ v.teams = req[q].teams /\ v.repos = req[q].repos /\ v.unread = grants[v.team]
<1> DEFINE v == [req[q] EXCEPT !.place = "askRepos", !.unread = grants[req[q].team]]
<1>1. v \in Form
  BY StepForms, FormsComputed DEF Place
<1>2. /\ v.sess = req[q].sess /\ v.team = req[q].team /\ v.place = "askRepos"
      /\ v.teams = req[q].teams /\ v.repos = req[q].repos /\ v.unread = grants[v.team]
  BY StepForms DEF Form
<1>3. Step(q, v)
  BY DEF ReposMissing
<1> QED
  BY <1>1, <1>2, <1>3

LEMMA AskTeamsForm ==
  ASSUME TypeOK, UnreadIsListed, NEW q \in Request, AskTeams(q)
  PROVE  \E v \in Form :
           /\ Step(q, v) /\ v.sess = req[q].sess /\ v.team = req[q].team /\ v.repos = req[q].repos
           /\ v.teams \subseteq req[q].teams \cup member[v.sess]
           /\ \/ v.place = "askTeams" /\ v.unread \subseteq member[v.sess]
              \/ v.place = "setTeams" /\ v.unread = {}
<1>1. PICK read \in Page(req[q].unread) :
        Step(q, [req[q] EXCEPT !.teams = @ \cup read, !.unread = @ \ read,
                   !.place = IF read = req[q].unread THEN "setTeams" ELSE @])
  BY DEF AskTeams
<1>2. read \subseteq req[q].unread /\ req[q].unread \subseteq member[req[q].sess]
  BY <1>1, StepForms DEF Page, AskTeams
<1> DEFINE place == IF read = req[q].unread THEN "setTeams" ELSE req[q].place
           v == [req[q] EXCEPT !.teams = req[q].teams \cup read,
                               !.unread = req[q].unread \ read, !.place = place]
<1>3. /\ req[q].teams \cup read \in SUBSET Team
      /\ req[q].unread \ read \in SUBSET (Team \cup Repo) /\ place \in Place
  BY <1>2, StepForms DEF AskTeams, At, Place
<1>4. v \in Form
  BY <1>3, StepForms, FormsComputed
<1>5. /\ v.sess = req[q].sess /\ v.team = req[q].team /\ v.repos = req[q].repos
      /\ v.teams = req[q].teams \cup read
      /\ v.unread = req[q].unread \ read /\ v.place = place
  BY StepForms DEF Form
<1>6. Step(q, v)
  BY <1>1, StepForms DEF Form
<1>7. place = "askTeams" \/ (place = "setTeams" /\ req[q].unread \ read = {})
  BY DEF AskTeams, At
<1> HIDE DEF v
<1> QED
  BY <1>2, <1>4, <1>5, <1>6, <1>7

LEMMA AskReposForm ==
  ASSUME TypeOK, UnreadIsListed, NEW q \in Request, AskRepos(q)
  PROVE  \E v \in Form :
           /\ Step(q, v) /\ v.sess = req[q].sess /\ v.team = req[q].team /\ v.teams = req[q].teams
           /\ v.repos \subseteq req[q].repos \cup grants[v.team]
           /\ \/ v.place = "askRepos" /\ v.unread \subseteq grants[v.team]
              \/ v.place = "setRepos" /\ v.unread = {}
<1>1. PICK read \in Page(req[q].unread) :
        Step(q, [req[q] EXCEPT !.repos = @ \cup read, !.unread = @ \ read,
                   !.place = IF read = req[q].unread THEN "setRepos" ELSE @])
  BY DEF AskRepos
<1>2. read \subseteq req[q].unread /\ req[q].unread \subseteq grants[req[q].team]
  BY <1>1, StepForms DEF Page, AskRepos
<1> DEFINE place == IF read = req[q].unread THEN "setRepos" ELSE req[q].place
           v == [req[q] EXCEPT !.repos = req[q].repos \cup read,
                               !.unread = req[q].unread \ read, !.place = place]
<1>3. /\ req[q].repos \cup read \in SUBSET Repo
      /\ req[q].unread \ read \in SUBSET (Team \cup Repo) /\ place \in Place
  BY <1>2, StepForms DEF AskRepos, At, Place
<1>4. v \in Form
  BY <1>3, StepForms, FormsComputed
<1>5. /\ v.sess = req[q].sess /\ v.team = req[q].team /\ v.teams = req[q].teams
      /\ v.repos = req[q].repos \cup read
      /\ v.unread = req[q].unread \ read /\ v.place = place
  BY StepForms DEF Form
<1>6. Step(q, v)
  BY <1>1, StepForms DEF Form
<1>7. place = "askRepos" \/ (place = "setRepos" /\ req[q].unread \ read = {})
  BY DEF AskRepos, At
<1> HIDE DEF v
<1> QED
  BY <1>2, <1>4, <1>5, <1>6, <1>7

LEMMA AskFailsForm ==
  ASSUME TypeOK, UnreadIsListed, NEW q \in Request, AskFails(q)
  PROVE  \E v \in Form :
           /\ Step(q, v) /\ v.sess = req[q].sess /\ v.place = "refused"
           /\ v.teams = {} /\ v.repos = {} /\ v.unread = {}
<1> DEFINE v == [req[q] EXCEPT !.place = "refused", !.teams = {}, !.repos = {}, !.unread = {}]
<1>1. v \in Form
  BY StepForms, FormsComputed
<1>2. /\ v.sess = req[q].sess /\ v.place = "refused"
      /\ v.teams = {} /\ v.repos = {} /\ v.unread = {}
  BY StepForms DEF Form
<1>3. Step(q, v)
  BY DEF AskFails
<1> HIDE DEF v
<1> QED
  BY <1>1, <1>2, <1>3

LEMMA NextTypes == TypeOK /\ UnreadIsListed /\ [Next]_vars => TypeOK' /\ UnreadIsListed'
<1> SUFFICES ASSUME TypeOK, UnreadIsListed, [Next]_vars PROVE TypeOK' /\ UnreadIsListed'
  OBVIOUS
<1> DEFINE Typed == TypeOK' /\ UnreadIsListed'
<1>1. ASSUME UNCHANGED <<member, grants, req>> PROVE UnreadIsListed'
  BY <1>1 DEF UnreadIsListed
<1>2. CASE UNCHANGED vars
  BY <1>1, <1>2 DEF TypeOK, vars, github, caches, history
<1>3. CASE Change
  <2>1. /\ member' \in [Session -> SUBSET Team]
        /\ grants' \in [Team -> SUBSET Repo]
        /\ changes' \in 0..MaxChanges
    <3>1. changes' \in 0..MaxChanges
      BY <1>3 DEF Change, TypeOK
    <3>2. ASSUME NEW s \in Session, NEW t \in Team,
                 member' = [member EXCEPT ![s] = IF t \in @ THEN @ \ {t} ELSE @ \cup {t}]
          PROVE  member' \in [Session -> SUBSET Team]
      BY <3>2 DEF TypeOK
    <3>3. ASSUME NEW t \in Team, NEW r \in Repo,
                 grants' = [grants EXCEPT ![t] = IF r \in @ THEN @ \ {r} ELSE @ \cup {r}]
          PROVE  grants' \in [Team -> SUBSET Repo]
      BY <3>3 DEF TypeOK
    <3> QED
      BY <1>3, <3>1, <3>2, <3>3 DEF Change, TypeOK
  <2>2. Pairs(grants') \in SUBSET (Team \X Repo)
    BY <2>1, PairsFacts
  <2>3. /\ wasMember' \in [Session -> SUBSET Team]
        /\ wasGranted' \in [Session -> SUBSET (Team \X Repo)]
    BY <1>3, <2>1, <2>2 DEF Change, Record, TypeOK
  <2>4. req' \in [Request -> Form] /\ UnreadIsListed'
    BY <1>3, <2>1, ChangedRequests DEF Change
  <2> QED
    BY <1>3, <2>1, <2>3, <2>4 DEF Change, TypeOK, caches
<1>4. ASSUME NEW s \in Session, Open(s) \/ Logout(s)
      PROVE  Typed
  <2>1. Pairs(grants) \in SUBSET (Team \X Repo)
    BY PairsFacts DEF TypeOK
  <2>2. CASE Open(s)
    <3>1. /\ wasMember' \in [Session -> SUBSET Team]
          /\ wasGranted' \in [Session -> SUBSET (Team \X Repo)]
      BY <2>1, <2>2 DEF Open, TypeOK
    <3> QED
      BY <1>1, <2>2, <3>1 DEF Open, TypeOK, github, caches
  <2>3. CASE Logout(s)
    BY <1>1, <2>3 DEF Logout, TypeOK, github, caches
  <2> QED
    BY <1>4, <2>2, <2>3
<1>5. ASSUME NEW q \in Request, NEW v \in Form, Step(q, v), v.unread \subseteq Listed(v, member, grants),
             UNCHANGED <<github, live, history>>,
             teams' \in [Session -> SUBSET Team], teamRepos' \in [Session -> [Team -> SUBSET Repo]]
      PROVE  Typed
  BY <1>5, StepTypes DEF TypeOK, github, history
<1>6. ASSUME NEW q \in Request, NEW v \in Form, Step(q, v), v.unread \subseteq Listed(v, member, grants),
             UNCHANGED <<github, live, caches, history>>
      PROVE  Typed
  BY <1>5, <1>6 DEF TypeOK, caches
<1>7. ASSUME NEW q \in Request, NEW s \in Session, Arrive(q, s)
      PROVE  Typed
  <2>1. PICK kind \in Kind, t \in Team, filter \in SUBSET Text : Receive(q, s, kind, t, filter)
    BY <1>7 DEF Arrive
  <2> DEFINE v == [Idle EXCEPT !.sess = s, !.kind = kind, !.team = t,
                               !.filter = filter, !.place = "teams"]
  <2>2. v \in Form
    BY ReceivedIsForm
  <2>3. v.unread = {}
    BY DEF Idle
  <2>4. Step(q, v) /\ UNCHANGED <<github, live, caches, history>>
    BY <2>1 DEF Receive
  <2> HIDE DEF v
  <2> QED
    BY <1>6, <2>2, <2>3, <2>4
<1>8. ASSUME NEW q \in Request, TeamsMissing(q) \/ ReposMissing(q)
      PROVE  Typed
  <2>1. UNCHANGED <<github, live, caches, history>>
    BY <1>8 DEF TeamsMissing, ReposMissing
  <2>2. PICK v \in Form : Step(q, v) /\ v.unread \subseteq Listed(v, member, grants)
    <3>1. CASE TeamsMissing(q)
      BY <3>1, TeamsMissingForm, ListedFacts
    <3>2. CASE ReposMissing(q)
      BY <3>2, ReposMissingForm, ListedFacts
    <3> QED
      BY <1>8, <3>1, <3>2
  <2> QED
    BY <1>6, <2>1, <2>2
<1>9. ASSUME NEW q \in Request, AskTeams(q) \/ AskRepos(q) \/ AskFails(q)
      PROVE  Typed
  <2>1. UNCHANGED <<github, live, caches, history>>
    BY <1>9 DEF AskTeams, AskRepos, AskFails
  <2>2. PICK v \in Form : Step(q, v) /\ v.unread \subseteq Listed(v, member, grants)
    <3>1. CASE AskTeams(q)
      BY <3>1, AskTeamsForm, ListedFacts
    <3>2. CASE AskRepos(q)
      BY <3>2, AskReposForm, ListedFacts
    <3>3. CASE AskFails(q)
      BY <3>3, AskFailsForm
    <3> QED
      BY <1>9, <3>1, <3>2, <3>3
  <2> QED
    BY <1>6, <2>1, <2>2
<1>10. ASSUME NEW q \in Request, TeamsCached(q) \/ ReposCached(q) \/ Finish(q)
       PROVE  Typed
  <2>1. CASE TeamsCached(q)
    BY <1>6, <2>1, StepForms, WithTeamsFacts DEF TeamsCached, At
  <2>2. CASE ReposCached(q)
    BY <1>6, <2>2, StepForms, WithReposFacts DEF ReposCached, At
  <2>3. CASE Finish(q)
    <3>1. Idle.unread = {}
      BY DEF Idle
    <3> QED
      BY <1>6, <2>3, <3>1, IdleIsForm DEF Finish
  <2> QED
    BY <1>10, <2>1, <2>2, <2>3
<1>11. ASSUME NEW q \in Request, SetTeams(q)
       PROVE  Typed
  <2>1. WithTeams(q, req[q].teams) \in Form /\ WithTeams(q, req[q].teams).unread = {}
    BY <1>11, StepForms, WithTeamsFacts DEF SetTeams, At
  <2>2. teams' \in [Session -> SUBSET Team]
    BY <1>11, StepForms DEF SetTeams, TypeOK
  <2> QED
    BY <1>5, <1>11, <2>1, <2>2 DEF SetTeams, TypeOK
<1>12. ASSUME NEW q \in Request, SetTeamRepos(q)
       PROVE  Typed
  <2>1. WithRepos(q, req[q].repos) \in Form /\ WithRepos(q, req[q].repos).unread = {}
    BY <1>12, StepForms, WithReposFacts DEF SetTeamRepos, At
  <2>2. teamRepos' \in [Session -> [Team -> SUBSET Repo]]
    BY <1>12, StepForms DEF SetTeamRepos, TypeOK
  <2> QED
    BY <1>5, <1>12, <2>1, <2>2 DEF SetTeamRepos, TypeOK
<1> QED
  BY <1>2, <1>3, <1>4, <1>7, <1>8, <1>9, <1>10, <1>11, <1>12 DEF Next

LEMMA AlwaysTypes == Spec => [](TypeOK /\ UnreadIsListed)
<1>1. Init => TypeOK /\ UnreadIsListed
  BY InitTypeOK, InitUnread
<1>2. TypeOK /\ UnreadIsListed /\ [Next]_vars => (TypeOK /\ UnreadIsListed)'
  BY NextTypes
<1> QED
  BY <1>1, <1>2, PTL DEF Spec

(* The caches and the requests in flight only ever hold teams and           *)
(* repositories, each in its place.                                         *)
THEOREM TypeCorrect == Spec => []TypeOK
BY AlwaysTypes, PTL

-----------------------------------------------------------------------------
(* What is known of a request: its session was opened, the teams it carries *)
(* are the user's, its repositories are the team's, also those of the pages *)
(* it has read so far, and its team has passed hasTeam.                     *)
Sound(f) ==
  f.place # "free" =>
    /\ f.sess \in live \cup ended
    /\ f.teams \subseteq wasMember[f.sess]
    /\ {f.team} \X f.repos \subseteq wasGranted[f.sess]
    /\ \/ f.place \in {"repos", "askRepos", "setRepos"}
       \/ f.place = "done" /\ f.kind # "teams"
       => f.team \in wasMember[f.sess]

(* The histories include the present for every session that was opened; the *)
(* caches of the others are empty.                                          *)
HistoryCovers ==
  \A s \in Session :
    IF s \in live \cup ended
    THEN member[s] \subseteq wasMember[s] /\ Pairs(grants) \subseteq wasGranted[s]
    ELSE teams[s] = {} /\ \A t \in Team : teamRepos[s][t] = {}

Safe ==
  /\ CachesAreOwn
  /\ HistoryCovers
  /\ \A q \in Request : Sound(req[q])

(* When only requests move, those that stay put remain sound. *)
LEMMA StepSafe ==
  ASSUME TypeOK, Safe, NEW q \in Request, NEW v \in Form, Step(q, v), Sound(v),
         UNCHANGED <<github, live, history>>
  PROVE  \A p \in Request : Sound(req[p])'
<1>1. ASSUME NEW p \in Request PROVE Sound(req'[p])
  BY DEF Safe, Step, TypeOK
<1> QED
  BY <1>1 DEF Sound, history

LEMMA InitSafe == Init => Safe
BY DEF Init, Safe, CachesAreOwn, HistoryCovers, Sound, Idle

LEMMA NextSafe == TypeOK /\ UnreadIsListed /\ Safe /\ [Next]_vars => Safe'
<1> SUFFICES ASSUME TypeOK, UnreadIsListed, Safe, [Next]_vars PROVE Safe'
  OBVIOUS
<1> USE DEF Safe
<1>1. CASE UNCHANGED vars
  BY <1>1 DEF vars, github, caches, history, CachesAreOwn, HistoryCovers, Sound, Pairs
<1>2. CASE Change
  <2>1. /\ \A s \in Session : wasMember[s] \subseteq wasMember'[s]
        /\ \A s \in Session : wasGranted[s] \subseteq wasGranted'[s]
        /\ \A s \in live \cup ended : member'[s] \subseteq wasMember'[s]
        /\ \A s \in live \cup ended : Pairs(grants') \subseteq wasGranted'[s]
    BY <1>2 DEF Change, Record, TypeOK
  <2>2. UNCHANGED <<live, teams, teamRepos, ended>>
    BY <1>2 DEF Change, caches
  <2>3. \A q \in Request : SameButUnread(req'[q], req[q])
    <3>1. TypeOK'
      BY NextTypes
    <3>2. member' \in [Session -> SUBSET Team] /\ grants' \in [Team -> SUBSET Repo]
      BY <3>1 DEF TypeOK
    <3> QED
      BY <1>2, <3>2, ChangedRequests DEF Change
  <2>4. ASSUME NEW q \in Request PROVE Sound(req[q])'
    BY <2>1, <2>2, <2>3 DEF Sound, SameButUnread, TypeOK, Form
  <2>5. HistoryCovers'
    BY <2>1, <2>2 DEF HistoryCovers, Pairs
  <2>6. CachesAreOwn'
    BY <2>1, <2>2 DEF CachesAreOwn
  <2> QED
    BY <2>4, <2>5, <2>6
<1>3. ASSUME NEW s \in Session, Open(s)
      PROVE  Safe'
  <2>1. \A x \in Session \ {s} : wasMember'[x] = wasMember[x] /\ wasGranted'[x] = wasGranted[x]
    BY <1>3 DEF Open, TypeOK
  <2>2. wasMember'[s] = member[s] /\ wasGranted'[s] = Pairs(grants)
    BY <1>3 DEF Open, TypeOK
  <2>3. s \notin live \cup ended /\ UNCHANGED <<member, grants, teams, teamRepos, req, ended>>
        /\ live' = live \cup {s}
    BY <1>3 DEF Open, github, caches
  <2>4. ASSUME NEW f \in Form, Sound(f), f.sess # s PROVE Sound(f)'
    BY <2>1, <2>3, <2>4 DEF Sound, Form
  <2>5. ASSUME NEW f \in Form, f.place = "free" PROVE Sound(f)'
    BY <2>5 DEF Sound
  <2>6. \A q \in Request : Sound(req[q])'
    BY <2>3, <2>4, <2>5 DEF TypeOK, Sound
  <2>7. CachesAreOwn'
    BY <2>1, <2>3 DEF CachesAreOwn, HistoryCovers
  <2>8. HistoryCovers'
    BY <2>1, <2>2, <2>3 DEF HistoryCovers, Pairs
  <2> QED
    BY <2>6, <2>7, <2>8
<1>4. ASSUME NEW s \in Session, Logout(s)
      PROVE  Safe'
  <2>1. UNCHANGED <<member, grants, teams, teamRepos, req, wasMember, wasGranted>>
    BY <1>4 DEF Logout, github, caches
  <2>2. (live \cup ended)' = live \cup ended
    BY <1>4 DEF Logout
  <2> QED
    BY <2>1, <2>2 DEF CachesAreOwn, HistoryCovers, Sound, Pairs
<1>5. ASSUME NEW q \in Request, NEW v \in Form, Step(q, v), Sound(v),
             UNCHANGED <<github, live, caches, history>>
      PROVE  Safe'
  <2>1. \A p \in Request : Sound(req[p])'
    BY <1>5, StepSafe
  <2> QED
    BY <1>5, <2>1 DEF github, caches, history, CachesAreOwn, HistoryCovers, Pairs
<1>6. ASSUME NEW q \in Request, NEW s \in Session, Arrive(q, s)
      PROVE  Safe'
  <2>1. PICK kind \in Kind, t \in Team, filter \in SUBSET Text : Receive(q, s, kind, t, filter)
    BY <1>6 DEF Arrive
  <2> DEFINE v == [Idle EXCEPT !.sess = s, !.kind = kind, !.team = t,
                               !.filter = filter, !.place = "teams"]
  <2>2. v \in Form
    BY ReceivedIsForm
  <2>3. v.place = "teams" /\ v.sess = s /\ v.teams = {} /\ v.repos = {}
    BY DEF Idle
  <2>4. Step(q, v) /\ s \in live /\ UNCHANGED <<github, live, caches, history>>
    BY <2>1 DEF Receive
  <2> HIDE DEF v
  <2>5. Sound(v)
    BY <2>3, <2>4 DEF Sound
  <2> QED
    BY <1>5, <2>2, <2>4, <2>5
<1>7. ASSUME NEW q \in Request, Finish(q)
      PROVE  Safe'
  <2>1. Sound(Idle)
    BY DEF Sound, Idle
  <2> QED
    BY <1>5, <1>7, <2>1, IdleIsForm DEF Finish
<1>8. ASSUME NEW q \in Request, ~At(q, "free")
      PROVE  /\ req[q].sess \in live \cup ended
             /\ req[q].teams \subseteq wasMember[req[q].sess]
             /\ {req[q].team} \X req[q].repos \subseteq wasGranted[req[q].sess]
             /\ req[q].place \in {"repos", "askRepos", "setRepos"} =>
                  req[q].team \in wasMember[req[q].sess]
             /\ member[req[q].sess] \subseteq wasMember[req[q].sess]
             /\ {req[q].team} \X grants[req[q].team] \subseteq wasGranted[req[q].sess]
  <2>1. Sound(req[q]) /\ req[q].sess \in Session /\ req[q].team \in Team
    BY StepForms
  <2>2. Pairs(grants) \subseteq wasGranted[req[q].sess]
    BY <1>8, <2>1 DEF Sound, At, HistoryCovers
  <2> QED
    BY <1>8, <2>1, <2>2, PairsFacts DEF Sound, At, HistoryCovers, TypeOK
<1>9. ASSUME NEW q \in Request, TeamsMissing(q) \/ AskTeams(q) \/ AskFails(q)
                \/ ReposMissing(q) \/ AskRepos(q)
      PROVE  Safe'
  <2>1. ~At(q, "free") /\ UNCHANGED <<github, live, caches, history>>
    BY <1>9 DEF TeamsMissing, AskTeams, AskFails, ReposMissing, AskRepos, At
  <2>2. PICK v \in Form : Step(q, v) /\ Sound(v)
    <3>1. CASE TeamsMissing(q)
      BY <1>8, <2>1, <3>1, TeamsMissingForm DEF Sound
    <3>2. CASE AskTeams(q)
      BY <1>8, <2>1, <3>2, AskTeamsForm DEF Sound
    <3>3. CASE AskFails(q)
      BY <1>8, <2>1, <3>3, AskFailsForm DEF Sound
    <3>4. ASSUME ReposMissing(q) \/ AskRepos(q)
          PROVE  req[q].team \in wasMember[req[q].sess]
      BY <1>8, <2>1, <3>4 DEF ReposMissing, AskRepos, At
    <3>5. CASE ReposMissing(q)
      BY <1>8, <2>1, <3>4, <3>5, ReposMissingForm DEF Sound
    <3>6. CASE AskRepos(q)
      BY <1>8, <2>1, <3>4, <3>6, AskReposForm DEF Sound
    <3> QED
      BY <1>9, <3>1, <3>2, <3>3, <3>5, <3>6
  <2> QED
    BY <1>5, <2>1, <2>2
<1>10. ASSUME NEW q \in Request, ~At(q, "free"), NEW list \in SUBSET Team,
              list \subseteq wasMember[req[q].sess]
       PROVE  WithTeams(q, list) \in Form /\ Sound(WithTeams(q, list))
  BY <1>8, <1>10, StepForms, WithTeamsFacts DEF Sound
<1>11. ASSUME NEW q \in Request, ~At(q, "free"), NEW list \in SUBSET Repo,
              req[q].team \in wasMember[req[q].sess],
              {req[q].team} \X list \subseteq wasGranted[req[q].sess]
       PROVE  WithRepos(q, list) \in Form /\ Sound(WithRepos(q, list))
  <2>1. {req[q].team} \X WithRepos(q, list).repos \subseteq wasGranted[req[q].sess]
    BY <1>11, WithReposFacts
  <2> QED
    BY <1>8, <1>11, <2>1, StepForms, WithReposFacts DEF Sound
<1>12. ASSUME NEW q \in Request, TeamsCached(q)
       PROVE  Safe'
  <2>1. ~At(q, "free") /\ CachedTeams(q) \subseteq wasMember[req[q].sess]
    BY <1>12, StepForms DEF TeamsCached, At, CachesAreOwn, CachedTeams
  <2> QED
    BY <1>5, <1>10, <1>12, <2>1, StepForms DEF TeamsCached
<1>13. ASSUME NEW q \in Request, ReposCached(q)
       PROVE  Safe'
  <2>1. ~At(q, "free") /\ req[q].place = "repos"
    BY <1>13 DEF ReposCached, At
  <2>2. {req[q].team} \X CachedRepos(q) \subseteq wasGranted[req[q].sess]
    BY StepForms DEF CachesAreOwn, CachedRepos
  <2>3. WithRepos(q, CachedRepos(q)) \in Form /\ Sound(WithRepos(q, CachedRepos(q)))
    BY <1>8, <1>11, <2>1, <2>2, StepForms
  <2> QED
    BY <1>5, <1>13, <2>3 DEF ReposCached
<1>14. ASSUME NEW q \in Request, SetTeams(q)
       PROVE  Safe'
  <2>1. /\ Step(q, WithTeams(q, req[q].teams)) /\ ~At(q, "free")
        /\ UNCHANGED <<github, live, teamRepos, history>>
        /\ teams' = [teams EXCEPT ![req[q].sess] = req[q].teams]
    BY <1>14 DEF SetTeams, At
  <2>2. /\ req[q].sess \in live \cup ended /\ req[q].teams \subseteq wasMember[req[q].sess]
        /\ req[q].teams \in SUBSET Team /\ req[q].sess \in Session
    BY <1>8, <2>1, StepForms
  <2>3. \A p \in Request : Sound(req[p])'
    BY <1>10, <2>1, <2>2, StepSafe
  <2>4. CachesAreOwn'
    BY <2>1, <2>2 DEF CachesAreOwn, TypeOK, history
  <2>5. HistoryCovers'
    BY <2>1, <2>2 DEF HistoryCovers, TypeOK, history, github, Pairs
  <2> QED
    BY <2>3, <2>4, <2>5
<1>15. ASSUME NEW q \in Request, SetTeamRepos(q)
       PROVE  Safe'
  <2>1. /\ Step(q, WithRepos(q, req[q].repos)) /\ ~At(q, "free") /\ req[q].place = "setRepos"
        /\ UNCHANGED <<github, live, teams, history>>
        /\ teamRepos' = [teamRepos EXCEPT ![req[q].sess][req[q].team] = req[q].repos]
    BY <1>15 DEF SetTeamRepos, At
  <2>2. /\ req[q].sess \in live \cup ended /\ req[q].team \in wasMember[req[q].sess]
        /\ {req[q].team} \X req[q].repos \subseteq wasGranted[req[q].sess]
        /\ req[q].repos \in SUBSET Repo /\ req[q].sess \in Session /\ req[q].team \in Team
    BY <1>8, <2>1, StepForms
  <2>3. \A p \in Request : Sound(req[p])'
    BY <1>11, <2>1, <2>2, StepSafe
  <2>4. \A s \in Session, t \in Team :
          teamRepos'[s][t] = IF s = req[q].sess /\ t = req[q].team THEN req[q].repos
                             ELSE teamRepos[s][t]
    BY <2>1, <2>2 DEF TypeOK
  <2>5. CachesAreOwn'
    <3>1. ASSUME NEW s \in Session, NEW t \in Team
          PROVE  {t} \X teamRepos'[s][t] \subseteq wasGranted[s]
      BY <2>2, <2>4 DEF CachesAreOwn
    <3> QED
      BY <2>1, <3>1 DEF CachesAreOwn, history
  <2>6. HistoryCovers'
    BY <2>1, <2>2, <2>4 DEF HistoryCovers, history, github, Pairs
  <2> QED
    BY <2>3, <2>5, <2>6
<1> QED
  BY <1>1, <1>2, <1>3, <1>4, <1>6, <1>7, <1>9, <1>12, <1>13, <1>14, <1>15 DEF Next

LEMMA AlwaysSafe == Spec => [](TypeOK /\ Safe)
<1>1. Init => Safe
  BY InitSafe
<1>2. TypeOK /\ UnreadIsListed /\ Safe /\ [Next]_vars => Safe'
  BY NextSafe
<1> QED
  BY <1>1, <1>2, AlwaysTypes, PTL DEF Spec

(* Whatever a request answers with is of a team of the user's own and of    *)
(* that team, however many requests of the session run at once.             *)
THEOREM AnswersAreOwn == Spec => []OwnTeamOnly
<1>1. TypeOK /\ Safe => OwnTeamOnly
  BY DEF Safe, Sound, OwnTeamOnly
<1> QED
  BY <1>1, AlwaysSafe, PTL

(* No cache ever holds what GitHub did not say of this user since the login. *)
THEOREM CachesStayOwn == Spec => []CachesAreOwn
<1>1. TypeOK /\ Safe => CachesAreOwn
  BY DEF Safe
<1> QED
  BY <1>1, AlwaysSafe, PTL
=============================================================================
