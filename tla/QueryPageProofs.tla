-------------------------- MODULE QueryPageProofs ---------------------------
(* What TLAPS proves of QueryPage, for every number of teams, repositories, *)
(* picks and changes on GitHub.  The proofs about the handlers are taken    *)
(* over from QueryRequestsProofs.                                           *)
EXTENDS QueryPage, TLAPS

Proved == INSTANCE QueryRequestsProofs
            WITH Session <- {User}, Request <- Slot, Text <- Repo

USE ConstantsAssumption, PageAssumption

-----------------------------------------------------------------------------
(* Service and Proved are the same instance under two names. *)
LEMMA SameTypes == Service!TypeOK <=> Proved!TypeOK
BY DEF Service!TypeOK, Service!Form, Service!Kind, Service!Place,
       Proved!TypeOK, Proved!Form, Proved!Kind, Proved!Place

LEMMA SameInit == Service!Init <=> Proved!Init
BY DEF Service!Init, Service!Idle, Proved!Init, Proved!Idle

LEMMA SameNext == Service!Next <=> Proved!Next
BY DEF
  Service!Next, Service!Change, Service!Record, Service!Pairs, Service!Open,
  Service!Logout, Service!Arrive, Service!Receive, Service!At, Service!Step,
  Service!Listed, Service!Shifted, Service!Disturbed, Service!PagesShift,
  Service!Page, Service!CachedTeams, Service!Idle, Service!Kind, Service!TeamsCached,
  Service!TeamsMissing, Service!AskTeams, Service!SetTeams, Service!ReposCached,
  Service!ReposMissing, Service!AskRepos, Service!SetTeamRepos, Service!AskFails,
  Service!Finish, Service!WithTeams, Service!WithRepos, Service!Scope,
  Service!CachedRepos, Service!github, Service!caches, Service!history,
  Proved!Next, Proved!Change, Proved!Record, Proved!Pairs, Proved!Open,
  Proved!Logout, Proved!Arrive, Proved!Receive, Proved!At, Proved!Step,
  Proved!Listed, Proved!Shifted, Proved!Disturbed, Proved!PagesShift,
  Proved!Page, Proved!CachedTeams, Proved!Idle, Proved!Kind, Proved!TeamsCached,
  Proved!TeamsMissing, Proved!AskTeams, Proved!SetTeams, Proved!ReposCached,
  Proved!ReposMissing, Proved!AskRepos, Proved!SetTeamRepos, Proved!AskFails,
  Proved!Finish, Proved!WithTeams, Proved!WithRepos, Proved!Scope,
  Proved!CachedRepos, Proved!github, Proved!caches, Proved!history

(* A step of the handlers keeps their types, and what is left to read of a  *)
(* list within the list.                                                    *)
LEMMA ServiceTypes ==
  Service!TypeOK /\ Proved!UnreadIsListed /\ [Service!Next]_service =>
    Service!TypeOK' /\ Proved!UnreadIsListed'
<1>1. UNCHANGED service => UNCHANGED Proved!vars
  BY DEF service, Proved!vars, Proved!github, Proved!caches, Proved!history
<1>2. (Service!TypeOK <=> Proved!TypeOK)'
  BY SameTypes, PTL
<1> QED
  BY <1>1, <1>2, SameTypes, SameNext, Proved!NextTypes

-----------------------------------------------------------------------------
(* The page on its own: a picker that has not loaded offers nothing. *)
NothingToPick == loaded # "ready" => options = {}

FormOK == TypeOK /\ NothingToPick

LEMMA InitForm == Init => FormOK /\ EnabledMeansListed
BY DEF Init, FormOK, TypeOK, NothingToPick, EnabledMeansListed

LEMMA NewBoxesFacts ==
  ASSUME TypeOK, NEW f \in pending, NEW list \in SUBSET Repo
  PROVE  /\ NewBoxes(f, list) \subseteq Box
         /\ list # {} => NewBoxes(f, list) # {}
<1>1. f[1] \in 1..MaxPicks /\ f[2] \in Team
  BY DEF TypeOK
<1>2. \A r \in list : [pick |-> f[1], of |-> f[2], repo |-> r] \in Box
  BY <1>1 DEF Box
<1> QED
  BY <1>2 DEF NewBoxes

LEMMA NextForm ==
  ASSUME FormOK, EnabledMeansListed, [Next]_vars
  PROVE  FormOK' /\ EnabledMeansListed'
<1> USE DEF FormOK, TypeOK, NothingToPick, EnabledMeansListed, picker
<1>1. CASE UNCHANGED vars
  BY <1>1 DEF vars
<1>2. ASSUME NEW list \in SUBSET Team, TeamsArrive(list) PROVE FormOK' /\ EnabledMeansListed'
  BY <1>2 DEF TeamsArrive
<1>3. CASE TeamsFail
  BY <1>3 DEF TeamsFail
<1>4. CASE PickNone
  BY <1>4 DEF PickNone
<1>5. CASE SetAll
  BY <1>5 DEF SetAll
<1>6. CASE Submit
  BY <1>6 DEF Submit, vars
<1>7. ASSUME NEW t \in Team, Pick(t) PROVE FormOK' /\ EnabledMeansListed'
  BY <1>7 DEF Pick
<1>8. ASSUME NEW f \in pending, NEW list \in SUBSET Repo, ReposArrive(f, list)
      PROVE  FormOK' /\ EnabledMeansListed'
  BY <1>8, NewBoxesFacts DEF ReposArrive
<1>9. ASSUME NEW f \in pending, EmptyListArrives(f) PROVE FormOK' /\ EnabledMeansListed'
  BY <1>9 DEF EmptyListArrives, Say
<1>10. ASSUME NEW f \in pending, ReposFail(f) PROVE FormOK' /\ EnabledMeansListed'
  BY <1>10 DEF ReposFail, Say
<1>11. ASSUME NEW box \in boxes, Toggle(box) PROVE FormOK' /\ EnabledMeansListed'
  BY <1>11 DEF Toggle
<1> QED
  BY <1>1, <1>2, <1>3, <1>4, <1>5, <1>6, <1>7, <1>8, <1>9, <1>10, <1>11 DEF Next

-----------------------------------------------------------------------------
(* What a request is after each step of a handler, without the records. *)
Busy(q)   == req[q].place # "free"
For(q, t) == Busy(q) /\ req[q].kind # "teams" /\ req[q].team = t
Cached(t) == teamRepos[User][t]

Others(q) == \A p \in Slot \ {q} : req'[p] = req[p]

SameForm(q) ==
  /\ Others(q)
  /\ req'[q].kind = req[q].kind
  /\ req'[q].team = req[q].team
  /\ req'[q].filter = req[q].filter

AfterTeams(q, list) ==
  /\ req[q].kind = "teams" => req'[q].place = "done" /\ req'[q].teams = list
  /\ req[q].kind # "teams" =>
       req'[q].place = IF req[q].team \in list THEN "repos" ELSE "refused"

AfterRepos(q, list) ==
  LET repos == IF req[q].kind = "run" /\ req[q].filter # {} THEN req[q].filter \cap list ELSE list
  IN  /\ req'[q].repos = repos
      /\ req'[q].place = IF req[q].kind = "run" /\ repos = {} THEN "refused" ELSE "done"

Moved(q) ==
  \/ /\ req[q].place = "teams"
     /\ UNCHANGED <<teams, teamRepos>>
     /\ IF teams[User] = {} THEN req'[q].place = "askTeams" ELSE AfterTeams(q, teams[User])
  \/ /\ req[q].place = "askTeams"
     /\ UNCHANGED <<teams, teamRepos>>
     /\ req'[q].place \in {"askTeams", "setTeams", "refused"}
  \/ /\ req[q].place = "setTeams"
     /\ teams'[User] = req[q].teams
     /\ UNCHANGED teamRepos
     /\ AfterTeams(q, req[q].teams)
  \/ /\ req[q].place = "repos"
     /\ UNCHANGED <<teams, teamRepos>>
     /\ IF Cached(req[q].team) = {}
        THEN req'[q].place = "askRepos" /\ req'[q].unread = grants[req[q].team]
        ELSE AfterRepos(q, Cached(req[q].team))
  \/ /\ req[q].place = "askRepos"
     /\ UNCHANGED <<teams, teamRepos>>
     /\ \/ req'[q].place = "refused"
        \/ /\ req'[q].place = "askRepos" /\ req'[q].repos # {}
           /\ req[q].repos \cup req[q].unread \subseteq req'[q].repos \cup req'[q].unread
        \/ /\ req'[q].place = "setRepos"
           /\ req'[q].repos = req[q].repos \cup req[q].unread
  \/ /\ req[q].place = "setRepos"
     /\ UNCHANGED teams
     /\ teamRepos'[User][req[q].team] = req[q].repos
     /\ \A t \in Team \ {req[q].team} : teamRepos'[User][t] = teamRepos[User][t]
     /\ AfterRepos(q, req[q].repos)

LEMMA HandleMoves ==
  ASSUME Service!TypeOK, NEW q \in Slot, Handle(q)
  PROVE  /\ SameForm(q) /\ Moved(q) /\ UNCHANGED <<page, past, member, grants, live, ended>>
<1> DEFINE r == req[q]
<1>1. /\ req \in [Slot -> Service!Form] /\ r \in Service!Form
      /\ teams \in [{User} -> SUBSET Team] /\ teamRepos \in [{User} -> [Team -> SUBSET Repo]]
      /\ r.sess = User /\ r.team \in Team
  BY DEF Service!TypeOK, Service!Form
<1>2. UNCHANGED <<page, past>>
  BY DEF Handle
<1>3. ASSUME NEW v, Service!Step(q, v) PROVE Others(q) /\ req'[q] = v
  BY <1>1, <1>3 DEF Service!Step, Others
<1> USE DEF Service!At, Service!github, Service!caches, Service!history, SameForm, Moved
<1>4. ASSUME NEW list \in SUBSET Team, req'[q] = Service!WithTeams(q, list), Others(q)
      PROVE  SameForm(q) /\ AfterTeams(q, list)
  BY <1>1, <1>4 DEF Service!WithTeams, Service!Form, AfterTeams
<1>5. ASSUME NEW list \in SUBSET Repo, req'[q] = Service!WithRepos(q, list), Others(q)
      PROVE  SameForm(q) /\ AfterRepos(q, list)
  BY <1>1, <1>5 DEF Service!WithRepos, Service!Scope, Service!Form, AfterRepos
<1>6. Service!CachedTeams(q) = teams[User] /\ teams[User] \in SUBSET Team
  BY <1>1 DEF Service!CachedTeams
<1>7. CASE Service!TeamsCached(q)
  BY <1>1, <1>2, <1>3, <1>4, <1>6, <1>7 DEF Service!TeamsCached
<1>8. CASE Service!TeamsMissing(q)
  <2>1. /\ req'[q] = [req[q] EXCEPT !.place = "askTeams", !.unread = member[req[q].sess]]
        /\ Others(q)
    BY <1>3, <1>8 DEF Service!TeamsMissing
  <2>2. SameForm(q) /\ req'[q].place = "askTeams"
    BY <1>1, <2>1 DEF Service!Form
  <2> QED
    BY <1>2, <1>6, <1>8, <2>2 DEF Service!TeamsMissing
<1>9. CASE Service!AskTeams(q)
  <2>1. PICK read \in Service!Page(req[q].unread) :
          /\ Others(q)
          /\ req'[q] = [req[q] EXCEPT !.teams = @ \cup read, !.unread = @ \ read,
                          !.place = IF read = req[q].unread THEN "setTeams" ELSE @]
    BY <1>3, <1>9 DEF Service!AskTeams
  <2>2. /\ req'[q].kind = req[q].kind /\ req'[q].team = req[q].team
        /\ req'[q].filter = req[q].filter
        /\ req'[q].place = IF read = req[q].unread THEN "setTeams" ELSE req[q].place
    BY <1>1, <2>1 DEF Service!Form
  <2> QED
    BY <1>2, <1>9, <2>1, <2>2 DEF Service!AskTeams
<1>10. CASE Service!SetTeams(q)
  <2>1. req[q].teams \in SUBSET Team
    BY <1>1 DEF Service!Form
  <2>2. SameForm(q) /\ AfterTeams(q, req[q].teams)
    BY <1>3, <1>4, <1>10, <2>1 DEF Service!SetTeams
  <2> QED
    BY <1>1, <1>2, <1>10, <2>2 DEF Service!SetTeams
<1>11. CASE Service!ReposCached(q)
  <2>1. Cached(req[q].team) \in SUBSET Repo /\ Service!CachedRepos(q) = Cached(req[q].team)
    BY <1>1 DEF Cached, Service!CachedRepos
  <2>2. SameForm(q) /\ AfterRepos(q, Cached(req[q].team))
    BY <1>3, <1>5, <1>11, <2>1 DEF Service!ReposCached
  <2> QED
    BY <1>2, <1>11, <2>1, <2>2 DEF Service!ReposCached
<1>12. CASE Service!ReposMissing(q)
  <2>1. /\ req'[q] = [req[q] EXCEPT !.place = "askRepos", !.unread = grants[req[q].team]]
        /\ Others(q)
    BY <1>3, <1>12 DEF Service!ReposMissing
  <2>2. SameForm(q) /\ req'[q].place = "askRepos" /\ req'[q].unread = grants[req[q].team]
    BY <1>1, <2>1 DEF Service!Form
  <2>3. Service!CachedRepos(q) = Cached(req[q].team)
    BY <1>1 DEF Cached, Service!CachedRepos
  <2> QED
    BY <1>2, <1>12, <2>2, <2>3 DEF Service!ReposMissing
<1>13. CASE Service!AskRepos(q)
  <2>1. PICK read \in Service!Page(req[q].unread) :
          /\ Others(q)
          /\ req'[q] = [req[q] EXCEPT !.repos = @ \cup read, !.unread = @ \ read,
                          !.place = IF read = req[q].unread THEN "setRepos" ELSE @]
    BY <1>3, <1>13 DEF Service!AskRepos
  <2>2. /\ req'[q].kind = req[q].kind /\ req'[q].team = req[q].team
        /\ req'[q].filter = req[q].filter
        /\ req'[q].repos = req[q].repos \cup read /\ req'[q].unread = req[q].unread \ read
        /\ req'[q].place = IF read = req[q].unread THEN "setRepos" ELSE req[q].place
    BY <1>1, <2>1 DEF Service!Form
  <2>3. read # req[q].unread => read # {}
    BY DEF Service!Page
  <2>4. req[q].place = "askRepos" /\ UNCHANGED <<teams, teamRepos, member, grants, live, ended>>
    BY <1>13 DEF Service!AskRepos
  <2>5. CASE read = req[q].unread
    <3>1. req'[q].place = "setRepos" /\ req'[q].repos = req[q].repos \cup req[q].unread
      BY <2>2, <2>5
    <3> QED
      BY <1>2, <2>1, <2>2, <2>4, <3>1
  <2>6. CASE read # req[q].unread
    <3>1. req'[q].repos # {}
      BY <2>2, <2>3, <2>6
    <3>2. req[q].repos \cup req[q].unread \subseteq req'[q].repos \cup req'[q].unread
      BY <2>2
    <3> QED
      BY <1>2, <2>1, <2>2, <2>4, <2>6, <3>1, <3>2
  <2> QED
    BY <2>5, <2>6
<1>14. CASE Service!SetTeamRepos(q)
  <2>1. req[q].repos \in SUBSET Repo
    BY <1>1 DEF Service!Form
  <2>2. SameForm(q) /\ AfterRepos(q, req[q].repos)
    BY <1>3, <1>5, <1>14, <2>1 DEF Service!SetTeamRepos
  <2>3. teamRepos' = [teamRepos EXCEPT ![User][req[q].team] = req[q].repos]
    BY <1>1, <1>14 DEF Service!SetTeamRepos
  <2>4. /\ teamRepos'[User][req[q].team] = req[q].repos
        /\ \A t \in Team \ {req[q].team} : teamRepos'[User][t] = teamRepos[User][t]
    BY <1>1, <2>3
  <2> QED
    BY <1>2, <1>14, <2>2, <2>4 DEF Service!SetTeamRepos, Cached
<1>15. CASE Service!AskFails(q)
  <2>1. /\ req'[q] = [req[q] EXCEPT !.place = "refused", !.teams = {}, !.repos = {},
                                    !.unread = {}]
        /\ Others(q)
    BY <1>3, <1>15 DEF Service!AskFails
  <2>2. SameForm(q) /\ req'[q].place = "refused"
    BY <1>1, <2>1 DEF Service!Form
  <2> QED
    BY <1>2, <1>15, <2>2 DEF Service!AskFails
<1> QED
  BY <1>7, <1>8, <1>9, <1>10, <1>11, <1>12, <1>13, <1>14, <1>15 DEF Handle

(* A new request, and one that has been answered. *)
LEMMA Received ==
  ASSUME Service!TypeOK, NEW q \in Slot, NEW kind \in Service!Kind, NEW t \in Team,
         NEW filter \in SUBSET Repo, kind # "run" => filter = {},
         kind = "teams" => t = Service!Idle.team,
         Service!Receive(q, User, kind, t, filter)
  PROVE  /\ Others(q) /\ ~Busy(q) /\ User \in live
         /\ req'[q].place = "teams" /\ req'[q].kind = kind
         /\ req'[q].team = t /\ req'[q].filter = filter
         /\ UNCHANGED <<member, grants, live, teams, teamRepos, ended>>
         /\ Service!Next
<1>1. /\ req \in [Slot -> Service!Form]
      /\ Service!Idle \in Service!Form
  BY DEF Service!TypeOK, Service!Idle, Service!Form, Service!Kind, Service!Place
<1>2. Others(q) /\ req'[q] = [Service!Idle EXCEPT !.sess = User, !.kind = kind, !.team = t,
                                                  !.filter = filter, !.place = "teams"]
  BY <1>1 DEF Service!Receive, Service!Step, Others
<1>3. Service!Next
  BY DEF Service!Next, Service!Arrive
<1> QED
  BY <1>1, <1>2, <1>3
  DEF Service!Form, Service!Receive, Service!At, Service!github, Service!caches,
      Service!history, Busy

LEMMA Finished ==
  ASSUME Service!TypeOK, NEW q \in Slot, Service!Finish(q)
  PROVE  /\ Others(q) /\ req[q].place \in {"done", "refused"}
         /\ req'[q].place = "free" /\ req'[q].kind = "teams"
         /\ UNCHANGED <<member, grants, live, teams, teamRepos, ended>>
         /\ Service!Next
<1>1. req \in [Slot -> Service!Form]
  BY DEF Service!TypeOK
<1>2. Others(q) /\ req'[q] = Service!Idle
  BY <1>1 DEF Service!Finish, Service!Step, Others
<1>3. Service!Next
  BY DEF Service!Next
<1> QED
  BY <1>2, <1>3
  DEF Service!Finish, Service!At, Service!Idle, Service!github, Service!caches,
      Service!history

-----------------------------------------------------------------------------
(* How the page and its requests belong together. *)

(* No request but the first is made before the teams are there. *)
BeforeTeams == loaded # "ready" =>
  /\ team = NoTeam /\ picks = 0 /\ pending = {} /\ boxes = {}
  /\ \A q \in Slot : Busy(q) => req[q].kind = "teams"

(* Only that one ever asks GitHub for the teams. *)
TeamsAskedOnce == \A q \in Slot :
  /\ ~Busy(q) => req[q].kind = "teams"
  /\ Busy(q) /\ req[q].kind = "teams" => q = Main /\ loaded = "loading"
  /\ req[q].place \in {"askTeams", "setTeams"} => req[q].kind = "teams"
  /\ req[q].place \in {"repos", "askRepos", "setRepos"} => req[q].kind # "teams"

(* So the picker offers what the session has cached. *)
PickerIsCache ==
  /\ loaded = "ready" => options # {} /\ options = teams[User]
  /\ req[Main].kind = "teams" /\ req[Main].place = "done" /\ req[Main].teams # {} =>
       req[Main].teams = teams[User]
  /\ \A q \in Slot : req[q].kind # "teams" => req[q].team \in options

(* Each pick has a slot of its own. *)
FetchesMatch ==
  /\ \A q \in Slot : Busy(q) => q <= picks
  /\ \A f \in pending :
       /\ f[1] <= picks
       /\ Busy(f[1]) => req[f[1]].kind = "repos" /\ req[f[1]].team = f[2]

PageOK == PTypeOK /\ Proved!UnreadIsListed /\ NothingToPick /\ EnabledMeansListed
Structure == BeforeTeams /\ TeamsAskedOnce /\ PickerIsCache /\ FetchesMatch

LEMMA SlotFacts ==
  ASSUME PTypeOK
  PROVE  /\ Main \in Slot
         /\ picks \in Nat
         /\ \A f \in pending : f[1] \in Slot \ {Main} /\ f[2] \in Team
         /\ picks < MaxPicks => picks + 1 \in Slot \ {Main}
         /\ req \in [Slot -> Service!Form]
         /\ \A q \in Slot : req[q].repos \in SUBSET Repo /\ req[q].teams \in SUBSET Team
BY DEF PTypeOK, TypeOK, Service!TypeOK, Service!Form, Slot, Main

LEMMA TeamsAsked ==
  ASSUME PTypeOK, AskForTeams
  PROVE  /\ Others(Main) /\ ~Busy(Main) /\ User \in live
         /\ req'[Main].place = "teams" /\ req'[Main].kind = "teams"
         /\ UNCHANGED <<member, grants, live, teams, teamRepos, ended>>
         /\ Service!Next
<1>1. PICK t \in Team : t = Service!Idle.team /\ Service!Receive(Main, User, "teams", t, {})
  BY DEF AskForTeams, Service!Idle
<1> QED
  BY <1>1, SlotFacts, Received DEF Service!Kind, PTypeOK

(* A step of the composition is a step of the page and of the handlers. *)
LEMMA PageSteps ==
  ASSUME PageOK, Structure, [PNext]_pvars
  PROVE  [Next]_vars /\ [Service!Next]_service
<1> USE DEF page
<1>0. PTypeOK /\ Service!TypeOK /\ TypeOK
  BY DEF PageOK, PTypeOK
<1>1. CASE UNCHANGED pvars
  BY <1>1 DEF pvars
<1>2. CASE LogIn
  BY <1>2 DEF LogIn, Service!Next
<1>3. CASE LogOut
  BY <1>3 DEF LogOut, Service!Next
<1>4. CASE GitHubChanges
  BY <1>4 DEF GitHubChanges, Service!Next
<1>5. ASSUME NEW q \in Slot, Handle(q) PROVE [Next]_vars /\ [Service!Next]_service
  BY <1>5 DEF Handle, Service!Next
<1>6. ASSUME NEW f \in pending, FetchAnswered(f) PROVE [Next]_vars /\ [Service!Next]_service
  <2>1. f[1] \in Slot /\ req[f[1]].repos \in SUBSET Repo
    BY <1>0, SlotFacts
  <2>2. EmptyListArrives(f) \/ ReposArrive(f, req[f[1]].repos)
    BY <1>6 DEF FetchAnswered
  <2>3. Next
    BY <2>1, <2>2 DEF Next
  <2> QED
    BY <1>0, <1>6, <2>1, <2>3, Finished DEF FetchAnswered
<1>7. ASSUME NEW f \in pending, FetchFails(f) PROVE [Next]_vars /\ [Service!Next]_service
  BY <1>0, <1>7, SlotFacts, Finished DEF FetchFails, Next
<1>8. CASE AskForTeams
  BY <1>0, <1>8, SlotFacts, TeamsAsked DEF AskForTeams
<1>9. CASE TeamsAnswered
  <2>1. TeamsFail \/ TeamsArrive(req[Main].teams)
    BY <1>9 DEF TeamsAnswered
  <2>2. Next
    BY <1>0, <2>1, SlotFacts DEF Next
  <2> QED
    BY <1>0, <1>9, <2>2, SlotFacts, Finished DEF TeamsAnswered
<1>10. ASSUME NEW t \in Team, PickTeam(t) PROVE [Next]_vars /\ [Service!Next]_service
  <2>1. picks' \in Slot
    BY <1>0, <1>10, SlotFacts DEF PickTeam, Pick
  <2>2. Next
    BY <1>10 DEF PickTeam, Next
  <2>3. CASE Service!Receive(picks', User, "repos", t, {})
    BY <1>0, <2>1, <2>2, <2>3, Received DEF Service!Kind
  <2> QED
    BY <1>10, <2>2, <2>3 DEF PickTeam
<1>11. CASE PostForm
  <2>1. team \in Team /\ Posted \in SUBSET Repo
    BY <1>0, <1>11 DEF PostForm, Submit, TypeOK, Posted, Box
  <2> QED
    BY <1>0, <1>11, <2>1, SlotFacts, Received DEF PostForm, Submit, Service!Kind
<1>12. CASE RunAnswered
  BY <1>0, <1>12, SlotFacts, Finished DEF RunAnswered
<1>13. CASE Here
  BY <1>13 DEF Here, Next
<1> QED
  BY <1>1, <1>2, <1>3, <1>4, <1>5, <1>6, <1>7, <1>8, <1>9, <1>10, <1>11, <1>12, <1>13
  DEF PNext, ServiceStep

LEMMA PostedType == ASSUME TypeOK PROVE \A box \in boxes : box.of \in Team /\ box.repo \in Repo
BY DEF TypeOK, Box

LEMMA PairsType ==
  ASSUME NEW g \in [Team -> SUBSET Repo]
  PROVE  /\ Service!Pairs(g) \in SUBSET (Team \X Repo)
         /\ \A t \in Team, r \in Repo : <<t, r>> \in Service!Pairs(g) <=> r \in g[t]
<1>1. \A t \in Team : {t} \X g[t] \subseteq Team \X Repo
  OBVIOUS
<1> QED
  BY <1>1 DEF Service!Pairs

LEMMA NextPageOK ==
  ASSUME PageOK, Structure, [PNext]_pvars
  PROVE  PageOK'
<1> USE DEF page, past
<1>0. PTypeOK /\ Service!TypeOK /\ TypeOK
  BY DEF PageOK, PTypeOK
<1>1. [Next]_vars /\ [Service!Next]_service
  BY PageSteps
<1>2. Service!TypeOK' /\ Proved!UnreadIsListed'
  BY <1>0, <1>1, ServiceTypes DEF PageOK
<1>3. FormOK' /\ EnabledMeansListed'
  BY <1>1, NextForm DEF PageOK, PTypeOK, FormOK
<1>4. TypeOK'
  BY <1>3 DEF FormOK
<1> SUFFICES /\ kept' \subseteq Team \X Repo /\ bare' \subseteq 1..MaxPicks
             /\ shown' \subseteq Repo /\ overlapped' \subseteq Team /\ late' \in BOOLEAN
  BY <1>2, <1>3 DEF PageOK, PTypeOK, FormOK
<1>5. CASE UNCHANGED past
  BY <1>0, <1>5 DEF PTypeOK
<1>6. CASE LogIn
  <2>1. grants \in [Team -> SUBSET Repo]
    BY <1>0 DEF Service!TypeOK
  <2> QED
    BY <1>0, <1>6, <2>1, PairsType DEF LogIn, PTypeOK
<1>7. CASE GitHubChanges
  BY <1>0, <1>7, SlotFacts DEF GitHubChanges, PTypeOK, TypeOK
<1>8. ASSUME NEW t \in Team, PickTeam(t)
      PROVE  /\ UNCHANGED <<kept, shown>> /\ late' = FALSE
             /\ bare' \subseteq 1..MaxPicks /\ overlapped' \subseteq Team
  BY <1>0, <1>8, SlotFacts DEF PickTeam, Pick, RecordOverlap, PTypeOK, TypeOK
<1>9. CASE PostForm
  <2>1. team \in Team
    BY <1>0, <1>9 DEF PostForm, Submit, TypeOK
  <2> QED
    BY <1>0, <1>9, <2>1, PostedType DEF PostForm, RecordOverlap, PTypeOK
<1>10. ASSUME NEW q \in Slot, ServiceStep(q)
       PROVE  UNCHANGED <<kept, bare, shown, overlapped>> /\ late' \in BOOLEAN
  BY <1>0, <1>10 DEF ServiceStep, Handle, FetchAnswered, FetchFails, RecordLate, PTypeOK
<1> QED
  BY <1>0, <1>5, <1>6, <1>7, <1>8, <1>9, <1>10
  DEF PNext, pvars, LogOut, AskForTeams, TeamsAnswered, RunAnswered, Here, PTypeOK

(* A change on GitHub leaves the requests as they are, but for the pages    *)
(* that a list has left to read.                                            *)
Unmoved(q) ==
  /\ req'[q].kind = req[q].kind /\ req'[q].team = req[q].team
  /\ req'[q].filter = req[q].filter /\ req'[q].place = req[q].place
  /\ req'[q].teams = req[q].teams /\ req'[q].repos = req[q].repos

LEMMA ChangeMoves ==
  ASSUME PageOK, Structure, GitHubChanges
  PROVE  (\A q \in Slot : Unmoved(q)) /\ UNCHANGED <<page, live, teams, teamRepos, ended>>
<1>1. Service!TypeOK' /\ [PNext]_pvars
  BY NextPageOK DEF PageOK, PTypeOK, PNext
<1>2. member' \in [{User} -> SUBSET Team] /\ grants' \in [Team -> SUBSET Repo]
  BY <1>1 DEF Service!TypeOK
<1>3. Proved!PagesShift
  BY DEF GitHubChanges, Service!Change, Service!PagesShift, Service!Disturbed,
         Service!Shifted, Service!Listed, Proved!PagesShift, Proved!Disturbed,
         Proved!Shifted, Proved!Listed
<1>4. \A q \in Slot : Proved!SameButUnread(req'[q], req[q])
  BY <1>2, <1>3, SameTypes, Proved!ChangedRequests DEF PageOK, PTypeOK
<1> QED
  BY <1>4 DEF Unmoved, Proved!SameButUnread, GitHubChanges, Service!Change, Service!caches

(* What it does to a list of repositories that is being read: while none    *)
(* goes nothing is missed, and before the first page there is all to read.  *)
LEMMA ChangeReads ==
  ASSUME PageOK, GitHubChanges, NEW q \in Slot, req[q].place = "askRepos"
  PROVE  LET old == grants[req[q].team]
             new == grants'[req[q].team]
         IN  /\ old \subseteq new => req[q].unread \subseteq req'[q].unread
             /\ req[q].unread = old => req'[q].unread = new
<1> DEFINE old == grants[req[q].team]
           new == grants'[req[q].team]
<1>1. req[q] \in Service!Form /\ req[q].team \in Team /\ grants \in [Team -> SUBSET Repo]
  BY DEF PageOK, PTypeOK, Service!TypeOK, Service!Form
<1>2. PICK unread \in [Service!Disturbed -> SUBSET (Team \cup Repo)] :
        /\ \A p \in Service!Disturbed :
             unread[p] \in Service!Shifted(req[p].unread,
                            Service!Listed(req[p], member, grants),
                            Service!Listed(req[p], member', grants'))
        /\ req' = [p \in Slot |->
                     IF p \in Service!Disturbed THEN [req[p] EXCEPT !.unread = unread[p]]
                     ELSE req[p]]
  BY DEF GitHubChanges, Service!Change, Service!PagesShift
<1>3. /\ Service!Listed(req[q], member, grants) = old
      /\ Service!Listed(req[q], member', grants') = new
  BY DEF Service!Listed
<1>4. new \subseteq old \/ \E r \in Repo : new = old \cup {r}
  <2>1. CASE UNCHANGED grants
    BY <2>1
  <2>2. ASSUME NEW t \in Team, NEW r \in Repo,
               grants' = [grants EXCEPT ![t] = IF r \in @ THEN @ \ {r} ELSE @ \cup {r}]
        PROVE  new \subseteq old \/ new = old \cup {r}
    <3>1. CASE t = req[q].team
      BY <1>1, <2>2, <3>1
    <3>2. CASE t # req[q].team
      BY <1>1, <2>2, <3>2
    <3> QED
      BY <3>1, <3>2
  <2> QED
    BY <2>1, <2>2 DEF GitHubChanges, Service!Change
<1>5. CASE q \in Service!Disturbed
  <2>1. req'[q].unread = unread[q] /\ unread[q] \in Service!Shifted(req[q].unread, old, new)
    BY <1>1, <1>2, <1>3, <1>5 DEF Service!Form
  <2>2. old # new
    BY <1>3, <1>5 DEF Service!Disturbed
  <2> HIDE DEF old, new
  <2>3. \A rest \in Service!Shifted(req[q].unread, old, new) :
          /\ old \subseteq new => req[q].unread \subseteq rest
          /\ req[q].unread = old => rest = new
    BY <1>4, <2>2 DEF Service!Shifted
  <2> QED
    BY <2>1, <2>3 DEF old, new
<1>6. CASE q \notin Service!Disturbed
  BY <1>2, <1>3, <1>6 DEF Service!Disturbed
<1> QED
  BY <1>5, <1>6

LEMMA InitPage == PInit => PageOK /\ Structure
<1> SUFFICES ASSUME PInit PROVE PageOK /\ Structure
  OBVIOUS
<1>1. Service!TypeOK /\ Proved!UnreadIsListed
  BY SameInit, SameTypes, Proved!InitTypeOK, Proved!InitUnread DEF PInit
<1>2. PageOK
  BY <1>1, InitForm DEF PInit, PageOK, PTypeOK, FormOK
<1>3. \A q \in Slot : req[q] = Service!Idle
  BY DEF PInit, Service!Init
<1>4. \A q \in Slot : req[q].place = "free" /\ req[q].kind = "teams"
  <2>1. Service!Idle.place = "free" /\ Service!Idle.kind = "teams"
    BY DEF Service!Idle
  <2> QED
    BY <1>3, <2>1
<1> QED
  BY <1>2, <1>4, SlotFacts
  DEF PageOK, PInit, Init, Structure, BeforeTeams, TeamsAskedOnce, PickerIsCache,
      FetchesMatch, Busy

(* The structure survives each kind of step. *)
LEMMA NextStructure ==
  ASSUME PageOK, Structure, [PNext]_pvars
  PROVE  Structure'
<1> USE DEF page, Busy, Structure, BeforeTeams, TeamsAskedOnce, PickerIsCache, FetchesMatch
<1>0. PTypeOK /\ Service!TypeOK /\ TypeOK /\ NothingToPick
  BY DEF PageOK, PTypeOK
<1>1. CASE UNCHANGED pvars
  BY <1>1 DEF pvars, vars, picker, service
<1>2. CASE UNCHANGED page /\ UNCHANGED <<req, teams>>
  BY <1>2 DEF vars, picker
<1>3. CASE LogIn \/ LogOut
  BY <1>2, <1>3 DEF LogIn, LogOut, Service!Open, Service!Logout, Service!caches
<1>14. CASE GitHubChanges
  BY <1>0, <1>14, ChangeMoves, SlotFacts DEF Unmoved, vars, picker
<1>4. ASSUME NEW q \in Slot, Handle(q) PROVE Structure'
  <2>1. SameForm(q) /\ Moved(q) /\ UNCHANGED page
    BY <1>0, <1>4, HandleMoves
  <2>2. Busy(q)' /\ Busy(q)
    BY <2>1 DEF Moved, AfterTeams, AfterRepos
  <2>3. UNCHANGED <<loaded, options, team, picks, pending, boxes>>
    BY <2>1 DEF vars, picker
  <2>4. \A p \in Slot : /\ req'[p].kind = req[p].kind /\ req'[p].team = req[p].team
                        /\ req'[p].place # "free" <=> req[p].place # "free"
    BY <2>1, <2>2 DEF SameForm, Others
  <2>5. BeforeTeams' /\ FetchesMatch'
    BY <1>0, <2>3, <2>4, SlotFacts
  <2>6. TeamsAskedOnce'
    <3>1. /\ req'[q].place \in {"askTeams", "setTeams"} => req'[q].kind = "teams"
          /\ req'[q].place \in {"repos", "askRepos", "setRepos"} => req'[q].kind # "teams"
      BY <2>1, <2>2, <2>4 DEF Moved, AfterTeams, AfterRepos
    <3> QED
      BY <2>1, <2>3, <2>4, <3>1 DEF SameForm, Others
  <2>7. PickerIsCache'
    <3>1. UNCHANGED teams \/ req[q].place = "setTeams"
      BY <2>1 DEF Moved
    <3>2. loaded = "ready" => UNCHANGED teams
      BY <2>2, <3>1
    <3>3. req'[Main].kind = "teams" /\ req'[Main].place = "done" /\ req'[Main].teams # {} =>
            req'[Main].teams = teams'[User]
      <4>1. CASE q = Main
        BY <2>1, <2>4, <4>1 DEF Moved, AfterTeams, AfterRepos
      <4>2. CASE q # Main
        BY <1>0, <2>1, <2>2, <3>1, <4>2, SlotFacts DEF SameForm, Others
      <4> QED
        BY <4>1, <4>2
    <3> QED
      BY <2>3, <2>4, <3>2, <3>3
  <2> QED
    BY <2>5, <2>6, <2>7
<1>5. ASSUME NEW f \in pending, Service!Finish(f[1]), pending' = pending \ {f},
             UNCHANGED <<loaded, options, team, picks>>, loaded = "ready" \/ UNCHANGED boxes
      PROVE  Structure'
  <2>1. f[1] \in Slot
    BY <1>0, SlotFacts
  <2>2. /\ Others(f[1]) /\ req'[f[1]].place = "free" /\ req'[f[1]].kind = "teams"
        /\ UNCHANGED teams
    BY <1>0, <1>5, <2>1, Finished
  <2> QED
    BY <1>0, <1>5, <2>1, <2>2, SlotFacts DEF Others
<1>6. ASSUME NEW f \in pending, FetchAnswered(f) PROVE Structure'
  BY <1>5, <1>6
  DEF FetchAnswered, EmptyListArrives, ReposArrive, picker
<1>7. ASSUME NEW f \in pending, FetchFails(f) PROVE Structure'
  <2>1. pending' = pending \ {f} /\ UNCHANGED <<loaded, options, team, picks, boxes>>
    BY <1>7 DEF FetchFails, ReposFail, picker
  <2>2. CASE UNCHANGED service
    BY <1>0, <2>1, <2>2 DEF service
  <2> QED
    BY <1>5, <1>7, <2>1, <2>2 DEF FetchFails
<1>8. CASE AskForTeams
  <2>1. /\ Others(Main) /\ req'[Main].place = "teams" /\ req'[Main].kind = "teams"
        /\ UNCHANGED teams
    BY <1>0, <1>8, SlotFacts, TeamsAsked DEF AskForTeams
  <2> QED
    BY <1>0, <1>8, <2>1, SlotFacts DEF AskForTeams, Others, vars, picker, Main
<1>9. CASE TeamsAnswered
  <2>1. /\ Others(Main) /\ req'[Main].place = "free" /\ req'[Main].kind = "teams"
        /\ UNCHANGED teams
    BY <1>0, <1>9, SlotFacts, Finished DEF TeamsAnswered
  <2>2. loaded = "loading" /\ UNCHANGED <<team, picks, pending, boxes>>
    BY <1>9 DEF TeamsAnswered, TeamsArrive, TeamsFail
  <2>3. \A q \in Slot : req'[q].place = "free" /\ req'[q].kind = "teams"
    BY <2>1, <2>2, SlotFacts DEF Others
  <2>4. loaded' = "ready" => options' # {} /\ options' = teams[User]
    BY <1>9 DEF TeamsAnswered, TeamsArrive, TeamsFail, Service!At
  <2> QED
    BY <1>0, <2>1, <2>2, <2>3, <2>4, SlotFacts
<1>10. ASSUME NEW t \in Team, PickTeam(t) PROVE Structure'
  <2>1. /\ picks' = picks + 1 /\ picks' \in Slot \ {Main} /\ loaded = "ready" /\ t \in options
        /\ pending' = pending \cup {<<picks + 1, t>>} /\ UNCHANGED <<loaded, options>>
    BY <1>0, <1>10, SlotFacts DEF PickTeam, Pick, picker, NothingToPick
  <2>2. CASE UNCHANGED service
    BY <1>0, <2>1, <2>2, SlotFacts DEF service, Slot
  <2>3. CASE Service!Receive(picks', User, "repos", t, {})
    <3>1. PICK p \in Slot : p = picks'
      BY <2>1
    <3>2. Service!Receive(p, User, "repos", t, {})
      BY <2>3, <3>1
    <3>3. /\ Others(p) /\ req'[p].place = "teams" /\ req'[p].kind = "repos"
          /\ req'[p].team = t /\ UNCHANGED teams
      BY <1>0, <3>2, Received DEF Service!Kind
    <3>4. BeforeTeams' /\ TeamsAskedOnce' /\ PickerIsCache'
      BY <1>0, <2>1, <3>1, <3>3, SlotFacts DEF Others, Slot
    <3>5. FetchesMatch'
      <4>1. \A q \in Slot : Busy(q)' => q <= picks'
        BY <1>0, <2>1, <3>1, <3>3, SlotFacts DEF Others, Slot
      <4>2. ASSUME NEW f \in pending
            PROVE  /\ f[1] \in Slot \ {p} /\ f[1] <= picks'
                   /\ Busy(f[1])' => req'[f[1]].kind = "repos" /\ req'[f[1]].team = f[2]
        BY <1>0, <2>1, <3>1, <3>3, SlotFacts DEF Others, Slot
      <4> QED
        BY <2>1, <3>1, <3>3, <4>1, <4>2
    <3> QED
      BY <3>4, <3>5
  <2> QED
    BY <1>10, <2>2, <2>3 DEF PickTeam
<1>11. CASE PostForm
  <2>1. team \in options /\ team \in Team /\ Posted \in SUBSET Repo
    BY <1>0, <1>11 DEF PostForm, Submit, TypeOK, Posted, Box
  <2>2. /\ Others(Main) /\ req'[Main].place = "teams" /\ req'[Main].kind = "run"
        /\ req'[Main].team = team /\ UNCHANGED teams
    BY <1>0, <1>11, <2>1, SlotFacts, Received DEF PostForm, Service!Kind
  <2>3. UNCHANGED <<loaded, options, team, picks, pending, boxes>> /\ loaded = "ready"
    BY <1>0, <1>11, <2>1 DEF PostForm, Submit, vars, picker, NothingToPick
  <2> QED
    BY <1>0, <2>1, <2>2, <2>3, SlotFacts DEF Others, Main
<1>12. CASE RunAnswered
  <2>1. /\ Others(Main) /\ req'[Main].place = "free" /\ req'[Main].kind = "teams"
        /\ UNCHANGED teams
    BY <1>0, <1>12, SlotFacts, Finished DEF RunAnswered
  <2> QED
    BY <1>0, <1>12, <2>1, SlotFacts DEF RunAnswered, Others, vars, picker
<1>13. CASE Here
  <2>1. CASE UNCHANGED <<loaded, options, team, picks, pending, boxes>>
    BY <1>0, <1>13, <2>1, SlotFacts DEF Here, service
  <2>2. CASE PickNone
    <3>1. /\ loaded = "ready" /\ picks' = picks + 1
          /\ UNCHANGED <<loaded, options, pending, req, teams>>
      BY <1>13, <2>2 DEF Here, PickNone, picker, service
    <3> QED
      BY <1>0, <3>1, SlotFacts DEF Slot
  <2> QED
    BY <1>13, <2>1, <2>2 DEF Here, SetAll, Toggle, picker
<1> QED
  BY <1>1, <1>3, <1>4, <1>6, <1>7, <1>8, <1>9, <1>10, <1>11, <1>12, <1>13, <1>14
  DEF PNext, ServiceStep

LEMMA AlwaysStructure == PSpec => [](PageOK /\ Structure)
<1>1. PInit => PageOK /\ Structure
  BY InitPage
<1>2. PageOK /\ Structure /\ [PNext]_pvars => (PageOK /\ Structure)'
  BY NextPageOK, NextStructure
<1> QED
  BY <1>1, <1>2, PTL DEF PSpec

(* The types of the page, the handlers and the history are as declared. *)
THEOREM PageTypeCorrect == PSpec => []PTypeOK
<1>1. PageOK => PTypeOK
  BY DEF PageOK
<1> QED
  BY <1>1, AlwaysStructure, PTL

(* The picker offers what the handlers check the team against.              *)
THEOREM PickerOffersCache == PSpec => []OffersAreCached
<1>1. PageOK /\ Structure => OffersAreCached
  BY DEF Structure, PickerIsCache, OffersAreCached
<1> QED
  BY <1>1, AlwaysStructure, PTL

(* The button is enabled only over a list, whatever the handlers answer. *)
THEOREM ButtonMeansList == PSpec => []EnabledMeansListed
<1>1. PageOK => EnabledMeansListed
  BY DEF PageOK
<1> QED
  BY <1>1, AlwaysStructure, PTL

(* The composition is the page against some service: what holds of the page *)
(* for all answers holds for those of the handlers.                         *)
THEOREM PageIsForm == PSpec => Spec
<1>1. PInit => Init
  BY DEF PInit
<1>2. PageOK /\ Structure /\ [PNext]_pvars => [Next]_vars
  BY PageSteps
<1> QED
  BY <1>1, <1>2, AlwaysStructure, PTL DEF PSpec, Spec

(* And it is the handlers with some client: what holds of them for any      *)
(* requests, such as OwnTeamOnly, holds for those of the page.              *)
THEOREM PageUsesService == PSpec => Service!Spec
<1>1. PInit => Service!Init
  BY DEF PInit
<1>2. PageOK /\ Structure /\ [PNext]_pvars => [Service!Next]_Service!vars
  <2>1. UNCHANGED service => UNCHANGED Service!vars
    BY DEF service, Service!vars, Service!github, Service!caches, Service!history
  <2> QED
    BY <2>1, PageSteps
<1> QED
  BY <1>1, <1>2, AlwaysStructure, PTL DEF PSpec, Service!Spec

-----------------------------------------------------------------------------
(* Why a submission is what is shown: as long as no two requests for a team *)
(* are in flight at once, its cache is filled once and for all.             *)

Alone == \A t \in Team \ overlapped, p, q \in Slot : For(p, t) /\ For(q, t) => p = q

(* A request that asks GitHub has found nothing cached, and an answer is    *)
(* what is cached by then.                                                  *)
CacheSettled == \A q \in Slot : req[q].kind # "teams" /\ req[q].team \notin overlapped =>
  /\ req[q].place \in {"askRepos", "setRepos"} => Cached(req[q].team) = {}
  /\ req[q].kind = "repos" /\ req[q].place = "done" /\ req[q].repos # {} =>
       req[q].repos = Cached(req[q].team)

Listed(t) == {x.repo : x \in {y \in boxes : y.of = t}}

ListIsCache == \A t \in Team \ overlapped : Listed(t) = {} \/ Listed(t) = Cached(t)

RunKnown == req[Main].kind = "run" /\ req[Main].team \notin overlapped =>
  /\ shown = {} \/ shown = Cached(req[Main].team)
  /\ req[Main].place # "askTeams"
  /\ req[Main].place = "refused" => Asked = {}
  /\ req[Main].place = "done" /\ req[Main].filter # {} =>
       req[Main].repos = req[Main].filter \cap Cached(req[Main].team)

Settled == Alone /\ CacheSettled /\ ListIsCache /\ RunKnown

LEMMA InitSettled == PInit => Settled
<1> SUFFICES ASSUME PInit PROVE Settled
  OBVIOUS
<1>1. PageOK /\ Structure
  BY InitPage
<1>2. \A q \in Slot : req[q] = Service!Idle
  BY DEF PInit, Service!Init
<1>3. Service!Idle.kind = "teams"
  BY DEF Service!Idle
<1> QED
  BY <1>1, <1>2, <1>3, SlotFacts
  DEF PageOK, Settled, Alone, CacheSettled, ListIsCache, RunKnown, For, Listed, PInit, Init

(* A step that leaves the caches alone, and of the requests only ends some  *)
(* or starts one for the teams.                                             *)
Quiet ==
  /\ UNCHANGED teamRepos
  /\ \A q \in Slot : Unmoved(q) \/ req'[q].kind = "teams"

LEMMA QuietSettles ==
  ASSUME PageOK, Structure, Settled, Quiet, UNCHANGED <<shown, overlapped>>,
         UNCHANGED boxes \/ boxes' = {}
  PROVE  Settled'
<1>0. PTypeOK /\ Main \in Slot
  BY SlotFacts DEF PageOK
<1>1. Alone'
  BY DEF Settled, Alone, Quiet, Unmoved, For, Busy
<1>2. CacheSettled'
  BY DEF Settled, CacheSettled, Quiet, Unmoved, Cached
<1>3. ListIsCache'
  BY DEF Settled, ListIsCache, Listed, Quiet, Cached
<1>4. RunKnown'
  <2>1. CASE Unmoved(Main)
    BY <2>1 DEF Settled, RunKnown, Quiet, Unmoved, Cached, Asked
  <2>2. CASE req'[Main].kind = "teams"
    BY <2>2 DEF RunKnown
  <2> QED
    BY <1>0, <2>1, <2>2 DEF Quiet
<1> QED
  BY <1>1, <1>2, <1>3, <1>4 DEF Settled

(* The steps of which that is true. *)
LEMMA QuietSteps ==
  ASSUME PageOK, Structure,
         \/ UNCHANGED pvars \/ LogIn \/ LogOut \/ GitHubChanges
         \/ AskForTeams \/ TeamsAnswered \/ RunAnswered \/ Here
         \/ \E f \in pending : FetchFails(f)
  PROVE  /\ Quiet /\ UNCHANGED <<shown, overlapped>>
         /\ UNCHANGED boxes \/ boxes' = {}
<1> USE DEF page, past, Unmoved
<1>0. PTypeOK /\ Service!TypeOK
  BY DEF PageOK, PTypeOK
<1>1. CASE UNCHANGED pvars
  BY <1>1 DEF pvars, vars, service, Quiet
<1>2. CASE LogIn \/ LogOut
  BY <1>2 DEF LogIn, LogOut, Service!Open, Service!Logout, Service!caches, vars, Quiet
<1>9. CASE GitHubChanges
  BY <1>9, ChangeMoves DEF GitHubChanges, vars, Quiet
<1>3. ASSUME NEW q \in Slot, Service!Finish(q) PROVE Quiet
  BY <1>0, <1>3, Finished DEF Quiet, Others
<1>4. CASE AskForTeams
  <2>1. Others(Main) /\ req'[Main].kind = "teams" /\ UNCHANGED teamRepos
    BY <1>0, <1>4, SlotFacts, TeamsAsked DEF AskForTeams
  <2> QED
    BY <1>4, <2>1 DEF AskForTeams, Quiet, Others, vars
<1>5. CASE TeamsAnswered
  BY <1>0, <1>3, <1>5, SlotFacts DEF TeamsAnswered, TeamsArrive, TeamsFail
<1>6. CASE RunAnswered
  BY <1>0, <1>3, <1>6, SlotFacts DEF RunAnswered, vars
<1>7. CASE Here
  BY <1>7 DEF Here, PickNone, SetAll, Toggle, service, Quiet
<1>8. ASSUME NEW f \in pending, FetchFails(f)
      PROVE  Quiet /\ UNCHANGED <<shown, overlapped, boxes>>
  BY <1>0, <1>3, <1>8, SlotFacts DEF FetchFails, ReposFail, RecordLate, service, Quiet
<1> QED
  BY <1>1, <1>2, <1>4, <1>5, <1>6, <1>7, <1>8, <1>9

(* A handler moves on: only the one that asked for a team's repositories    *)
(* changes their cache.                                                     *)
LEMMA HandleSettles ==
  ASSUME PageOK, Structure, Settled, NEW q \in Slot, Handle(q)
  PROVE  Settled'
<1> DEFINE t == req[q].team
<1>1. /\ SameForm(q) /\ Moved(q) /\ UNCHANGED <<boxes, shown, overlapped>>
      /\ PTypeOK
  BY HandleMoves DEF PageOK, PTypeOK, page, past, vars
<1>2. \A p \in Slot : /\ req'[p].kind = req[p].kind /\ req'[p].team = req[p].team
                      /\ req'[p].filter = req[p].filter
                      /\ req'[p].place # "free" <=> req[p].place # "free"
  BY <1>1 DEF SameForm, Others, Moved, AfterTeams, AfterRepos
<1>3. /\ \A p \in Slot : req[p].team \in Team
      /\ \A p \in Slot : req[p].kind # "teams" => For(p, req[p].team)
  BY <1>1 DEF PTypeOK, Service!TypeOK, Service!Form, For, Structure, TeamsAskedOnce
<1>4. \A u \in Team : \/ teamRepos'[User][u] = teamRepos[User][u]
                      \/ req[q].place = "setRepos" /\ u = t /\ For(q, t)
  <2>1. CASE UNCHANGED teamRepos
    BY <2>1
  <2>2. CASE ~UNCHANGED teamRepos
    <3>1. /\ req[q].place = "setRepos"
          /\ \A u \in Team \ {t} : teamRepos'[User][u] = teamRepos[User][u]
      BY <1>1, <2>2 DEF Moved
    <3>2. For(q, t)
      BY <1>3, <3>1 DEF Structure, TeamsAskedOnce
    <3> QED
      BY <3>1, <3>2
  <2> QED
    BY <2>1, <2>2
<1>5. Alone'
  BY <1>1, <1>2 DEF Settled, Alone, For, Busy
<1>6. ASSUME NEW p \in Slot \ {q}, req[p].kind # "teams", req[p].team \notin overlapped
      PROVE  /\ teamRepos'[User][req[p].team] = teamRepos[User][req[p].team]
             /\ req'[p] = req[p]
  BY <1>1, <1>3, <1>4, <1>6 DEF Settled, Alone, SameForm, Others
<1>7. CacheSettled'
  <2>1. ASSUME req[q].kind # "teams", t \notin overlapped
        PROVE  /\ req'[q].place \in {"askRepos", "setRepos"} => teamRepos'[User][t] = {}
               /\ req[q].kind = "repos" /\ req'[q].place = "done" /\ req'[q].repos # {} =>
                    req'[q].repos = teamRepos'[User][t]
    BY <1>1, <2>1
    DEF Moved, AfterTeams, AfterRepos, Settled, CacheSettled, Cached, Structure,
        TeamsAskedOnce
  <2> QED
    BY <1>1, <1>2, <1>6, <2>1 DEF Settled, CacheSettled, Cached
<1>8. ListIsCache'
  <2>1. ASSUME NEW u \in Team \ overlapped
        PROVE  Listed(u) = {} \/ Listed(u) = teamRepos'[User][u]
    BY <1>1, <1>3, <1>4, <2>1 DEF Settled, ListIsCache, CacheSettled, Cached, For
  <2>2. \A u \in Team : Listed(u)' = Listed(u)
    BY <1>1 DEF Listed
  <2> QED
    BY <1>1, <2>1, <2>2 DEF ListIsCache, Cached
<1>9. RunKnown'
  <2> SUFFICES ASSUME req'[Main].kind = "run", req'[Main].team \notin overlapped'
      PROVE  RunKnown'
    BY DEF RunKnown
  <2> DEFINE c == req[Main].team
  <2>0. /\ Main \in Slot /\ req[Main].kind = "run" /\ c \notin overlapped
        /\ req[Main].place # "free" /\ loaded = "ready" /\ c \in teams[User]
    BY <1>1, <1>2, SlotFacts
    DEF Structure, TeamsAskedOnce, BeforeTeams, PickerIsCache, Busy
  <2>1. CASE q = Main
    <3>1. shown = {} \/ shown = teamRepos'[User][c]
      BY <1>1, <1>3, <1>4, <2>0, <2>1 DEF Settled, RunKnown, CacheSettled, Cached
    <3>2. req'[Main].place # "askTeams"
      BY <1>1, <2>0, <2>1 DEF Moved, AfterTeams, AfterRepos, Settled, RunKnown
    <3>3. req'[Main].place = "refused" => req[Main].filter \cap shown = {}
      BY <1>1, <2>0, <2>1
      DEF Moved, AfterTeams, AfterRepos, Settled, RunKnown, CacheSettled, Cached,
          Structure, TeamsAskedOnce
    <3>4. req'[Main].place = "done" /\ req[Main].filter # {} =>
            req'[Main].repos = req[Main].filter \cap teamRepos'[User][c]
      BY <1>1, <2>0, <2>1
      DEF Moved, AfterTeams, AfterRepos, Cached, Structure, TeamsAskedOnce
    <3> QED
      BY <1>1, <1>2, <2>0, <3>1, <3>2, <3>3, <3>4 DEF RunKnown, Cached, Asked
  <2>2. CASE q # Main
    <3>1. req'[Main] = req[Main] /\ teamRepos'[User][c] = teamRepos[User][c]
      BY <1>6, <2>0, <2>2
    <3> QED
      BY <1>1, <2>0, <3>1 DEF Settled, RunKnown, Cached, Asked
  <2> QED
    BY <2>1, <2>2
<1> QED
  BY <1>5, <1>7, <1>8, <1>9 DEF Settled

(* An answer is listed. *)
LEMMA AnswerSettles ==
  ASSUME PageOK, Structure, Settled, NEW f \in pending, FetchAnswered(f)
  PROVE  Settled'
<1> DEFINE q == f[1]
           list == req[q].repos
<1>0. PTypeOK /\ Service!TypeOK /\ TypeOK
  BY DEF PageOK, PTypeOK
<1>1. q \in Slot \ {Main} /\ list \in SUBSET Repo /\ f[2] \in Team
  BY <1>0, SlotFacts
<1>2. /\ Others(q) /\ req'[q].kind = "teams" /\ UNCHANGED <<teamRepos, shown, overlapped>>
      /\ req[q].place = "done"
  BY <1>0, <1>1, Finished DEF FetchAnswered, RecordLate, Service!At
<1>3. Quiet
  BY <1>2 DEF Quiet, Unmoved, Others
<1>4. CASE list = {}
  BY <1>2, <1>3, <1>4, QuietSettles DEF FetchAnswered, EmptyListArrives
<1>5. CASE list # {}
  <2>1. boxes' = boxes \cup NewBoxes(f, list)
    BY <1>5 DEF FetchAnswered, ReposArrive
  <2>2. req[q].kind = "repos" /\ req[q].team = f[2]
    BY <1>2 DEF Structure, FetchesMatch, Busy
  <2>3. \A t \in Team : Listed(t)' = IF t = f[2] THEN Listed(t) \cup list ELSE Listed(t)
    <3>0. /\ \A x \in NewBoxes(f, list) : x.of = f[2] /\ x.repo \in list
          /\ \A r \in list : \E x \in NewBoxes(f, list) : x.repo = r
      <4> DEFINE B(r) == [pick |-> f[1], of |-> f[2], repo |-> r]
      <4>1. \A r : B(r).of = f[2] /\ B(r).repo = r
        OBVIOUS
      <4>2. NewBoxes(f, list) = {B(r) : r \in list}
        BY DEF NewBoxes
      <4> HIDE DEF B
      <4> QED
        BY <4>1, <4>2
    <3>1. {x.repo : x \in NewBoxes(f, list)} = list
      BY <3>0
    <3>2. \A x \in NewBoxes(f, list) : x.of = f[2]
      BY <3>0
    <3> QED
      BY <2>1, <3>1, <3>2 DEF Listed
  <2>4. ListIsCache'
    <3>1. f[2] \notin overlapped => list = Cached(f[2])
      BY <1>1, <1>2, <1>5, <2>2 DEF Settled, CacheSettled
    <3> QED
      BY <1>1, <1>2, <2>3, <3>1 DEF Settled, ListIsCache, Cached
  <2>5. Alone' /\ CacheSettled'
    BY <1>2 DEF Settled, Alone, CacheSettled, Others, For, Busy, Cached
  <2>6. RunKnown'
    BY <1>1, <1>2, SlotFacts DEF Settled, RunKnown, Others, Cached, Asked, Main, Slot
  <2> QED
    BY <2>4, <2>5, <2>6 DEF Settled
<1> QED
  BY <1>4, <1>5

(* A request for a team starts: its cache is settled unless another is out. *)
LEMMA StartSettles ==
  ASSUME PageOK, Structure, Settled,
         NEW q \in Slot, NEW t \in Team, ~Busy(q), Others(q),
         req'[q].place = "teams", req'[q].kind \in {"repos", "run"}, req'[q].team = t,
         UNCHANGED teamRepos, RecordOverlap(t)
  PROVE  Alone' /\ CacheSettled' /\ overlapped \subseteq overlapped'
<1>1. overlapped \subseteq overlapped' /\ (InFlight(t) => t \in overlapped')
  BY DEF RecordOverlap
<1>2. \A p \in Slot : For(p, t) => InFlight(t)
  BY DEF InFlight, For, Busy, Service!At
<1>3. Alone'
  <2> SUFFICES ASSUME NEW u \in Team \ overlapped', NEW p \in Slot, NEW o \in Slot,
                      For(p, u)', For(o, u)'
      PROVE  p = o
    BY DEF Alone
  <2>1. \A x \in Slot \ {q} : For(x, u)' <=> For(x, u)
    BY DEF Others, For, Busy
  <2>2. For(q, u)' => u = t
    BY DEF For
  <2> QED
    BY <1>1, <1>2, <2>1, <2>2 DEF Settled, Alone
<1>4. CacheSettled'
  BY <1>1 DEF Settled, CacheSettled, Others, Cached
<1> QED
  BY <1>1, <1>3, <1>4

LEMMA PickSettles ==
  ASSUME PageOK, Structure, Settled, NEW t \in Team, PickTeam(t)
  PROVE  Settled'
<1>0. PTypeOK /\ Service!TypeOK
  BY DEF PageOK, PTypeOK
<1>1. boxes' = {} /\ UNCHANGED shown /\ RecordOverlap(t)
  BY DEF PickTeam, Pick
<1>2. PICK q \in Slot \ {Main} : q = picks'
  BY <1>0, SlotFacts DEF PickTeam, Pick
<1>3. ListIsCache'
  BY <1>1 DEF ListIsCache, Listed
<1>4. overlapped \subseteq overlapped'
  BY <1>1 DEF RecordOverlap
<1>5. CASE UNCHANGED service
  BY <1>1, <1>3, <1>4, <1>5
  DEF Settled, Alone, CacheSettled, RunKnown, service, For, Busy, Cached, Asked
<1>6. CASE Service!Receive(q, User, "repos", t, {})
  <2>1. /\ Others(q) /\ ~Busy(q) /\ req'[q].place = "teams" /\ req'[q].kind = "repos"
        /\ req'[q].team = t /\ UNCHANGED teamRepos
    BY <1>0, <1>6, Received DEF Service!Kind
  <2>2. Alone' /\ CacheSettled'
    BY <1>1, <2>1, StartSettles
  <2>3. RunKnown'
    BY <1>0, <1>1, <1>2, <1>4, <2>1, SlotFacts
    DEF Settled, RunKnown, Others, Cached, Asked, Slot, Main
  <2> QED
    BY <1>3, <2>2, <2>3 DEF Settled
<1> QED
  BY <1>2, <1>5, <1>6 DEF PickTeam

LEMMA PostSettles ==
  ASSUME PageOK, Structure, Settled, PostForm
  PROVE  Settled'
<1>0. PTypeOK /\ Service!TypeOK /\ TypeOK /\ Main \in Slot
  BY SlotFacts DEF PageOK, PTypeOK
<1>1. /\ team \in Team /\ Posted \in SUBSET Repo /\ UNCHANGED boxes
      /\ RecordOverlap(team) /\ shown' = Listed(team)
  BY <1>0, PostedType DEF PostForm, Submit, TypeOK, Posted, Listed, vars
<1>2. /\ Others(Main) /\ ~Busy(Main) /\ req'[Main].place = "teams"
      /\ req'[Main].kind = "run" /\ req'[Main].team = team /\ UNCHANGED teamRepos
  BY <1>0, <1>1, Received DEF PostForm, Service!Kind
<1>3. Alone' /\ CacheSettled' /\ overlapped \subseteq overlapped'
  BY <1>0, <1>1, <1>2, StartSettles
<1>4. ListIsCache'
  BY <1>1, <1>2, <1>3 DEF Settled, ListIsCache, Listed, Cached
<1>5. RunKnown'
  BY <1>1, <1>2, <1>3 DEF Settled, ListIsCache, RunKnown, Cached
<1> QED
  BY <1>3, <1>4, <1>5 DEF Settled

LEMMA NextSettled ==
  ASSUME PageOK, Structure, Settled, [PNext]_pvars
  PROVE  Settled'
BY QuietSteps, QuietSettles, HandleSettles, AnswerSettles, PickSettles, PostSettles
DEF PNext, ServiceStep

(* A submission queries what the list shows, whatever GitHub does meanwhile. *)
THEOREM SubmissionIsAsShown == PSpec => []RunIsAsShown
<1>1. PInit => Settled
  BY InitSettled
<1>2. PageOK /\ Structure /\ Settled /\ [PNext]_pvars => Settled'
  BY NextSettled
<1>3. PageOK /\ Structure /\ Settled => RunIsAsShown
  BY SlotFacts
  DEF PageOK, Settled, RunKnown, CacheSettled, RunIsAsShown, Asked
<1> QED
  BY <1>1, <1>2, <1>3, AlwaysStructure, PTL DEF PSpec

-----------------------------------------------------------------------------
(* Whatever overlaps: what a team has had all along is in every list.       *)

KeptIsGranted == \A t \in Team, r \in Repo : <<t, r>> \in kept => r \in grants[t]

NothingBefore == User \notin live \cup ended =>
  /\ \A q \in Slot : req[q].kind = "teams" /\ req[q].place \notin {"askRepos", "setRepos"}
  /\ \A t \in Team : Cached(t) = {}

HasKept(list, t) == \A r \in Repo : <<t, r>> \in kept => r \in list

CacheHasKept == \A t \in Team : Cached(t) # {} => HasKept(Cached(t), t)

(* What has been read of a list and what is left of it.                     *)
ReadingHasKept == \A q \in Slot :
  req[q].place = "askRepos" => HasKept(req[q].repos \cup req[q].unread, req[q].team)

AnswerHasKept == \A q \in Slot :
  req[q].place = "setRepos" => HasKept(req[q].repos, req[q].team)

RunHasKept == req[Main].kind = "run" /\ req[Main].place = "done" =>
  \A r \in req[Main].filter : <<req[Main].team, r>> \in kept => r \in req[Main].repos

ListsHaveKept ==
  /\ KeptIsGranted /\ NothingBefore /\ CacheHasKept
  /\ ReadingHasKept /\ AnswerHasKept /\ RunHasKept

LEMMA InitKept == PInit => ListsHaveKept
<1> SUFFICES ASSUME PInit PROVE ListsHaveKept
  OBVIOUS
<1>1. PageOK /\ Structure
  BY InitPage
<1>2. \A q \in Slot : req[q] = Service!Idle
  BY DEF PInit, Service!Init
<1>3. Service!Idle.kind = "teams" /\ Service!Idle.place = "free"
  BY DEF Service!Idle
<1>4. \A t \in Team : Cached(t) = {}
  BY DEF PInit, Service!Init, Cached
<1> QED
  BY <1>1, <1>2, <1>3, <1>4, SlotFacts
  DEF PageOK, ListsHaveKept, KeptIsGranted, NothingBefore, CacheHasKept, ReadingHasKept, AnswerHasKept,
      RunHasKept, PInit

(* Requests that end or start bring no list. *)
LEMMA SmallerKept ==
  ASSUME PageOK, ListsHaveKept,
         kept' \subseteq kept, UNCHANGED teamRepos,
         \A q \in Slot : Unmoved(q) \/ req'[q].place \in {"free", "teams"},
         live \cup ended \subseteq (live \cup ended)',
         \/ User \in live \cup ended
         \/ \A q \in Slot : Unmoved(q) \/ req'[q].kind = "teams",
         KeptIsGranted', ReadingHasKept'
  PROVE  ListsHaveKept'
<1>0. Main \in Slot
  BY SlotFacts DEF PageOK
<1>1. NothingBefore'
  BY DEF ListsHaveKept, NothingBefore, Unmoved, Cached
<1>2. CacheHasKept' /\ AnswerHasKept'
  BY DEF ListsHaveKept, CacheHasKept, AnswerHasKept, HasKept, Unmoved, Cached
<1>3. RunHasKept'
  BY <1>0 DEF ListsHaveKept, RunHasKept, Unmoved
<1> QED
  BY <1>1, <1>2, <1>3 DEF ListsHaveKept

LEMMA HandleKeeps ==
  ASSUME PageOK, Structure, ListsHaveKept, NEW q \in Slot, Handle(q)
  PROVE  ListsHaveKept'
<1> DEFINE t == req[q].team
<1>1. /\ SameForm(q) /\ Moved(q) /\ UNCHANGED <<kept, grants, live, ended>>
      /\ PTypeOK /\ Service!TypeOK /\ t \in Team /\ req[q].filter \subseteq Repo
      /\ req[q].repos \subseteq Repo
  BY HandleMoves DEF PageOK, PTypeOK, past, Service!TypeOK, Service!Form
<1>2. KeptIsGranted'
  BY <1>1 DEF ListsHaveKept, KeptIsGranted
<1>3. HasKept(grants[t], t) /\ (Cached(t) # {} => HasKept(Cached(t), t))
  BY <1>1 DEF ListsHaveKept, KeptIsGranted, CacheHasKept, HasKept
<1>4. /\ req[q].place = "setRepos" => HasKept(req[q].repos, t)
      /\ req[q].place = "askRepos" => HasKept(req[q].repos \cup req[q].unread, t)
  BY DEF ListsHaveKept, AnswerHasKept, ReadingHasKept
<1>5. NothingBefore'
  <2>1. CASE User \in live \cup ended
    BY <1>1, <2>1 DEF NothingBefore
  <2>2. CASE User \notin live \cup ended
    <3>1. \A p \in Slot : /\ req[p].kind = "teams"
                          /\ req[p].place \notin {"askRepos", "setRepos"}
      BY <2>2 DEF ListsHaveKept, NothingBefore
    <3>2. /\ req'[q].kind = "teams" /\ req'[q].place \notin {"askRepos", "setRepos"}
          /\ UNCHANGED teamRepos
      BY <1>1, <3>1 DEF Moved, AfterTeams, AfterRepos, SameForm, Structure, TeamsAskedOnce
    <3> QED
      BY <1>1, <2>2, <3>1, <3>2
      DEF SameForm, Others, ListsHaveKept, NothingBefore, Cached
  <2> QED
    BY <2>1, <2>2
<1>6. CacheHasKept'
  <2>1. CASE UNCHANGED teamRepos
    BY <1>1, <2>1 DEF ListsHaveKept, CacheHasKept, HasKept, Cached
  <2>2. CASE ~UNCHANGED teamRepos
    <3>1. /\ req[q].place = "setRepos" /\ teamRepos'[User][t] = req[q].repos
          /\ \A u \in Team \ {t} : teamRepos'[User][u] = teamRepos[User][u]
      BY <1>1, <2>2 DEF Moved
    <3> QED
      BY <1>1, <1>4, <3>1 DEF ListsHaveKept, CacheHasKept, HasKept, Cached
  <2> QED
    BY <2>1, <2>2
<1>7. AnswerHasKept'
  <2>1. req'[q].place = "setRepos" => HasKept(req'[q].repos, t)
    BY <1>1, <1>4 DEF Moved, AfterTeams, AfterRepos
  <2> QED
    BY <1>1, <2>1 DEF SameForm, Others, ListsHaveKept, AnswerHasKept, HasKept
<1>9. ReadingHasKept'
  <2>1. req'[q].place = "askRepos" => HasKept(req'[q].repos \cup req'[q].unread, t)
    BY <1>1, <1>3, <1>4 DEF Moved, AfterTeams, AfterRepos, HasKept
  <2> QED
    BY <1>1, <2>1 DEF SameForm, Others, ListsHaveKept, ReadingHasKept, HasKept
<1>8. RunHasKept'
  <2>1. CASE q # Main
    <3>1. req'[Main] = req[Main]
      BY <1>1, <2>1, SlotFacts DEF SameForm, Others
    <3> QED
      BY <1>1, <3>1 DEF ListsHaveKept, RunHasKept
  <2>2. CASE q = Main
    <3> SUFFICES ASSUME req[q].kind = "run", req'[q].place = "done",
                        NEW r \in req[q].filter, <<t, r>> \in kept
        PROVE  r \in req'[q].repos
      BY <1>1, <2>2 DEF RunHasKept, SameForm
    <3>1. PICK list \in {Cached(t), req[q].repos} : HasKept(list, t) /\ AfterRepos(q, list)
      BY <1>1, <1>3, <1>4 DEF Moved, AfterTeams
    <3> QED
      BY <1>1, <3>1 DEF AfterRepos, HasKept
  <2> QED
    BY <2>1, <2>2
<1> QED
  BY <1>2, <1>5, <1>6, <1>7, <1>8, <1>9 DEF ListsHaveKept

LEMMA NextKept ==
  ASSUME PageOK, Structure, ListsHaveKept, [PNext]_pvars
  PROVE  ListsHaveKept'
<1>0. PTypeOK /\ Service!TypeOK /\ TypeOK
  BY DEF PageOK, PTypeOK
<1>1. ASSUME UNCHANGED <<kept, grants, teamRepos, live, ended>>,
             \A q \in Slot : req'[q] = req[q] \/ req'[q].kind = "teams",
             \A q \in Slot : req'[q] = req[q] \/ req'[q].place \in {"free", "teams"}
      PROVE  ListsHaveKept'
  BY <1>1, SmallerKept DEF ListsHaveKept, KeptIsGranted, ReadingHasKept, HasKept, Unmoved
<1>2. ASSUME NEW q \in Slot, Service!Finish(q), UNCHANGED kept PROVE ListsHaveKept'
  BY <1>0, <1>1, <1>2, Finished DEF Others
<1>3. CASE LogIn
  <2>1. /\ User \notin live \cup ended /\ kept' = Service!Pairs(grants) /\ User \in live'
        /\ UNCHANGED <<grants, teamRepos, req>>
    BY <1>3 DEF LogIn, Service!Open, Service!github, Service!caches
  <2>2. grants \in [Team -> SUBSET Repo]
    BY <1>0 DEF Service!TypeOK
  <2>3. KeptIsGranted'
    BY <2>1, <2>2, PairsType DEF KeptIsGranted
  <2> QED
    BY <1>0, <2>1, <2>3, SlotFacts
    DEF ListsHaveKept, NothingBefore, CacheHasKept, ReadingHasKept, AnswerHasKept, RunHasKept, Cached
<1>4. CASE LogOut
  BY <1>0, <1>4, SmallerKept
  DEF LogOut, Service!Logout, Service!github, Service!caches, past, ListsHaveKept,
      KeptIsGranted, ReadingHasKept, HasKept, Unmoved
<1>5. CASE GitHubChanges
  <2>1. /\ kept' = {p \in kept \cap Service!Pairs(grants') : ~Torn(p[1])}
        /\ UNCHANGED <<live, ended, teamRepos>> /\ \A q \in Slot : Unmoved(q)
    BY <1>5, ChangeMoves DEF GitHubChanges
  <2>2. grants' \in [Team -> SUBSET Repo]
    <3>1. Service!TypeOK'
      BY NextPageOK DEF PageOK, PTypeOK
    <3> QED
      BY <3>1 DEF Service!TypeOK
  <2>3. KeptIsGranted'
    BY <2>1, <2>2, PairsType DEF KeptIsGranted
  <2>4. ReadingHasKept'
    <3> SUFFICES ASSUME NEW q \in Slot, req'[q].place = "askRepos",
                        NEW r \in Repo, <<req'[q].team, r>> \in kept'
        PROVE  r \in req'[q].repos \cup req'[q].unread
      BY DEF ReadingHasKept, HasKept
    <3>1. /\ req[q].place = "askRepos" /\ req'[q].team = req[q].team
          /\ req'[q].repos = req[q].repos
      BY <2>1 DEF Unmoved
    <3>2. <<req[q].team, r>> \in kept /\ ~Torn(req[q].team)
      BY <2>1, <3>1
    <3>3. r \in req[q].repos \cup req[q].unread
      BY <3>1, <3>2 DEF ListsHaveKept, ReadingHasKept, HasKept
    <3>4. req[q].unread \subseteq req'[q].unread
      BY <1>5, <3>1, <3>2, ChangeReads DEF Torn, Service!At
    <3> QED
      BY <3>1, <3>3, <3>4
  <2> QED
    BY <2>1, <2>3, <2>4, SmallerKept
<1>7. ASSUME NEW q \in Slot, Others(q), req'[q].place = "teams", User \in live,
             UNCHANGED <<kept, grants, live, teamRepos, ended>>
      PROVE  ListsHaveKept'
  BY <1>7, SmallerKept
  DEF Others, ListsHaveKept, KeptIsGranted, ReadingHasKept, HasKept, Unmoved
<1>8. CASE AskForTeams
  BY <1>0, <1>7, <1>8, SlotFacts, TeamsAsked DEF AskForTeams, past
<1>9. CASE TeamsAnswered
  BY <1>0, <1>2, <1>9, SlotFacts DEF TeamsAnswered, past
<1>10. ASSUME NEW t \in Team, PickTeam(t) PROVE ListsHaveKept'
  <2>1. PICK q \in Slot : q = picks'
    BY <1>0, <1>10, SlotFacts DEF PickTeam, Pick
  <2>2. UNCHANGED kept
    BY <1>10 DEF PickTeam
  <2>3. CASE UNCHANGED service
    BY <1>1, <2>2, <2>3 DEF service
  <2>4. CASE Service!Receive(q, User, "repos", t, {})
    BY <1>0, <1>7, <2>2, <2>4, Received DEF Service!Kind
  <2> QED
    BY <1>10, <2>1, <2>3, <2>4 DEF PickTeam
<1>11. CASE PostForm
  <2>1. team \in Team /\ Posted \in SUBSET Repo
    BY <1>0, <1>11, PostedType DEF PostForm, Submit, TypeOK, Posted
  <2> QED
    BY <1>0, <1>7, <1>11, <2>1, SlotFacts, Received DEF PostForm, Service!Kind
<1>12. CASE RunAnswered
  BY <1>0, <1>2, <1>12, SlotFacts DEF RunAnswered, past
<1>13. CASE Here \/ UNCHANGED pvars
  BY <1>1, <1>13 DEF Here, pvars, service, past
<1>14. ASSUME NEW f \in pending, FetchAnswered(f) \/ FetchFails(f) PROVE ListsHaveKept'
  BY <1>0, <1>1, <1>2, <1>14, SlotFacts DEF FetchAnswered, FetchFails, RecordLate, service
<1> QED
  BY <1>3, <1>4, <1>5, <1>8, <1>9, <1>10, <1>11, <1>12, <1>13, <1>14, HandleKeeps
  DEF PNext, ServiceStep

(* A checked box that is dropped was not the team's all the time, or the    *)
(* team lost another while its list was read, page by page.                 *)
THEOREM DropsAreExcused == PSpec => []DroppedWasNotGranted
<1>1. PInit => ListsHaveKept
  BY InitKept
<1>2. PageOK /\ Structure /\ ListsHaveKept /\ [PNext]_pvars => ListsHaveKept'
  BY NextKept
<1>3. ListsHaveKept => DroppedWasNotGranted
  BY DEF ListsHaveKept, RunHasKept, DroppedWasNotGranted, Asked
<1> QED
  BY <1>1, <1>2, <1>3, AlwaysStructure, PTL DEF PSpec

-----------------------------------------------------------------------------
(* Before its first page a request has all of the list left to read.        *)
NothingRead == \A q \in Slot :
  req[q].place = "askRepos" /\ req[q].repos = {} => req[q].unread = grants[req[q].team]

(* An empty answer to a pick: the team is bare now, or was since the pick.  *)
EmptyIsBare == \A f \in pending :
  /\ grants[f[2]] = {} => f[1] \in bare
  /\ req[f[1]].place \in {"setRepos", "done"} /\ req[f[1]].repos = {} => f[1] \in bare

LEMMA NextNothingRead ==
  ASSUME PageOK, Structure, NothingRead, [PNext]_pvars
  PROVE  NothingRead'
<1>0. PTypeOK /\ Service!TypeOK /\ TypeOK
  BY DEF PageOK, PTypeOK
<1>1. ASSUME UNCHANGED grants, \A q \in Slot : req'[q] = req[q] \/ req'[q].place \in {"free", "teams"}
      PROVE  NothingRead'
  BY <1>1 DEF NothingRead
<1>2. ASSUME NEW q \in Slot, Service!Finish(q) PROVE NothingRead'
  BY <1>0, <1>1, <1>2, Finished DEF Others
<1>3. CASE GitHubChanges
  <2> SUFFICES ASSUME NEW q \in Slot, req'[q].place = "askRepos", req'[q].repos = {}
      PROVE  req'[q].unread = grants'[req'[q].team]
    BY DEF NothingRead
  <2>1. /\ req[q].place = "askRepos" /\ req[q].repos = {} /\ req'[q].team = req[q].team
    BY <1>3, ChangeMoves DEF Unmoved
  <2> QED
    BY <1>3, <2>1, ChangeReads DEF NothingRead
<1>4. ASSUME NEW q \in Slot, Handle(q) PROVE NothingRead'
  <2>1. SameForm(q) /\ Moved(q) /\ UNCHANGED grants
    BY <1>0, <1>4, HandleMoves
  <2>2. req'[q].place = "askRepos" /\ req'[q].repos = {} => req'[q].unread = grants[req[q].team]
    BY <2>1 DEF Moved, AfterTeams, AfterRepos
  <2> QED
    BY <2>1, <2>2 DEF NothingRead, SameForm, Others
<1>5. ASSUME NEW q \in Slot, Others(q), req'[q].place = "teams", UNCHANGED grants
      PROVE  NothingRead'
  BY <1>1, <1>5 DEF Others
<1>6. CASE LogIn \/ LogOut \/ Here \/ UNCHANGED pvars
  BY <1>1, <1>6
  DEF LogIn, LogOut, Here, pvars, service, Service!Open, Service!Logout, Service!github
<1>7. CASE AskForTeams
  BY <1>0, <1>5, <1>7, SlotFacts, TeamsAsked
<1>8. CASE TeamsAnswered \/ RunAnswered
  BY <1>0, <1>2, <1>8, SlotFacts DEF TeamsAnswered, RunAnswered
<1>9. ASSUME NEW t \in Team, PickTeam(t) PROVE NothingRead'
  <2>1. PICK q \in Slot : q = picks'
    BY <1>0, <1>9, SlotFacts DEF PickTeam, Pick
  <2>2. CASE UNCHANGED service
    BY <1>1, <2>2 DEF service
  <2>3. CASE Service!Receive(q, User, "repos", t, {})
    BY <1>0, <1>5, <2>3, Received DEF Service!Kind
  <2> QED
    BY <1>9, <2>1, <2>2, <2>3 DEF PickTeam
<1>10. CASE PostForm
  <2>1. team \in Team /\ Posted \in SUBSET Repo
    BY <1>0, <1>10, PostedType DEF PostForm, Submit, TypeOK, Posted
  <2> QED
    BY <1>0, <1>5, <1>10, <2>1, SlotFacts, Received DEF PostForm, Service!Kind
<1>11. ASSUME NEW f \in pending, FetchAnswered(f) \/ FetchFails(f) PROVE NothingRead'
  BY <1>0, <1>1, <1>2, <1>11, SlotFacts DEF FetchAnswered, FetchFails, service
<1> QED
  BY <1>3, <1>4, <1>6, <1>7, <1>8, <1>9, <1>10, <1>11 DEF PNext, ServiceStep

LEMMA NextBare ==
  ASSUME PageOK, Structure, NothingRead, EmptyIsBare, [PNext]_pvars
  PROVE  EmptyIsBare'
<1> USE DEF page, past
<1>0. PTypeOK /\ Service!TypeOK /\ TypeOK
  BY DEF PageOK, PTypeOK
<1>1. ASSUME pending' \subseteq pending, UNCHANGED <<grants, bare>>,
             \A q \in Slot : req'[q] = req[q] \/ req'[q].place \in {"free", "teams"}
      PROVE  EmptyIsBare'
  BY <1>0, <1>1, SlotFacts DEF EmptyIsBare
<1>2. ASSUME NEW q \in Slot, Service!Finish(q), pending' \subseteq pending, UNCHANGED bare
      PROVE  EmptyIsBare'
  BY <1>0, <1>1, <1>2, Finished DEF Others
<1>3. CASE LogIn \/ LogOut \/ Here \/ UNCHANGED pvars
  <2>1. pending' = pending /\ UNCHANGED <<grants, bare, req>>
    BY <1>3
    DEF LogIn, LogOut, Here, PickNone, SetAll, Toggle, pvars, vars, service,
        Service!Open, Service!Logout, Service!github, Service!caches
  <2> QED
    BY <1>1, <2>1
<1>4. CASE GitHubChanges
  <2>1. /\ pending' = pending /\ \A q \in Slot : Unmoved(q)
        /\ bare' = bare \cup {f[1] : f \in {g \in pending : grants'[g[2]] = {}}}
    BY <1>4, ChangeMoves DEF GitHubChanges, vars
  <2>2. \A f \in pending : f[1] \in Slot
    BY <1>0, SlotFacts
  <2> QED
    BY <2>1, <2>2 DEF EmptyIsBare, Unmoved
<1>5. ASSUME NEW q \in Slot, Handle(q) PROVE EmptyIsBare'
  <2>1. SameForm(q) /\ Moved(q) /\ UNCHANGED <<pending, grants, bare>>
    BY <1>0, <1>5, HandleMoves DEF vars
  <2> SUFFICES ASSUME NEW f \in pending, f[1] = q,
                      req'[q].place \in {"setRepos", "done"}, req'[q].repos = {}
      PROVE  q \in bare
    BY <1>0, <2>1, SlotFacts DEF EmptyIsBare, SameForm, Others
  <2>2. req[q].kind = "repos" /\ req[q].team = f[2]
    BY <2>1 DEF Structure, FetchesMatch, Busy, Moved
  <2>3. \/ grants[f[2]] = {}
        \/ req[q].place = "setRepos" /\ req[q].repos = {}
    BY <2>1, <2>2
    DEF Moved, AfterTeams, AfterRepos, Structure, TeamsAskedOnce, NothingRead
  <2> QED
    BY <2>3 DEF EmptyIsBare
<1>6. CASE AskForTeams
  <2>1. Others(Main) /\ req'[Main].place = "teams" /\ UNCHANGED <<grants, bare, pending>>
    BY <1>0, <1>6, SlotFacts, TeamsAsked DEF AskForTeams, vars
  <2> QED
    BY <1>1, <2>1 DEF Others
<1>7. CASE TeamsAnswered
  BY <1>0, <1>2, <1>7, SlotFacts DEF TeamsAnswered, TeamsArrive, TeamsFail
<1>8. ASSUME NEW t \in Team, PickTeam(t) PROVE EmptyIsBare'
  <2>1. PICK q \in Slot \ {Main} : q = picks'
    BY <1>0, <1>8, SlotFacts DEF PickTeam, Pick
  <2>2. /\ picks' = picks + 1 /\ pending' = pending \cup {<<q, t>>}
        /\ bare' = IF grants[t] = {} THEN bare \cup {q} ELSE bare
    BY <1>8, <2>1 DEF PickTeam, Pick
  <2>3. ~Busy(q)
    BY <1>0, <2>1, <2>2, SlotFacts DEF Structure, FetchesMatch, Slot
  <2>4. /\ UNCHANGED grants /\ Others(q)
        /\ req'[q].place \in {"free", "teams"}
    <3>1. CASE UNCHANGED service
      BY <2>3, <3>1 DEF service, Others, Busy
    <3>2. CASE Service!Receive(q, User, "repos", t, {})
      BY <1>0, <3>2, Received DEF Service!Kind
    <3> QED
      BY <1>8, <2>1, <3>1, <3>2 DEF PickTeam
  <2> QED
    BY <1>0, <2>2, <2>4, SlotFacts DEF EmptyIsBare, Others
<1>9. CASE PostForm
  <2>1. team \in Team /\ Posted \in SUBSET Repo
    BY <1>0, <1>9, PostedType DEF PostForm, Submit, TypeOK, Posted
  <2>2. Others(Main) /\ req'[Main].place = "teams" /\ UNCHANGED <<grants, bare, pending>>
    BY <1>0, <1>9, <2>1, SlotFacts, Received DEF PostForm, Submit, Service!Kind, vars
  <2> QED
    BY <1>1, <2>2 DEF Others
<1>10. CASE RunAnswered
  BY <1>0, <1>2, <1>10, SlotFacts DEF RunAnswered, vars
<1>11. ASSUME NEW f \in pending, FetchAnswered(f) \/ FetchFails(f) PROVE EmptyIsBare'
  BY <1>0, <1>1, <1>2, <1>11, SlotFacts
  DEF FetchAnswered, FetchFails, RecordLate, EmptyListArrives, ReposArrive, ReposFail, service
<1> QED
  BY <1>3, <1>4, <1>5, <1>6, <1>7, <1>8, <1>9, <1>10, <1>11 DEF PNext, ServiceStep

(* What the message says is what the last answer said, and without late     *)
(* answers that is the one to the last pick.                                *)
LEMMA NextEmptyMessage ==
  ASSUME PageOK, Structure, EmptyIsBare, EmptyIsFresh, [PNext]_pvars
  PROVE  EmptyIsFresh'
<1> USE DEF page, past, EmptyIsFresh
<1>0. PTypeOK /\ Service!TypeOK /\ TypeOK
  BY DEF PageOK, PTypeOK
<1>1. ASSUME UNCHANGED <<message, team, picks>>, bare \subseteq bare', late' = late
      PROVE  EmptyIsFresh'
  BY <1>1
<1>2. CASE LogIn \/ LogOut \/ GitHubChanges \/ AskForTeams \/ RunAnswered \/ UNCHANGED pvars
  BY <1>1, <1>2 DEF LogIn, LogOut, GitHubChanges, AskForTeams, RunAnswered, pvars, vars
<1>3. CASE TeamsAnswered
  BY <1>1, <1>3 DEF TeamsAnswered, TeamsArrive, TeamsFail
<1>4. CASE PostForm
  BY <1>1, <1>4 DEF PostForm, Submit, vars
<1>5. CASE Here
  BY <1>1, <1>5 DEF Here, PickNone, SetAll, Toggle
<1>6. ASSUME NEW t \in Team, PickTeam(t) PROVE EmptyIsFresh'
  BY <1>6 DEF PickTeam, Pick
<1>7. ASSUME NEW q \in Slot, Handle(q) PROVE EmptyIsFresh'
  BY <1>1, <1>7 DEF Handle, vars
<1>8. ASSUME NEW f \in pending, FetchFails(f) PROVE EmptyIsFresh'
  BY <1>8 DEF FetchFails, ReposFail, Say, RecordLate
<1>9. ASSUME NEW f \in pending, FetchAnswered(f) PROVE EmptyIsFresh'
  <2>1. CASE req[f[1]].repos = {}
    <3>1. f[1] \in bare
      BY <1>9, <2>1 DEF FetchAnswered, Service!At, EmptyIsBare
    <3>2. /\ UNCHANGED <<team, picks, bare>> /\ late' = (late \/ f[1] # picks)
      BY <1>9, <2>1 DEF FetchAnswered, EmptyListArrives, RecordLate
    <3> QED
      BY <3>1, <3>2
  <2>2. CASE req[f[1]].repos # {}
    BY <1>9, <2>2 DEF FetchAnswered, ReposArrive
  <2> QED
    BY <2>1, <2>2
<1> QED
  BY <1>2, <1>3, <1>4, <1>5, <1>6, <1>7, <1>8, <1>9 DEF PNext, ServiceStep

(* The page says that the picked team has nothing only if so it was at some *)
(* moment since the pick, unless a late answer to an earlier one says so.   *)
THEOREM EmptyMessageIsFresh == PSpec => []EmptyIsFresh
<1>1. PInit => NothingRead /\ EmptyIsBare /\ EmptyIsFresh
  <2> SUFFICES ASSUME PInit PROVE NothingRead /\ EmptyIsBare /\ EmptyIsFresh
    OBVIOUS
  <2>1. \A q \in Slot : req[q].place = "free"
    BY DEF PInit, Service!Init, Service!Idle
  <2> QED
    BY <2>1 DEF PInit, Init, NothingRead, EmptyIsBare, EmptyIsFresh
<1>2. PageOK /\ Structure /\ NothingRead /\ EmptyIsBare /\ EmptyIsFresh /\ [PNext]_pvars =>
        NothingRead' /\ EmptyIsBare' /\ EmptyIsFresh'
  BY NextNothingRead, NextBare, NextEmptyMessage
<1> QED
  BY <1>1, <1>2, AlwaysStructure, PTL DEF PSpec

=============================================================================
