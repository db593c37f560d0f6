------------------------------- MODULE Ingest -------------------------------
(***************************************************************************)
(* The galning-ingest service: every process runs the ingest loop          *)
(* (internal/ingest/loop.go) beside the OAuth handlers that install the    *)
(* access token (internal/oauth/handler.go).  Loop and handlers share one  *)
(* Secret Manager secret, the TokenPair, which holds the token AND the     *)
(* pagination cursor and is always written as a whole.                     *)
(*                                                                         *)
(* One action per call that leaves the process (Secret Manager, GitHub,    *)
(* BigQuery), together with the local computation up to the next call.     *)
(* Several processes may be up at once: the deployment asks for one        *)
(* replica, but a rolling update starts the new pod before the old one is  *)
(* gone, and nothing in the code excludes the overlap.                     *)
(*                                                                         *)
(* Audit Events are numbered in GitHub's order=asc; a cursor is the number *)
(* of the last event of the page that carried it.  The oldest events leave *)
(* the retention window from time to time and are then no longer served.   *)
(***************************************************************************)
EXTENDS Integers, FiniteSets

CONSTANTS
  Replica,      \* ingest processes that may be up
  Flow,         \* authorization flows; flow f yields the access token f
  Revocable,    \* flows whose token GitHub may stop accepting
  PageSize,     \* events per audit-log page (pageSize, 100 in the code)
  BatchSize,    \* events per insert (insertBatchSize, 1000 in the code)
  MaxEvents,    \* bound: events GitHub ever publishes
  MaxFaults,    \* bound: failed calls and crashes
  NoToken,      \* the secret has no version yet
  NoReplica     \* a flow that has not started

ASSUME ConstantsAssumption ==
  /\ PageSize \in Nat \ {0}
  /\ BatchSize \in Nat \ {0}
  /\ MaxEvents \in Nat
  /\ MaxFaults \in Nat
  /\ Revocable \subseteq Flow
  /\ NoToken \notin Flow
  /\ NoReplica \notin Replica

VARIABLES
  published,    \* events GitHub has published: 1..published
  expired,      \* events that have left GitHub's retention window
  revoked,      \* tokens GitHub no longer accepts
  archived,     \* events with at least one row in the BigQuery table
  secret,       \* latest version of the secret: [token, cursor]
  auth,         \* stage of each authorization flow
  home,         \* the process whose memory holds the flow's state nonce
  pc,           \* where each process's loop is
  run,          \* the locals of the current Ingest Run, per process
  result,       \* IngestRunsTotal label counted by the last run, per process
  goal,         \* history: events published when the last run started
  faults        \* failed calls and crashes so far

github  == <<published, expired, revoked>>
oauth   == <<auth, home>>
loop    == <<pc, run, result, goal>>
vars    == <<github, archived, secret, oauth, loop, faults>>

Event == 1..MaxEvents

NoCursor == 0       \* the empty cursor string: start of the retention window

Stage == {"new", "redirected", "exchanging", "saving", "done", "dropped"}
Place == {"down", "idle", "load", "fetch", "insert", "save", "flush", "saveLast"}

(* Locals of Run: pair.AccessToken, the position the next page request asks *)
(* for, the request attempt, nextCursor, lastCursor and buf.                *)
Locals == [token: Flow \cup {NoToken}, after: 0..published, attempt: 0..1,
           next: 0..published, last: 0..published, buf: SUBSET (1..published)]

NoRun == [token |-> NoToken, after |-> NoCursor, attempt |-> 0,
          next |-> NoCursor, last |-> NoCursor, buf |-> {}]

TypeOK ==
  /\ published \in 0..MaxEvents
  /\ expired \in 0..published
  /\ revoked \subseteq Flow
  /\ archived \subseteq 1..published
  /\ secret \in [token: Flow \cup {NoToken}, cursor: 0..published]
  /\ auth \in [Flow -> Stage]
  /\ home \in [Flow -> Replica \cup {NoReplica}]
  /\ pc \in [Replica -> Place]
  /\ run \in [Replica -> Locals]
  /\ result \in [Replica -> {"none", "success", "failure"}]
  /\ goal \in [Replica -> 0..published]
  /\ faults \in 0..MaxFaults

Init ==
  /\ published = 0
  /\ expired = 0
  /\ revoked = {}
  /\ archived = {}
  /\ secret = [token |-> NoToken, cursor |-> NoCursor]
  /\ auth = [f \in Flow |-> "new"]
  /\ home = [f \in Flow |-> NoReplica]
  /\ pc = [r \in Replica |-> "down"]
  /\ run = [r \in Replica |-> NoRun]
  /\ result = [r \in Replica |-> "none"]
  /\ goal = [r \in Replica |-> 0]
  /\ faults = 0

-----------------------------------------------------------------------------
(* GitHub, as the code uses it. *)

Publish ==
  /\ published < MaxEvents
  /\ published' = published + 1
  /\ UNCHANGED <<expired, revoked, archived, secret, oauth, loop, faults>>

Expire ==
  /\ expired < published
  /\ expired' = expired + 1
  /\ UNCHANGED <<published, revoked, archived, secret, oauth, loop, faults>>

(* A token stops working: revoked by hand, displaced by newer tokens of the *)
(* same user and app, or never valid (the ingest handler saves the answer   *)
(* of the exchange without looking whether it carries a token).             *)
Revoke(f) ==
  /\ f \in Revocable \ revoked
  /\ auth[f] \in {"saving", "done", "dropped"}
  /\ revoked' = revoked \cup {f}
  /\ UNCHANGED <<published, expired, archived, secret, oauth, loop, faults>>

(* The page that follows position a: the first PageSize events after a that *)
(* are still retained.                                                      *)
PageStart(a) == IF a < expired THEN expired ELSE a

PageEnd(a) == IF PageStart(a) + PageSize <= published
              THEN PageStart(a) + PageSize ELSE published

Page(a) == (PageStart(a) + 1)..PageEnd(a)

(* The rel="next" link of a page that ends at position p: always there when *)
(* more events exist, never there on a short page; a full last page may     *)
(* have one, which leads to an empty page.                                  *)
NextCursors(a) ==
  LET p == PageEnd(a)
  IN  IF p < published THEN {p}
      ELSE IF p = PageStart(a) + PageSize THEN {p, NoCursor}
      ELSE {NoCursor}

-----------------------------------------------------------------------------
(* The OAuth endpoints.  The state nonce lives in the memory of one process; *)
(* a callback that reaches another process, or comes without code and state, *)
(* or reports an error, is refused without touching any state.               *)

Authorize(r, f) ==
  /\ pc[r] # "down"
  /\ auth[f] = "new"
  /\ auth' = [auth EXCEPT ![f] = "redirected"]
  /\ home' = [home EXCEPT ![f] = r]
  /\ UNCHANGED <<github, archived, secret, loop, faults>>

(* consume deletes the nonce whether it is still valid or has expired. *)
Callback(f) ==
  /\ auth[f] = "redirected"
  /\ \E stage \in {"exchanging", "dropped"} : auth' = [auth EXCEPT ![f] = stage]
  /\ UNCHANGED <<github, archived, secret, home, loop, faults>>

Exchange(f) ==
  /\ auth[f] = "exchanging"
  /\ \E stage \in {"saving", "dropped"} : auth' = [auth EXCEPT ![f] = stage]
  /\ UNCHANGED <<github, archived, secret, home, loop, faults>>

(* The exchanged pair has no cursor; AddSecretVersion makes it the latest. *)
SaveTokens(f) ==
  /\ auth[f] = "saving"
  /\ auth' = [auth EXCEPT ![f] = "done"]
  /\ secret' = [token |-> f, cursor |-> NoCursor]
  /\ UNCHANGED <<github, archived, home, loop, faults>>

(* The call fails; Secret Manager may have added the version nevertheless. *)
SaveTokensFails(f) ==
  /\ auth[f] = "saving"
  /\ auth' = [auth EXCEPT ![f] = "dropped"]
  /\ secret' \in {secret, [token |-> f, cursor |-> NoCursor]}
  /\ UNCHANGED <<github, archived, home, loop, faults>>

-----------------------------------------------------------------------------
(* Process life cycle. *)

(* main: connect, register the handlers, start the loop. *)
Boot(r) ==
  /\ pc[r] = "down"
  /\ pc' = [pc EXCEPT ![r] = "idle"]
  /\ UNCHANGED <<github, archived, secret, oauth, run, result, goal, faults>>

(* The pod is killed, or main returns on SIGTERM without waiting for the    *)
(* loop; nonces and handlers in flight go with it.                          *)
Crash(r) ==
  /\ pc[r] # "down"
  /\ faults < MaxFaults
  /\ faults' = faults + 1
  /\ pc' = [pc EXCEPT ![r] = "down"]
  /\ run' = [run EXCEPT ![r] = NoRun]
  /\ result' = [result EXCEPT ![r] = "none"]
  /\ auth' = [f \in Flow |->
                IF home[f] = r /\ auth[f] \in {"redirected", "exchanging", "saving"}
                THEN "dropped" ELSE auth[f]]
  /\ UNCHANGED <<github, archived, secret, home, goal>>

-----------------------------------------------------------------------------
(* One Ingest Run. *)

(* Run returns: its locals are gone, the label (if any) has been counted. *)
EndRun(r, label) ==
  /\ pc' = [pc EXCEPT ![r] = "idle"]
  /\ run' = [run EXCEPT ![r] = NoRun]
  /\ result' = [result EXCEPT ![r] = label]
  /\ goal' = goal

FailRun(r, label) ==
  /\ faults < MaxFaults
  /\ faults' = faults + 1
  /\ EndRun(r, label)

(* Startup, or a tick of the five-minute ticker. *)
StartRun(r) ==
  /\ pc[r] = "idle"
  /\ pc' = [pc EXCEPT ![r] = "load"]
  /\ result' = [result EXCEPT ![r] = "none"]
  /\ goal' = [goal EXCEPT ![r] = published]
  /\ UNCHANGED <<github, archived, secret, oauth, run, faults>>

LoadPair(r) ==
  /\ pc[r] = "load"
  /\ secret.token # NoToken
  /\ pc' = [pc EXCEPT ![r] = "fetch"]
  /\ run' = [run EXCEPT ![r] = [NoRun EXCEPT !.token = secret.token,
                                             !.after = secret.cursor]]
  /\ UNCHANGED <<github, archived, secret, oauth, result, goal, faults>>

(* Neither of the two early returns counts the run as a failure. *)
NotAuthorised(r) ==
  /\ pc[r] = "load"
  /\ secret.token = NoToken
  /\ EndRun(r, "none")
  /\ UNCHANGED <<github, archived, secret, oauth, faults>>

LoadFails(r) ==
  /\ pc[r] = "load"
  /\ FailRun(r, "none")
  /\ UNCHANGED <<github, archived, secret, oauth>>

(* Mutant of RateLimited: every 403/429 is waited for, not just the first. *)
RateLimitedAlways(r) ==
  /\ pc[r] = "fetch"
  /\ run' = [run EXCEPT ![r].attempt = @ + 1]
  /\ UNCHANGED <<github, archived, secret, oauth, pc, result, goal, faults>>

(* The first 403/429 for a page: sleep until the reset, then ask again. *)
RateLimited(r) ==
  /\ pc[r] = "fetch"
  /\ run[r].attempt = 0
  /\ run' = [run EXCEPT ![r].attempt = 1]
  /\ UNCHANGED <<github, archived, secret, oauth, pc, result, goal, faults>>

(* Mutant of Received: buf = page instead of append(buf, page...). *)
ReceivedLastPage(r) == Page(run[r].after)

(* A page arrives and the callback appends it to buf. *)
Received(r) == run[r].buf \cup Page(run[r].after)

Buffered(r) == [run[r] EXCEPT !.buf = Received(r), !.attempt = 0,
                              !.after = PageEnd(run[r].after)]

PageArrives(r) ==
  /\ pc[r] = "fetch"
  /\ run[r].token \notin revoked
  /\ Page(run[r].after) # {}

(* Less than a batch so far: remember the cursor, go on to the next page if *)
(* there is one.  lastCursor is overwritten by the last page's empty cursor. *)
BufferPage(r) ==
  /\ PageArrives(r)
  /\ Cardinality(Received(r)) < BatchSize
  /\ \E next \in NextCursors(run[r].after) :
       /\ run' = [run EXCEPT ![r] = [Buffered(r) EXCEPT !.last = next]]
       /\ pc' = [pc EXCEPT ![r] = IF next = NoCursor THEN "flush" ELSE "fetch"]
  /\ UNCHANGED <<github, archived, secret, oauth, result, goal, faults>>

(* The batch is full: lastCursor keeps its value, the rows are inserted. *)
FillBatch(r) ==
  /\ PageArrives(r)
  /\ Cardinality(Received(r)) >= BatchSize
  /\ \E next \in NextCursors(run[r].after) :
       run' = [run EXCEPT ![r] = [Buffered(r) EXCEPT !.next = next]]
  /\ pc' = [pc EXCEPT ![r] = "insert"]
  /\ UNCHANGED <<github, archived, secret, oauth, result, goal, faults>>

(* Mutant of EmptyPage: continue instead of break. *)
EmptyPageIgnored(r) ==
  /\ pc[r] = "fetch"
  /\ run[r].token \notin revoked
  /\ Page(run[r].after) = {}
  /\ UNCHANGED vars

(* An empty page ends the loop over pages. *)
EmptyPage(r) ==
  /\ pc[r] = "fetch"
  /\ run[r].token \notin revoked
  /\ Page(run[r].after) = {}
  /\ pc' = [pc EXCEPT ![r] = "flush"]
  /\ UNCHANGED <<github, archived, secret, oauth, run, result, goal, faults>>

(* GitHub refuses the token: 401, or 403 again after the pause. *)
TokenRefused(r) ==
  /\ pc[r] = "fetch"
  /\ run[r].token \in revoked
  /\ EndRun(r, "failure")
  /\ UNCHANGED <<github, archived, secret, oauth, faults>>

(* Transport error, undecodable page, any other status, limited twice. *)
FetchFails(r) ==
  /\ pc[r] = "fetch"
  /\ FailRun(r, "failure")
  /\ UNCHANGED <<github, archived, secret, oauth>>

(* Insert: one row per event of the batch, none rejected (SkipInvalidRows   *)
(* is off), so a call adds all rows or none.                                *)
PutRows(events) == archived' = archived \cup events

(* Mutant of InsertBatch: buf = buf[:0] forgotten. *)
InsertBatchKeepsBuf(r) ==
  /\ pc[r] = "insert"
  /\ PutRows(run[r].buf)
  /\ pc' = [pc EXCEPT ![r] = IF run[r].next = NoCursor THEN "flush" ELSE "save"]
  /\ UNCHANGED <<github, secret, oauth, run, result, goal, faults>>

InsertBatch(r) ==
  /\ pc[r] = "insert"
  /\ PutRows(run[r].buf)
  /\ run' = [run EXCEPT ![r].buf = {}]
  /\ pc' = [pc EXCEPT ![r] = IF run[r].next = NoCursor THEN "flush" ELSE "save"]
  /\ UNCHANGED <<github, secret, oauth, result, goal, faults>>

(* Mutant of InsertFails: the error is logged and the batch forgotten. *)
InsertFailureIgnored(r) ==
  /\ pc[r] = "insert"
  /\ faults < MaxFaults
  /\ faults' = faults + 1
  /\ run' = [run EXCEPT ![r].buf = {}]
  /\ pc' = [pc EXCEPT ![r] = IF run[r].next = NoCursor THEN "flush" ELSE "save"]
  /\ UNCHANGED <<github, archived, secret, oauth, result, goal>>

(* A conversion error, or a failed call whose rows may have arrived. *)
InsertFails(r) ==
  /\ pc[r] = "insert"
  /\ FailRun(r, "failure")
  /\ PutRows(run[r].buf) \/ UNCHANGED archived
  /\ UNCHANGED <<github, secret, oauth>>

(* saveCursor writes the token the run started with, not the latest one. *)
CursorVersion(r, cursor) == [token |-> run[r].token, cursor |-> cursor]

(* Mutant of SaveBatchCursor: the cursor is kept in memory only. *)
SaveBatchCursorInMemory(r) ==
  /\ pc[r] = "save"
  /\ run' = [run EXCEPT ![r].next = NoCursor, ![r].last = NoCursor]
  /\ pc' = [pc EXCEPT ![r] = "fetch"]
  /\ UNCHANGED <<github, archived, secret, oauth, result, goal, faults>>

SaveBatchCursor(r) ==
  /\ pc[r] = "save"
  /\ secret' = CursorVersion(r, run[r].next)
  /\ run' = [run EXCEPT ![r].next = NoCursor, ![r].last = NoCursor]
  /\ pc' = [pc EXCEPT ![r] = "fetch"]
  /\ UNCHANGED <<github, archived, oauth, result, goal, faults>>

SaveBatchFails(r) ==
  /\ pc[r] = "save"
  /\ FailRun(r, "failure")
  /\ secret' \in {secret, CursorVersion(r, run[r].next)}
  /\ UNCHANGED <<github, archived, oauth>>

(* Mutant of FlushNothing: the flush after the last page is missing. *)
FlushForgotten(r) ==
  /\ pc[r] = "flush"
  /\ EndRun(r, "success")
  /\ UNCHANGED <<github, archived, secret, oauth, faults>>

(* After the last page. *)
FlushNothing(r) ==
  /\ pc[r] = "flush"
  /\ run[r].buf = {}
  /\ EndRun(r, "success")
  /\ UNCHANGED <<github, archived, secret, oauth, faults>>

(* Mutant of FlushRest: only a rest that has a cursor is inserted. *)
FlushRestWithCursor(r) ==
  /\ pc[r] = "flush"
  /\ run[r].buf # {}
  /\ \/ /\ run[r].last = NoCursor
        /\ EndRun(r, "success")
        /\ UNCHANGED archived
     \/ /\ run[r].last # NoCursor
        /\ PutRows(run[r].buf)
        /\ pc' = [pc EXCEPT ![r] = "saveLast"]
        /\ UNCHANGED <<run, result, goal>>
  /\ UNCHANGED <<github, secret, oauth, faults>>

(* The rest is inserted; without a lastCursor the run is over and the stored *)
(* cursor stays where it was.                                               *)
FlushRest(r) ==
  /\ pc[r] = "flush"
  /\ run[r].buf # {}
  /\ PutRows(run[r].buf)
  /\ \/ /\ run[r].last = NoCursor
        /\ EndRun(r, "success")
     \/ /\ run[r].last # NoCursor
        /\ pc' = [pc EXCEPT ![r] = "saveLast"]
        /\ UNCHANGED <<run, result, goal>>
  /\ UNCHANGED <<github, secret, oauth, faults>>

(* Mutant of FlushFails: the cursor is saved although the insert failed. *)
FlushFailureIgnored(r) ==
  /\ pc[r] = "flush"
  /\ run[r].buf # {}
  /\ run[r].last # NoCursor
  /\ faults < MaxFaults
  /\ faults' = faults + 1
  /\ pc' = [pc EXCEPT ![r] = "saveLast"]
  /\ UNCHANGED <<github, archived, secret, oauth, run, result, goal>>

FlushFails(r) ==
  /\ pc[r] = "flush"
  /\ run[r].buf # {}
  /\ FailRun(r, "failure")
  /\ PutRows(run[r].buf) \/ UNCHANGED archived
  /\ UNCHANGED <<github, secret, oauth>>

(* Mutant of SaveLastCursor: nextCursor is saved instead of lastCursor. *)
SaveLastCursorNext(r) ==
  /\ pc[r] = "saveLast"
  /\ secret' = CursorVersion(r, run[r].next)
  /\ EndRun(r, "success")
  /\ UNCHANGED <<github, archived, oauth, faults>>

SaveLastCursor(r) ==
  /\ pc[r] = "saveLast"
  /\ secret' = CursorVersion(r, run[r].last)
  /\ EndRun(r, "success")
  /\ UNCHANGED <<github, archived, oauth, faults>>

SaveLastFails(r) ==
  /\ pc[r] = "saveLast"
  /\ FailRun(r, "failure")
  /\ secret' \in {secret, CursorVersion(r, run[r].last)}
  /\ UNCHANGED <<github, archived, oauth>>

-----------------------------------------------------------------------------
GitHubStep == Publish \/ Expire \/ \E f \in Flow : Revoke(f)

AuthStep ==
  \/ \E r \in Replica, f \in Flow : Authorize(r, f)
  \/ \E f \in Flow : Callback(f) \/ Exchange(f) \/ SaveTokens(f) \/ SaveTokensFails(f)

(* What process r does of its own accord. *)
LoopStep(r) ==
  \/ Boot(r) \/ StartRun(r)
  \/ LoadPair(r) \/ NotAuthorised(r) \/ LoadFails(r)
  \/ RateLimited(r) \/ BufferPage(r) \/ FillBatch(r) \/ EmptyPage(r)
  \/ TokenRefused(r) \/ FetchFails(r)
  \/ InsertBatch(r) \/ InsertFails(r) \/ SaveBatchCursor(r) \/ SaveBatchFails(r)
  \/ FlushNothing(r) \/ FlushRest(r) \/ FlushFails(r)
  \/ SaveLastCursor(r) \/ SaveLastFails(r)

Next ==
  \/ GitHubStep
  \/ AuthStep
  \/ \E r \in Replica : LoopStep(r) \/ Crash(r)

Spec == Init /\ [][Next]_vars

(* The ticker keeps firing, Kubernetes restarts the pod, and every call     *)
(* returns or times out.  Nothing is assumed of GitHub's events, of the     *)
(* people who authorize the app, or of which way a call ends.               *)
Fairness == \A r \in Replica : WF_vars(LoopStep(r))

FairSpec == Spec /\ Fairness

-----------------------------------------------------------------------------
(* What the service must get right. *)

(* Everything up to event p is in the Archive or can no longer be fetched. *)
Covered(p) == \A e \in 1..p : e \in archived \/ e <= expired

(* The stored cursor never runs ahead of the Archive: whichever process     *)
(* crashed, failed or overlapped with another one, the next Ingest Run does *)
(* not skip an event (insert before saveCursor in Run, loop.go:50-63).      *)
ResumePointCovered == Covered(secret.cursor)

(* A run counted as a success has archived every event that GitHub had      *)
(* published when it started, also the tail that never fills a batch (the   *)
(* flush after the last page, loop.go:72-88).                               *)
SuccessMeansCaughtUp ==
  \A r \in Replica : result[r] = "success" => Covered(goal[r])

(* The batch handed to BigQuery in one call stays below a batch and a page  *)
(* (buf is emptied after every insert, loop.go:45-55), whatever the history *)
(* of limited, failed and repeated requests.                                *)
BufferBounded ==
  \A r \in Replica : Cardinality(run[r].buf) < BatchSize + PageSize

(* Why the two hold: what each stage of a run may rely on.  No event        *)
(* before the next page's position is lost between buf and the Archive, and *)
(* every cursor about to be saved is behind that position.                  *)
Held(r, e) == e \in archived \/ e \in run[r].buf \/ e <= expired

StageCovers(r) ==
  /\ pc[r] \in {"fetch", "insert", "save", "flush", "saveLast"} =>
       /\ \A e \in 1..run[r].after : Held(r, e)
       /\ run[r].next <= run[r].after /\ run[r].last <= run[r].after
  /\ pc[r] = "insert" /\ run[r].next = NoCursor => goal[r] <= run[r].after
  /\ pc[r] = "save" => run[r].buf = {}
  /\ pc[r] \in {"flush", "saveLast"} => \A e \in 1..goal[r] : Held(r, e)
  /\ pc[r] = "saveLast" => run[r].buf \subseteq archived

RunCovers == \A r \in Replica : StageCovers(r)

(* Seen from outside, the service is an append-only archive with a resume   *)
(* point: only published events are inserted, no row is ever taken back,    *)
(* and the cursor only moves, forward or back, to a place up to which       *)
(* nothing is left to fetch.                                                *)
Archive == INSTANCE AuditArchive WITH resume <- secret.cursor

ImplementsArchive == Archive!Spec

-----------------------------------------------------------------------------
(* With one process. *)

(* A run never moves the stored cursor back: only a new authorization does  *)
(* (saveCursor writes positions of the run's own, later and later pages;    *)
(* SaveTokens writes a pair without a cursor, handler.go:149-153).             *)
Reauthorised == \E f \in Flow : auth[f] = "saving" /\ auth'[f] # "saving"

CursorNeverGoesBack ==
  [][secret'.cursor >= secret.cursor \/ Reauthorised]_vars

(* What the next run fetches again stays bounded: after a successful run,   *)
(* and before a second authorization, the cursor is less than a batch and a *)
(* page behind the events that were there when it started (Run saves a      *)
(* cursor per batch only, and none after a last page, loop.go:57-64,80).    *)
OneAuthorization ==
  \A f, g \in Flow : f # g =>
    auth[f] \in {"new", "redirected", "exchanging"} \/
    auth[g] \in {"new", "redirected", "exchanging"}

LagBounded ==
  OneAuthorization =>
    \A r \in Replica : result[r] = "success" =>
      Cardinality({e \in (secret.cursor + 1)..goal[r] : e > expired})
        < BatchSize + PageSize

-----------------------------------------------------------------------------
(* What must eventually happen, under FairSpec. *)

(* Every Ingest Run comes to an end: pages run out, and a rate-limited      *)
(* request is repeated once only (doWithRetry, audit_client.go:109-145).    *)
RunsEnd ==
  \A r \in Replica :
    pc[r] \notin {"idle", "down"} ~> pc[r] \in {"idle", "down"}

(* Once authorized, every published event gets into the Archive or leaves   *)
(* the retention window first, whatever fails in between, unless GitHub     *)
(* stops accepting the stored token (StartLoop runs again on every tick,    *)
(* also after a failed run, loop.go:155-177).                               *)
EventuallyArchived ==
  \A e \in Event :
    e <= published /\ secret.token # NoToken
      ~> e \in archived \/ e <= expired \/ secret.token \in revoked

-----------------------------------------------------------------------------
(* What the repository says of the service and the code does not do. *)

(* "saveCursor persists the updated cursor while preserving the existing    *)
(* access token" (loop.go:99): the stored token is replaced only by the     *)
(* answer of an authorization (handler.go:88-99).                          *)
TokenPreserved == [][secret'.token = secret.token \/ Reauthorised]_vars
=============================================================================
