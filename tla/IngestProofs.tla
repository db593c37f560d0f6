---------------------------- MODULE IngestProofs ----------------------------
(* What TLAPS proves of Ingest, for every number of replicas, flows, events *)
(* and faults and every page and batch size.                                *)
EXTENDS Ingest, FiniteSetTheorems, TLAPS

USE ConstantsAssumption

(* The page after a position consists of published events and ends at or    *)
(* after that position.                                                     *)
LEMMA PageFacts ==
  ASSUME TypeOK, NEW a \in 0..published
  PROVE  /\ PageEnd(a) \in a..published
         /\ PageStart(a) \in a..published
         /\ Page(a) \subseteq 1..published
         /\ NextCursors(a) \subseteq {PageEnd(a), NoCursor}
         /\ NoCursor \in NextCursors(a) => PageEnd(a) = published
         /\ Page(a) = {} => PageStart(a) = published
         /\ \A e \in 1..PageEnd(a) : e <= a \/ e <= expired \/ e \in Page(a)
BY DEF TypeOK, PageEnd, PageStart, Page, NextCursors, NoCursor

(* What TypeOK says of one process and of the secret. *)
LEMMA Typed ==
  ASSUME TypeOK, NEW r \in Replica
  PROVE  /\ run[r] \in Locals
         /\ run[r].token \in Flow \cup {NoToken}
         /\ run[r].after \in 0..published
         /\ run[r].next \in 0..published
         /\ run[r].last \in 0..published
         /\ run[r].buf \subseteq 1..published
         /\ secret.token \in Flow \cup {NoToken}
         /\ secret.cursor \in 0..published
         /\ NoRun \in Locals
<1>1. run[r] \in Locals
  BY DEF TypeOK
<1>2. published \in Nat /\ secret \in [token: Flow \cup {NoToken}, cursor: 0..published]
  BY DEF TypeOK
<1> QED
  BY <1>1, <1>2 DEF Locals, NoRun, NoCursor

(* Giving one process new locals of the right type keeps the type of run. *)
LEMMA LocalsFacts ==
  ASSUME TypeOK, NEW r \in Replica, NEW v \in Locals, published' = published,
         run' = [run EXCEPT ![r] = v]
  PROVE  run' \in [Replica -> Locals']
BY DEF TypeOK, Locals

(* The locals each action of a run computes are well typed. *)
LEMMA LocalsComputed ==
  ASSUME TypeOK, NEW r \in Replica
  PROVE  /\ [NoRun EXCEPT !.token = secret.token, !.after = secret.cursor] \in Locals
         /\ [run[r] EXCEPT !.attempt = 1] \in Locals
         /\ [run[r] EXCEPT !.buf = {}] \in Locals
         /\ [run[r] EXCEPT !.next = NoCursor, !.last = NoCursor] \in Locals
         /\ Buffered(r) \in Locals
         /\ \A next \in NextCursors(run[r].after) :
              /\ [Buffered(r) EXCEPT !.last = next] \in Locals
              /\ [Buffered(r) EXCEPT !.next = next] \in Locals
<1>1. published \in Nat
  BY DEF TypeOK
<1>2. [NoRun EXCEPT !.token = secret.token, !.after = secret.cursor] \in Locals
  BY Typed DEF Locals
<1>3. [run[r] EXCEPT !.attempt = 1] \in Locals
  BY Typed DEF Locals
<1>4. [run[r] EXCEPT !.buf = {}] \in Locals
  BY Typed DEF Locals
<1>5. [run[r] EXCEPT !.next = NoCursor, !.last = NoCursor] \in Locals
  <2>1. NoCursor \in 0..published
    BY <1>1 DEF NoCursor
  <2>2. run[r] \in Locals
    BY Typed
  <2> QED
    BY <2>1, <2>2 DEF Locals
<1>6. /\ Received(r) \in SUBSET (1..published)
      /\ PageEnd(run[r].after) \in 0..published
  BY Typed, PageFacts DEF Received
<1>7. Buffered(r) \in Locals
  <2>1. run[r] \in Locals
    BY Typed
  <2>2. ASSUME NEW S \in SUBSET (1..published), NEW p \in 0..published
        PROVE  [run[r] EXCEPT !.buf = S, !.attempt = 0, !.after = p] \in Locals
    <3>1. [run[r] EXCEPT !.buf = S, !.after = p] \in Locals
      BY <2>1 DEF Locals
    <3>2. ASSUME NEW v \in Locals PROVE [v EXCEPT !.attempt = 0] \in Locals
      BY DEF Locals
    <3>3. [run[r] EXCEPT !.buf = S, !.attempt = 0, !.after = p] =
            [[run[r] EXCEPT !.buf = S, !.after = p] EXCEPT !.attempt = 0]
      BY <2>1 DEF Locals
    <3> QED
      BY <3>1, <3>2, <3>3
  <2> QED
    BY <1>6, <2>2 DEF Buffered
<1>8. \A next \in NextCursors(run[r].after) : next \in 0..published
  BY <1>1, Typed, PageFacts DEF NoCursor
<1>9. \A next \in 0..published : /\ [Buffered(r) EXCEPT !.last = next] \in Locals
                                 /\ [Buffered(r) EXCEPT !.next = next] \in Locals
  BY <1>7 DEF Locals
<1> QED
  BY <1>2, <1>3, <1>4, <1>5, <1>7, <1>8, <1>9

(* The initial state has the types of TypeOK. *)
LEMMA InitTypeOK == Init => TypeOK
BY DEF Init, TypeOK, NoRun, Locals, NoCursor, Stage, Place

(* A step of one process that leaves GitHub and the authorization flows     *)
(* alone keeps all types if it keeps those of what it changes.              *)
LEMMA LoopTypes ==
  ASSUME TypeOK, UNCHANGED github, UNCHANGED oauth,
         archived' \subseteq 1..published,
         secret' \in [token: Flow \cup {NoToken}, cursor: 0..published],
         pc' \in [Replica -> Place],
         run' \in [Replica -> Locals],
         result' \in [Replica -> {"none", "success", "failure"}],
         goal' \in [Replica -> 0..published],
         faults' \in 0..MaxFaults
  PROVE  TypeOK'
BY DEF TypeOK, github, oauth, Locals

(* Every step keeps them. *)
LEMMA NextTypeOK == TypeOK /\ [Next]_vars => TypeOK'
<1> SUFFICES ASSUME TypeOK, [Next]_vars PROVE TypeOK'
  OBVIOUS
<1>1. CASE UNCHANGED vars
  BY <1>1 DEF TypeOK, Locals, vars, github, oauth, loop
<1>2. CASE Publish
  BY <1>2 DEF TypeOK, Locals, Publish, oauth, loop
<1>3. CASE Expire
  BY <1>3 DEF TypeOK, Locals, Expire, oauth, loop
<1>4. ASSUME NEW f \in Flow, Revoke(f) PROVE TypeOK'
  BY <1>4 DEF TypeOK, Locals, Revoke, oauth, loop
<1>5. ASSUME NEW r \in Replica, NEW f \in Flow, Authorize(r, f) PROVE TypeOK'
  BY <1>5 DEF TypeOK, Locals, Authorize, github, loop, Stage
<1>6. ASSUME NEW f \in Flow, Callback(f) PROVE TypeOK'
  BY <1>6 DEF TypeOK, Locals, Callback, github, loop, Stage
<1>7. ASSUME NEW f \in Flow, Exchange(f) PROVE TypeOK'
  BY <1>7 DEF TypeOK, Locals, Exchange, github, loop, Stage
<1>8. ASSUME NEW f \in Flow, SaveTokens(f) PROVE TypeOK'
  BY <1>8 DEF TypeOK, Locals, SaveTokens, github, loop, Stage, NoCursor
<1>9. ASSUME NEW f \in Flow, SaveTokensFails(f) PROVE TypeOK'
  BY <1>9 DEF TypeOK, Locals, SaveTokensFails, github, loop, Stage, NoCursor
<1>10. ASSUME NEW r \in Replica, LoopStep(r) PROVE TypeOK'
  <2>1. /\ archived \subseteq 1..published
        /\ secret \in [token: Flow \cup {NoToken}, cursor: 0..published]
        /\ pc \in [Replica -> Place]
        /\ run \in [Replica -> Locals]
        /\ result \in [Replica -> {"none", "success", "failure"}]
        /\ goal \in [Replica -> 0..published]
        /\ published \in 0..MaxEvents
        /\ faults \in 0..MaxFaults
    BY DEF TypeOK
  <2>2. ASSUME NEW label \in {"none", "success", "failure"}, EndRun(r, label)
        PROVE  /\ pc' \in [Replica -> Place]
               /\ run' \in [Replica -> Locals]
               /\ result' \in [Replica -> {"none", "success", "failure"}]
               /\ goal' \in [Replica -> 0..published]
    BY <2>1, <2>2, Typed DEF EndRun, Place
  <2>3. \A cursor \in 0..published :
           CursorVersion(r, cursor) \in [token: Flow \cup {NoToken}, cursor: 0..published]
    BY Typed DEF CursorVersion
  <2>4. /\ archived \cup run[r].buf \subseteq 1..published
    BY <2>1, Typed
  <2>5. CASE Boot(r)
    BY <2>1, <2>5, LoopTypes DEF Boot, Place
  <2>6. CASE StartRun(r)
    BY <2>1, <2>6, LoopTypes DEF StartRun, Place
  <2>7. CASE LoadPair(r)
    <3>1. run' = [run EXCEPT ![r] = [NoRun EXCEPT !.token = secret.token, !.after = secret.cursor]]
      BY <2>1, <2>7 DEF LoadPair
    <3>2. run' \in [Replica -> Locals]
      BY <2>1, <3>1, LocalsComputed
    <3> QED
      BY <2>1, <2>7, <3>2, LoopTypes DEF LoadPair, Place
  <2>8. CASE NotAuthorised(r)
    BY <2>1, <2>2, <2>8, LoopTypes DEF NotAuthorised
  <2>9. CASE LoadFails(r)
    BY <2>1, <2>2, <2>9, LoopTypes DEF LoadFails, FailRun
  <2>10. CASE RateLimited(r)
    <3>1. run' = [run EXCEPT ![r] = [run[r] EXCEPT !.attempt = 1]]
      BY <2>1, <2>10 DEF RateLimited
    <3>2. run' \in [Replica -> Locals]
      BY <2>1, <3>1, LocalsComputed
    <3> QED
      BY <2>1, <2>10, <3>2, LoopTypes DEF RateLimited, Place
  <2>11. CASE BufferPage(r)
    <3>1. PICK next \in NextCursors(run[r].after) :
            run' = [run EXCEPT ![r] = [Buffered(r) EXCEPT !.last = next]]
      BY <2>11 DEF BufferPage
    <3>2. run' \in [Replica -> Locals]
      BY <2>1, <3>1, LocalsComputed
    <3> QED
      BY <2>1, <2>11, <3>2, LoopTypes DEF BufferPage, Place
  <2>12. CASE FillBatch(r)
    <3>1. PICK next \in NextCursors(run[r].after) :
            run' = [run EXCEPT ![r] = [Buffered(r) EXCEPT !.next = next]]
      BY <2>12 DEF FillBatch
    <3>2. run' \in [Replica -> Locals]
      BY <2>1, <3>1, LocalsComputed
    <3> QED
      BY <2>1, <2>12, <3>2, LoopTypes DEF FillBatch, Place
  <2>13. CASE EmptyPage(r)
    BY <2>1, <2>13, LoopTypes DEF EmptyPage, Place
  <2>14. CASE TokenRefused(r)
    BY <2>1, <2>2, <2>14, LoopTypes DEF TokenRefused
  <2>15. CASE FetchFails(r)
    BY <2>1, <2>2, <2>15, LoopTypes DEF FetchFails, FailRun
  <2>16. CASE InsertBatch(r)
    <3>1. run' = [run EXCEPT ![r] = [run[r] EXCEPT !.buf = {}]]
      BY <2>1, <2>16 DEF InsertBatch
    <3>2. run' \in [Replica -> Locals]
      BY <2>1, <3>1, LocalsComputed
    <3> QED
      BY <2>1, <2>4, <2>16, <3>2, LoopTypes DEF InsertBatch, PutRows, Place
  <2>17. CASE InsertFails(r)
    BY <2>1, <2>2, <2>4, <2>17, LoopTypes DEF InsertFails, PutRows, FailRun
  <2>18. CASE SaveBatchCursor(r)
    <3>1. run' = [run EXCEPT ![r] = [run[r] EXCEPT !.next = NoCursor, !.last = NoCursor]]
      BY <2>1, <2>18 DEF SaveBatchCursor
    <3>2. run' \in [Replica -> Locals]
      BY <2>1, <3>1, LocalsComputed
    <3> QED
      BY <2>1, <2>3, Typed, <2>18, <3>2, LoopTypes DEF SaveBatchCursor, Place
  <2>19. CASE SaveBatchFails(r)
    BY <2>1, <2>2, <2>3, Typed, <2>19, LoopTypes DEF SaveBatchFails, FailRun
  <2>20. CASE FlushNothing(r)
    BY <2>1, <2>2, <2>20, LoopTypes DEF FlushNothing
  <2>21. CASE FlushRest(r)
    BY <2>1, <2>2, <2>4, <2>21, LoopTypes DEF FlushRest, PutRows, Place
  <2>22. CASE FlushFails(r)
    BY <2>1, <2>2, <2>4, <2>22, LoopTypes DEF FlushFails, PutRows, FailRun
  <2>23. CASE SaveLastCursor(r)
    BY <2>1, <2>2, <2>3, Typed, <2>23, LoopTypes DEF SaveLastCursor
  <2>24. CASE SaveLastFails(r)
    BY <2>1, <2>2, <2>3, Typed, <2>24, LoopTypes DEF SaveLastFails, FailRun
  <2> QED
    BY <1>10, <2>5, <2>6, <2>7, <2>8, <2>9, <2>10, <2>11, <2>12, <2>13,
       <2>14, <2>15, <2>16, <2>17, <2>18, <2>19, <2>20, <2>21, <2>22, <2>23, <2>24 DEF LoopStep
<1>11. ASSUME NEW r \in Replica, Crash(r) PROVE TypeOK'
  BY <1>11 DEF TypeOK, Locals, Crash, github, Place, Stage, NoRun, NoCursor
<1> QED
  BY <1>1, <1>2, <1>3, <1>4, <1>5, <1>6, <1>7, <1>8, <1>9, <1>10, <1>11
     DEF Next, GitHubStep, AuthStep

(* Every variable keeps its type, and no stored position, buffered event or *)
(* archived event is ahead of what GitHub has published.                    *)
THEOREM TypeCorrect == Spec => []TypeOK
BY InitTypeOK, NextTypeOK, PTL DEF Spec

-----------------------------------------------------------------------------
(* No event is skipped.  RunCovers, ResumePointCovered and                  *)
(* SuccessMeansCaughtUp are inductive together: a run starts at the stored  *)
(* cursor, and the stored cursor and the label come from a run.             *)
Safe == RunCovers /\ ResumePointCovered /\ SuccessMeansCaughtUp

(* Covered in the next state, for a position given by any expression. *)
CoveredNext(p) == \A e \in 1..p : e \in archived' \/ e <= expired'

(* What is archived or expired stays so, and so do the stage facts of a     *)
(* process that does not move.                                              *)
LEMMA Stable ==
  ASSUME TypeOK, archived \subseteq archived', expired' \in Nat, expired <= expired'
  PROVE  /\ \A p \in 0..published : Covered(p) => CoveredNext(p)
         /\ \A q \in Replica :
              StageCovers(q) /\ UNCHANGED <<pc[q], run[q], goal[q]>> => StageCovers(q)'
<1>1. expired \in Nat
  BY DEF TypeOK
<1>2. \A e \in Int : e <= expired => e <= expired'
  BY <1>1
<1>3. \A p \in 0..published : Covered(p) => CoveredNext(p)
  BY <1>2 DEF Covered, CoveredNext
<1>4. ASSUME NEW q \in Replica, StageCovers(q), UNCHANGED <<pc[q], run[q], goal[q]>>
      PROVE  StageCovers(q)'
  <2>1. \A e \in Int : Held(q, e) => Held(q, e)'
    BY <1>2, <1>4 DEF Held
  <2> QED
    BY <1>4, <2>1, Typed DEF StageCovers, NoCursor
<1> QED
  BY <1>3, <1>4

(* Nothing is archived, fetched or promised at the start. *)
LEMMA InitSafe == Init => Safe
BY DEF Init, Safe, RunCovers, StageCovers, ResumePointCovered, Covered,
       SuccessMeansCaughtUp, NoCursor

(* A step of process r keeps Safe if it leaves the other processes alone,   *)
(* takes nothing out of the Archive, and is right about r and the secret.   *)
LEMMA LoopSafe ==
  ASSUME TypeOK, Safe, NEW r \in Replica, UNCHANGED <<published, expired>>,
         archived \subseteq archived',
         \A q \in Replica \ {r} :
            UNCHANGED <<pc[q], run[q], goal[q], result[q]>>,
         StageCovers(r)',
         result'[r] = "success" => CoveredNext(goal'[r]),
         UNCHANGED secret \/ CoveredNext(secret'.cursor)
  PROVE  Safe'
<1>1. /\ expired \in Nat /\ published \in Nat
      /\ \A q \in Replica : goal[q] \in 0..published
  BY DEF TypeOK
<1>2. ASSUME NEW q \in Replica PROVE StageCovers(q)'
  BY <1>1, Stable DEF Safe, RunCovers
<1>3. ASSUME NEW q \in Replica, result'[q] = "success" PROVE CoveredNext(goal'[q])
  <2>1. CASE q = r
    BY <1>3, <2>1
  <2>2. CASE q # r
    <3>1. Covered(goal[q])
      BY <1>3, <2>2 DEF Safe, SuccessMeansCaughtUp
    <3> QED
      BY <1>1, <2>2, <3>1, Stable
  <2> QED
    BY <2>1, <2>2
<1>4. CoveredNext(secret'.cursor)
  BY <1>1, Stable, Typed DEF Safe, ResumePointCovered
<1>5. RunCovers'
  BY <1>2 DEF RunCovers
<1>6. ResumePointCovered'
  BY <1>4 DEF ResumePointCovered, Covered, CoveredNext
<1>7. SuccessMeansCaughtUp'
  BY <1>3 DEF SuccessMeansCaughtUp, Covered, CoveredNext
<1> QED
  BY <1>5, <1>6, <1>7 DEF Safe

(* A process between two runs, or down, has nothing to cover. *)
LEMMA IdleCovers ==
  ASSUME NEW r \in Replica, pc'[r] \in {"down", "idle", "load"}
  PROVE  StageCovers(r)'
BY DEF StageCovers

(* The end of a run keeps Safe. *)
LEMMA EndSafe ==
  ASSUME TypeOK, Safe, NEW r \in Replica, NEW label, EndRun(r, label),
         UNCHANGED <<published, expired>>, archived \subseteq archived',
         label = "success" => CoveredNext(goal[r]),
         UNCHANGED secret \/ CoveredNext(secret'.cursor)
  PROVE  Safe'
<1>1. /\ pc \in [Replica -> Place] /\ run \in [Replica -> Locals]
      /\ result \in [Replica -> {"none", "success", "failure"}]
  BY DEF TypeOK
<1>2. StageCovers(r)'
  BY <1>1, IdleCovers DEF EndRun
<1> QED
  BY <1>1, <1>2, LoopSafe DEF EndRun

(* A run may advance to any place that its new locals cover. *)
LEMMA AdvanceSafe ==
  ASSUME TypeOK, Safe, NEW r \in Replica, NEW place, NEW v,
         pc' = [pc EXCEPT ![r] = place], run' = [run EXCEPT ![r] = v],
         UNCHANGED <<published, expired, result, goal>>,
         archived \subseteq archived',
         StageCovers(r)',
         UNCHANGED secret \/ CoveredNext(secret'.cursor)
  PROVE  Safe'
<1>1. /\ pc \in [Replica -> Place] /\ run \in [Replica -> Locals]
      /\ goal[r] \in 0..published
  BY DEF TypeOK
<1>2. result'[r] = "success" => CoveredNext(goal'[r])
  BY <1>1, Stable DEF Safe, SuccessMeansCaughtUp, TypeOK
<1> QED
  BY <1>1, <1>2, LoopSafe

(* The steps of a run. *)
LEMMA LoopStepSafe ==
  ASSUME TypeOK, Safe, NEW r \in Replica, LoopStep(r)
  PROVE  Safe'
<1>1. /\ pc \in [Replica -> Place] /\ run \in [Replica -> Locals]
      /\ result \in [Replica -> {"none", "success", "failure"}]
      /\ goal \in [Replica -> 0..published]
      /\ published \in Nat /\ expired \in Nat
  BY DEF TypeOK
<1>2. StageCovers(r) /\ Covered(secret.cursor)
  BY DEF Safe, RunCovers, ResumePointCovered
<1> USE DEF github, oauth
<1>3. CASE Boot(r)
  BY <1>1, <1>3, IdleCovers, LoopSafe, Stable DEF Boot, Safe, SuccessMeansCaughtUp
<1>4. CASE StartRun(r)
  BY <1>1, <1>4, IdleCovers, LoopSafe DEF StartRun
<1>5. CASE LoadPair(r)
  <2>1. StageCovers(r)'
    BY <1>1, <1>2, <1>5, Typed DEF LoadPair, StageCovers, Held, Covered, NoRun, NoCursor
  <2> QED
    BY <1>5, <2>1, AdvanceSafe DEF LoadPair
<1>6. CASE NotAuthorised(r)
  BY <1>6, EndSafe DEF NotAuthorised
<1>7. CASE LoadFails(r)
  BY <1>7, EndSafe DEF LoadFails, FailRun
<1>8. CASE RateLimited(r)
  <2>1. run' = [run EXCEPT ![r] = [run[r] EXCEPT !.attempt = 1]]
    BY <1>1, <1>8 DEF RateLimited
  <2>2. pc' = [pc EXCEPT ![r] = "fetch"]
    BY <1>1, <1>8 DEF RateLimited
  <2>3. StageCovers(r)'
    BY <1>1, <1>2, <1>8, <2>1, Typed DEF RateLimited, StageCovers, Held, Locals
  <2> QED
    BY <1>8, <2>1, <2>2, <2>3, AdvanceSafe DEF RateLimited
<1>9. CASE BufferPage(r) \/ FillBatch(r)
  <2>1. /\ run'[r].buf = Received(r) /\ run'[r].after = PageEnd(run[r].after)
        /\ pc[r] = "fetch" /\ UNCHANGED <<published, expired, archived, secret, result, goal>>
    <3>1. PICK v \in {[Buffered(r) EXCEPT !.last = x] : x \in NextCursors(run[r].after)}
                    \cup {[Buffered(r) EXCEPT !.next = x] : x \in NextCursors(run[r].after)} :
            run' = [run EXCEPT ![r] = v]
      BY <1>9 DEF BufferPage, FillBatch
    <3>2. Buffered(r).buf = Received(r) /\ Buffered(r).after = PageEnd(run[r].after)
      BY Typed DEF Buffered, Locals
    <3>3. Buffered(r) \in Locals
      BY LocalsComputed
    <3>4. v.buf = Received(r) /\ v.after = PageEnd(run[r].after)
      BY <3>2, <3>3 DEF Locals
    <3>5. run'[r] = v
      BY <1>1, <3>1
    <3> QED
      BY <1>9, <3>4, <3>5 DEF BufferPage, FillBatch, PageArrives
  <2>2. \A e \in 1..run'[r].after : Held(r, e)'
    BY <1>2, <2>1, PageFacts, Typed DEF StageCovers, Held, Received
  <2>3. goal[r] <= published /\ goal[r] \in Nat
    BY <1>1
  <2>4. CASE BufferPage(r)
    <3>1. PICK next \in NextCursors(run[r].after) :
            /\ run' = [run EXCEPT ![r] = [Buffered(r) EXCEPT !.last = next]]
            /\ pc' = [pc EXCEPT ![r] = IF next = NoCursor THEN "flush" ELSE "fetch"]
      BY <2>4 DEF BufferPage
    <3>2. run'[r].next = run[r].next /\ run'[r].last = next
      BY <1>1, <3>1, Typed DEF Buffered, Locals
    <3>3. /\ run[r].next <= PageEnd(run[r].after) /\ next <= PageEnd(run[r].after)
          /\ next = NoCursor => PageEnd(run[r].after) = published
      BY <1>2, <2>1, <3>1, PageFacts, Typed DEF StageCovers, NoCursor
    <3>4. \/ pc'[r] = "fetch"
          \/ pc'[r] = "flush" /\ run'[r].after = published
      BY <1>1, <2>1, <3>1, <3>3
    <3>5. StageCovers(r)'
      BY <1>1, <2>1, <2>2, <2>3, <3>2, <3>3, <3>4 DEF StageCovers
    <3> QED
      BY <2>1, <3>1, <3>5, AdvanceSafe
  <2>5. CASE FillBatch(r)
    <3>1. PICK next \in NextCursors(run[r].after) :
            run' = [run EXCEPT ![r] = [Buffered(r) EXCEPT !.next = next]]
      BY <2>5 DEF FillBatch
    <3>2. run'[r].next = next /\ run'[r].last = run[r].last /\ pc'[r] = "insert"
      <4>1. run'[r] = [Buffered(r) EXCEPT !.next = next]
        BY <1>1, <3>1
      <4>2. run'[r].next = next /\ run'[r].last = run[r].last
        BY <4>1, Typed DEF Buffered, Locals
      <4>3. pc'[r] = "insert"
        BY <1>1, <2>5 DEF FillBatch
      <4> QED
        BY <4>2, <4>3
    <3>3. /\ run[r].last <= PageEnd(run[r].after) /\ next <= PageEnd(run[r].after)
          /\ next = NoCursor => PageEnd(run[r].after) = published
      BY <1>2, <2>1, <3>1, PageFacts, Typed DEF StageCovers, NoCursor
    <3>4. StageCovers(r)'
      BY <1>1, <2>1, <2>2, <2>3, <3>2, <3>3 DEF StageCovers
    <3> QED
      BY <2>1, <2>5, <3>1, <3>4, AdvanceSafe DEF FillBatch
  <2> QED
    BY <1>9, <2>4, <2>5
<1>10. CASE EmptyPage(r)
  <2>1. Page(run[r].after) = {} /\ pc[r] = "fetch" /\ UNCHANGED <<run, goal, archived, expired>>
    BY <1>10 DEF EmptyPage
  <2>2. \A e \in 1..published : Held(r, e)
    BY <1>1, <1>2, <2>1, PageFacts, Typed DEF StageCovers, Held, PageStart
  <2>3. StageCovers(r)'
    BY <1>1, <1>2, <1>10, <2>1, <2>2 DEF EmptyPage, StageCovers, Held
  <2> QED
    BY <1>1, <1>10, <2>3, LoopSafe, Stable DEF EmptyPage, Safe, SuccessMeansCaughtUp
<1>11. CASE TokenRefused(r)
  BY <1>11, EndSafe DEF TokenRefused
<1>12. CASE FetchFails(r)
  BY <1>12, EndSafe DEF FetchFails, FailRun
<1>13. CASE InsertBatch(r)
  <2>1. run' = [run EXCEPT ![r] = [run[r] EXCEPT !.buf = {}]]
    BY <1>1, <1>13 DEF InsertBatch
  <2>2. /\ run'[r].buf = {} /\ run'[r].after = run[r].after
        /\ run'[r].next = run[r].next /\ run'[r].last = run[r].last
    BY <1>1, <2>1, Typed DEF Locals
  <2>3. StageCovers(r)'
    BY <1>1, <1>2, <1>13, <2>2, Typed DEF InsertBatch, PutRows, StageCovers, Held
  <2> QED
    BY <1>13, <2>1, <2>3, AdvanceSafe DEF InsertBatch, PutRows
<1>14. CASE InsertFails(r)
  BY <1>14, EndSafe DEF InsertFails, PutRows, FailRun
<1>15. CASE SaveBatchCursor(r)
  <2>1. run' = [run EXCEPT ![r] = [run[r] EXCEPT !.next = NoCursor, !.last = NoCursor]]
    BY <1>1, <1>15 DEF SaveBatchCursor
  <2>2. /\ run'[r].buf = run[r].buf /\ run'[r].after = run[r].after
        /\ run'[r].next = NoCursor /\ run'[r].last = NoCursor
    BY <1>1, <2>1, Typed DEF Locals
  <2>3. StageCovers(r)'
    BY <1>1, <1>2, <1>15, <2>2, Typed DEF SaveBatchCursor, StageCovers, Held, NoCursor
  <2>4. CoveredNext(secret'.cursor)
    BY <1>2, <1>15, Typed DEF SaveBatchCursor, CursorVersion, StageCovers, Held, CoveredNext
  <2> QED
    BY <1>15, <2>1, <2>3, <2>4, AdvanceSafe DEF SaveBatchCursor
<1>16. CASE SaveBatchFails(r)
  <2>1. UNCHANGED secret \/ CoveredNext(secret'.cursor)
    BY <1>2, <1>16, Typed DEF SaveBatchFails, CursorVersion, StageCovers, Held, CoveredNext
  <2> QED
    BY <1>16, <2>1, EndSafe DEF SaveBatchFails, FailRun
<1>17. CASE FlushNothing(r)
  BY <1>2, <1>17, EndSafe DEF FlushNothing, StageCovers, Held, CoveredNext
<1>18. CASE FlushRest(r)
  <2>1. /\ archived' = archived \cup run[r].buf /\ pc[r] = "flush"
        /\ UNCHANGED <<published, expired, secret>>
    BY <1>18 DEF FlushRest, PutRows
  <2>2. CoveredNext(goal[r])
    BY <1>2, <2>1 DEF StageCovers, Held, CoveredNext
  <2>3. CASE EndRun(r, "success")
    BY <2>1, <2>2, <2>3, EndSafe
  <2>4. CASE pc' = [pc EXCEPT ![r] = "saveLast"] /\ UNCHANGED <<run, result, goal>>
    <3>1. StageCovers(r)'
      BY <1>1, <1>2, <2>1, <2>4 DEF StageCovers, Held
    <3> QED
      BY <1>1, <2>1, <2>4, <3>1, LoopSafe, Stable DEF Safe, SuccessMeansCaughtUp
  <2> QED
    BY <1>18, <2>3, <2>4 DEF FlushRest
<1>19. CASE FlushFails(r)
  BY <1>19, EndSafe DEF FlushFails, PutRows, FailRun
<1>20. CASE SaveLastCursor(r)
  <2>1. CoveredNext(run[r].last) /\ CoveredNext(goal[r])
    BY <1>1, <1>2, <1>20, Typed DEF SaveLastCursor, StageCovers, Held, CoveredNext
  <2> QED
    BY <1>20, <2>1, EndSafe DEF SaveLastCursor, CursorVersion
<1>21. CASE SaveLastFails(r)
  <2>1. UNCHANGED secret \/ CoveredNext(secret'.cursor)
    BY <1>1, <1>2, <1>21, Typed DEF SaveLastFails, CursorVersion, StageCovers, Held, CoveredNext
  <2> QED
    BY <1>21, <2>1, EndSafe DEF SaveLastFails, FailRun
<1> QED
  BY <1>3, <1>4, <1>5, <1>6, <1>7, <1>8, <1>9, <1>10, <1>11, <1>12, <1>13, <1>14,
     <1>15, <1>16, <1>17, <1>18, <1>19, <1>20, <1>21 DEF LoopStep

(* A step that moves no process and leaves secret and Archive alone. *)
LEMMA ElsewhereSafe ==
  ASSUME TypeOK, Safe, UNCHANGED <<archived, loop>>,
         expired' \in Nat, expired <= expired',
         UNCHANGED secret \/ secret'.cursor = NoCursor
  PROVE  Safe'
<1>1. /\ published \in Nat /\ expired \in Nat
      /\ \A q \in Replica : goal[q] \in 0..published
  BY DEF TypeOK
<1>2. RunCovers'
  BY Stable DEF Safe, RunCovers, loop
<1>3. \A q \in Replica : result[q] = "success" => CoveredNext(goal[q])
  BY <1>1, Stable DEF Safe, SuccessMeansCaughtUp
<1>4. SuccessMeansCaughtUp'
  BY <1>3 DEF SuccessMeansCaughtUp, Covered, CoveredNext, loop
<1>5. CASE UNCHANGED secret
  <2>1. secret.cursor \in 0..published
    BY DEF TypeOK
  <2>2. CoveredNext(secret.cursor)
    BY <2>1, Stable DEF Safe, ResumePointCovered
  <2>3. ResumePointCovered'
    BY <1>5, <2>2 DEF ResumePointCovered, Covered, CoveredNext
  <2> QED
    BY <1>2, <1>4, <2>3 DEF Safe
<1>6. CASE secret'.cursor = NoCursor
  <2>1. ResumePointCovered'
    BY <1>6 DEF ResumePointCovered, Covered, NoCursor
  <2> QED
    BY <1>2, <1>4, <2>1 DEF Safe
<1> QED
  BY <1>5, <1>6

(* Every step keeps what the stages rely on and the resume point covered.   *)
LEMMA NextSafe == TypeOK /\ Safe /\ [Next]_vars => Safe'
<1> SUFFICES ASSUME TypeOK, Safe, [Next]_vars PROVE Safe'
  OBVIOUS
<1>1. published \in Nat /\ expired \in Nat /\ secret \in [token: Flow \cup {NoToken}, cursor: 0..published]
  BY DEF TypeOK
<1>2. CASE UNCHANGED vars
  BY <1>1, <1>2, ElsewhereSafe DEF vars, github, loop
<1>3. CASE GitHubStep
  BY <1>1, <1>3, ElsewhereSafe DEF GitHubStep, Publish, Expire, Revoke, loop
<1>4. CASE AuthStep
  <2>1. secret' \in {secret} \cup {[token |-> f, cursor |-> NoCursor] : f \in Flow}
    BY <1>4 DEF AuthStep, Authorize, Callback, Exchange, SaveTokens, SaveTokensFails
  <2>2. UNCHANGED <<github, archived, loop>>
    BY <1>4 DEF AuthStep, Authorize, Callback, Exchange, SaveTokens, SaveTokensFails
  <2> QED
    BY <1>1, <2>1, <2>2, ElsewhereSafe DEF github
<1>5. ASSUME NEW r \in Replica, LoopStep(r) PROVE Safe'
  BY <1>5, LoopStepSafe
<1>6. ASSUME NEW r \in Replica, Crash(r) PROVE Safe'
  <2>1. /\ pc \in [Replica -> Place] /\ run \in [Replica -> Locals]
        /\ result \in [Replica -> {"none", "success", "failure"}]
    BY DEF TypeOK
  <2>2. StageCovers(r)'
    BY <1>6, <2>1, IdleCovers DEF Crash
  <2> QED
    BY <1>6, <2>1, <2>2, LoopSafe DEF Crash, github
<1> QED
  BY <1>2, <1>3, <1>4, <1>5, <1>6 DEF Next

(* What each stage of a run relies on holds in every reachable state. *)
THEOREM RunsCover == Spec => []RunCovers
<1>1. Init => TypeOK /\ Safe
  BY InitTypeOK, InitSafe
<1>2. TypeOK /\ Safe /\ [Next]_vars => (TypeOK /\ Safe)'
  BY NextTypeOK, NextSafe
<1>3. Safe => RunCovers
  BY DEF Safe
<1> QED
  BY <1>1, <1>2, <1>3, PTL DEF Spec

(* The stored cursor never runs ahead of the Archive. *)
THEOREM NoEventSkipped == Spec => []ResumePointCovered
<1>1. Init => TypeOK /\ Safe
  BY InitTypeOK, InitSafe
<1>2. TypeOK /\ Safe /\ [Next]_vars => (TypeOK /\ Safe)'
  BY NextTypeOK, NextSafe
<1>3. Safe => ResumePointCovered
  BY DEF Safe
<1> QED
  BY <1>1, <1>2, <1>3, PTL DEF Spec

(* A successful run has archived all that was published when it started. *)
THEOREM SuccessIsComplete == Spec => []SuccessMeansCaughtUp
<1>1. Init => TypeOK /\ Safe
  BY InitTypeOK, InitSafe
<1>2. TypeOK /\ Safe /\ [Next]_vars => (TypeOK /\ Safe)'
  BY NextTypeOK, NextSafe
<1>3. Safe => SuccessMeansCaughtUp
  BY DEF Safe
<1> QED
  BY <1>1, <1>2, <1>3, PTL DEF Spec

-----------------------------------------------------------------------------
(* With one process, what is about to be saved is never behind the stored   *)
(* cursor: only that process and a new authorization write the secret.      *)
Ahead(r) ==
  pc[r] \in {"fetch", "insert", "save", "flush", "saveLast"} =>
    /\ secret.cursor <= run[r].after
    /\ run[r].next = NoCursor \/ secret.cursor <= run[r].next
    /\ run[r].last = NoCursor \/ secret.cursor <= run[r].last
    /\ pc[r] = "save" => run[r].next # NoCursor
    /\ pc[r] = "saveLast" => run[r].last # NoCursor

RunAhead == \A r \in Replica : Ahead(r)

LEMMA InitAhead == Init => RunAhead
BY DEF Init, RunAhead, Ahead

(* A step that leaves all runs alone keeps RunAhead unless the cursor grows. *)
LEMMA AheadStays ==
  ASSUME TypeOK, RunAhead, UNCHANGED <<pc, run>>,
         secret' = secret \/ secret'.cursor = NoCursor
  PROVE  RunAhead'
<1>1. ASSUME NEW r \in Replica PROVE Ahead(r)'
  BY Typed DEF RunAhead, Ahead, NoCursor
<1> QED
  BY <1>1 DEF RunAhead

(* The only process, when its step ends the run or is outside one. *)
LEMMA AheadOutside ==
  ASSUME \A p, q \in Replica : p = q, NEW r \in Replica, pc'[r] \in {"down", "idle", "load"}
  PROVE  RunAhead'
BY DEF RunAhead, Ahead

LEMMA NextAhead ==
  ASSUME \A p, q \in Replica : p = q
  PROVE  TypeOK /\ Safe /\ RunAhead /\ [Next]_vars =>
           /\ RunAhead'
           /\ secret'.cursor >= secret.cursor \/ Reauthorised
<1> SUFFICES ASSUME TypeOK, Safe, RunAhead, [Next]_vars
             PROVE  RunAhead' /\ (secret'.cursor >= secret.cursor \/ Reauthorised)
  OBVIOUS
<1>1. secret.cursor \in Nat /\ (UNCHANGED secret => secret'.cursor >= secret.cursor)
  BY DEF TypeOK
<1>2. CASE UNCHANGED vars \/ GitHubStep \/ \E r \in Replica, f \in Flow : Authorize(r, f)
  BY <1>1, <1>2, AheadStays DEF vars, GitHubStep, Publish, Expire, Revoke, Authorize, loop
<1>3. ASSUME NEW f \in Flow, Callback(f) \/ Exchange(f)
      PROVE  RunAhead' /\ secret'.cursor >= secret.cursor
  BY <1>1, <1>3, AheadStays DEF Callback, Exchange, loop
<1>4. ASSUME NEW f \in Flow, SaveTokens(f) \/ SaveTokensFails(f)
      PROVE  RunAhead' /\ Reauthorised
  <2>1. RunAhead'
    BY <1>4, AheadStays DEF SaveTokens, SaveTokensFails, loop
  <2>2. auth[f] = "saving" /\ auth'[f] # "saving"
    BY <1>4 DEF SaveTokens, SaveTokensFails, TypeOK
  <2> QED
    BY <2>1, <2>2 DEF Reauthorised
<1>5. ASSUME NEW r \in Replica,
             \/ Boot(r) \/ StartRun(r) \/ NotAuthorised(r) \/ LoadFails(r) \/ TokenRefused(r)
             \/ FetchFails(r) \/ InsertFails(r) \/ FlushNothing(r) \/ FlushFails(r) \/ Crash(r)
      PROVE  RunAhead' /\ secret'.cursor >= secret.cursor
  <2>1. pc'[r] \in {"down", "idle", "load"} /\ UNCHANGED secret
    BY <1>5 DEF Boot, StartRun, NotAuthorised, LoadFails, TokenRefused, FetchFails, InsertFails,
                FlushNothing, FlushFails, Crash, FailRun, EndRun, TypeOK
  <2> QED
    BY <1>1, <2>1, AheadOutside
<1>6. ASSUME NEW r \in Replica, SaveBatchFails(r) \/ SaveLastFails(r) \/ SaveLastCursor(r)
      PROVE  RunAhead' /\ secret'.cursor >= secret.cursor
  <2>1. pc'[r] = "idle"
    BY <1>6 DEF SaveBatchFails, SaveLastFails, SaveLastCursor, FailRun, EndRun, TypeOK
  <2>2. \/ UNCHANGED secret
        \/ pc[r] = "save" /\ secret'.cursor = run[r].next
        \/ pc[r] = "saveLast" /\ secret'.cursor = run[r].last
    BY <1>6 DEF SaveBatchFails, SaveLastFails, SaveLastCursor, CursorVersion
  <2>3. secret'.cursor >= secret.cursor
    BY <1>1, <2>2, Typed DEF RunAhead, Ahead
  <2> QED
    BY <2>1, <2>3, AheadOutside
<1>7. ASSUME NEW r \in Replica, LoadPair(r)
      PROVE  RunAhead' /\ secret'.cursor >= secret.cursor
  <2>1. /\ UNCHANGED secret /\ pc'[r] = "fetch" /\ run'[r].after = secret.cursor
        /\ run'[r].next = NoCursor /\ run'[r].last = NoCursor
    BY <1>7 DEF LoadPair, NoRun, TypeOK
  <2> QED
    BY <1>1, <2>1 DEF RunAhead, Ahead
<1>8. ASSUME NEW r \in Replica, RateLimited(r) \/ EmptyPage(r)
      PROVE  RunAhead' /\ secret'.cursor >= secret.cursor
  <2>1. /\ UNCHANGED secret /\ pc[r] = "fetch" /\ pc'[r] \in {"fetch", "flush"}
        /\ run'[r].after = run[r].after /\ run'[r].next = run[r].next
        /\ run'[r].last = run[r].last
    BY <1>8, Typed DEF RateLimited, EmptyPage, TypeOK, Locals
  <2> QED
    BY <1>1, <2>1 DEF RunAhead, Ahead
<1>9. ASSUME NEW r \in Replica, BufferPage(r) \/ FillBatch(r)
      PROVE  RunAhead' /\ secret'.cursor >= secret.cursor
  <2>1. /\ pc[r] = "fetch" /\ UNCHANGED secret
        /\ PageEnd(run[r].after) \in run[r].after..published
        /\ run[r].after \in 0..published /\ published \in Nat
    BY <1>9, Typed, PageFacts DEF BufferPage, FillBatch, PageArrives, TypeOK
  <2>2. PICK next \in {PageEnd(run[r].after), NoCursor} :
          \/ pc'[r] \in {"flush", "fetch"} /\ run'[r] = [Buffered(r) EXCEPT !.last = next]
          \/ pc'[r] = "insert" /\ run'[r] = [Buffered(r) EXCEPT !.next = next]
    <3>1. NextCursors(run[r].after) \subseteq {PageEnd(run[r].after), NoCursor}
      BY <2>1, PageFacts
    <3>2. /\ pc \in [Replica -> {pc[q] : q \in Replica}]
          /\ run \in [Replica -> {run[q] : q \in Replica}]
      BY DEF TypeOK
    <3>3. CASE BufferPage(r)
      BY <3>1, <3>2, <3>3 DEF BufferPage
    <3>4. CASE FillBatch(r)
      BY <3>1, <3>2, <3>4 DEF FillBatch
    <3> QED
      BY <1>9, <3>3, <3>4
  <2>3. /\ run'[r].after = PageEnd(run[r].after)
        /\ run'[r].next \in {next, run[r].next} /\ run'[r].last \in {next, run[r].last}
    BY <2>2, Typed DEF Buffered, Locals
  <2> QED
    BY <1>1, <2>1, <2>2, <2>3 DEF RunAhead, Ahead
<1>10. ASSUME NEW r \in Replica, InsertBatch(r) \/ FlushRest(r)
       PROVE  RunAhead' /\ secret'.cursor >= secret.cursor
  <2>1. UNCHANGED secret
    BY <1>10 DEF InsertBatch, FlushRest
  <2>2. CASE pc'[r] = "idle"
    BY <1>1, <2>1, <2>2, AheadOutside
  <2>3. CASE pc'[r] # "idle"
    <3>1. /\ pc[r] \in {"insert", "flush"} /\ pc'[r] \in {"flush", "save", "saveLast"}
          /\ run'[r].after = run[r].after /\ run'[r].next = run[r].next
          /\ run'[r].last = run[r].last
          /\ pc'[r] = "save" => run[r].next # NoCursor
          /\ pc'[r] = "saveLast" => run[r].last # NoCursor
      BY <1>10, <2>3, Typed DEF InsertBatch, FlushRest, EndRun, TypeOK, Locals
    <3> QED
      BY <1>1, <2>1, <3>1 DEF RunAhead, Ahead
  <2> QED
    BY <2>2, <2>3
<1>11. ASSUME NEW r \in Replica, SaveBatchCursor(r)
       PROVE  RunAhead' /\ secret'.cursor >= secret.cursor
  <2>1. /\ pc[r] = "save" /\ pc'[r] = "fetch" /\ secret'.cursor = run[r].next
        /\ run'[r].after = run[r].after
        /\ run'[r].next = NoCursor /\ run'[r].last = NoCursor
    BY <1>11, Typed DEF SaveBatchCursor, CursorVersion, TypeOK, Locals
  <2>2. run[r].next <= run[r].after
    BY <2>1 DEF Safe, RunCovers, StageCovers
  <2>3. secret.cursor <= run[r].next
    BY <2>1 DEF RunAhead, Ahead
  <2> QED
    BY <1>1, <2>1, <2>2, <2>3, Typed DEF RunAhead, Ahead
<1> QED
  BY <1>2, <1>3, <1>4, <1>5, <1>6, <1>7, <1>8, <1>9, <1>10, <1>11 DEF Next, AuthStep, LoopStep

(* With one process no run moves the stored cursor back, whatever fails and *)
(* also when an authorization replaces the pair in the middle of a run.     *)
THEOREM CursorAdvances ==
  ASSUME \A p, q \in Replica : p = q
  PROVE  Spec => CursorNeverGoesBack
<1>1. Init => TypeOK /\ Safe /\ RunAhead
  BY InitTypeOK, InitSafe, InitAhead
<1>2. TypeOK /\ Safe /\ RunAhead /\ [Next]_vars =>
        /\ (TypeOK /\ Safe /\ RunAhead)'
        /\ [secret'.cursor >= secret.cursor \/ Reauthorised]_vars
  BY NextTypeOK, NextSafe, NextAhead
<1> QED
  BY <1>1, <1>2, PTL DEF Spec, CursorNeverGoesBack

-----------------------------------------------------------------------------
(* The batch handed to BigQuery.  Inductive once it is known that buf is    *)
(* below a whole batch wherever another page may be added to it.            *)
SmallBuffers ==
  \A r \in Replica :
    /\ IsFiniteSet(run[r].buf)
    /\ Cardinality(run[r].buf) < BatchSize + PageSize
    /\ pc[r] \in {"down", "idle", "load", "fetch"} => Cardinality(run[r].buf) < BatchSize

(* A page has at most PageSize events. *)
LEMMA PageIsSmall ==
  ASSUME TypeOK, NEW a \in 0..published
  PROVE  IsFiniteSet(Page(a)) /\ Cardinality(Page(a)) <= PageSize
<1>1. /\ PageStart(a) \in Nat /\ PageEnd(a) \in Nat
      /\ PageEnd(a) <= PageStart(a) + PageSize
  BY PageFacts DEF TypeOK, PageStart, PageEnd
<1>2. /\ IsFiniteSet((PageStart(a) + 1)..PageEnd(a))
      /\ Cardinality((PageStart(a) + 1)..PageEnd(a)) =
           IF PageStart(a) + 1 > PageEnd(a) THEN 0 ELSE PageEnd(a) - (PageStart(a) + 1) + 1
  <2>1. PageStart(a) + 1 \in Int /\ PageEnd(a) \in Int
    BY <1>1
  <2> HIDE DEF PageStart, PageEnd
  <2> QED
    BY <2>1, FS_Interval, Zenon
<1> QED
  BY <1>1, <1>2 DEF Page

(* A buffer below a batch stays below a batch and a page when one page is   *)
(* appended.                                                                *)
LEMMA ReceivedIsBounded ==
  ASSUME TypeOK, SmallBuffers, NEW r \in Replica, pc[r] = "fetch"
  PROVE  /\ IsFiniteSet(Received(r))
         /\ Cardinality(Received(r)) \in Nat
         /\ Cardinality(Received(r)) < BatchSize + PageSize
<1>1. /\ IsFiniteSet(run[r].buf) /\ Cardinality(run[r].buf) < BatchSize
  BY DEF SmallBuffers
<1>2. /\ IsFiniteSet(Page(run[r].after)) /\ Cardinality(Page(run[r].after)) <= PageSize
  BY PageIsSmall, Typed
<1>3. /\ IsFiniteSet(run[r].buf \cup Page(run[r].after))
      /\ Cardinality(run[r].buf \cup Page(run[r].after)) =
           Cardinality(run[r].buf) + Cardinality(Page(run[r].after))
             - Cardinality(run[r].buf \cap Page(run[r].after))
  BY <1>1, <1>2, FS_Union
<1>4. /\ Cardinality(run[r].buf) \in Nat /\ Cardinality(Page(run[r].after)) \in Nat
      /\ Cardinality(run[r].buf \cap Page(run[r].after)) \in Nat
  BY <1>1, <1>2, FS_CardinalityType, FS_Intersection
<1>5. Cardinality(Received(r)) \in Nat
  BY <1>3, FS_CardinalityType DEF Received
<1> QED
  BY <1>1, <1>2, <1>3, <1>4, <1>5 DEF Received

(* Only a step of the process itself changes its place and its buffer. *)
LEMMA StepSmall ==
  ASSUME TypeOK, SmallBuffers, NEW r \in Replica,
         \A q \in Replica \ {r} : UNCHANGED <<pc[q], run[q]>>,
         IsFiniteSet(run'[r].buf),
         Cardinality(run'[r].buf) < BatchSize + PageSize,
         pc'[r] \in {"down", "idle", "load", "fetch"} => Cardinality(run'[r].buf) < BatchSize
  PROVE  SmallBuffers'
BY DEF SmallBuffers

(* The buffer a run starts and ends with is empty. *)
LEMMA EmptySmall ==
  /\ IsFiniteSet({}) /\ Cardinality({}) = 0 /\ 0 < BatchSize /\ 0 < BatchSize + PageSize
  /\ NoRun.buf = {}
BY FS_EmptySet DEF NoRun

(* No process has a buffer at the start. *)
LEMMA InitSmall == Init => SmallBuffers
BY EmptySmall DEF Init, SmallBuffers

(* Every step keeps buffers small: only a page that arrives makes one        *)
(* larger, and a full one is emptied before the next page is asked for.     *)
LEMMA NextSmall == TypeOK /\ Safe /\ SmallBuffers /\ [Next]_vars => SmallBuffers'
<1> SUFFICES ASSUME TypeOK, Safe, SmallBuffers, [Next]_vars PROVE SmallBuffers'
  OBVIOUS
<1>1. pc \in [Replica -> Place] /\ run \in [Replica -> Locals]
  BY DEF TypeOK
<1>2. CASE UNCHANGED vars
  BY <1>2 DEF SmallBuffers, vars, loop
<1>3. CASE GitHubStep \/ AuthStep
  <2>1. UNCHANGED <<pc, run>>
    BY <1>3 DEF GitHubStep, Publish, Expire, Revoke, AuthStep, Authorize, Callback,
                Exchange, SaveTokens, SaveTokensFails, loop
  <2> QED
    BY <2>1 DEF SmallBuffers
<1>4. ASSUME NEW r \in Replica, LoopStep(r) PROVE SmallBuffers'
  <2>1. CASE pc' = [pc EXCEPT ![r] = "idle"] /\ run' = [run EXCEPT ![r] = NoRun]
    BY <1>1, <2>1, EmptySmall, StepSmall
  <2>2. CASE Boot(r) \/ StartRun(r)
    BY <1>1, <2>2, StepSmall DEF Boot, StartRun, SmallBuffers
  <2>3. CASE LoadPair(r)
    <3>1. run'[r].buf = {}
      BY <1>1, <2>3 DEF LoadPair, NoRun
    <3> QED
      BY <1>1, <2>3, <3>1, EmptySmall, StepSmall DEF LoadPair
  <2>4. CASE RateLimited(r)
    <3>1. run'[r].buf = run[r].buf
      BY <1>1, <2>4, Typed DEF RateLimited, Locals
    <3> QED
      BY <1>1, <2>4, <3>1, StepSmall DEF RateLimited, SmallBuffers
  <2>5. CASE BufferPage(r)
    <3>1. PICK next \in NextCursors(run[r].after) :
            run' = [run EXCEPT ![r] = [Buffered(r) EXCEPT !.last = next]]
      BY <2>5 DEF BufferPage
    <3>2. run'[r].buf = Received(r)
      BY <1>1, <3>1, Typed DEF Buffered, Locals
    <3> QED
      BY <1>1, <2>5, <3>1, <3>2, ReceivedIsBounded, StepSmall DEF BufferPage, PageArrives
  <2>6. CASE FillBatch(r)
    <3>1. PICK next \in NextCursors(run[r].after) :
            run' = [run EXCEPT ![r] = [Buffered(r) EXCEPT !.next = next]]
      BY <2>6 DEF FillBatch
    <3>2. run'[r].buf = Received(r)
      BY <1>1, <3>1, Typed DEF Buffered, Locals
    <3> QED
      BY <1>1, <2>6, <3>1, <3>2, ReceivedIsBounded, StepSmall DEF FillBatch, PageArrives
  <2>7. CASE EmptyPage(r)
    BY <1>1, <2>7, StepSmall DEF EmptyPage, SmallBuffers
  <2>8. CASE InsertBatch(r)
    <3>1. run'[r].buf = {}
      BY <1>1, <2>8, Typed DEF InsertBatch, Locals
    <3> QED
      BY <1>1, <2>8, <3>1, EmptySmall, StepSmall DEF InsertBatch
  <2>9. CASE SaveBatchCursor(r)
    <3>1. run'[r].buf = {}
      BY <1>1, <2>9, Typed DEF SaveBatchCursor, Locals, Safe, RunCovers, StageCovers
    <3> QED
      BY <1>1, <2>9, <3>1, EmptySmall, StepSmall DEF SaveBatchCursor
  <2>10. CASE FlushRest(r)
    <3>1. CASE pc' = [pc EXCEPT ![r] = "saveLast"] /\ UNCHANGED <<run, result, goal>>
      BY <1>1, <3>1, StepSmall DEF SmallBuffers
    <3> QED
      BY <2>1, <2>10, <3>1 DEF FlushRest, EndRun
  <2> QED
    BY <1>4, <2>1, <2>2, <2>3, <2>4, <2>5, <2>6, <2>7, <2>8, <2>9, <2>10
       DEF LoopStep, NotAuthorised, LoadFails, TokenRefused, FetchFails, InsertFails,
           SaveBatchFails, FlushNothing, FlushFails, SaveLastCursor, SaveLastFails,
           FailRun, EndRun
<1>5. ASSUME NEW r \in Replica, Crash(r) PROVE SmallBuffers'
  BY <1>1, <1>5, EmptySmall, StepSmall DEF Crash
<1> QED
  BY <1>2, <1>3, <1>4, <1>5 DEF Next

(* No insert call ever carries a batch and a page, or more. *)
THEOREM BatchesAreBounded == Spec => []BufferBounded
<1>1. Init => TypeOK /\ Safe /\ SmallBuffers
  BY InitTypeOK, InitSafe, InitSmall
<1>2. TypeOK /\ Safe /\ SmallBuffers /\ [Next]_vars => (TypeOK /\ Safe /\ SmallBuffers)'
  BY NextTypeOK, NextSafe, NextSmall
<1>3. SmallBuffers => BufferBounded
  BY DEF SmallBuffers, BufferBounded
<1> QED
  BY <1>1, <1>2, <1>3, PTL DEF Spec

-----------------------------------------------------------------------------
(* How far the cursor lags, with one process and one authorization.  What a *)
(* run holds in buf is exactly what lies between the stored cursor and the  *)
(* position it has reached; that the cursor is the one of this run, and not *)
(* one a second authorization has just reset, follows from where tokens     *)
(* come from.                                                               *)
InRun(r) == pc[r] \in {"fetch", "insert", "save", "flush", "saveLast"}

Finished(t) == t \in Flow /\ auth[t] \in {"done", "dropped"}

(* Every token in the secret or in a run is that of a flow that is over, and *)
(* nothing runs or has succeeded before there is one.                       *)
Tokens ==
  /\ secret.token # NoToken => Finished(secret.token)
  /\ \A r \in Replica :
       /\ InRun(r) => Finished(run[r].token) /\ secret.token # NoToken
       /\ result[r] = "success" => secret.token # NoToken /\ pc[r] = "idle"

(* There is no token at the start. *)
LEMMA InitTokens == Init => Tokens
BY DEF Init, Tokens, InRun

(* What a step of a run may do to tokens and to the label of the last run. *)
LEMMA TokenEffects ==
  ASSUME TypeOK, NEW r \in Replica, LoopStep(r), result[r] = "success" => pc[r] = "idle"
  PROVE  /\ UNCHANGED auth
         /\ \A q \in Replica \ {r} : UNCHANGED <<pc[q], run[q], result[q]>>
         /\ secret'.token = secret.token \/ (InRun(r) /\ secret'.token = run[r].token)
         /\ InRun(r)' => \/ InRun(r) /\ run'[r].token = run[r].token
                         \/ secret.token # NoToken /\ run'[r].token = secret.token
         /\ result'[r] = "success" =>
              pc'[r] = "idle" /\ (InRun(r) \/ result[r] = "success")
<1>1. /\ pc \in [Replica -> Place] /\ run \in [Replica -> Locals]
      /\ result \in [Replica -> {"none", "success", "failure"}]
  BY DEF TypeOK
<1>2. CASE EndRun(r, "none") \/ EndRun(r, "failure") \/ EndRun(r, "success")
  <2>1. /\ pc'[r] = "idle" /\ UNCHANGED oauth
        /\ \A q \in Replica \ {r} : UNCHANGED <<pc[q], run[q], result[q]>>
    BY <1>1, <1>2 DEF EndRun, LoopStep, Boot, StartRun, LoadPair, NotAuthorised, LoadFails,
                      RateLimited, BufferPage, FillBatch, EmptyPage, TokenRefused, FetchFails,
                      InsertBatch, InsertFails, SaveBatchCursor, SaveBatchFails, FlushNothing,
                      FlushRest, FlushFails, SaveLastCursor, SaveLastFails
  <2>2. secret'.token = secret.token \/ (InRun(r) /\ secret'.token = run[r].token)
    BY DEF LoopStep, Boot, StartRun, LoadPair, NotAuthorised, LoadFails,
           RateLimited, BufferPage, FillBatch, EmptyPage, TokenRefused, FetchFails,
           InsertBatch, InsertFails, SaveBatchCursor, SaveBatchFails, FlushNothing,
           FlushRest, FlushFails, SaveLastCursor, SaveLastFails, CursorVersion, InRun
  <2>3. result'[r] = "success" => InRun(r) \/ result[r] = "success"
    BY <1>1, <1>2 DEF EndRun, FailRun, LoopStep, Boot, StartRun, LoadPair, NotAuthorised, LoadFails,
           RateLimited, BufferPage, FillBatch, EmptyPage, TokenRefused, FetchFails,
           InsertBatch, InsertFails, SaveBatchCursor, SaveBatchFails, FlushNothing,
           FlushRest, FlushFails, SaveLastCursor, SaveLastFails, InRun
  <2> QED
    BY <2>1, <2>2, <2>3 DEF oauth, InRun
<1>3. CASE Boot(r) \/ StartRun(r)
  BY <1>1, <1>3 DEF Boot, StartRun, InRun, oauth
<1>4. CASE LoadPair(r)
  BY <1>1, <1>4 DEF LoadPair, InRun, oauth, NoRun
<1>5. CASE RateLimited(r) \/ EmptyPage(r) \/ InsertBatch(r) \/ SaveBatchCursor(r)
  <2>1. run'[r].token = run[r].token
    BY <1>1, <1>5, Typed DEF RateLimited, EmptyPage, InsertBatch, SaveBatchCursor, Locals
  <2> QED
    BY <1>1, <1>5, <2>1 DEF RateLimited, EmptyPage, InsertBatch, SaveBatchCursor,
                            CursorVersion, InRun, oauth
<1>6. CASE BufferPage(r) \/ FillBatch(r)
  <2>1. PICK next \in NextCursors(run[r].after) :
          \/ run' = [run EXCEPT ![r] = [Buffered(r) EXCEPT !.last = next]]
          \/ run' = [run EXCEPT ![r] = [Buffered(r) EXCEPT !.next = next]]
    BY <1>6 DEF BufferPage, FillBatch
  <2>2. /\ [Buffered(r) EXCEPT !.last = next].token = run[r].token
        /\ [Buffered(r) EXCEPT !.next = next].token = run[r].token
    BY Typed DEF Buffered, Locals
  <2>3. run'[r].token = run[r].token /\ \A q \in Replica \ {r} : UNCHANGED run[q]
    BY <1>1, <2>1, <2>2
  <2> QED
    BY <1>1, <1>6, <2>3 DEF BufferPage, FillBatch, PageArrives, InRun, oauth
<1>7. CASE FlushRest(r) /\ UNCHANGED <<run, result>>
  BY <1>1, <1>7 DEF FlushRest, InRun, oauth, EndRun
<1> QED
  BY <1>2, <1>3, <1>4, <1>5, <1>6, <1>7
     DEF LoopStep, NotAuthorised, LoadFails, TokenRefused, FetchFails, InsertFails,
         SaveBatchFails, FlushNothing, FlushRest, FlushFails, SaveLastCursor, SaveLastFails,
         FailRun

(* Authorization flows only go forward. *)
LEMMA FlowsGoOn ==
  ASSUME TypeOK, [Next]_vars, NEW f \in Flow
  PROVE  /\ auth[f] \in {"done", "dropped"} => auth'[f] \in {"done", "dropped"}
         /\ auth'[f] \in {"new", "redirected", "exchanging"} =>
              auth[f] \in {"new", "redirected", "exchanging"}
<1>1. auth \in [Flow -> Stage]
  BY DEF TypeOK
<1>2. CASE UNCHANGED auth
  BY <1>2
<1>3. CASE AuthStep
  BY <1>1, <1>3 DEF AuthStep, Authorize, Callback, Exchange, SaveTokens, SaveTokensFails, Stage
<1>4. CASE \E r \in Replica : Crash(r)
  BY <1>1, <1>4 DEF Crash, Stage
<1>5. CASE GitHubStep \/ \E r \in Replica : LoopStep(r)
  BY <1>2, <1>5 DEF GitHubStep, Publish, Expire, Revoke, oauth,
         LoopStep, Boot, StartRun, LoadPair, NotAuthorised, LoadFails,
         RateLimited, BufferPage, FillBatch, EmptyPage, TokenRefused, FetchFails,
         InsertBatch, InsertFails, SaveBatchCursor, SaveBatchFails, FlushNothing,
         FlushRest, FlushFails, SaveLastCursor, SaveLastFails
<1> QED
  BY <1>2, <1>3, <1>4, <1>5 DEF Next, vars, oauth

(* Every step keeps what is known of tokens. *)
LEMMA NextTokens == TypeOK /\ Tokens /\ [Next]_vars => Tokens'
<1> SUFFICES ASSUME TypeOK, Tokens, [Next]_vars PROVE Tokens'
  OBVIOUS
<1>1. \A t : Finished(t) => Finished(t)'
  BY FlowsGoOn DEF Finished
<1>2. CASE UNCHANGED <<secret, loop>>
  BY <1>1, <1>2 DEF Tokens, InRun, loop
<1>3. ASSUME NEW f \in Flow, SaveTokens(f) \/ SaveTokensFails(f) PROVE Tokens'
  <2>1. /\ UNCHANGED loop /\ auth'[f] \in {"done", "dropped"}
        /\ UNCHANGED secret \/ secret'.token = f
    BY <1>3 DEF SaveTokens, SaveTokensFails, TypeOK
  <2>2. f # NoToken /\ Finished(f)'
    BY <2>1 DEF Finished
  <2> QED
    BY <1>1, <1>2, <2>1, <2>2 DEF Tokens, InRun, loop
<1>4. ASSUME NEW r \in Replica, LoopStep(r) PROVE Tokens'
  <2>1. result[r] = "success" => pc[r] = "idle"
    BY DEF Tokens
  <2>2. /\ \A q \in Replica \ {r} : UNCHANGED <<pc[q], run[q], result[q]>>
        /\ secret'.token = secret.token \/ (InRun(r) /\ secret'.token = run[r].token)
        /\ InRun(r)' => \/ InRun(r) /\ run'[r].token = run[r].token
                        \/ secret.token # NoToken /\ run'[r].token = secret.token
        /\ result'[r] = "success" =>
             pc'[r] = "idle" /\ (InRun(r) \/ result[r] = "success")
    BY <1>4, <2>1, TokenEffects
  <2>3. /\ secret'.token # NoToken => Finished(secret.token)'
        /\ secret.token # NoToken => secret'.token # NoToken
    BY <1>1, <2>2 DEF Tokens, Finished
  <2>4. ASSUME NEW q \in Replica, q # r
        PROVE  /\ InRun(q)' => Finished(run[q].token)' /\ secret'.token # NoToken
               /\ result'[q] = "success" => secret'.token # NoToken /\ pc'[q] = "idle"
    BY <1>1, <2>2, <2>3, <2>4 DEF Tokens, InRun
  <2>5. result'[r] = "success" => secret'.token # NoToken /\ pc'[r] = "idle"
    BY <2>2, <2>3 DEF Tokens
  <2>6. InRun(r)' => secret'.token # NoToken
    BY <2>2, <2>3 DEF Tokens
  <2>7. InRun(r)' => Finished(run[r].token)'
    BY <1>1, <2>2 DEF Tokens, Finished
  <2> QED
    BY <2>3, <2>4, <2>5, <2>6, <2>7 DEF Tokens
<1>5. ASSUME NEW r \in Replica, Crash(r) PROVE Tokens'
  <2>1. /\ UNCHANGED secret /\ pc'[r] = "down" /\ result'[r] = "none"
        /\ \A q \in Replica \ {r} : UNCHANGED <<pc[q], run[q], result[q]>>
    BY <1>5 DEF Crash, TypeOK
  <2> QED
    BY <1>1, <2>1 DEF Tokens, InRun
<1> QED
  BY <1>2, <1>3, <1>4, <1>5 DEF Next, GitHubStep, Publish, Expire, Revoke, AuthStep,
     Authorize, Callback, Exchange, vars

(* The secret and the runs only ever hold the token of a flow that is over. *)
THEOREM TokensFromFlows == Spec => []Tokens
<1>1. Init => TypeOK /\ Tokens
  BY InitTypeOK, InitTokens
<1>2. TypeOK /\ Tokens /\ [Next]_vars => (TypeOK /\ Tokens)'
  BY NextTypeOK, NextTokens
<1> QED
  BY <1>1, <1>2, PTL DEF Spec

(* The events up to p that a run resumed at cursor c would fetch when all up *)
(* to x have left the retention window, and that they are few.              *)
Refetched(c, x, p) == {e \in (c + 1)..p : e > x}

Few(c, x, p) == Cardinality(Refetched(c, x, p)) < BatchSize + PageSize

Near(r) ==
  /\ pc[r] \in {"fetch", "insert"} =>
       Refetched(secret.cursor, expired, run[r].after) \subseteq run[r].buf
  /\ pc[r] = "insert" => run[r].next \in {NoCursor, run[r].after}
  /\ pc[r] = "save" => run[r].next = run[r].after
  /\ pc[r] \in {"flush", "saveLast"} => Few(secret.cursor, expired, goal[r])
  /\ result[r] = "success" => Few(secret.cursor, expired, goal[r])

RunsNear == OneAuthorization => \A r \in Replica : Near(r)

(* At the start nothing runs and nothing has succeeded. *)
LEMMA InitNear == Init => RunsNear
BY DEF Init, RunsNear, Near

(* What would be fetched again only gets less when the cursor advances or    *)
(* more events leave the retention window.                                  *)
LEMMA FewStays ==
  ASSUME NEW c \in Nat, NEW d \in Nat, NEW x \in Nat, NEW y \in Nat, NEW p \in Nat,
         c <= d, x <= y, Few(c, x, p)
  PROVE  Few(d, y, p)
<1>1. IsFiniteSet((c + 1)..p)
  BY FS_Interval
<1>2. IsFiniteSet(Refetched(c, x, p))
  BY <1>1, FS_Subset DEF Refetched
<1>3. Refetched(d, y, p) \subseteq Refetched(c, x, p)
  BY DEF Refetched
<1>4. /\ Cardinality(Refetched(d, y, p)) <= Cardinality(Refetched(c, x, p))
      /\ Cardinality(Refetched(d, y, p)) \in Nat /\ Cardinality(Refetched(c, x, p)) \in Nat
  BY <1>2, <1>3, FS_Subset, FS_CardinalityType
<1> QED
  BY <1>4 DEF Few

(* What is in a buffer is few. *)
LEMMA FewBuffered ==
  ASSUME NEW B, IsFiniteSet(B), Cardinality(B) < BatchSize + PageSize,
         NEW c, NEW x, NEW p, Refetched(c, x, p) \subseteq B
  PROVE  Few(c, x, p)
<1>1. /\ Cardinality(Refetched(c, x, p)) <= Cardinality(B)
      /\ Cardinality(Refetched(c, x, p)) \in Nat /\ Cardinality(B) \in Nat
  BY FS_Subset, FS_CardinalityType
<1> QED
  BY <1>1 DEF Few

(* A step that leaves the process alone and takes the cursor nowhere back.   *)
LEMMA NearStays ==
  ASSUME TypeOK, TypeOK', NEW r \in Replica, Near(r),
         UNCHANGED <<pc[r], run[r], result[r], goal[r]>>,
         expired <= expired', secret.cursor <= secret'.cursor
  PROVE  Near(r)'
<1>1. /\ secret.cursor \in Nat /\ secret'.cursor \in Nat /\ expired \in Nat /\ expired' \in Nat
      /\ goal[r] \in Nat /\ goal'[r] = goal[r]
  BY DEF TypeOK
<1>2. Refetched(secret'.cursor, expired', run[r].after)
        \subseteq Refetched(secret.cursor, expired, run[r].after)
  BY <1>1, Typed DEF Refetched
<1>3. Few(secret.cursor, expired, goal[r]) => Few(secret'.cursor, expired', goal[r])
  BY <1>1, FewStays
<1> QED
  BY <1>1, <1>2, <1>3 DEF Near

(* Without a second authorization no flow saves its token while a token is   *)
(* stored, so it finds no run under way.                                    *)
LEMMA FirstToken ==
  ASSUME Tokens, OneAuthorization, NEW f \in Flow, auth[f] = "saving"
  PROVE  \A r \in Replica : ~InRun(r) /\ result[r] # "success"
<1>1. ~Finished(secret.token)
  BY DEF OneAuthorization, Finished
<1> QED
  BY <1>1 DEF Tokens

(* There is never again only one authorization once there was a second. *)
LEMMA StaysSecond ==
  ASSUME TypeOK, [Next]_vars, OneAuthorization'
  PROVE  OneAuthorization
BY FlowsGoOn DEF OneAuthorization

(* What a step of a run does to what lies between cursor and position. *)
LEMMA LoopNear ==
  ASSUME TypeOK, TypeOK', Safe, SmallBuffers, SmallBuffers', Tokens,
         NEW r \in Replica, Near(r), LoopStep(r), secret.cursor <= secret'.cursor
  PROVE  Near(r)'
<1>1. /\ pc \in [Replica -> Place] /\ run \in [Replica -> Locals]
      /\ result \in [Replica -> {"none", "success", "failure"}]
      /\ goal \in [Replica -> 0..published]
      /\ published \in Nat /\ expired \in Nat /\ secret.cursor \in Nat /\ secret'.cursor \in Nat
      /\ goal[r] \in 0..published
  BY DEF TypeOK
<1>2. result[r] = "success" => pc[r] = "idle"
  BY DEF Tokens
<1>3. CASE EndRun(r, "none") \/ EndRun(r, "failure")
  BY <1>1, <1>3 DEF EndRun, Near
<1>4. CASE Boot(r) \/ StartRun(r)
  BY <1>1, <1>2, <1>4 DEF Boot, StartRun, Near
<1>5. CASE LoadPair(r)
  <2>1. /\ pc[r] = "load" /\ pc'[r] = "fetch" /\ run'[r].after = secret'.cursor
        /\ result'[r] = result[r]
    BY <1>1, <1>5 DEF LoadPair, NoRun
  <2>2. Refetched(secret'.cursor, expired', secret'.cursor) = {}
    BY <1>1 DEF Refetched
  <2> QED
    BY <1>2, <2>1, <2>2 DEF Near
<1>6. CASE RateLimited(r)
  <2>1. /\ pc[r] = "fetch" /\ UNCHANGED <<pc, secret, expired, result>>
        /\ run'[r].after = run[r].after /\ run'[r].buf = run[r].buf
    BY <1>1, <1>6, Typed DEF RateLimited, Locals, github
  <2> QED
    BY <1>2, <2>1 DEF Near
<1>7. CASE EmptyPage(r)
  <2>1. /\ pc[r] = "fetch" /\ pc'[r] = "flush" /\ UNCHANGED <<secret, expired, result, goal>>
        /\ PageStart(run[r].after) = published
    BY <1>1, <1>7, PageFacts, Typed DEF EmptyPage, github
  <2>2. Refetched(secret.cursor, expired, goal[r])
          \subseteq Refetched(secret.cursor, expired, run[r].after)
    BY <1>1, <2>1, Typed DEF PageStart, Refetched
  <2>3. Few(secret.cursor, expired, goal[r])
    BY <2>1, <2>2, FewBuffered DEF Near, SmallBuffers
  <2> QED
    BY <1>2, <2>1, <2>3 DEF Near
<1>8. CASE BufferPage(r) \/ FillBatch(r)
  <2>1. /\ pc[r] = "fetch" /\ UNCHANGED <<secret, expired, result, goal>>
        /\ run[r].after \in 0..published
    BY <1>8, Typed DEF BufferPage, FillBatch, PageArrives, github
  <2>2. PICK next \in NextCursors(run[r].after) :
          \/ /\ run'[r] = [Buffered(r) EXCEPT !.last = next]
             /\ pc'[r] = IF next = NoCursor THEN "flush" ELSE "fetch"
          \/ /\ run'[r] = [Buffered(r) EXCEPT !.next = next]
             /\ pc'[r] = "insert"
    BY <1>1, <1>8 DEF BufferPage, FillBatch
  <2>3. /\ run'[r].after = PageEnd(run[r].after) /\ run'[r].buf = Received(r)
        /\ pc'[r] = "insert" => run'[r].next = next
    BY <2>2, Typed DEF Buffered, Locals
  <2>4. /\ PageEnd(run[r].after) \in run[r].after..published
        /\ \A e \in 1..PageEnd(run[r].after) :
             e <= run[r].after \/ e <= expired \/ e \in Page(run[r].after)
        /\ next \in {PageEnd(run[r].after), NoCursor}
        /\ next = NoCursor => PageEnd(run[r].after) = published
    BY <2>1, PageFacts
  <2>5. Refetched(secret.cursor, expired, run'[r].after) \subseteq run'[r].buf
    BY <1>1, <2>1, <2>3, <2>4 DEF Near, Refetched, Received
  <2>6. ASSUME pc'[r] = "flush" PROVE Few(secret.cursor, expired, goal[r])
    <3>1. Refetched(secret.cursor, expired, goal[r]) \subseteq run'[r].buf
      BY <1>1, <2>2, <2>3, <2>4, <2>5, <2>6 DEF Refetched
    <3> QED
      BY <3>1, FewBuffered DEF SmallBuffers
  <2> QED
    BY <1>2, <2>1, <2>2, <2>3, <2>4, <2>5, <2>6 DEF Near
<1>9. CASE InsertBatch(r)
  <2>1. /\ pc[r] = "insert" /\ UNCHANGED <<secret, expired, result, goal>>
        /\ run'[r].after = run[r].after /\ run'[r].next = run[r].next
        /\ pc'[r] = IF run[r].next = NoCursor THEN "flush" ELSE "save"
    BY <1>1, <1>9, Typed DEF InsertBatch, Locals, github
  <2>2. ASSUME run[r].next = NoCursor PROVE Few(secret.cursor, expired, goal[r])
    <3>1. goal[r] <= run[r].after
      BY <2>1, <2>2 DEF Safe, RunCovers, StageCovers
    <3>2. Refetched(secret.cursor, expired, goal[r]) \subseteq run[r].buf
      BY <1>1, <2>1, <3>1, Typed DEF Near, Refetched
    <3> QED
      BY <3>2, FewBuffered DEF SmallBuffers
  <2> QED
    BY <1>2, <2>1, <2>2 DEF Near
<1>10. CASE SaveBatchCursor(r)
  <2>1. /\ pc[r] = "save" /\ pc'[r] = "fetch" /\ secret'.cursor = run[r].next
        /\ run'[r].after = run[r].after /\ result'[r] = result[r]
    BY <1>1, <1>10, Typed DEF SaveBatchCursor, CursorVersion, Locals
  <2>2. run'[r].after = secret'.cursor
    BY <2>1 DEF Near
  <2>3. Refetched(secret'.cursor, expired', run'[r].after) = {}
    BY <1>1, <2>2 DEF Refetched
  <2> QED
    BY <1>2, <2>1, <2>3 DEF Near
<1>11. CASE FlushNothing(r) \/ FlushRest(r)
  <2>1. /\ pc[r] = "flush" /\ UNCHANGED <<secret, expired>> /\ goal'[r] = goal[r]
        /\ pc'[r] \in {"idle", "saveLast"}
    BY <1>1, <1>11 DEF FlushNothing, FlushRest, EndRun, github
  <2> QED
    BY <2>1 DEF Near
<1>12. CASE SaveLastCursor(r)
  <2>1. /\ pc[r] = "saveLast" /\ UNCHANGED expired /\ goal'[r] = goal[r] /\ pc'[r] = "idle"
    BY <1>1, <1>12 DEF SaveLastCursor, EndRun, github
  <2>2. Few(secret'.cursor, expired, goal[r])
    BY <1>1, <2>1, FewStays DEF Near
  <2> QED
    BY <2>1, <2>2 DEF Near
<1> QED
  BY <1>3, <1>4, <1>5, <1>6, <1>7, <1>8, <1>9, <1>10, <1>11, <1>12
     DEF LoopStep, NotAuthorised, LoadFails, TokenRefused, FetchFails, InsertFails,
         SaveBatchFails, FlushFails, SaveLastFails, FailRun

(* Every step keeps what is to be fetched again within a buffer. *)
LEMMA NextNear ==
  ASSUME \A p, q \in Replica : p = q
  PROVE  /\ TypeOK /\ Safe /\ RunAhead /\ SmallBuffers /\ Tokens /\ RunsNear
         /\ [Next]_vars
         => RunsNear'
<1> SUFFICES ASSUME TypeOK, Safe, RunAhead, SmallBuffers, Tokens, RunsNear, [Next]_vars,
                    OneAuthorization', NEW r \in Replica
             PROVE  Near(r)'
  BY DEF RunsNear
<1>1. TypeOK' /\ SmallBuffers'
  BY NextTypeOK, NextSmall
<1>2. OneAuthorization /\ Near(r)
  BY StaysSecond DEF RunsNear
<1>3. secret.cursor \in Nat /\ expired \in Nat
  BY DEF TypeOK
<1>4. CASE UNCHANGED vars \/ GitHubStep \/ (AuthStep /\ UNCHANGED secret)
  <2>1. /\ UNCHANGED <<pc, run, result, goal, secret>> /\ expired <= expired'
    BY <1>3, <1>4 DEF vars, github, loop, GitHubStep, Publish, Expire, Revoke, AuthStep, Authorize,
                Callback, Exchange, SaveTokens, SaveTokensFails
  <2> QED
    BY <1>1, <1>2, <1>3, <2>1, NearStays
<1>5. CASE AuthStep /\ ~UNCHANGED secret
  <2>1. PICK f \in Flow : SaveTokens(f) \/ SaveTokensFails(f)
    BY <1>5 DEF AuthStep, Authorize, Callback, Exchange
  <2>2. auth[f] = "saving" /\ UNCHANGED <<pc, result>>
    BY <2>1 DEF SaveTokens, SaveTokensFails, loop
  <2> QED
    BY <1>2, <2>2, FirstToken DEF Near, InRun
<1>6. ASSUME NEW q \in Replica, LoopStep(q) PROVE Near(r)'
  <2>1. q = r
    OBVIOUS
  <2>2. UNCHANGED auth
    BY <1>6, TokenEffects DEF Tokens
  <2>3. secret.cursor <= secret'.cursor
    BY <1>1, <1>3, <2>2, NextAhead DEF Reauthorised, TypeOK
  <2> QED
    BY <1>1, <1>2, <1>6, <2>1, <2>3, LoopNear
<1>7. ASSUME NEW q \in Replica, Crash(q) PROVE Near(r)'
  <2>1. pc'[r] = "down" /\ result'[r] = "none"
    BY <1>7 DEF Crash, TypeOK
  <2> QED
    BY <2>1 DEF Near
<1> QED
  BY <1>4, <1>5, <1>6, <1>7 DEF Next

(* With one process, and before a second authorization, what a successful    *)
(* run leaves for the next one to fetch again is less than a batch and a    *)
(* page, however many runs failed or were cut short before.                 *)
THEOREM LagIsBounded ==
  ASSUME \A p, q \in Replica : p = q
  PROVE  Spec => []LagBounded
<1>1. Init => TypeOK /\ Safe /\ RunAhead /\ SmallBuffers /\ Tokens /\ RunsNear
  BY InitTypeOK, InitSafe, InitAhead, InitSmall, InitTokens, InitNear
<1>2. TypeOK /\ Safe /\ RunAhead /\ SmallBuffers /\ Tokens /\ RunsNear /\ [Next]_vars =>
        (TypeOK /\ Safe /\ RunAhead /\ SmallBuffers /\ Tokens /\ RunsNear)'
  BY NextTypeOK, NextSafe, NextAhead, NextSmall, NextTokens, NextNear
<1>3. RunsNear => LagBounded
  BY DEF RunsNear, Near, Few, Refetched, LagBounded
<1> QED
  BY <1>1, <1>2, <1>3, PTL DEF Spec

-----------------------------------------------------------------------------
(* Refinement.  Every step of the service is a step of AuditArchive: rows   *)
(* of published events are added, or the resume point moves to a settled    *)
(* place, or nothing is seen.                                               *)

(* The service starts as the archive does: empty, at the beginning. *)
LEMMA InitImplements == Init => Archive!Init
BY DEF Init, Archive!Init, NoCursor

(* A step that only adds rows of published events is an Append of the        *)
(* abstract archive.                                                        *)
LEMMA AppendStep ==
  ASSUME TypeOK, NEW S \in SUBSET (1..published),
         archived' = archived \cup S \/ UNCHANGED archived,
         UNCHANGED <<published, expired, secret>>
  PROVE  [Archive!Next]_(Archive!vars)
<1>1. CASE archived' = archived \cup S
  BY <1>1 DEF Archive!Next, Archive!Append
<1>2. CASE UNCHANGED archived
  BY <1>2 DEF Archive!vars
<1> QED
  BY <1>1, <1>2

(* A step that only writes a cursor to which all is settled is a Resume of   *)
(* the abstract archive.                                                    *)
LEMMA ResumeStep ==
  ASSUME TypeOK, secret'.cursor = secret.cursor \/
                 (secret'.cursor \in 0..published /\ Covered(secret.cursor)'),
         UNCHANGED <<published, expired, archived>>
  PROVE  [Archive!Next]_(Archive!vars)
<1>1. CASE secret'.cursor = secret.cursor
  BY <1>1 DEF Archive!vars
<1>2. CASE secret'.cursor \in 0..published /\ Covered(secret.cursor)'
  BY <1>2 DEF Archive!Next, Archive!Resume, Archive!Settled, Covered
<1> QED
  BY <1>1, <1>2

(* Every step of the service is one of the archive, or is not seen there.    *)
LEMMA NextImplements ==
  TypeOK /\ Safe /\ TypeOK' /\ Safe' /\ [Next]_vars => [Archive!Next]_(Archive!vars)
<1> SUFFICES ASSUME TypeOK, Safe, TypeOK', Safe', [Next]_vars
             PROVE  [Archive!Next]_(Archive!vars)
  OBVIOUS
<1>1. Covered(secret.cursor)'
  BY DEF Safe, ResumePointCovered
<1>2. ASSUME UNCHANGED <<published, expired, archived>>
      PROVE  [Archive!Next]_(Archive!vars)
  BY <1>1, <1>2, ResumeStep DEF TypeOK
<1>3. CASE UNCHANGED vars
  BY <1>2, <1>3 DEF vars, github
<1>4. CASE Publish
  BY <1>4 DEF Publish, Archive!Next, Archive!Publish
<1>5. CASE Expire
  BY <1>5 DEF Expire, Archive!Next, Archive!Expire
<1>6. CASE AuthStep \/ \E f \in Flow : Revoke(f)
  BY <1>2, <1>6 DEF Revoke, AuthStep, Authorize, Callback, Exchange, SaveTokens,
                    SaveTokensFails, github
<1>7. ASSUME NEW r \in Replica, LoopStep(r)
      PROVE  [Archive!Next]_(Archive!vars)
  <2>1. \/ UNCHANGED <<published, expired, archived>>
        \/ /\ archived' = archived \cup run[r].buf \/ UNCHANGED archived
           /\ UNCHANGED <<published, expired, secret>>
    BY <1>7 DEF LoopStep, Boot, StartRun, LoadPair, NotAuthorised, LoadFails, RateLimited,
                BufferPage, FillBatch, EmptyPage, TokenRefused, FetchFails, InsertBatch,
                InsertFails, SaveBatchCursor, SaveBatchFails, FlushNothing, FlushRest,
                FlushFails, SaveLastCursor, SaveLastFails, PutRows, github
  <2> QED
    BY <1>2, <2>1, AppendStep, Typed
<1>8. ASSUME NEW r \in Replica, Crash(r)
      PROVE  [Archive!Next]_(Archive!vars)
  BY <1>2, <1>8 DEF Crash, github
<1> QED
  BY <1>3, <1>4, <1>5, <1>6, <1>7, <1>8 DEF Next, GitHubStep

(* The ingest service implements the append-only archive. *)
THEOREM IngestImplementsArchive == Spec => ImplementsArchive
<1>1. Init => TypeOK /\ Safe /\ Archive!Init
  BY InitTypeOK, InitSafe, InitImplements
<1>2. TypeOK /\ Safe /\ [Next]_vars => (TypeOK /\ Safe)' /\ [Archive!Next]_(Archive!vars)
  BY NextTypeOK, NextSafe, NextImplements
<1> QED
  BY <1>1, <1>2, PTL DEF Spec, ImplementsArchive, Archive!Spec
=============================================================================
