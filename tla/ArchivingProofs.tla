--------------------------- MODULE ArchivingProofs --------------------------
(* What TLAPS proves of Archiving, for every number of replicas, flows,     *)
(* events, faults and days and every page and batch size.                   *)
EXTENDS Archiving, IngestProofs

USE ConstantsAssumption, DaysAssumption

(* Every step is one of Ingest, or not seen there. *)
LEMMA StepsOfIngest == [ANext]_avars => [Next]_vars
<1> SUFFICES ASSUME [ANext]_avars PROVE [Next]_vars
  OBVIOUS
<1>1. CASE UNCHANGED avars \/ NextDay
  BY <1>1 DEF avars, NextDay
<1>2. CASE APublish \/ AElsewhere
  BY <1>2 DEF APublish, AElsewhere, Next, GitHubStep
<1>3. ASSUME NEW r \in Replica,
             ABoot(r) \/ AStartRun(r) \/ AInsert(r) \/ AInsertFails(r) \/ AOther(r) \/ ACrash(r)
      PROVE  Next
  BY <1>3 DEF ABoot, AStartRun, AInsert, AInsertFails, AOther, ACrash, Next, LoopStep
<1> QED
  BY <1>1, <1>2, <1>3 DEF ANext

(* So whatever Ingest guarantees still holds. *)
THEOREM ArchivingIsIngest == ASpec => Spec
<1>1. AInit => Init
  BY DEF AInit
<1> QED
  BY <1>1, StepsOfIngest, PTL DEF ASpec, Spec

(* A buffer has a size. *)
LEMMA BufferSize ==
  ASSUME TypeOK, NEW r \in Replica
  PROVE  Cardinality(run[r].buf) \in Nat
<1>1. IsFiniteSet(1..published)
  BY FS_Interval DEF TypeOK
<1>2. IsFiniteSet(run[r].buf)
  BY <1>1, Typed, FS_Subset
<1> QED
  BY <1>2, FS_CardinalityType

(* The rows of a batch are of its events, and of days that have begun. *)
LEMMA RowsTyped ==
  ASSUME ATypeOK, NEW r \in Replica
  PROVE  NewRows(r) \subseteq run[r].buf \X Day
<1>1. run[r].buf \subseteq Event
  <2>1. run[r].buf \subseteq 1..published /\ published \in 0..MaxEvents
    BY Typed DEF ATypeOK, TypeOK
  <2> QED
    BY <2>1 DEF Event
<1>2. \A e \in Event : CreatedAt(e) \in Day
  <2> TAKE e \in Event
  <2>1. created[e] \in 0..MaxDay /\ today \in Day
    BY DEF ATypeOK
  <2> QED
    BY <2>1 DEF CreatedAt, Undated, Day
<1> QED
  BY <1>1, <1>2 DEF NewRows

LEMMA CountTypes ==
  ASSUME ATypeOK, NEW r \in Replica, NEW n \in Nat, Count(r, n)
  PROVE  /\ total' \in [Replica -> Nat]
         /\ behind' \in [Replica -> Int]
         /\ failed' \subseteq Replica
<1>1. total[r] \in Nat /\ behind[r] \in Int
  BY DEF ATypeOK
<1>2. total' \in [Replica -> Nat]
  <2>1. total' = [total EXCEPT ![r] = IF pc'[r] = "idle" THEN 0 ELSE total[r] + n]
    BY DEF Count, ATypeOK
  <2> QED
    BY <1>1, <2>1 DEF ATypeOK
<1>3. behind' \in [Replica -> Int]
  <2>1. behind' = [behind EXCEPT ![r] = IF Ends(r, "success") THEN behind[r] - total[r] ELSE behind[r] + n]
    BY DEF Count, ATypeOK
  <2> QED
    BY <1>1, <2>1 DEF ATypeOK
<1>4. failed' \subseteq Replica
  BY DEF Count, ATypeOK
<1> QED
  BY <1>2, <1>3, <1>4

LEMMA InitATypeOK == AInit => ATypeOK
BY InitTypeOK DEF AInit, ATypeOK, Day, Undated

LEMMA NextATypeOK == ATypeOK /\ [ANext]_avars => ATypeOK'
<1> SUFFICES ASSUME ATypeOK, [ANext]_avars PROVE ATypeOK'
  OBVIOUS
<1>1. TypeOK /\ TypeOK'
  BY StepsOfIngest, NextTypeOK DEF ATypeOK
<1>2. CASE UNCHANGED avars \/ NextDay
  <2>1. UNCHANGED <<archived, created, rows, counters, began, settled>> /\ today' \in Day
    BY <1>2 DEF avars, NextDay, days, vars, ATypeOK, Day
  <2> QED
    BY <1>1, <2>1 DEF ATypeOK, counters
<1>3. CASE APublish
  <2>1. created' \in [Event -> 0..MaxDay]
    BY <1>3 DEF APublish, ATypeOK, Undated, Day
  <2> QED
    BY <1>1, <1>3, <2>1 DEF APublish, Publish, ATypeOK, counters
<1>4. CASE AElsewhere
  <2>1. UNCHANGED archived
    BY <1>4 DEF AElsewhere, Expire, AuthStep, Authorize, Callback, Exchange, SaveTokens,
                SaveTokensFails, Revoke
  <2> QED
    BY <1>1, <1>4, <2>1 DEF AElsewhere, ATypeOK, counters, days
<1>5. ASSUME NEW r \in Replica, ABoot(r) \/ AStartRun(r)
      PROVE  ATypeOK'
  <2>1. UNCHANGED archived /\ began' \in [Replica -> Day]
    BY <1>5 DEF ABoot, AStartRun, Boot, StartRun, ATypeOK
  <2> QED
    BY <1>1, <1>5, <2>1 DEF ABoot, AStartRun, ATypeOK, counters, days
<1>6. ASSUME NEW r \in Replica, Settle(r)
      PROVE  settled' \in 0..MaxDay
  BY <1>6 DEF Settle, ATypeOK, Day
<1>7. ASSUME NEW r \in Replica, AInsert(r)
      PROVE  ATypeOK'
  <2>1. archived' = archived \cup run[r].buf
    BY <1>7 DEF AInsert, InsertBatch, FlushRest, PutRows
  <2>2. rows' \subseteq archived' \X Day
    BY <1>7, <2>1, RowsTyped DEF AInsert, ATypeOK
  <2> QED
    BY <1>1, <1>6, <1>7, <2>2, CountTypes, BufferSize DEF AInsert, ATypeOK, days
<1>8. ASSUME NEW r \in Replica, AInsertFails(r)
      PROVE  ATypeOK'
  <2>1. rows' \subseteq archived' \X Day
    BY <1>8, RowsTyped DEF AInsertFails, ATypeOK
  <2>2. \E n \in Nat : Count(r, n)
    BY <1>1, <1>8, BufferSize DEF AInsertFails
  <2> QED
    BY <1>1, <1>8, <2>1, <2>2, CountTypes DEF AInsertFails, ATypeOK, days
<1>9. ASSUME NEW r \in Replica, AOther(r)
      PROVE  ATypeOK'
  <2>1. UNCHANGED archived
    BY <1>9 DEF AOther, LoadPair, NotAuthorised, LoadFails, RateLimited, BufferPage, FillBatch,
                EmptyPage, TokenRefused, FetchFails, SaveBatchCursor, SaveBatchFails,
                FlushNothing, SaveLastCursor, SaveLastFails
  <2> QED
    BY <1>1, <1>6, <1>9, <2>1, CountTypes DEF AOther, ATypeOK, days
<1>10. ASSUME NEW r \in Replica, ACrash(r)
       PROVE  ATypeOK'
  <2>1. UNCHANGED archived
    BY <1>10 DEF ACrash, Crash
  <2> QED
    BY <1>1, <1>10, <2>1 DEF ACrash, ATypeOK, days
<1> QED
  BY <1>2, <1>3, <1>4, <1>5, <1>7, <1>8, <1>9, <1>10 DEF ANext

(* Rows are of archived events, and the counters and days have their types. *)
THEOREM ATypeCorrect == ASpec => []ATypeOK
BY InitATypeOK, NextATypeOK, PTL DEF ASpec

-----------------------------------------------------------------------------
(* The counters.  Between two runs nothing is left in total; while a run    *)
(* goes on, what it has handed over is in both total and behind; and what   *)
(* else is in behind comes from a run that was counted as a failure.        *)
Counting ==
  \A r \in Replica :
    /\ 0 <= total[r] /\ total[r] <= behind[r]
    /\ r \notin failed => behind[r] = total[r]
    /\ pc[r] \in {"down", "idle", "load"} => total[r] = 0

LEMMA InitCounting == AInit => Counting
BY DEF AInit, Counting

(* A step of a run that inserts n events, by the way it leaves the run.     *)
LEMMA CountSafe ==
  ASSUME ATypeOK, Counting, NEW r \in Replica, NEW n \in Nat, Count(r, n),
         \A q \in Replica \ {r} : pc'[q] = pc[q],
         pc'[r] \notin {"down", "load"},
         \/ pc'[r] # "idle"
         \/ Ends(r, "success") \/ Ends(r, "failure")
         \/ pc[r] = "load" /\ n = 0 /\ result'[r] = "none"
  PROVE  Counting'
<1>1. total[r] \in Nat /\ behind[r] \in Int
  BY DEF ATypeOK
<1>2. ASSUME NEW q \in Replica \ {r}
      PROVE  total'[q] = total[q] /\ behind'[q] = behind[q] /\ (q \in failed' <=> q \in failed)
  BY DEF Count, ATypeOK
<1>3. total'[r] = IF pc'[r] = "idle" THEN 0 ELSE total[r] + n
  BY DEF Count, ATypeOK
<1>4. behind'[r] = IF Ends(r, "success") THEN behind[r] - total[r] ELSE behind[r] + n
  BY DEF Count, ATypeOK
<1>5. r \in failed' <=> r \in failed \/ Ends(r, "failure")
  BY DEF Count
<1>6. /\ 0 <= total'[r] /\ total'[r] <= behind'[r]
      /\ r \notin failed' => behind'[r] = total'[r]
      /\ pc'[r] \in {"down", "idle", "load"} => total'[r] = 0
  <2>1. /\ total[r] <= behind[r]
        /\ r \notin failed => behind[r] = total[r]
        /\ pc[r] = "load" => total[r] = 0
    BY DEF Counting
  <2>2. CASE pc'[r] # "idle"
    <3>1. ~Ends(r, "success") /\ ~Ends(r, "failure")
      BY <2>2 DEF Ends
    <3> QED
      BY <1>1, <1>3, <1>4, <1>5, <2>1, <2>2, <3>1
  <2>3. CASE Ends(r, "success")
    <3>1. pc'[r] = "idle" /\ ~Ends(r, "failure")
      BY <2>3 DEF Ends
    <3> QED
      BY <1>1, <1>3, <1>4, <1>5, <2>1, <2>3, <3>1
  <2>4. CASE Ends(r, "failure")
    <3>1. pc'[r] = "idle" /\ ~Ends(r, "success")
      BY <2>4 DEF Ends
    <3> QED
      BY <1>1, <1>3, <1>4, <1>5, <2>1, <2>4, <3>1
  <2>5. CASE pc'[r] = "idle" /\ pc[r] = "load" /\ n = 0 /\ result'[r] = "none"
    <3>1. ~Ends(r, "success") /\ ~Ends(r, "failure")
      BY <2>5 DEF Ends
    <3> QED
      BY <1>1, <1>3, <1>4, <1>5, <2>1, <2>5, <3>1
  <2> QED
    BY <2>2, <2>3, <2>4, <2>5
<1> QED
  BY <1>2, <1>6 DEF Counting

LEMMA NextCounting == ATypeOK /\ Counting /\ [ANext]_avars => Counting'
<1> SUFFICES ASSUME ATypeOK, Counting, [ANext]_avars PROVE Counting'
  OBVIOUS
<1>1. ASSUME UNCHANGED <<pc, counters>> PROVE Counting'
  BY <1>1 DEF Counting, counters
<1>2. CASE UNCHANGED avars \/ NextDay \/ APublish \/ AElsewhere
  BY <1>1, <1>2 DEF avars, vars, NextDay, APublish, AElsewhere, Publish, Expire, Revoke, AuthStep,
                    Authorize, Callback, Exchange, SaveTokens, SaveTokensFails, loop
<1>3. ASSUME NEW r \in Replica, ABoot(r) \/ AStartRun(r)
      PROVE  Counting'
  <2>1. /\ pc[r] \in {"down", "idle"} /\ UNCHANGED counters
        /\ pc' = [pc EXCEPT ![r] = "idle"] \/ pc' = [pc EXCEPT ![r] = "load"]
    BY <1>3 DEF ABoot, AStartRun, Boot, StartRun
  <2> QED
    BY <2>1 DEF Counting, counters, ATypeOK, TypeOK
<1>4. ASSUME NEW r \in Replica, AInsert(r)
      PROVE  Counting'
  <2>1. /\ \A q \in Replica \ {r} : pc'[q] = pc[q]
        /\ \/ pc'[r] \in {"flush", "save", "saveLast"}
           \/ pc[r] = "flush" /\ pc'[r] = "idle" /\ result'[r] = "success"
    BY <1>4 DEF AInsert, InsertBatch, FlushRest, EndRun, ATypeOK, TypeOK
  <2> QED
    BY <1>4, <2>1, CountSafe, BufferSize DEF AInsert, ATypeOK, Ends
<1>5. ASSUME NEW r \in Replica, AInsertFails(r)
      PROVE  Counting'
  <2>1. /\ \A q \in Replica \ {r} : pc'[q] = pc[q]
        /\ pc[r] \in {"insert", "flush"} /\ pc'[r] = "idle" /\ result'[r] = "failure"
    BY <1>5 DEF AInsertFails, InsertFails, FlushFails, FailRun, EndRun, ATypeOK, TypeOK
  <2>2. PICK n \in Nat : Count(r, n)
    BY <1>5, BufferSize DEF AInsertFails, ATypeOK
  <2> QED
    BY <2>1, <2>2, CountSafe DEF Ends
<1>6. ASSUME NEW r \in Replica, AOther(r)
      PROVE  Counting'
  <2>1. /\ \A q \in Replica \ {r} : pc'[q] = pc[q]
        /\ \/ pc'[r] \in {"fetch", "insert", "flush"}
           \/ pc[r] # "idle" /\ pc'[r] = "idle" /\ result'[r] \in {"success", "failure"}
           \/ pc[r] = "load" /\ pc'[r] = "idle" /\ result'[r] = "none"
    BY <1>6 DEF AOther, LoadPair, NotAuthorised, LoadFails, RateLimited, BufferPage, FillBatch,
                EmptyPage, TokenRefused, FetchFails, SaveBatchCursor, SaveBatchFails, FailRun,
                FlushNothing, SaveLastCursor, SaveLastFails, EndRun, ATypeOK, TypeOK
  <2>2. Count(r, 0)
    BY <1>6 DEF AOther
  <2> QED
    BY <2>1, <2>2, CountSafe DEF Ends
<1>7. ASSUME NEW r \in Replica, ACrash(r)
      PROVE  Counting'
  BY <1>7 DEF ACrash, Crash, Counting, ATypeOK, TypeOK
<1> QED
  BY <1>2, <1>3, <1>4, <1>5, <1>6, <1>7 DEF ANext

LEMMA AlwaysCounting == ASpec => []Counting
BY InitATypeOK, NextATypeOK, InitCounting, NextCounting, PTL DEF ASpec

(* Without a counted failure the counter of archived events has every      *)
(* event that finished runs have handed to BigQuery.                        *)
THEOREM CountersTellTheSame == ASpec => []CountersAgree
<1>1. Counting => CountersAgree
  BY DEF Counting, CountersAgree
<1> QED
  BY <1>1, AlwaysCounting, PTL

-----------------------------------------------------------------------------
(* The days.  What is archived under a date of its own is under that date;  *)
(* no date lies in the future; what happened before the day a run started   *)
(* is among the events that run has to read.                                *)
Dated ==
  /\ \A e \in archived : created[e] # Undated => <<e, created[e]>> \in rows
  /\ \A e \in Event : created[e] <= today /\ (e > published => created[e] = Undated)
  /\ \A r \in Replica :
       /\ began[r] <= today
       /\ \A e \in 1..published :
            created[e] # Undated /\ created[e] < began[r] => e <= goal[r]
  /\ settled <= today
  /\ PastIsComplete

LEMMA InitDated == AInit => Dated
BY DEF AInit, Init, Dated, PastIsComplete, Undated

(* A step that publishes nothing and starts no run: what it archives it     *)
(* files, and if it settles the past, its run has caught up.                *)
LEMMA DatedStays ==
  ASSUME ATypeOK, ATypeOK', Dated, UNCHANGED <<today, created, published, goal, began>>,
         expired <= expired', rows \subseteq rows', archived \subseteq archived',
         \A e \in archived' : created[e] # Undated => <<e, created[e]>> \in rows',
         \/ settled' = settled
         \/ \E r \in Replica : settled' = began[r] /\ CoveredNext(goal[r])
  PROVE  Dated'
<1>1. published \in Nat /\ MaxEvents \in Nat /\ published <= MaxEvents
      /\ settled \in Nat /\ expired \in Nat /\ expired' \in Nat /\ today \in Nat
      /\ created \in [Event -> 0..MaxDay] /\ began \in [Replica -> Day] /\ settled' \in Nat
  BY DEF ATypeOK, TypeOK, Day
<1>2. ASSUME NEW d \in 1..(settled' - 1), NEW e \in 1..published, created[e] = d
      PROVE  (e \in archived' /\ <<e, d>> \in rows') \/ e <= expired'
  <2>1. d # Undated /\ d \in Nat /\ e \in Nat
    BY <1>1 DEF Undated
  <2>2. CASE settled' = settled
    <3>1. (e \in archived /\ <<e, d>> \in rows) \/ e <= expired
      BY <1>2, <2>2 DEF Dated, PastIsComplete, Found
    <3> QED
      BY <1>1, <2>1, <3>1
  <2>3. ASSUME NEW r \in Replica, settled' = began[r], CoveredNext(goal[r])
        PROVE  (e \in archived' /\ <<e, d>> \in rows') \/ e <= expired'
    <3>1. began[r] \in Nat /\ d < began[r]
      BY <1>1, <1>2, <2>3 DEF Day
    <3>2. e <= goal[r] /\ goal[r] \in Nat
      BY <1>2, <2>1, <3>1 DEF Dated, ATypeOK, TypeOK
    <3>3. e \in archived' \/ e <= expired'
      BY <2>1, <2>3, <3>2 DEF CoveredNext
    <3> QED
      BY <1>2, <2>1, <3>3
  <2> QED
    BY <2>2, <2>3
<1>3. PastIsComplete'
  BY <1>2 DEF PastIsComplete, Found
<1>4. settled' <= today
  BY DEF Dated
<1> QED
  BY <1>3, <1>4 DEF Dated

(* Filing a batch. *)
LEMMA Filed ==
  ASSUME ATypeOK, Dated, NEW r \in Replica, rows' = rows \cup NewRows(r)
  PROVE  \A e \in archived \cup run[r].buf : created[e] # Undated => <<e, created[e]>> \in rows'
BY DEF Dated, NewRows, CreatedAt

(* A run that counts as a success has caught up, and a run that settles the *)
(* past counts as one.                                                      *)
LEMMA Settles ==
  ASSUME TypeOK, Safe', NEW r \in Replica, Settle(r), UNCHANGED goal
  PROVE  settled' = settled \/ (settled' = began[r] /\ CoveredNext(goal[r]))
BY DEF Settle, Ends, Safe, SuccessMeansCaughtUp, Covered, CoveredNext

LEMMA NextDated == ATypeOK /\ ATypeOK' /\ Safe' /\ Dated /\ [ANext]_avars => Dated'
<1> SUFFICES ASSUME ATypeOK, ATypeOK', Safe', Dated, [ANext]_avars PROVE Dated'
  OBVIOUS
<1>1. ASSUME UNCHANGED <<today, created, published, goal, began, archived, rows, settled>>,
             expired <= expired'
      PROVE  Dated'
  BY <1>1, DatedStays DEF Dated
<1>2. expired \in Nat /\ published \in Nat /\ today \in Nat
  BY DEF ATypeOK, TypeOK, Day
<1>3. CASE UNCHANGED avars
  BY <1>1, <1>2, <1>3 DEF avars, vars, days, github, loop
<1>4. CASE NextDay
  <2>1. today' = today + 1 /\ UNCHANGED <<created, published, goal, began, archived, rows, settled, expired>>
    BY <1>4 DEF NextDay, vars, github, loop
  <2>2. PastIsComplete'
    BY <2>1 DEF Dated, PastIsComplete, Found
  <2>3. \A e \in Event : created[e] <= today'
    BY <1>2, <2>1 DEF Dated, ATypeOK
  <2>4. \A r \in Replica : began[r] <= today'
    BY <1>2, <2>1 DEF Dated, ATypeOK, Day
  <2>5. settled <= today'
    BY <1>2, <2>1 DEF Dated, ATypeOK
  <2> QED
    BY <2>1, <2>2, <2>3, <2>4, <2>5 DEF Dated
<1>5. CASE APublish
  <2>1. /\ published' = published + 1 /\ published' \in Event
        /\ UNCHANGED <<today, goal, began, archived, rows, settled, expired>>
        /\ \E d \in {today, Undated} : created' = [created EXCEPT ![published'] = d]
    BY <1>2, <1>5 DEF APublish, Publish, loop, Event
  <2>2. /\ \A e \in Event \ {published'} : created'[e] = created[e]
        /\ created'[published'] \in {today, Undated}
    BY <2>1 DEF ATypeOK
  <2>3. \A e \in Event : created'[e] <= today /\ (e > published' => created'[e] = Undated)
    BY <1>2, <2>1, <2>2 DEF Dated, Undated, Event
  <2>4. \A e \in archived : e # published' /\ e \in Event
    BY <1>2, <2>1 DEF ATypeOK, TypeOK, Event
  <2>5. ASSUME NEW r \in Replica, NEW e \in 1..published', created'[e] # Undated,
               created'[e] < began[r]
        PROVE  e <= goal[r]
    <3>1. began[r] <= today /\ began[r] \in Nat
      BY DEF Dated, ATypeOK, Day
    <3>2. e # published'
      BY <1>2, <2>2, <2>5, <3>1
    <3>3. e \in 1..published /\ e \in Event
      BY <1>2, <2>1, <3>2 DEF Event
    <3> QED
      BY <2>2, <2>5, <3>2, <3>3 DEF Dated
  <2>6. ASSUME NEW d \in 1..(settled - 1), NEW e \in 1..published', created'[e] = d
        PROVE  e \in Found(d)' \/ e <= expired
    <3>1. d < today /\ d # Undated
      BY <1>2 DEF Dated, ATypeOK, Undated
    <3>2. e # published'
      BY <1>2, <2>2, <2>6, <3>1
    <3>3. e \in 1..published /\ created[e] = d
      BY <1>2, <2>1, <2>2, <2>6, <3>2 DEF Event
    <3> QED
      BY <2>1, <3>3 DEF Dated, PastIsComplete, Found
  <2>7. PastIsComplete'
    BY <2>1, <2>6 DEF PastIsComplete
  <2> QED
    BY <2>1, <2>2, <2>3, <2>4, <2>5, <2>7 DEF Dated
<1>6. CASE AElsewhere
  <2>1. UNCHANGED <<today, created, published, goal, began, archived, rows, settled>>
        /\ (expired' = expired \/ expired' = expired + 1)
    BY <1>6 DEF AElsewhere, Expire, Revoke, AuthStep, Authorize, Callback, Exchange, SaveTokens,
                SaveTokensFails, days, github, loop
  <2> QED
    BY <1>1, <1>2, <2>1
<1>7. ASSUME NEW r \in Replica, ABoot(r) \/ ACrash(r)
      PROVE  Dated'
  BY <1>1, <1>2, <1>7 DEF ABoot, ACrash, Boot, Crash, days, github
<1>8. ASSUME NEW r \in Replica, AStartRun(r)
      PROVE  Dated'
  <2>1. /\ UNCHANGED <<today, created, published, archived, rows, settled, expired>>
        /\ goal'[r] = published /\ began'[r] = today
        /\ \A q \in Replica \ {r} : goal'[q] = goal[q] /\ began'[q] = began[q]
    BY <1>8 DEF AStartRun, StartRun, days, github, ATypeOK, TypeOK
  <2>2. ASSUME NEW q \in Replica
        PROVE  /\ began'[q] <= today
               /\ \A e \in 1..published :
                    created[e] # Undated /\ created[e] < began'[q] => e <= goal'[q]
    BY <1>2, <2>1 DEF Dated
  <2>3. PastIsComplete'
    BY <2>1 DEF Dated, PastIsComplete, Found
  <2> QED
    BY <2>1, <2>2, <2>3 DEF Dated
<1>9. ASSUME NEW r \in Replica, AInsert(r)
      PROVE  Dated'
  <2>1. /\ UNCHANGED <<today, created, published, expired, goal, began>>
        /\ archived' = archived \cup run[r].buf
        /\ rows' = rows \cup NewRows(r) /\ Settle(r)
    BY <1>9 DEF AInsert, InsertBatch, FlushRest, PutRows, EndRun, days, github
  <2>2. settled' = settled \/ (settled' = began[r] /\ CoveredNext(goal[r]))
    BY <2>1, Settles DEF ATypeOK
  <2> QED
    BY <1>2, <2>1, <2>2, Filed, DatedStays
<1>10. ASSUME NEW r \in Replica, AInsertFails(r)
       PROVE  Dated'
  <2>1. /\ UNCHANGED <<today, created, published, expired, goal, began, settled>>
        /\ \/ archived' = archived \cup run[r].buf /\ rows' = rows \cup NewRows(r)
           \/ UNCHANGED <<archived, rows>>
    BY <1>10 DEF AInsertFails, InsertFails, FlushFails, FailRun, EndRun, days, github
  <2>2. CASE archived' = archived \cup run[r].buf /\ rows' = rows \cup NewRows(r)
    BY <1>2, <2>1, <2>2, Filed, DatedStays
  <2>3. CASE UNCHANGED <<archived, rows>>
    BY <1>1, <1>2, <2>1, <2>3
  <2> QED
    BY <2>1, <2>2, <2>3
<1>11. ASSUME NEW r \in Replica, AOther(r)
       PROVE  Dated'
  <2>1. /\ UNCHANGED <<today, created, published, expired, goal, began, archived, rows>>
        /\ Settle(r)
    BY <1>11 DEF AOther, LoadPair, NotAuthorised, LoadFails, RateLimited, BufferPage, FillBatch,
                 EmptyPage, TokenRefused, FetchFails, SaveBatchCursor, SaveBatchFails, FailRun,
                 FlushNothing, SaveLastCursor, SaveLastFails, EndRun, days, github
  <2>2. settled' = settled \/ (settled' = began[r] /\ CoveredNext(goal[r]))
    BY <2>1, Settles DEF ATypeOK
  <2> QED
    BY <1>2, <2>1, <2>2, DatedStays DEF Dated
<1> QED
  BY <1>3, <1>4, <1>5, <1>6, <1>7, <1>8, <1>9, <1>10, <1>11 DEF ANext

(* A day that lies behind a successful run is complete in the Archive. *)
THEOREM PastStaysComplete == ASpec => []PastIsComplete
<1>1. AInit => ATypeOK /\ Safe /\ Dated
  BY InitATypeOK, InitSafe, InitDated DEF AInit
<1>2. ATypeOK /\ Safe /\ Dated /\ [ANext]_avars => (ATypeOK /\ Safe /\ Dated)'
  BY NextATypeOK, StepsOfIngest, NextSafe, NextDated DEF ATypeOK
<1>3. Dated => PastIsComplete
  BY DEF Dated
<1> QED
  BY <1>1, <1>2, <1>3, PTL DEF ASpec
-----------------------------------------------------------------------------
(* The past is final, with one process: whatever its buffer still holds of   *)
(* the settled days has a row already, because an event that could be       *)
(* fetched after those days were settled had been archived by then.  A      *)
(* second process might hold one that has left the retention window since.  *)
Known ==
  \A r \in Replica : \A e \in run[r].buf :
    created[e] \in 1..(settled - 1) => <<e, created[e]>> \in rows

LEMMA InitKnown == AInit => Known
BY DEF AInit, Init, Known, NoRun

(* A step after which the only buffer is empty. *)
LEMMA KnownEmpty ==
  ASSUME \A p, q \in Replica : p = q, NEW r \in Replica, run'[r].buf = {}
  PROVE  Known'
BY DEF Known

(* A step that settles nothing, dates nothing anew and takes no row away. *)
LEMMA KnownStays ==
  ASSUME Known, UNCHANGED <<run, created, settled>>, rows \subseteq rows'
  PROVE  Known'
BY DEF Known

(* Ending a run empties the buffer. *)
LEMMA EndKnown ==
  ASSUME \A p, q \in Replica : p = q, TypeOK, NEW r \in Replica, run' = [run EXCEPT ![r] = NoRun]
  PROVE  Known'
<1>1. run'[r] = NoRun
  BY DEF TypeOK
<1> QED
  BY <1>1, KnownEmpty DEF NoRun

(* The page that arrives has events which can still be fetched, so those of *)
(* settled days are under those days.                                       *)
LEMMA PageKnown ==
  ASSUME ATypeOK, Dated, NEW a \in 0..published, NEW e \in Page(a),
         created[e] \in 1..(settled - 1)
  PROVE  <<e, created[e]>> \in rows
<1>1. e \in 1..published /\ expired \in Nat /\ ~(e <= expired)
  <2>1. published \in Nat /\ expired \in 0..published
    BY DEF ATypeOK, TypeOK
  <2>2. PageStart(a) \in Nat /\ expired <= PageStart(a)
    BY <2>1 DEF PageStart
  <2>3. e \in 1..published /\ PageStart(a) < e
    BY <2>1, <2>2, PageFacts DEF Page, ATypeOK
  <2> QED
    BY <2>1, <2>2, <2>3
<1> QED
  BY <1>1 DEF Dated, PastIsComplete, Found

LEMMA NextKnown ==
  ASSUME \A p, q \in Replica : p = q
  PROVE  ATypeOK /\ Dated /\ Known /\ [ANext]_avars => Known'
<1> SUFFICES ASSUME ATypeOK, Dated, Known, [ANext]_avars PROVE Known'
  OBVIOUS
<1>1. TypeOK
  BY DEF ATypeOK
<1>2. CASE UNCHANGED avars \/ NextDay \/ AElsewhere
  <2>1. UNCHANGED <<run, created, settled, rows>>
    BY <1>2 DEF avars, vars, NextDay, AElsewhere, Expire, Revoke, AuthStep, Authorize, Callback,
                Exchange, SaveTokens, SaveTokensFails, loop, days
  <2> QED
    BY <2>1, KnownStays
<1>3. CASE APublish
  <2>1. /\ published' = published + 1 /\ published \in Nat
        /\ UNCHANGED <<run, settled, rows>>
        /\ \E d \in {today, Undated} : created' = [created EXCEPT ![published'] = d]
    BY <1>1, <1>3 DEF APublish, Publish, loop, TypeOK
  <2>2. ASSUME NEW r \in Replica, NEW e \in run[r].buf
        PROVE  created'[e] = created[e]
    <3>1. run[r].buf \subseteq 1..published
      BY <1>1, Typed
    <3>2. e # published'
      BY <2>1, <3>1
    <3>3. e \in Event
      BY <1>1, <2>1, <3>1 DEF Event, TypeOK
    <3> QED
      BY <2>1, <3>2, <3>3 DEF ATypeOK
  <2> QED
    BY <2>1, <2>2 DEF Known
<1>4. ASSUME NEW r \in Replica, ABoot(r) \/ AStartRun(r)
      PROVE  Known'
  BY <1>4, KnownStays DEF ABoot, AStartRun, Boot, StartRun, days
<1>5. ASSUME NEW r \in Replica, AInsert(r)
      PROVE  Known'
  <2>1. CASE InsertBatch(r)
    <3>1. run'[r].buf = {}
      BY <1>1, <2>1, Typed DEF InsertBatch, Locals, TypeOK
    <3> QED
      BY <3>1, KnownEmpty
  <2>2. CASE FlushRest(r)
    <3>1. CASE EndRun(r, "success")
      BY <1>1, <3>1, EndKnown DEF EndRun
    <3>2. CASE pc' = [pc EXCEPT ![r] = "saveLast"] /\ UNCHANGED run
      <4>1. pc'[r] = "saveLast"
        BY <1>1, <3>2 DEF TypeOK
      <4>2. settled' = settled /\ UNCHANGED created /\ rows \subseteq rows'
        BY <1>5, <4>1 DEF AInsert, Settle, Ends, days
      <4> QED
        BY <3>2, <4>2, KnownStays
    <3> QED
      BY <2>2, <3>1, <3>2 DEF FlushRest
  <2> QED
    BY <1>5, <2>1, <2>2 DEF AInsert
<1>6. ASSUME NEW r \in Replica, BufferPage(r) \/ FillBatch(r), AOther(r)
      PROVE  Known'
  <2>1. /\ run[r].after \in 0..published /\ UNCHANGED <<created, rows>>
        /\ pc'[r] # "idle" /\ Settle(r)
    BY <1>1, <1>6, Typed DEF AOther, BufferPage, FillBatch, days, TypeOK
  <2>2. settled' = settled
    BY <2>1 DEF Settle, Ends
  <2>3. PICK next \in NextCursors(run[r].after) :
          \/ run'[r] = [Buffered(r) EXCEPT !.last = next]
          \/ run'[r] = [Buffered(r) EXCEPT !.next = next]
    BY <1>1, <1>6 DEF BufferPage, FillBatch, TypeOK
  <2>4. run'[r].buf = run[r].buf \cup Page(run[r].after)
    BY <1>1, <2>3, Typed DEF Buffered, Received, Locals
  <2>5. \A e \in run'[r].buf : created[e] \in 1..(settled - 1) => <<e, created[e]>> \in rows
    BY <2>1, <2>4, PageKnown DEF Known
  <2> QED
    BY <2>1, <2>2, <2>5 DEF Known
<1>7. ASSUME NEW r \in Replica, LoadPair(r)
      PROVE  Known'
  <2>1. run'[r].buf = {}
    BY <1>1, <1>7 DEF LoadPair, NoRun, TypeOK
  <2> QED
    BY <2>1, KnownEmpty
<1>8. ASSUME NEW r \in Replica, RateLimited(r) \/ EmptyPage(r), AOther(r)
      PROVE  Known'
  <2>1. run'[r].buf = run[r].buf /\ pc'[r] # "idle" /\ UNCHANGED <<created, rows>> /\ Settle(r)
    BY <1>1, <1>8, Typed DEF AOther, RateLimited, EmptyPage, TypeOK, Locals, days
  <2>2. settled' = settled
    BY <2>1 DEF Settle, Ends
  <2> QED
    BY <2>1, <2>2 DEF Known
<1>9. ASSUME NEW r \in Replica, SaveBatchCursor(r), AOther(r)
      PROVE  Known'
  <2>1. run'[r].buf = run[r].buf /\ pc'[r] # "idle" /\ UNCHANGED <<created, rows>> /\ Settle(r)
    BY <1>1, <1>9, Typed DEF AOther, SaveBatchCursor, TypeOK, Locals, days
  <2>2. settled' = settled
    BY <2>1 DEF Settle, Ends
  <2> QED
    BY <2>1, <2>2 DEF Known
<1>10. ASSUME NEW r \in Replica, AInsertFails(r) \/ ACrash(r)
       PROVE  Known'
  BY <1>1, <1>10, EndKnown DEF AInsertFails, InsertFails, FlushFails, FailRun, EndRun, ACrash, Crash
<1>11. ASSUME NEW r \in Replica, AOther(r)
       PROVE  Known'
  BY <1>1, <1>6, <1>7, <1>8, <1>9, <1>11, EndKnown
     DEF AOther, NotAuthorised, LoadFails, TokenRefused, FetchFails, SaveBatchFails,
         FlushNothing, SaveLastCursor, SaveLastFails, FailRun, EndRun
<1> QED
  BY <1>2, <1>3, <1>4, <1>5, <1>10, <1>11 DEF ANext

(* A batch adds nothing under a settled day that is not there: an event     *)
(* without a timestamp is filed under the current day, which is not settled. *)
LEMMA BatchKnown ==
  ASSUME ATypeOK, Dated, Known, NEW r \in Replica, NEW d \in 1..(settled - 1), NEW e,
         <<e, d>> \in NewRows(r)
  PROVE  <<e, d>> \in rows
<1>1. e \in run[r].buf /\ d = CreatedAt(e)
  BY DEF NewRows
<1>2. settled <= today /\ today \in Nat /\ settled \in Nat
  BY DEF Dated, ATypeOK, Day
<1>3. created[e] # Undated /\ d = created[e]
  BY <1>1, <1>2 DEF CreatedAt
<1> QED
  BY <1>1, <1>3 DEF Known

(* With one process, what is found under a settled day never changes. *)
THEOREM PastStaysFinal ==
  ASSUME \A p, q \in Replica : p = q
  PROVE  ASpec => PastIsFinal
<1>1. AInit => ATypeOK /\ Safe /\ Dated /\ Known
  BY InitATypeOK, InitSafe, InitDated, InitKnown DEF AInit
<1>2. ATypeOK /\ Safe /\ Dated /\ Known /\ [ANext]_avars => (ATypeOK /\ Safe /\ Dated /\ Known)'
  BY NextATypeOK, StepsOfIngest, NextSafe, NextDated, NextKnown DEF ATypeOK
<1>3. ATypeOK /\ ATypeOK' /\ Dated /\ Known /\ [ANext]_avars =>
        [\A d \in 1..(settled - 1) : Found(d)' = Found(d)]_avars
  <2> SUFFICES ASSUME ATypeOK, ATypeOK', Dated, Known, ANext, NEW d \in 1..(settled - 1)
               PROVE  Found(d)' = Found(d)
    OBVIOUS
  <2>1. rows \subseteq archived \X Day /\ rows' \subseteq archived' \X Day
    BY DEF ATypeOK
  <2>2. Found(d) = {e \in archived : <<e, d>> \in rows} /\ Found(d)' = {e \in archived' : <<e, d>> \in rows'}
    BY DEF Found
  <2>3. UNCHANGED rows \/ \E r \in Replica : rows' = rows \cup NewRows(r)
    BY DEF ANext, NextDay, APublish, AElsewhere, ABoot, AStartRun, AInsert, AInsertFails, AOther, ACrash
  <2>4. \A e : <<e, d>> \in rows' <=> <<e, d>> \in rows
    BY <2>3, BatchKnown
  <2> QED
    BY <2>1, <2>2, <2>4
<1> QED
  BY <1>1, <1>2, <1>3, PTL DEF ASpec, PastIsFinal
=============================================================================
