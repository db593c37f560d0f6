------------------------------ MODULE Archiving -----------------------------
(***************************************************************************)
(* The ingest service over several days, as its users see it: which day of *)
(* the Archive an event is found under (toRow in                           *)
(* internal/ingest/bigquery.go, the date filter of the query), and what    *)
(* the two counters of internal/metrics say of it.                         *)
(*                                                                         *)
(* Every action of Ingest is taken as it is, together with what it does to *)
(* the rows and the counters.  The Archive's rows are pairs <<event, day>>; *)
(* a second row of an event matters only if it has another day.  A counter *)
(* lives as long as its process and grows for ever, so the model keeps how *)
(* far it lags behind the events the process has handed to BigQuery.       *)
(***************************************************************************)
EXTENDS Ingest

CONSTANT MaxDay     \* bound: the last day

ASSUME DaysAssumption == MaxDay \in Nat \ {0}

Undated == 0        \* a CreatedAt of 0
Day == 1..MaxDay

VARIABLES
  today,
  created,      \* [Event -> day of its CreatedAt, or Undated]
  rows,         \* the Archive: {<<event, day of created_at>>}
  total,        \* Run's local: events handed to Insert so far, per process
  behind,       \* events of the inserts that took effect since boot, less
                \* EventsArchivedTotal
  failed,       \* processes that have counted a failure since boot
  began,        \* history: the day the current run started, per process
  settled       \* history: the last day on which a successful run started

counters == <<total, behind, failed>>
days     == <<today, created>>
avars    == <<vars, days, rows, counters, began, settled>>

ATypeOK ==
  /\ TypeOK
  /\ today \in Day
  /\ created \in [Event -> 0..MaxDay]
  /\ rows \subseteq archived \X Day
  /\ total \in [Replica -> Nat]
  /\ behind \in [Replica -> Int]
  /\ failed \subseteq Replica
  /\ began \in [Replica -> Day]
  /\ settled \in 0..MaxDay

AInit ==
  /\ Init
  /\ today = 1
  /\ created = [e \in Event |-> Undated]
  /\ rows = {}
  /\ total = [r \in Replica |-> 0]
  /\ behind = [r \in Replica |-> 0]
  /\ failed = {}
  /\ began = [r \in Replica |-> 1]
  /\ settled = 0

-----------------------------------------------------------------------------
NextDay ==
  /\ today < MaxDay
  /\ today' = today + 1
  /\ UNCHANGED <<vars, created, rows, counters, began, settled>>

(* GitHub records an event now, perhaps without a timestamp: its log is     *)
(* taken to be in the order of the timestamps.                              *)
APublish ==
  /\ Publish
  /\ created' \in {[created EXCEPT ![published'] = d] : d \in {today, Undated}}
  /\ UNCHANGED <<today, rows, counters, began, settled>>

AElsewhere ==
  /\ Expire \/ AuthStep \/ \E f \in Flow : Revoke(f)
  /\ UNCHANGED <<days, rows, counters, began, settled>>

(* Mutants of CreatedAt: every row gets the day of the insert; a timestamp  *)
(* of 0 is kept, or taken for the first day there is.                       *)
CreatedAtAsGiven(e) == created[e]
CreatedAtInsert(e) == today
CreatedAtEpoch(e) == IF created[e] = Undated THEN 1 ELSE created[e]

(* toRow: an event without a timestamp gets the time of the insert. *)
CreatedAt(e) == IF created[e] = Undated THEN today ELSE created[e]

NewRows(r) == {<<e, CreatedAt(e)>> : e \in run[r].buf}

(* How Run counts when it returns: every failed run but those that fail to   *)
(* load the token, the events of the successful ones.                       *)
Ends(r, label) == pc[r] # "idle" /\ pc'[r] = "idle" /\ result'[r] = label

(* Mutant of Count: the events of the last insert are not added to total. *)
CountBatches(r, n) ==
  /\ total' = [total EXCEPT ![r] = IF pc'[r] = "idle" THEN 0 ELSE @ + n]
  /\ behind' = [behind EXCEPT ![r] = IF Ends(r, "success") THEN @ + n - total[r] ELSE @ + n]
  /\ failed' = IF Ends(r, "failure") THEN failed \cup {r} ELSE failed

(* A step in which an insert of n events by process r takes effect, which   *)
(* may return.  All n are counted, whether the rows are new, are there      *)
(* already or are dropped by BigQuery as repeats (loop.go:41).              *)
Count(r, n) ==
  /\ total' = [total EXCEPT ![r] = IF pc'[r] = "idle" THEN 0 ELSE @ + n]
  /\ behind' = [behind EXCEPT ![r] = IF Ends(r, "success") THEN @ - total[r] ELSE @ + n]
  /\ failed' = IF Ends(r, "failure") THEN failed \cup {r} ELSE failed

Settle(r) ==
  settled' = IF Ends(r, "success") /\ settled < began[r] THEN began[r] ELSE settled

AStartRun(r) ==
  /\ StartRun(r)
  /\ began' = [began EXCEPT ![r] = today]
  /\ UNCHANGED <<days, rows, counters, settled>>

AInsert(r) ==
  /\ InsertBatch(r) \/ FlushRest(r)
  /\ rows' = rows \cup NewRows(r)
  /\ Count(r, Cardinality(run[r].buf))
  /\ Settle(r)
  /\ UNCHANGED <<days, began>>

(* The rows may have been written nevertheless. *)
AInsertFails(r) ==
  /\ InsertFails(r) \/ FlushFails(r)
  /\ \/ /\ archived' = archived \cup run[r].buf
        /\ rows' = rows \cup NewRows(r)
        /\ Count(r, Cardinality(run[r].buf))
     \/ /\ archived' = archived
        /\ UNCHANGED rows
        /\ Count(r, 0)
  /\ UNCHANGED <<days, began, settled>>

(* The steps of a run that insert nothing. *)
AOther(r) ==
  /\ \/ LoadPair(r) \/ NotAuthorised(r) \/ LoadFails(r)
     \/ RateLimited(r) \/ BufferPage(r) \/ FillBatch(r) \/ EmptyPage(r)
     \/ TokenRefused(r) \/ FetchFails(r)
     \/ SaveBatchCursor(r) \/ SaveBatchFails(r)
     \/ FlushNothing(r) \/ SaveLastCursor(r) \/ SaveLastFails(r)
  /\ Count(r, 0)
  /\ Settle(r)
  /\ UNCHANGED <<days, rows, began>>

(* The counters are the process's own and start at 0. *)
ABoot(r) == Boot(r) /\ UNCHANGED <<days, rows, counters, began, settled>>

ACrash(r) ==
  /\ Crash(r)
  /\ total' = [total EXCEPT ![r] = 0]
  /\ behind' = [behind EXCEPT ![r] = 0]
  /\ failed' = failed \ {r}
  /\ UNCHANGED <<days, rows, began, settled>>

ANext ==
  \/ NextDay \/ APublish \/ AElsewhere
  \/ \E r \in Replica :
       ABoot(r) \/ AStartRun(r) \/ AInsert(r) \/ AInsertFails(r) \/ AOther(r) \/ ACrash(r)

ASpec == AInit /\ [][ANext]_avars

-----------------------------------------------------------------------------
Found(d) == {e \in archived : <<e, d>> \in rows}

(* Once a run that started after a day's end has succeeded, the Archive has *)
(* that day's events under that day, save what GitHub stopped serving       *)
(* before (loop.go:88, bigquery.go:138-143).                                *)
PastIsComplete ==
  \A d \in 1..(settled - 1) : \A e \in 1..published :
    created[e] = d => e \in Found(d) \/ e <= expired

(* And what a query finds under that day never changes again, although      *)
(* events are fetched and inserted again after a failure, a restart or a    *)
(* new authorization, and those without a timestamp are stamped anew.       *)
PastIsFinal ==
  [][\A d \in 1..(settled - 1) : Found(d)' = Found(d)]_avars

(* While no run has been counted as a failure, EventsArchivedTotal has      *)
(* every event that finished runs have handed to BigQuery, repeats          *)
(* included: with the failure counter at 0 the two tell the same.  A run    *)
(* that fails counts none of its events, whatever it has written            *)
(* (loop.go:41,94).                                                         *)
CountersAgree ==
  \A r \in Replica : pc[r] = "idle" /\ r \notin failed => behind[r] = 0
=============================================================================
