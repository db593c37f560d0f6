---------------------------- MODULE ArchiveQuery ----------------------------
(***************************************************************************)
(* The Archive between its writer and its readers: the rows Insert adds    *)
(* (internal/ingest/bigquery.go), what the query form asks for             *)
(* (parseFilters in internal/oauth/query_handler.go) and what Query selects *)
(* (internal/query/bigquery.go).                                           *)
(*                                                                         *)
(* The ingest service inserts an event again after a failure, a restart or *)
(* a new authorization; BigQuery drops some of the repeated rows, but not  *)
(* all.  An event without a timestamp is stamped by every insert anew.     *)
(* Time is counted in ticks, DayTicks of them to a day; the last tick of a *)
(* day stands for its last nanosecond.                                     *)
(***************************************************************************)
EXTENDS Integers, FiniteSets

CONSTANTS
  Doc,          \* document IDs
  Audit,        \* [Doc -> [repo, action, at]]: the Audit Events
  Repo, Action,
  Typed,        \* actions users type into the custom action field
  Prefixed,     \* actions with a prefix of riksrevisjonenPrefixActions
  Listed,       \* riksrevisjonenExactActions
  Excluded,     \* riksrevisjonenExcludedActions
  DayTicks,
  Day,          \* the days there are
  MaxRows,      \* maxRows, 50 000 in the code
  MaxCopies,    \* bound: rows of one event
  Undated,      \* a timestamp of 0
  NoAction,     \* the custom action field is empty
  NoDate,       \* a date field is empty
  BadDate,      \* a date field that is not a date
  None          \* no form is being answered, or no answer is there

Instant == {d * DayTicks + k : d \in Day, k \in 0..(DayTicks - 1)}

ASSUME ConstantsAssumption ==
  /\ DayTicks \in Nat \ {0}
  /\ Day \subseteq Nat
  /\ MaxRows \in Nat \ {0}
  /\ MaxCopies \in Nat
  /\ Audit \in [Doc -> [repo: Repo, action: Action, at: Instant \cup {Undated}]]
  /\ NoDate \notin Day /\ BadDate \notin Day /\ NoDate # BadDate
  /\ Typed \subseteq Action /\ NoAction \notin Action

(* GitHub records finitely many events. *)
ASSUME DocsAssumption == IsFiniteSet(Doc)

VARIABLES
  now,
  table,        \* the rows: [doc, created, copy]
  form,         \* the form Run is answering
  answer        \* its result: [rows, truncated]

vars == <<now, table, form, answer>>

Row == [doc: Doc, created: Instant, copy: 1..MaxCopies]
Form == [repos: (SUBSET Repo) \ {{}}, choice: {"all", "riksrevisjonen", "custom"},
         action: Typed \cup {NoAction},
         from: Day \cup {NoDate, BadDate}, to: Day \cup {NoDate, BadDate}]

TypeOK ==
  /\ now \in Instant
  /\ table \subseteq Row
  /\ form \in Form \cup {None}
  /\ answer # None => answer.rows \subseteq Row /\ answer.truncated \in BOOLEAN

Init ==
  /\ now \in Instant
  /\ table = {}
  /\ form = None
  /\ answer = None

-----------------------------------------------------------------------------
(* The writer. *)

Tick ==
  /\ now + 1 \in Instant
  /\ now' = now + 1
  /\ UNCHANGED <<table, form, answer>>

Copies(d) == {row \in table : row.doc = d}

(* Mutant of CreatedAt: the time of the event even if it has none. *)
CreatedAtAsGiven(d) == Audit[d].at

(* toRow: an event without a timestamp gets the time of the insert. *)
CreatedAt(d) == IF Audit[d].at = Undated THEN now ELSE Audit[d].at

(* One Put: a row per event, except for those BigQuery recognises by their  *)
(* insert ID, the document ID.                                              *)
Insert(docs) ==
  /\ \A d \in docs : Cardinality(Copies(d)) < MaxCopies
  /\ \E dropped \in SUBSET {d \in docs : Copies(d) # {}} :
       table' = table \cup {[doc |-> d, created |-> CreatedAt(d),
                             copy |-> Cardinality(Copies(d)) + 1] : d \in docs \ dropped}
  /\ UNCHANGED <<now, form, answer>>

-----------------------------------------------------------------------------
(* The reader. *)

(* parseFilters: the choice decides which action filter applies; the to-day *)
(* is included up to its last instant.                                      *)
Filters(f) ==
  [repos  |-> f.repos,
   exact  |-> IF f.choice = "custom" THEN f.action ELSE NoAction,
   preset |-> f.choice = "riksrevisjonen",
   fromZero |-> f.from = NoDate,
   from   |-> IF f.from = NoDate THEN 0 ELSE f.from * DayTicks,
   toZero |-> f.to = NoDate,
   to     |-> IF f.to = NoDate THEN 0 ELSE f.to * DayTicks + (DayTicks - 1)]

(* actionClause: an exact action goes before the preset; none means all. *)
ActionMatches(q, action) ==
  \/ q.exact # NoAction /\ action = q.exact
  \/ q.exact = NoAction /\ q.preset /\ action \in (Prefixed \cup Listed) \ Excluded
  \/ q.exact = NoAction /\ ~q.preset

InPeriod(q, t) ==
  /\ q.fromZero \/ t >= q.from
  /\ q.toZero \/ t <= q.to

(* Mutant of Where: the preset's alternatives without their parentheses. *)
WhereUnparenthesized(q) ==
  {row \in table :
     LET e == Audit[row.doc]
     IN  IF q.preset
         THEN \/ e.repo \in q.repos /\ e.action \in Prefixed
              \/ e.action \in Listed \ Excluded /\ InPeriod(q, row.created)
         ELSE /\ e.repo \in q.repos /\ ActionMatches(q, e.action)
              /\ InPeriod(q, row.created)}

Where(q) ==
  {row \in table : /\ Audit[row.doc].repo \in q.repos
                   /\ ActionMatches(q, Audit[row.doc].action)
                   /\ InPeriod(q, row.created)}

Docs(rows) == {row.doc : row \in rows}

OncePerDoc(rows) == \A row, other \in rows : row.doc = other.doc => row = other

(* Mutant of Qualify: duplicates are kept. *)
QualifyAll(rows) == {rows}

(* QUALIFY ROW_NUMBER() OVER (PARTITION BY document_id) = 1: any one row of *)
(* each event, for no order is given.                                       *)
Qualify(rows) ==
  {S \in SUBSET rows : Docs(S) = Docs(rows) /\ OncePerDoc(S)}

(* Mutant of Newest: ORDER BY created_at without DESC. *)
NewestOldest(rows) ==
  {S \in SUBSET rows :
     /\ Cardinality(S) = IF Cardinality(rows) < MaxRows THEN Cardinality(rows) ELSE MaxRows
     /\ \A kept \in S, cut \in rows \ S : kept.created <= cut.created}

(* ORDER BY created_at DESC LIMIT maxRows. *)
Newest(rows) ==
  {S \in SUBSET rows :
     /\ Cardinality(S) = IF Cardinality(rows) < MaxRows THEN Cardinality(rows) ELSE MaxRows
     /\ \A kept \in S, cut \in rows \ S : kept.created >= cut.created}

(* Mutant of Selected: the rows are limited before they are made unique. *)
SelectedEarly(q) == UNION {Qualify(S) : S \in Newest(Where(q))}

(* The results BigQuery may return: QUALIFY comes before LIMIT. *)
Selected(q) == UNION {Newest(S) : S \in Qualify(Where(q))}

(* Run is called with a form whose repositories are already narrowed. *)
Post(f) ==
  /\ form = None
  /\ form' = f
  /\ answer' = None
  /\ UNCHANGED <<now, table>>

(* 400: no query is made. *)
Refuse ==
  /\ form # None
  /\ BadDate \in {form.from, form.to}
  /\ form' = None
  /\ UNCHANGED <<now, table, answer>>

(* Query runs over the rows that are there when it starts. *)
Query ==
  /\ form # None /\ answer = None
  /\ BadDate \notin {form.from, form.to}
  /\ \E rows \in Selected(Filters(form)) :
       answer' = [rows |-> rows, truncated |-> Cardinality(rows) >= MaxRows]
  /\ UNCHANGED <<now, table, form>>

(* The query or the iteration fails: 500, no part of the result is sent. *)
QueryFails ==
  /\ form # None /\ answer = None
  /\ BadDate \notin {form.from, form.to}
  /\ form' = None
  /\ UNCHANGED <<now, table, answer>>

(* The result has been downloaded. *)
Download ==
  /\ answer # None
  /\ form' = None /\ answer' = None
  /\ UNCHANGED <<now, table>>

Next ==
  \/ Tick
  \/ \E docs \in (SUBSET Doc) \ {{}} : Insert(docs)
  \/ \E f \in Form : Post(f)
  \/ Refuse \/ Query \/ QueryFails \/ Download

Spec == Init /\ [][Next]_vars

-----------------------------------------------------------------------------
(* What the user asked for, in the user's terms: repositories, actions and  *)
(* whole calendar days.  A custom action left empty asks for all actions.   *)
DayOf(t) == t \div DayTicks

Asked(f, row) ==
  LET e == Audit[row.doc]
  IN  /\ e.repo \in f.repos
      /\ f.choice = "custom" /\ f.action # NoAction => e.action = f.action
      /\ f.choice = "riksrevisjonen" =>
           e.action \notin Excluded /\ e.action \in Prefixed \cup Listed
      /\ f.from # NoDate => f.from <= DayOf(row.created)
      /\ f.to # NoDate => DayOf(row.created) <= f.to

Answers == answer = None /\ answer' # None

(* A result has events of the requested repositories, actions and days      *)
(* only, whichever alternative of the preset lets an event in (the clauses  *)
(* are one conjunction, bigquery.go:116-126,176-179).                       *)
OnlyAsked ==
  [][Answers => \A row \in answer'.rows : Asked(form, row)]_vars

(* A result that is not marked as truncated lacks no archived event that    *)
(* was asked for, however many duplicate rows the Archive holds of others   *)
(* (QUALIFY is applied before LIMIT, bigquery.go:180-182,253).              *)
NothingMissing ==
  [][Answers /\ ~answer'.truncated =>
       Docs(answer'.rows) = Docs({row \in table : Asked(form, row)})]_vars

(* A truncated result has the newest events: an event it lacks has a row    *)
(* that is no newer than any that was kept (bigquery.go:181-182).           *)
NewestKept ==
  [][Answers =>
       \A row \in table : Asked(form, row) /\ row.doc \notin Docs(answer'.rows) =>
         \E copy \in Copies(row.doc) :
           Asked(form, copy) /\ \A kept \in answer'.rows : copy.created <= kept.created]_vars

(* A result is marked as truncated exactly if the limit's number of events  *)
(* was asked for: the duplicate rows of fewer, which ingest failures leave, *)
(* never look like too many (bigquery.go:15-16,180,253).                    *)
MarkedAtLimit ==
  [][Answers =>
       (answer'.truncated <=> Cardinality(Docs({row \in table : Asked(form, row)})) >= MaxRows)]_vars
=============================================================================
