------------------------- MODULE ArchiveQueryProofs -------------------------
(* What holds of the results of Query for every Archive, every form and     *)
(* every number of duplicate rows.                                          *)
EXTENDS ArchiveQuery, FiniteSetTheorems, TLAPS

(* The rows of a result are rows of the Archive that satisfy the WHERE      *)
(* clause, and no event has two of them: LIMIT only takes rows away from    *)
(* what QUALIFY has chosen.                                                 *)
LEMMA SelectedRows ==
  ASSUME NEW q, NEW rows \in Selected(q)
  PROVE  rows \subseteq Where(q) /\ OncePerDoc(rows)
<1>1. PICK S \in Qualify(Where(q)) : rows \in Newest(S)
  BY DEF Selected
<1>2. S \subseteq Where(q) /\ OncePerDoc(S)
  BY <1>1 DEF Qualify
<1>3. rows \subseteq S
  BY <1>1 DEF Newest
<1> QED
  BY <1>2, <1>3 DEF OncePerDoc

-----------------------------------------------------------------------------
(* Every instant is a number. *)
LEMMA InstantsAreInts == Instant \subseteq Int
BY ConstantsAssumption DEF Instant

(* The rows of one event. *)
LEMMA CopiesAfterInsert ==
  ASSUME NEW docs \in SUBSET Doc, Insert(docs), NEW d \in Doc
  PROVE  \E row : Copies(d)' \subseteq Copies(d) \cup {row}
<1> DEFINE row == [doc |-> d, created |-> CreatedAt(d), copy |-> Cardinality(Copies(d)) + 1]
<1>1. \A new \in table' : new \in table \/ \E e \in docs :
        new = [doc |-> e, created |-> CreatedAt(e), copy |-> Cardinality(Copies(e)) + 1]
  BY DEF Insert
<1>2. \A new \in table' : new.doc = d => new \in table \/ new = row
  <2> SUFFICES ASSUME NEW new \in table', new.doc = d, new \notin table PROVE new = row
    OBVIOUS
  <2>1. PICK e \in docs :
          new = [doc |-> e, created |-> CreatedAt(e), copy |-> Cardinality(Copies(e)) + 1]
    BY <1>1
  <2>2. e = d
    BY <2>1
  <2> QED
    BY <2>1, <2>2
<1> HIDE DEF row
<1>3. Copies(d)' \subseteq Copies(d) \cup {row}
  BY <1>2 DEF Copies
<1> QED
  BY <1>3

(* Rows, forms and results have their types: an insert numbers the rows of  *)
(* an event by how many there are, which is a number because each insert    *)
(* adds one at most.                                                        *)
FewCopies == \A d \in Doc : IsFiniteSet(Copies(d))

LEMMA InitTypes == Init => TypeOK /\ FewCopies
BY FS_EmptySet DEF Init, TypeOK, FewCopies, Copies

LEMMA InsertTypes ==
  ASSUME TypeOK, FewCopies, NEW docs \in SUBSET Doc, Insert(docs)
  PROVE  TypeOK' /\ FewCopies'
<1>1. ASSUME NEW d \in docs
      PROVE  [doc |-> d, created |-> CreatedAt(d), copy |-> Cardinality(Copies(d)) + 1] \in Row
  <2>1. CreatedAt(d) \in Instant
    BY ConstantsAssumption DEF CreatedAt, TypeOK
  <2>2. Cardinality(Copies(d)) \in Nat /\ Cardinality(Copies(d)) < MaxCopies /\ MaxCopies \in Nat
    BY ConstantsAssumption, FS_CardinalityType DEF FewCopies, Insert
  <2>3. Cardinality(Copies(d)) + 1 \in 1..MaxCopies
    BY <2>2
  <2> QED
    BY <2>1, <2>3 DEF Row
<1>2. table' \subseteq table \cup
        {[doc |-> d, created |-> CreatedAt(d), copy |-> Cardinality(Copies(d)) + 1] : d \in docs}
  BY DEF Insert
<1>3. table' \subseteq Row
  BY <1>1, <1>2 DEF TypeOK
<1>4. TypeOK'
  BY <1>3 DEF TypeOK, Insert
<1>5. ASSUME NEW d \in Doc PROVE IsFiniteSet(Copies(d))'
  <2>1. PICK row : Copies(d)' \subseteq Copies(d) \cup {row}
    BY CopiesAfterInsert
  <2>2. IsFiniteSet(Copies(d) \cup {row})
    BY FS_AddElement DEF FewCopies
  <2> QED
    BY <2>1, <2>2, FS_Subset
<1> QED
  BY <1>4, <1>5 DEF FewCopies

LEMMA NextTypes == TypeOK /\ FewCopies /\ [Next]_vars => (TypeOK /\ FewCopies)'
<1> SUFFICES ASSUME TypeOK, FewCopies, [Next]_vars PROVE (TypeOK /\ FewCopies)'
  OBVIOUS
<1>1. ASSUME NEW docs \in SUBSET Doc, Insert(docs) PROVE (TypeOK /\ FewCopies)'
  BY <1>1, InsertTypes
<1>2. CASE Query
  <2>1. PICK rows \in Selected(Filters(form)) :
          answer' = [rows |-> rows, truncated |-> Cardinality(rows) >= MaxRows]
    BY <1>2 DEF Query
  <2>2. rows \subseteq Row
    BY SelectedRows DEF Where, TypeOK
  <2>3. (Cardinality(rows) >= MaxRows) \in BOOLEAN
    OBVIOUS
  <2> QED
    BY <1>2, <2>1, <2>2, <2>3 DEF Query, TypeOK, FewCopies, Copies
<1>3. CASE Tick
  BY <1>3 DEF Tick, TypeOK, FewCopies, Copies
<1>4. ASSUME NEW f \in Form, Post(f) PROVE (TypeOK /\ FewCopies)'
  BY <1>4 DEF Post, TypeOK, FewCopies, Copies
<1>5. CASE Refuse \/ QueryFails \/ Download \/ UNCHANGED vars
  BY <1>5 DEF Refuse, QueryFails, Download, vars, TypeOK, FewCopies, Copies
<1> QED
  BY <1>1, <1>2, <1>3, <1>4, <1>5 DEF Next

(* Every state has the types of TypeOK. *)
THEOREM TypeCorrect == Spec => []TypeOK
BY InitTypes, NextTypes, PTL DEF Spec

-----------------------------------------------------------------------------
(* The form has the shape the browser gives it, rows have timestamps. *)
Dated ==
  /\ form \in Form \cup {None}
  /\ \A row \in table : row.created \in Int
  /\ now \in Instant

LEMMA TypedIsDated == TypeOK => Dated
BY InstantsAreInts DEF TypeOK, Dated, Row

(* A multiple of DayTicks is reached on its own day or later. *)
LEMMA DayReached ==
  ASSUME NEW t \in Int, NEW d \in Int, t >= d * DayTicks
  PROVE  d <= DayOf(t)
<1> DEFINE q == t \div DayTicks
           r == t % DayTicks
           a == DayTicks * q
           b == d * DayTicks
<1>1. /\ DayTicks \in Nat \ {0}
      /\ t = a + r /\ r \in 0..(DayTicks - 1) /\ q \in Int
  BY ConstantsAssumption
<1>2. a \in Int /\ b \in Int /\ q * DayTicks = a
  BY <1>1
<1>3. ASSUME d > q PROVE b >= q * DayTicks + DayTicks
  BY <1>1, <1>3
<1>4. t >= b
  OBVIOUS
<1> HIDE DEF q, r, a, b
<1>5. d <= q
  BY <1>1, <1>2, <1>3, <1>4
<1> QED
  BY <1>5 DEF DayOf, q

(* An instant before the last one of a day belongs to it or to an earlier day. *)
LEMMA DayNotPassed ==
  ASSUME NEW t \in Int, NEW d \in Int, t <= d * DayTicks + (DayTicks - 1)
  PROVE  DayOf(t) <= d
<1> DEFINE q == t \div DayTicks
           r == t % DayTicks
           a == DayTicks * q
           b == d * DayTicks
<1>1. /\ DayTicks \in Nat \ {0}
      /\ t = a + r /\ r \in 0..(DayTicks - 1) /\ q \in Int
  BY ConstantsAssumption
<1>2. a \in Int /\ b \in Int /\ q * DayTicks = a
  BY <1>1
<1>3. ASSUME q > d PROVE q * DayTicks >= b + DayTicks
  BY <1>1, <1>3
<1>4. t <= b + (DayTicks - 1)
  OBVIOUS
<1> HIDE DEF q, r, a, b
<1>5. q <= d
  BY <1>1, <1>2, <1>3, <1>4
<1> QED
  BY <1>5 DEF DayOf, q

(* The instants the code compares with are the days the user typed. *)
LEMMA WholeDays ==
  ASSUME NEW f \in Form, BadDate \notin {f.from, f.to},
         NEW t \in Int, InPeriod(Filters(f), t)
  PROVE  /\ f.from # NoDate => f.from <= DayOf(t)
         /\ f.to # NoDate => DayOf(t) <= f.to
<1>0. /\ Day \subseteq Int
      /\ f.from \in Day \cup {NoDate, BadDate}
      /\ f.to \in Day \cup {NoDate, BadDate}
  BY ConstantsAssumption DEF Form
<1>1. ASSUME f.from # NoDate
      PROVE  f.from <= DayOf(t)
  <2>1. f.from \in Int
    BY <1>1, <1>0
  <2>2. t >= f.from * DayTicks
    BY <1>1 DEF InPeriod, Filters
  <2> QED
    BY <2>1, <2>2, DayReached
<1>2. ASSUME f.to # NoDate
      PROVE  DayOf(t) <= f.to
  <2>1. f.to \in Int
    BY <1>2, <1>0
  <2>2. t <= f.to * DayTicks + (DayTicks - 1)
    BY <1>2 DEF InPeriod, Filters
  <2> QED
    BY <2>1, <2>2, DayNotPassed
<1> QED
  BY <1>1, <1>2

(* A row that satisfies the WHERE clause is one the user asked for. *)
LEMMA WhereIsAsked ==
  ASSUME Dated, form # None, BadDate \notin {form.from, form.to},
         NEW row \in Where(Filters(form))
  PROVE  Asked(form, row)
<1> DEFINE e == Audit[row.doc]
<1>1. form \in Form /\ row.created \in Int
  BY DEF Dated, Where
<1>2. /\ e.repo \in form.repos
      /\ ActionMatches(Filters(form), e.action)
      /\ InPeriod(Filters(form), row.created)
  BY DEF Where, Filters
<1>3. form.choice = "custom" /\ form.action # NoAction => e.action = form.action
  BY <1>2 DEF ActionMatches, Filters
<1>4. form.choice = "riksrevisjonen" =>
        e.action \notin Excluded /\ e.action \in Prefixed \cup Listed
  BY <1>2 DEF ActionMatches, Filters
<1>5. /\ form.from # NoDate => form.from <= DayOf(row.created)
      /\ form.to # NoDate => DayOf(row.created) <= form.to
  BY <1>1, <1>2, WholeDays
<1> QED
  BY <1>2, <1>3, <1>4, <1>5 DEF Asked

(* A result has events of the requested repositories, actions and days      *)
(* only, for every form and whatever the Archive holds.                     *)
THEOREM ResultsAreAsked == Spec => OnlyAsked
<1>1. Dated /\ [Next]_vars =>
        [Answers => \A row \in answer'.rows : Asked(form, row)]_vars
  <2> SUFFICES ASSUME Dated, Next, Answers
               PROVE  \A row \in answer'.rows : Asked(form, row)
    OBVIOUS
  <2>1. Query
    BY DEF Answers, Next, Tick, Insert, Post, Refuse, QueryFails, Download
  <2>2. PICK rows \in Selected(Filters(form)) :
          answer' = [rows |-> rows, truncated |-> Cardinality(rows) >= MaxRows]
    BY <2>1 DEF Query
  <2>3. answer'.rows \subseteq Where(Filters(form))
    BY <2>2, SelectedRows
  <2>4. form # None /\ BadDate \notin {form.from, form.to}
    BY <2>1 DEF Query
  <2> QED
    BY <2>3, <2>4, WhereIsAsked
<1> QED
  BY <1>1, TypeCorrect, TypedIsDated, PTL DEF Spec, OnlyAsked

-----------------------------------------------------------------------------
(* The converse: what the user asked for satisfies the WHERE clause. *)

(* An instant of a day or of a later one is past the beginning of that day.  *)
LEMMA DayBegun ==
  ASSUME NEW t \in Int, NEW d \in Int, d <= DayOf(t)
  PROVE  t >= d * DayTicks
<1> DEFINE q == t \div DayTicks
           r == t % DayTicks
           a == DayTicks * q
           b == d * DayTicks
<1>1. /\ DayTicks \in Nat \ {0}
      /\ t = a + r /\ r \in 0..(DayTicks - 1) /\ q \in Int
  BY ConstantsAssumption
<1>2. a \in Int /\ b \in Int /\ q * DayTicks = a
  BY <1>1
<1>3. ASSUME d <= q PROVE q * DayTicks >= b
  BY <1>1, <1>3
<1>4. d <= q
  BY DEF DayOf
<1> HIDE DEF q, r, a, b
<1>5. t >= b
  BY <1>1, <1>2, <1>3, <1>4
<1> QED
  BY <1>5 DEF b

(* An instant of a day or of an earlier one is not past the day's last one.  *)
LEMMA DayNotOver ==
  ASSUME NEW t \in Int, NEW d \in Int, DayOf(t) <= d
  PROVE  t <= d * DayTicks + (DayTicks - 1)
<1> DEFINE q == t \div DayTicks
           r == t % DayTicks
           a == DayTicks * q
           b == d * DayTicks
<1>1. /\ DayTicks \in Nat \ {0}
      /\ t = a + r /\ r \in 0..(DayTicks - 1) /\ q \in Int
  BY ConstantsAssumption
<1>2. a \in Int /\ b \in Int /\ q * DayTicks = a
  BY <1>1
<1>3. ASSUME q <= d PROVE q * DayTicks <= b
  BY <1>1, <1>3
<1>4. q <= d
  BY DEF DayOf
<1> HIDE DEF q, r, a, b
<1>5. t <= b + (DayTicks - 1)
  BY <1>1, <1>2, <1>3, <1>4
<1> QED
  BY <1>5 DEF b

(* A day the user typed becomes instants that take in all of it. *)
LEMMA DaysAreWhole ==
  ASSUME NEW f \in Form, BadDate \notin {f.from, f.to}, NEW t \in Int,
         f.from # NoDate => f.from <= DayOf(t),
         f.to # NoDate => DayOf(t) <= f.to
  PROVE  InPeriod(Filters(f), t)
<1>0. /\ Day \subseteq Int
      /\ f.from \in Day \cup {NoDate, BadDate}
      /\ f.to \in Day \cup {NoDate, BadDate}
  BY ConstantsAssumption DEF Form
<1>1. f.from # NoDate => t >= f.from * DayTicks
  BY <1>0, DayBegun
<1>2. f.to # NoDate => t <= f.to * DayTicks + (DayTicks - 1)
  BY <1>0, DayNotOver
<1> QED
  BY <1>1, <1>2 DEF InPeriod, Filters

(* So the WHERE clause selects exactly the rows that were asked for. *)
LEMMA WhereIsWhatWasAsked ==
  ASSUME Dated, form # None, BadDate \notin {form.from, form.to}
  PROVE  Where(Filters(form)) = {row \in table : Asked(form, row)}
<1>1. ASSUME NEW row \in table, Asked(form, row)
      PROVE  row \in Where(Filters(form))
  <2>1. form \in Form /\ row.created \in Int
    BY DEF Dated
  <2>2. Audit[row.doc].repo \in Filters(form).repos
    BY <1>1 DEF Asked, Filters
  <2>3. ActionMatches(Filters(form), Audit[row.doc].action)
    BY <1>1, <2>1 DEF Asked, Filters, ActionMatches, Form
  <2>4. InPeriod(Filters(form), row.created)
    BY <1>1, <2>1, DaysAreWhole DEF Asked
  <2> QED
    BY <2>2, <2>3, <2>4 DEF Where
<1>2. Where(Filters(form)) \subseteq table
  BY DEF Where
<1> QED
  BY <1>1, <1>2, WhereIsAsked

(* One row for each of finitely many events: finitely many rows. *)
LEMMA QualifiedIsFinite ==
  ASSUME TypeOK, NEW S \in SUBSET table, OncePerDoc(S)
  PROVE  IsFiniteSet(S)
<1> DEFINE f == [row \in S |-> row.doc]
<1>1. f \in [S -> Doc]
  BY DEF TypeOK, Row
<1>2. f \in Injection(S, Doc)
  BY <1>1 DEF Injection, IsInjective, OncePerDoc
<1> QED
  BY <1>2, DocsAssumption, FS_Injection

(* As many rows as events. *)
LEMMA AsManyDocs ==
  ASSUME NEW S, IsFiniteSet(S), OncePerDoc(S)
  PROVE  Cardinality(Docs(S)) = Cardinality(S)
<1> DEFINE f == [row \in S |-> row.doc]
<1>1. f \in Injection(S, Docs(S))
  BY DEF Injection, IsInjective, OncePerDoc, Docs
<1>2. f \in Surjection(S, Docs(S))
  BY DEF Surjection, Docs
<1> HIDE DEF f
<1> QED
  BY <1>1, <1>2, FS_Surjection

(* The rows that were asked for. *)
Wanted == {row \in table : Asked(form, row)}

(* How a result came about: rows were chosen, one for each event that was    *)
(* asked for, and the newest of them kept, all of them if not truncated.    *)
LEMMA HowAnswered ==
  ASSUME TypeOK, Next, Answers
  PROVE  \E S :
           /\ S \subseteq Wanted
           /\ Docs(S) = Docs(Wanted)
           /\ answer'.rows \subseteq S
           /\ \A kept \in answer'.rows, cut \in S \ answer'.rows : kept.created >= cut.created
           /\ ~answer'.truncated => answer'.rows = S
           /\ answer'.truncated <=> Cardinality(Docs(S)) >= MaxRows
<1>1. Query
  BY DEF Answers, Next, Tick, Insert, Post, Refuse, QueryFails, Download
<1>2. PICK rows \in Selected(Filters(form)) :
        answer' = [rows |-> rows, truncated |-> Cardinality(rows) >= MaxRows]
  BY <1>1 DEF Query
<1>3. Where(Filters(form)) = Wanted
  BY <1>1, TypedIsDated, WhereIsWhatWasAsked DEF Query, Wanted
<1>4. PICK S \in Qualify(Where(Filters(form))) : rows \in Newest(S)
  BY <1>2 DEF Selected
<1>5. /\ S \subseteq Wanted /\ OncePerDoc(S)
      /\ Docs(S) = Docs(Wanted)
  BY <1>3, <1>4 DEF Qualify
<1>6. /\ rows \subseteq S
      /\ \A kept \in rows, cut \in S \ rows : kept.created >= cut.created
      /\ Cardinality(rows) = IF Cardinality(S) < MaxRows THEN Cardinality(S) ELSE MaxRows
  BY <1>4 DEF Newest
<1>7. ASSUME ~answer'.truncated PROVE rows = S
  <2>1. ~(Cardinality(rows) >= MaxRows)
    BY <1>2, <1>7
  <2>2. IsFiniteSet(S)
    BY <1>5, QualifiedIsFinite DEF Wanted
  <2>3. Cardinality(rows) = Cardinality(S)
    BY <1>6, <2>1, ConstantsAssumption
  <2> QED
    BY <1>6, <2>2, <2>3, FS_Subset
<1>8. answer'.truncated <=> Cardinality(Docs(S)) >= MaxRows
  <2>1. S \in SUBSET table
    BY <1>5 DEF Wanted
  <2>2. IsFiniteSet(S) /\ Cardinality(Docs(S)) = Cardinality(S)
    BY <1>5, <2>1, QualifiedIsFinite, AsManyDocs
  <2>3. Cardinality(S) \in Nat /\ MaxRows \in Nat
    BY <2>2, FS_CardinalityType, ConstantsAssumption
  <2>4. answer'.truncated <=> Cardinality(rows) >= MaxRows
    BY <1>2
  <2> QED
    BY <1>6, <2>2, <2>3, <2>4
<1> QED
  BY <1>2, <1>5, <1>6, <1>7, <1>8

(* A result that is not marked as truncated has every archived event that    *)
(* was asked for, for every form, limit and number of duplicates.           *)
THEOREM NothingIsMissing == Spec => NothingMissing
<1>1. TypeOK /\ [Next]_vars =>
        [Answers /\ ~answer'.truncated =>
           Docs(answer'.rows) = Docs({row \in table : Asked(form, row)})]_vars
  <2> SUFFICES ASSUME TypeOK, Next, Answers, ~answer'.truncated
               PROVE  Docs(answer'.rows) = Docs(Wanted)
    BY DEF Wanted
  <2> QED
    BY HowAnswered
<1> QED
  BY <1>1, TypeCorrect, PTL DEF Spec, NothingMissing

(* The mark of a truncated result tells whether the limit's number of        *)
(* events was asked for, whatever duplicates the Archive has of them.       *)
THEOREM MarkTellsTheLimit == Spec => MarkedAtLimit
<1>1. TypeOK /\ [Next]_vars =>
        [Answers =>
           (answer'.truncated <=>
              Cardinality(Docs({row \in table : Asked(form, row)})) >= MaxRows)]_vars
  <2> SUFFICES ASSUME TypeOK, Next, Answers
               PROVE  answer'.truncated <=> Cardinality(Docs(Wanted)) >= MaxRows
    BY DEF Wanted
  <2>1. PICK S : /\ Docs(S) = Docs(Wanted)
                 /\ answer'.truncated <=> Cardinality(Docs(S)) >= MaxRows
    BY HowAnswered
  <2> QED
    BY <2>1
<1> QED
  BY <1>1, TypeCorrect, PTL DEF Spec, MarkedAtLimit

(* An event a truncated result lacks has a row that was asked for and is no  *)
(* newer than any row of the result.                                        *)
THEOREM NewestAreKept == Spec => NewestKept
<1>1. TypeOK /\ [Next]_vars =>
        [Answers =>
           \A row \in table : Asked(form, row) /\ row.doc \notin Docs(answer'.rows) =>
             \E copy \in Copies(row.doc) :
               Asked(form, copy) /\ \A kept \in answer'.rows : copy.created <= kept.created]_vars
  <2> SUFFICES ASSUME TypeOK, Next, Answers,
                      NEW row \in table, Asked(form, row), row.doc \notin Docs(answer'.rows)
               PROVE  \E copy \in Copies(row.doc) :
                        Asked(form, copy) /\ \A kept \in answer'.rows : copy.created <= kept.created
    OBVIOUS
  <2>1. PICK S :
          /\ S \subseteq Wanted
          /\ Docs(S) = Docs(Wanted)
          /\ answer'.rows \subseteq S
          /\ \A kept \in answer'.rows, cut \in S \ answer'.rows : kept.created >= cut.created
    BY HowAnswered
  <2>2. row.doc \in Docs(S)
    BY <2>1 DEF Docs, Wanted
  <2>3. PICK copy \in S : copy.doc = row.doc
    BY <2>2 DEF Docs
  <2>4. copy \notin answer'.rows
    BY <2>3 DEF Docs
  <2>5. \A other \in table : other.created \in Int
    BY TypedIsDated DEF Dated
  <2>6. copy \in Copies(row.doc) /\ Asked(form, copy)
    BY <2>1, <2>3 DEF Copies, Wanted
  <2>7. \A kept \in answer'.rows : copy.created <= kept.created
    BY <2>1, <2>3, <2>4, <2>5 DEF Wanted
  <2> QED
    BY <2>6, <2>7
<1> QED
  BY <1>1, TypeCorrect, PTL DEF Spec, NewestKept
=============================================================================
