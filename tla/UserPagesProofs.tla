-------------------------- MODULE UserPagesProofs ---------------------------
(* What TLAPS proves of UserPages, for every number of items, page size and *)
(* number of changes of the list.                                           *)
EXTENDS UserPages, FiniteSetTheorems, SequenceTheorems, TLAPS

USE ConstantsAssumption

-----------------------------------------------------------------------------
(* Lists. *)

LEMMA ElementsOfSeq ==
  ASSUME NEW S, NEW s \in Seq(S)
  PROVE  ToSet(s) \subseteq S /\ IsFiniteSet(ToSet(s))
<1>1. DOMAIN s = 1..Len(s) /\ Len(s) \in Nat /\ \A i \in 1..Len(s) : s[i] \in S
  OBVIOUS
<1>2. s \in Surjection(1..Len(s), ToSet(s))
  BY <1>1 DEF Surjection, ToSet
<1>3. IsFiniteSet(1..Len(s))
  BY <1>1, FS_Interval
<1> QED
  BY <1>1, <1>2, <1>3, FS_Surjection DEF ToSet

(* A sequence that SetToSeqs makes of a finite set holds each element once. *)
LEMMA SetToSeqsFacts ==
  ASSUME NEW S, IsFiniteSet(S), NEW s \in SetToSeqs(S)
  PROVE  s \in Seq(S) /\ IsInjective(s) /\ ToSet(s) = S
<1> DEFINE n == Cardinality(S)
<1>1. n \in Nat
  BY FS_CardinalityType
<1>2. s \in [1..n -> S] /\ \A i, j \in 1..n : i # j => s[i] # s[j]
  BY DEF SetToSeqs
<1>3. s \in Injection(1..n, S)
  BY <1>2 DEF Injection, IsInjective
<1>4. IsFiniteSet(1..n) /\ Cardinality(1..n) = n
  BY <1>1, FS_Interval
<1>5. s \in Surjection(1..n, S)
  BY <1>3, <1>4, FS_Injection
<1>6. ToSet(s) = S
  BY <1>2, <1>5 DEF Surjection, ToSet
<1> QED
  BY <1>1, <1>2, <1>3, <1>6 DEF Injection

LEMMA InsertFacts ==
  ASSUME NEW s \in Seq(Item), NEW k \in 1..(Len(s) + 1), NEW x \in Item
  PROVE  LET t == InsertAt(s, k, x)
         IN  /\ t \in Seq(Item) /\ Len(t) = Len(s) + 1
             /\ t[k] = x
             /\ \A i \in 1..Len(s) : IF i < k THEN t[i] = s[i] ELSE t[i + 1] = s[i]
             /\ \A i \in 1..Len(t) :
                  t[i] = IF i < k THEN s[i] ELSE IF i = k THEN x ELSE s[i - 1]
<1> DEFINE a == SubSeq(s, 1, k - 1)
           b == SubSeq(s, k, Len(s))
           t == InsertAt(s, k, x)
<1>1. a \in Seq(Item) /\ Len(a) = k - 1 /\ \A i \in 1..(k - 1) : a[i] = s[i]
  OBVIOUS
<1>2. /\ b \in Seq(Item) /\ Len(b) = Len(s) - k + 1
      /\ \A i \in 1..(Len(s) - k + 1) : b[i] = s[k + i - 1]
  OBVIOUS
<1>3. /\ <<x>> \in Seq(Item) /\ Len(<<x>>) = 1 /\ <<x>>[1] = x
      /\ a \o <<x>> \in Seq(Item) /\ Len(a \o <<x>>) = k
      /\ \A i \in 1..k : (a \o <<x>>)[i] = IF i < k THEN s[i] ELSE x
  BY <1>1
<1>4. t = (a \o <<x>>) \o b
  BY DEF InsertAt
<1> HIDE DEF a, b, t
<1>5. /\ t \in Seq(Item) /\ Len(t) = Len(a \o <<x>>) + Len(b)
      /\ \A i \in 1..(Len(a \o <<x>>) + Len(b)) :
           t[i] = IF i <= Len(a \o <<x>>) THEN (a \o <<x>>)[i]
                                         ELSE b[i - Len(a \o <<x>>)]
  <2>1. a \o <<x>> \in Seq(Item) /\ b \in Seq(Item)
    BY <1>2, <1>3
  <2> QED
    BY <2>1, <1>4, ConcatProperties
<1>6. /\ Len(t) = Len(s) + 1
      /\ \A i \in 1..Len(t) :
           t[i] = IF i <= k THEN (a \o <<x>>)[i] ELSE b[i - k]
  <2>1. Len(a \o <<x>>) = k /\ Len(b) = Len(s) - k + 1 /\ Len(s) \in Nat
    BY <1>2, <1>3
  <2>2. k + Len(b) = Len(s) + 1
    BY <2>1
  <2> QED
    BY <2>1, <2>2, <1>5
<1>7. \A i \in 1..Len(t) :
        t[i] = IF i < k THEN s[i] ELSE IF i = k THEN x ELSE s[i - 1]
  <2> TAKE i \in 1..Len(t)
  <2>1. CASE i <= k
    BY <2>1, <1>3, <1>6
  <2>2. CASE i > k
    <3>1. i - k \in 1..(Len(s) - k + 1) /\ k + (i - k) - 1 = i - 1
      BY <2>2, <1>6
    <3>2. t[i] = b[i - k]
      BY <2>2, <1>6
    <3>3. b[i - k] = s[k + (i - k) - 1]
      BY <3>1, <1>2
    <3>4. ~(i < k) /\ i # k
      BY <2>2
    <3> QED
      BY <3>1, <3>2, <3>3, <3>4
  <2> QED
    BY <2>1, <2>2
<1>8. t \in Seq(Item) /\ Len(t) = Len(s) + 1
  BY <1>5, <1>6
<1> QED
  BY <1>7, <1>8 DEF t

LEMMA RemoveFacts ==
  ASSUME NEW s \in Seq(Item), NEW k \in 1..Len(s)
  PROVE  LET t == RemoveAt(s, k)
         IN  /\ t \in Seq(Item) /\ Len(t) = Len(s) - 1
             /\ \A i \in 1..Len(t) : t[i] = IF i < k THEN s[i] ELSE s[i + 1]
<1> DEFINE a == SubSeq(s, 1, k - 1)
           b == SubSeq(s, k + 1, Len(s))
           t == RemoveAt(s, k)
<1>1. a \in Seq(Item) /\ Len(a) = k - 1 /\ \A i \in 1..(k - 1) : a[i] = s[i]
  OBVIOUS
<1>2. /\ b \in Seq(Item) /\ Len(b) = Len(s) - k
      /\ \A i \in 1..(Len(s) - k) : b[i] = s[k + i]
  OBVIOUS
<1>3. t = a \o b
  BY DEF RemoveAt
<1> HIDE DEF a, b, t
<1>4. /\ t \in Seq(Item) /\ Len(t) = Len(a) + Len(b)
      /\ \A i \in 1..(Len(a) + Len(b)) :
           t[i] = IF i <= Len(a) THEN a[i] ELSE b[i - Len(a)]
  <2>1. a \in Seq(Item) /\ b \in Seq(Item)
    BY <1>1, <1>2
  <2> QED
    BY <2>1, <1>3, ConcatProperties
<1>5. /\ Len(t) = Len(s) - 1
      /\ \A i \in 1..Len(t) : t[i] = IF i < k THEN a[i] ELSE b[i - k + 1]
  <2>1. Len(a) = k - 1 /\ Len(b) = Len(s) - k /\ Len(s) \in Nat
    BY <1>1, <1>2
  <2>2. Len(a) + Len(b) = Len(s) - 1
    BY <2>1
  <2>3. \A i \in 1..Len(t) :
          /\ i <= k - 1 <=> i < k
          /\ i - (k - 1) = i - k + 1
    BY <2>1
  <2>4. Len(t) = Len(s) - 1 /\ \A i \in 1..Len(t) :
          t[i] = IF i <= k - 1 THEN a[i] ELSE b[i - (k - 1)]
    BY <2>1, <2>2, <1>4
  <2> QED
    BY <2>3, <2>4
<1>6. \A i \in 1..Len(t) : t[i] = IF i < k THEN s[i] ELSE s[i + 1]
  <2> TAKE i \in 1..Len(t)
  <2>1. i \in Int /\ 1 <= i /\ i <= Len(s) - 1 /\ Len(s) \in Nat
    BY <1>5
  <2>2. CASE i < k
    <3>1. i \in 1..(k - 1)
      BY <2>1, <2>2
    <3> QED
      BY <2>2, <3>1, <1>1, <1>5
  <2>3. CASE ~(i < k)
    <3>1. i - k + 1 \in 1..(Len(s) - k) /\ k + (i - k + 1) = i + 1
      BY <2>1, <2>3
    <3> QED
      BY <2>3, <3>1, <1>2, <1>5
  <2> QED
    BY <2>2, <2>3
<1>7. t \in Seq(Item) /\ Len(t) = Len(s) - 1
  BY <1>4, <1>5
<1> QED
  BY <1>6, <1>7 DEF t

LEMMA InsertKeeps ==
  ASSUME NEW s \in Seq(Item), IsInjective(s), NEW k \in 1..(Len(s) + 1),
         NEW x \in Item \ ToSet(s)
  PROVE  LET t == InsertAt(s, k, x)
         IN  /\ t \in Seq(Item) /\ IsInjective(t)
             /\ ToSet(t) = ToSet(s) \cup {x}
             /\ \A i \in DOMAIN s : \E j \in DOMAIN t : j >= i /\ t[j] = s[i]
<1> DEFINE t == InsertAt(s, k, x)
<1>1. /\ t \in Seq(Item) /\ Len(t) = Len(s) + 1 /\ t[k] = x
      /\ \A i \in 1..Len(s) : IF i < k THEN t[i] = s[i] ELSE t[i + 1] = s[i]
      /\ \A i \in 1..Len(t) :
           t[i] = IF i < k THEN s[i] ELSE IF i = k THEN x ELSE s[i - 1]
  BY InsertFacts
<1>2. DOMAIN s = 1..Len(s) /\ DOMAIN t = 1..Len(t) /\ Len(s) \in Nat
  BY <1>1
<1> HIDE DEF t
<1>3. \A i \in DOMAIN s : s[i] # x
  BY DEF ToSet
<1>4. IsInjective(t)
  <2> SUFFICES ASSUME NEW i \in DOMAIN t, NEW j \in DOMAIN t, t[i] = t[j]
               PROVE  i = j
    BY DEF IsInjective
  <2>1. \A n \in DOMAIN t :
          /\ n < k => n \in DOMAIN s /\ t[n] = s[n]
          /\ n > k => n - 1 \in DOMAIN s /\ t[n] = s[n - 1]
          /\ n = k => t[n] = x
    BY <1>1, <1>2
  <2>2. i \in Int /\ j \in Int
    BY <1>2
  <2>3. CASE i = k \/ j = k
    BY <2>1, <2>2, <2>3, <1>3
  <2>4. CASE i # k /\ j # k
    <3>1. (IF i < k THEN i ELSE i - 1) = (IF j < k THEN j ELSE j - 1)
      BY <2>1, <2>2, <2>4 DEF IsInjective
    <3> QED
      BY <3>1, <2>2, <2>4
  <2> QED
    BY <2>3, <2>4
<1>5. \A i \in DOMAIN s : \E j \in DOMAIN t : j >= i /\ t[j] = s[i]
  <2> TAKE i \in DOMAIN s
  <2>1. CASE i < k
    BY <2>1, <1>1, <1>2
  <2>2. CASE ~(i < k)
    BY <2>2, <1>1, <1>2
  <2> QED
    BY <2>1, <2>2
<1>6. ToSet(t) = ToSet(s) \cup {x}
  <2>1. \A i \in DOMAIN t : t[i] \in ToSet(s) \cup {x}
    <3> TAKE i \in DOMAIN t
    <3>1. i < k => i \in DOMAIN s
      BY <1>1, <1>2
    <3>2. i > k => i - 1 \in DOMAIN s
      BY <1>1, <1>2
    <3> QED
      BY <3>1, <3>2, <1>1, <1>2 DEF ToSet
  <2>2. x \in ToSet(t)
    BY <1>1, <1>2 DEF ToSet
  <2> QED
    BY <2>1, <2>2, <1>5 DEF ToSet
<1> QED
  BY <1>1, <1>4, <1>5, <1>6 DEF t

LEMMA RemoveKeeps ==
  ASSUME NEW s \in Seq(Item), IsInjective(s), NEW k \in 1..Len(s)
  PROVE  LET t == RemoveAt(s, k)
         IN  t \in Seq(Item) /\ IsInjective(t) /\ ToSet(t) \subseteq ToSet(s)
<1> DEFINE t == RemoveAt(s, k)
<1>1. /\ t \in Seq(Item) /\ Len(t) = Len(s) - 1
      /\ \A i \in 1..Len(t) : t[i] = IF i < k THEN s[i] ELSE s[i + 1]
  BY RemoveFacts
<1>2. DOMAIN s = 1..Len(s) /\ DOMAIN t = 1..Len(t) /\ Len(s) \in Nat
  BY <1>1
<1> HIDE DEF t
<1>3. \A i \in DOMAIN t :
        /\ i \in Int
        /\ i < k => i \in DOMAIN s /\ t[i] = s[i]
        /\ i >= k => i + 1 \in DOMAIN s /\ t[i] = s[i + 1]
  BY <1>1, <1>2
<1>4. IsInjective(t)
  <2> SUFFICES ASSUME NEW i \in DOMAIN t, NEW j \in DOMAIN t, t[i] = t[j]
               PROVE  i = j
    BY DEF IsInjective
  <2>1. (IF i < k THEN i ELSE i + 1) = (IF j < k THEN j ELSE j + 1)
    BY <1>3 DEF IsInjective
  <2> QED
    BY <2>1, <1>3
<1>5. ToSet(t) \subseteq ToSet(s)
  BY <1>3 DEF ToSet
<1> QED
  BY <1>1, <1>4, <1>5 DEF t

-----------------------------------------------------------------------------
(* Pages. *)

(* Page p is followed by another one if the list goes on after it. *)
LEMMA PagesFact ==
  ASSUME TypeOK, NEW p \in Nat \ {0}
  PROVE  p < Pages <=> p * PageSize < Len(list)
<1>1. Len(list) \in Nat /\ (list = <<>> <=> Len(list) = 0) /\ p * PageSize \in Nat
  BY DEF TypeOK
<1>2. p * PageSize >= 1
  OBVIOUS
<1>3. CASE list = <<>>
  BY <1>1, <1>2, <1>3 DEF Pages
<1>4. CASE list # <<>>
  <2> DEFINE l == Len(list)
             q == (l + PageSize - 1) \div PageSize
  <2>1. l + PageSize - 1 \in Nat /\ q \in Nat
    BY <1>1
  <2>2. q * PageSize <= l + PageSize - 1 /\ l + PageSize - 1 < (q + 1) * PageSize
    BY <2>1
  <2> HIDE DEF q
  <2>3. ASSUME p < q PROVE p * PageSize < l
    <3>1. (p + 1) * PageSize <= q * PageSize
      BY <2>1, <2>3
    <3> QED
      BY <3>1, <2>1, <2>2, <1>1
  <2>4. ASSUME p * PageSize < l PROVE p < q
    <3> SUFFICES ASSUME q <= p PROVE FALSE
      BY <2>1
    <3>1. (q + 1) * PageSize <= (p + 1) * PageSize
      BY <2>1
    <3>2. (p + 1) * PageSize = p * PageSize + PageSize
      OBVIOUS
    <3> QED
      BY <3>1, <3>2, <2>1, <2>2, <2>4, <1>1
  <2>5. Pages = q
    BY <1>4 DEF Pages, q
  <2> QED
    BY <2>3, <2>4, <2>5
<1> QED
  BY <1>3, <1>4

LEMMA PageIsListed ==
  ASSUME TypeOK, NEW p \in Nat \ {0}
  PROVE  Page(p) \subseteq ToSet(list) /\ Page(p) \subseteq Item /\ IsFiniteSet(Page(p))
<1>1. ToSet(list) \subseteq Item /\ IsFiniteSet(ToSet(list))
  BY ElementsOfSeq DEF TypeOK
<1>2. Page(p) \subseteq ToSet(list)
  BY DEF Page, Places, ToSet
<1> QED
  BY <1>1, <1>2, FS_Subset

LEMMA NextUrlFacts ==
  ASSUME TypeOK, NEW p \in Nat \ {0}, NEW header \in LinkHeaders(p)
  PROVE  IF p < Pages THEN NextUrl(header) \in [page : {p + 1}, whole : BOOLEAN]
                      ELSE NextUrl(header) = NoUrl
<1>1. IsFiniteSet(Entries(p))
  <2>1. \A a, b : IsFiniteSet({a, b})
    <3> TAKE a, b
    <3>1. {a, b} = {a} \cup {b}
      OBVIOUS
    <3>2. IsFiniteSet({a}) /\ IsFiniteSet({b})
      BY FS_Singleton
    <3>3. IsFiniteSet({a} \cup {b})
      BY <3>2, FS_Union
    <3> QED
      BY <3>1, <3>3
  <2>2. IsFiniteSet(IF p > 1 THEN {<<"prev", p - 1>>, <<"first", 1>>} ELSE {})
    BY <2>1, FS_EmptySet
  <2>3. IsFiniteSet(IF p < Pages THEN {<<"next", p + 1>>, <<"last", Pages>>} ELSE {})
    BY <2>1, FS_EmptySet
  <2> QED
    BY <2>2, <2>3, FS_Union DEF Entries
<1>2. ToSet(header) = Entries(p)
  BY <1>1, SetToSeqsFacts DEF LinkHeaders
<1> DEFINE next == {i \in DOMAIN header : header[i][1] = "next"}
<1>3. \A i \in DOMAIN header : header[i] \in Entries(p)
  BY <1>2 DEF ToSet
<1>4. CASE p < Pages
  <2>1. <<"next", p + 1>> \in Entries(p)
    BY <1>4 DEF Entries
  <2>2. PICK i \in DOMAIN header : header[i] = <<"next", p + 1>>
    BY <2>1, <1>2 DEF ToSet
  <2>3. next # {}
    BY <2>2
  <2>4. \A j \in next : header[j][2] = p + 1
    BY <1>3 DEF Entries
  <2> QED
    BY <2>3, <2>4, <1>4 DEF NextUrl
<1>5. CASE ~(p < Pages)
  <2>1. next = {}
    BY <1>3, <1>5 DEF Entries
  <2> QED
    BY <2>1, <1>5 DEF NextUrl
<1> QED
  BY <1>4, <1>5

LEMMA CollectedFacts ==
  ASSUME TypeOK, pc = "get", NEW all \in Collected
  PROVE  /\ all \in Seq(Item)
         /\ ToSet(all) = ToSet(items) \cup (Page(url.page) \cap wanted)
         /\ IsInjective(items) /\ ToSet(items) \cap Page(url.page) = {}
              => IsInjective(all)
<1> DEFINE S == Page(url.page) \cap wanted
<1>1. url.page \in Nat \ {0}
  BY DEF TypeOK
<1>2. IsFiniteSet(S) /\ S \subseteq Item
  BY <1>1, PageIsListed, FS_Subset
<1>3. PICK kept \in SetToSeqs(S) : all = items \o kept
  BY DEF Collected
<1>4. kept \in Seq(S) /\ IsInjective(kept) /\ ToSet(kept) = S
  BY <1>2, SetToSeqsFacts
<1>5. items \in Seq(Item) /\ kept \in Seq(Item)
  BY <1>2, <1>4, SeqMonotonic DEF TypeOK
<1>6. /\ all \in Seq(Item) /\ Len(all) = Len(items) + Len(kept)
      /\ \A i \in 1..Len(items) + Len(kept) :
           all[i] = IF i <= Len(items) THEN items[i] ELSE kept[i - Len(items)]
  BY <1>3, <1>5, ConcatProperties
<1>7. /\ DOMAIN items = 1..Len(items) /\ Len(items) \in Nat
      /\ DOMAIN kept = 1..Len(kept) /\ Len(kept) \in Nat
      /\ DOMAIN all = 1..(Len(items) + Len(kept))
  BY <1>5, <1>6
<1>8. \A i \in DOMAIN all :
        \/ i \in DOMAIN items /\ all[i] = items[i]
        \/ i \notin DOMAIN items /\ i - Len(items) \in DOMAIN kept
           /\ all[i] = kept[i - Len(items)]
  BY <1>6, <1>7
<1>9. /\ \A i \in DOMAIN items : i \in DOMAIN all /\ all[i] = items[i]
      /\ \A i \in DOMAIN kept : i + Len(items) \in DOMAIN all
                              /\ all[i + Len(items)] = kept[i]
  <2>1. \A i \in DOMAIN items : i \in DOMAIN all /\ all[i] = items[i]
    BY <1>6, <1>7
  <2>2. ASSUME NEW i \in DOMAIN kept
        PROVE  i + Len(items) \in DOMAIN all /\ all[i + Len(items)] = kept[i]
    <3>1. i + Len(items) \in DOMAIN all /\ ~(i + Len(items) <= Len(items))
      BY <1>7
    <3>2. (i + Len(items)) - Len(items) = i
      BY <1>7
    <3> QED
      BY <3>1, <3>2, <1>6, <1>7
  <2> QED
    BY <2>1, <2>2
<1>10. ToSet(all) = ToSet(items) \cup ToSet(kept)
  <2>1. ToSet(all) \subseteq ToSet(items) \cup ToSet(kept)
    BY <1>8 DEF ToSet
  <2>2. ToSet(items) \subseteq ToSet(all)
    BY <1>9 DEF ToSet
  <2>3. ToSet(kept) \subseteq ToSet(all)
    BY <1>9 DEF ToSet
  <2> QED
    BY <2>1, <2>2, <2>3
<1>11. ASSUME IsInjective(items), ToSet(items) \cap Page(url.page) = {}
       PROVE  IsInjective(all)
  <2>1. ToSet(items) \cap ToSet(kept) = {}
    BY <1>4, <1>11
  <2>2. \A i \in DOMAIN items, j \in DOMAIN kept : items[i] # kept[j]
    BY <2>1 DEF ToSet
  <2>3. \A i, j \in DOMAIN kept : kept[i] = kept[j] => i = j
    BY <1>4 DEF IsInjective
  <2>4. \A i, j \in DOMAIN items : items[i] = items[j] => i = j
    BY <1>11 DEF IsInjective
  <2>5. ASSUME NEW i \in DOMAIN all, NEW j \in DOMAIN all, all[i] = all[j]
        PROVE  i = j
    <3>1. i \in Int /\ j \in Int /\ Len(items) \in Int
      BY <1>7
    <3>2. CASE i \in DOMAIN items \/ j \in DOMAIN items
      BY <3>2, <2>2, <2>4, <2>5, <1>8
    <3>3. CASE i \notin DOMAIN items /\ j \notin DOMAIN items
      <4>1. i - Len(items) = j - Len(items)
        BY <3>3, <2>3, <2>5, <1>8
      <4> QED
        BY <4>1, <3>1
    <3> QED
      BY <3>2, <3>3
  <2> QED
    BY <2>5 DEF IsInjective
<1> QED
  BY <1>4, <1>6, <1>10, <1>11

(* The sort keeps the items and puts them in order. *)
LEMMA AnswerFacts ==
  ASSUME NEW s \in Seq(Item), NEW t \in Answer(s)
  PROVE  /\ t \in Seq(Item) /\ ToSet(t) = ToSet(s)
         /\ IsInjective(s) => \A i, j \in DOMAIN t : i < j => t[i] < t[j]
<1>1. PICK perm \in Bijection(DOMAIN s, DOMAIN s) : t = [i \in DOMAIN s |-> s[perm[i]]]
  BY DEF Answer, Rearranged
<1>2. \A i, j \in DOMAIN t : i < j => t[i] <= t[j]
  BY DEF Answer
<1>3. /\ perm \in [DOMAIN s -> DOMAIN s]
      /\ \A i, j \in DOMAIN s : perm[i] = perm[j] => i = j
      /\ \A j \in DOMAIN s : \E i \in DOMAIN s : perm[i] = j
  BY DEF Bijection, Injection, Surjection, IsInjective
<1>4. DOMAIN s = 1..Len(s) /\ Len(s) \in Nat /\ \A i \in DOMAIN s : s[i] \in Item
  OBVIOUS
<1>5. DOMAIN t = DOMAIN s /\ \A i \in DOMAIN t : t[i] = s[perm[i]] /\ perm[i] \in DOMAIN s
  BY <1>1, <1>3
<1>6. t \in Seq(Item)
  <2>1. t \in [1..Len(s) -> Item]
    BY <1>1, <1>3, <1>4
  <2> QED
    BY <2>1, <1>4
<1>7. ToSet(t) = ToSet(s)
  <2>1. ToSet(t) \subseteq ToSet(s)
    BY <1>5 DEF ToSet
  <2>2. ToSet(s) \subseteq ToSet(t)
    BY <1>3, <1>5 DEF ToSet
  <2> QED
    BY <2>1, <2>2
<1>8. ASSUME IsInjective(s), NEW i \in DOMAIN t, NEW j \in DOMAIN t, i < j
      PROVE  t[i] < t[j]
  <2>1. t[i] # t[j]
    BY <1>3, <1>4, <1>5, <1>8 DEF IsInjective
  <2>2. t[i] \in Int /\ t[j] \in Int
    BY <1>4, <1>5
  <2> QED
    BY <2>1, <2>2, <1>2, <1>8
<1> QED
  BY <1>6, <1>7, <1>8

-----------------------------------------------------------------------------
(* Types. *)

LEMMA InitTypes == Init => TypeOK
<1> SUFFICES ASSUME Init PROVE TypeOK
  OBVIOUS
<1>1. PICK S \in SUBSET Item : list \in SetToSeqs(S)
  BY DEF Init, Lists
<1>2. IsFiniteSet(S)
  BY FS_Subset
<1>3. list \in Seq(S) /\ IsInjective(list)
  BY <1>1, <1>2, SetToSeqsFacts
<1>4. list \in Seq(Item)
  BY <1>3, SeqMonotonic
<1>5. items \in Seq(Item) /\ atStart \in Seq(Item) /\ listed \subseteq Item
  BY DEF Init
<1>6. changes \in 0..MaxChanges /\ wanted \in {Kept, Item} /\ (pc = "get" <=> url # NoUrl)
  BY DEF Init
<1> QED
  BY <1>3, <1>4, <1>5, <1>6 DEF Init, TypeOK

(* A change of the list, told without its position: what is still there has *)
(* not moved towards the front, unless something was removed.               *)
LEMMA ChangeFacts ==
  ASSUME TypeOK, Change
  PROVE  /\ list' \in Seq(Item) /\ IsInjective(list')
         /\ changes' \in 0..MaxChanges
         /\ changed' /\ removed' \in BOOLEAN
         /\ listed' = listed \cup ToSet(list') /\ ToSet(list') \subseteq Item
         /\ UNCHANGED <<pc, wanted, url, items, atStart>>
         /\ ~removed' =>
              /\ ~removed
              /\ \A i \in DOMAIN list : \E j \in DOMAIN list' :
                   j >= i /\ list'[j] = list[i]
<1>1. CASE \E x \in Item \ ToSet(list), i \in 1..(Len(list) + 1) :
             list' = InsertAt(list, i, x) /\ UNCHANGED removed
  <2>1. PICK x \in Item \ ToSet(list), i \in 1..(Len(list) + 1) :
               list' = InsertAt(list, i, x) /\ UNCHANGED removed
    BY <1>1
  <2>2. /\ list' \in Seq(Item) /\ IsInjective(list')
        /\ \A k \in DOMAIN list : \E j \in DOMAIN list' :
             j >= k /\ list'[j] = list[k]
    BY <2>1, InsertKeeps DEF TypeOK
  <2> QED
    BY <2>1, <2>2, ElementsOfSeq DEF Change, TypeOK
<1>2. CASE \E i \in 1..Len(list) : list' = RemoveAt(list, i) /\ removed' = TRUE
  <2>1. list' \in Seq(Item) /\ IsInjective(list')
    BY <1>2, RemoveKeeps DEF TypeOK
  <2> QED
    BY <1>2, <2>1, ElementsOfSeq DEF Change, TypeOK
<1> QED
  BY <1>1, <1>2 DEF Change

(* A page that arrives: another one follows, or it was the last. *)
LEMMA GetFacts ==
  ASSUME TypeOK, GetPage
  PROVE  /\ UNCHANGED <<list, changes, wanted, history>>
         /\ pc = "get" /\ url.page \in Nat \ {0}
         /\ \E all \in Collected :
              \/ /\ url' \in [page : {url.page + 1}, whole : BOOLEAN]
                 /\ pc' = "get" /\ items' = all
              \/ /\ Len(list) <= url.page * PageSize
                 /\ url' = NoUrl /\ pc' = "done" /\ items' \in Answer(all)
<1>1. pc = "get" /\ url.page \in Nat \ {0} /\ Len(list) \in Nat
  BY DEF GetPage, TypeOK
<1>2. PICK header \in LinkHeaders(url.page) : url' = NextUrl(header)
  BY DEF GetPage
<1>3. IF url.page < Pages THEN url' \in [page : {url.page + 1}, whole : BOOLEAN]
                          ELSE url' = NoUrl
  BY <1>1, <1>2, NextUrlFacts
<1>4. url.page < Pages <=> url.page * PageSize < Len(list)
  BY <1>1, PagesFact
<1>5. PICK all \in Collected :
        \/ url' # NoUrl /\ pc' = "get" /\ items' = all
        \/ url' = NoUrl /\ pc' = "done" /\ items' \in Answer(all)
  BY DEF GetPage
<1>6. CASE url.page < Pages
  <2>1. url' \in [page : Nat, whole : BOOLEAN]
    BY <1>1, <1>3, <1>6
  <2>2. url' # NoUrl
    BY <2>1
  <2> QED
    BY <2>2, <1>1, <1>3, <1>5, <1>6 DEF GetPage
<1>7. CASE ~(url.page < Pages)
  <2>1. Len(list) <= url.page * PageSize
    BY <1>1, <1>4, <1>7
  <2> QED
    BY <2>1, <1>1, <1>3, <1>5, <1>7 DEF GetPage
<1> QED
  BY <1>6, <1>7

LEMMA NextTypes == TypeOK /\ [Next]_vars => TypeOK'
<1> SUFFICES ASSUME TypeOK, [Next]_vars PROVE TypeOK'
  OBVIOUS
<1>1. CASE Change
  BY <1>1, ChangeFacts DEF TypeOK
<1>2. CASE Call
  <2>1. /\ FirstUrl \in [page : Nat \ {0}, whole : BOOLEAN]
        /\ FirstUrl \in [page : Nat, whole : BOOLEAN]
    BY DEF FirstUrl
  <2>2. FirstUrl # NoUrl
    BY <2>1
  <2>3. ToSet(list) \subseteq Item /\ <<>> \in Seq(Item)
    BY ElementsOfSeq DEF TypeOK
  <2> QED
    BY <1>2, <2>1, <2>2, <2>3 DEF Call, TypeOK
<1>3. CASE GetPage
  <2>1. PICK all \in Collected :
          \/ /\ url' \in [page : {url.page + 1}, whole : BOOLEAN]
             /\ pc' = "get" /\ items' = all
          \/ url' = NoUrl /\ pc' = "done" /\ items' \in Answer(all)
    BY <1>3, GetFacts
  <2>2. items' \in Seq(Item)
    BY <1>3, <2>1, GetFacts, CollectedFacts, AnswerFacts
  <2>3. pc' \in {"get", "done"} /\ (pc' = "get" <=> url' # NoUrl)
    BY <1>3, <2>1, GetFacts
  <2>4. url' \in [page : Nat \ {0}, whole : BOOLEAN] \cup {NoUrl}
    BY <1>3, <2>1, GetFacts
  <2> QED
    BY <1>3, <2>2, <2>3, <2>4, GetFacts DEF TypeOK, history
<1>4. CASE BadUrl
  BY <1>4 DEF BadUrl, TypeOK, history
<1>5. CASE GetFails
  BY <1>5 DEF GetFails, TypeOK, history
<1>6. CASE Return
  BY <1>6 DEF Return, TypeOK, history
<1>7. CASE UNCHANGED vars
  BY <1>7 DEF vars, TypeOK, history
<1> QED
  BY <1>1, <1>2, <1>3, <1>4, <1>5, <1>6, <1>7 DEF Next

(* The request is always for a page from 1 on, what has been collected are  *)
(* teams or repositories, and the list names each of them once.             *)
THEOREM TypeCorrect == Spec => []TypeOK
BY InitTypes, NextTypes, PTL DEF Spec

-----------------------------------------------------------------------------
(* The loop is over pages that shift under it.  What it has collected after *)
(* some of them is told by the item's position in the list as it is now.    *)

(* The list after the pages that have been read. *)
Ahead == {list[i] : i \in {j \in DOMAIN list : (url.page - 1) * PageSize < j}}

(* Every wanted item of the list that the call began with has been          *)
(* collected or is still ahead, unless something was removed.               *)
NoneSkipped ==
  /\ pc = "get" /\ ~removed =>
       ToSet(atStart) \cap wanted \subseteq ToSet(items) \cup Ahead
  /\ AdditionsLoseNothing

(* While the list stays the same, what is collected is what is not ahead. *)
ExactSoFar ==
  /\ pc = "get" /\ ~changed =>
       /\ IsInjective(items)
       /\ ToSet(items) \cap Ahead = {}
       /\ ToSet(items) \cup (Ahead \cap wanted) = ToSet(list) \cap wanted
  /\ StillListIsExact

(* Everything collected was wanted, and listed at some moment of the call. *)
Sourced ==
  /\ pc = "get" => ToSet(list) \subseteq listed
  /\ OnlyListedAndWanted

Inv == TypeOK /\ NoneSkipped /\ ExactSoFar /\ Sourced

LEMMA InitInv == Init => Inv
BY InitTypes DEF Init, Inv, NoneSkipped, ExactSoFar, Sourced, AdditionsLoseNothing,
                 StillListIsExact, OnlyListedAndWanted

(* What the call has read or has ahead of it when a page arrives. *)
LEMMA PageIsAhead ==
  ASSUME TypeOK, url.page \in Nat \ {0}
  PROVE  /\ Page(url.page) \subseteq Ahead
         /\ \A i \in DOMAIN list :
              (url.page - 1) * PageSize < i =>
                list[i] \in Page(url.page) \/ url.page * PageSize < i
<1>1. DOMAIN list \subseteq Int /\ url.page * PageSize \in Int
  BY DEF TypeOK
<1> QED
  BY <1>1 DEF Page, Places, Ahead

(* After a page that another one follows. *)
LEMMA AheadShrinks ==
  ASSUME TypeOK, url.page \in Nat \ {0}, UNCHANGED list,
         url' \in [page : {url.page + 1}, whole : BOOLEAN]
  PROVE  Ahead \subseteq Page(url.page) \cup Ahead' /\ Ahead' \subseteq Ahead \ Page(url.page)
<1>1. DOMAIN list \subseteq Int /\ url.page * PageSize \in Int
  BY DEF TypeOK
<1>2. url'.page = url.page + 1 /\ (url'.page - 1) * PageSize = url.page * PageSize
  OBVIOUS
<1>3. Ahead' = {list[i] : i \in {j \in DOMAIN list : url.page * PageSize < j}}
  BY <1>2 DEF Ahead
<1>4. Ahead \subseteq Page(url.page) \cup Ahead'
  BY <1>3, PageIsAhead DEF Ahead
<1>5. (url.page - 1) * PageSize <= url.page * PageSize
  OBVIOUS
<1>6. Ahead' \subseteq Ahead
  BY <1>1, <1>3, <1>5 DEF Ahead
<1>7. ASSUME NEW i \in DOMAIN list, url.page * PageSize < i,
             NEW j \in DOMAIN list, j <= url.page * PageSize
      PROVE  list[i] # list[j]
  BY <1>1, <1>7 DEF TypeOK, IsInjective
<1>8. Ahead' \cap Page(url.page) = {}
  BY <1>3, <1>7 DEF Page, Places
<1> QED
  BY <1>4, <1>6, <1>8

(* After the last page. *)
LEMMA NothingAhead ==
  ASSUME TypeOK, url.page \in Nat \ {0}, Len(list) <= url.page * PageSize
  PROVE  Ahead = Page(url.page)
<1>1. DOMAIN list = 1..Len(list) /\ Len(list) \in Nat /\ url.page * PageSize \in Int
  BY DEF TypeOK
<1>2. \A i \in DOMAIN list : ~(url.page * PageSize < i)
  BY <1>1
<1> QED
  BY <1>2, PageIsAhead DEF Ahead

LEMMA NoneSkippedStays == TypeOK /\ NoneSkipped /\ [Next]_vars => NoneSkipped'
<1> SUFFICES ASSUME TypeOK, NoneSkipped, [Next]_vars PROVE NoneSkipped'
  OBVIOUS
<1>1. CASE Change
  <2>1. UNCHANGED <<pc, wanted, url, items, atStart>>
    BY <1>1, ChangeFacts
  <2>2. ASSUME ~removed', pc = "get" PROVE Ahead \subseteq Ahead'
    <3> SUFFICES ASSUME NEW i \in DOMAIN list, (url.page - 1) * PageSize < i
                 PROVE  list[i] \in Ahead'
      BY DEF Ahead
    <3>1. PICK j \in DOMAIN list' : j >= i /\ list'[j] = list[i]
      BY <1>1, <2>2, ChangeFacts
    <3>2. i \in Int /\ j \in Int /\ (url.page - 1) * PageSize \in Int
      <4>1. url.page \in Nat
        BY <2>2 DEF TypeOK
      <4>2. list \in Seq(Item) /\ list' \in Seq(Item)
        BY <1>1, ChangeFacts DEF TypeOK
      <4> QED
        BY <4>1, <4>2
    <3>3. (url'.page - 1) * PageSize = (url.page - 1) * PageSize
      BY <2>1
    <3>4. (url'.page - 1) * PageSize < j
      BY <3>1, <3>2, <3>3
    <3> QED
      BY <3>1, <3>4 DEF Ahead
  <2>3. ~removed' => ~removed
    BY <1>1, ChangeFacts
  <2> QED
    BY <2>1, <2>2, <2>3 DEF NoneSkipped, AdditionsLoseNothing
<1>2. CASE Call
  <2>1. Ahead' = ToSet(list)
    <3>1. url'.page = 1 /\ (url'.page - 1) * PageSize = 0 /\ list' = list
      BY <1>2 DEF Call, FirstUrl
    <3>2. \A i \in DOMAIN list : 0 < i
      BY DEF TypeOK
    <3> QED
      BY <3>1, <3>2 DEF Ahead, ToSet
  <2> QED
    BY <1>2, <2>1 DEF Call, NoneSkipped, AdditionsLoseNothing
<1>3. CASE GetPage
  <2>1. UNCHANGED <<list, wanted, atStart, removed>> /\ pc = "get"
    BY <1>3, GetFacts DEF history
  <2>2. PICK all \in Collected :
          \/ /\ url' \in [page : {url.page + 1}, whole : BOOLEAN]
             /\ pc' = "get" /\ items' = all
          \/ /\ Len(list) <= url.page * PageSize
             /\ url' = NoUrl /\ pc' = "done" /\ items' \in Answer(all)
    BY <1>3, GetFacts
  <2>3. all \in Seq(Item) /\ ToSet(all) = ToSet(items) \cup (Page(url.page) \cap wanted)
    BY <2>1, CollectedFacts
  <2>4. url.page \in Nat \ {0}
    BY <1>3, GetFacts
  <2>5. CASE pc' = "get"
    <3>1. Ahead \subseteq Page(url.page) \cup Ahead'
      BY <2>1, <2>2, <2>4, <2>5, AheadShrinks
    <3> QED
      BY <3>1, <2>1, <2>2, <2>3, <2>5 DEF NoneSkipped, AdditionsLoseNothing
  <2>6. CASE pc' = "done"
    <3>1. Ahead = Page(url.page)
      BY <2>2, <2>4, <2>6, NothingAhead
    <3>2. ToSet(items') = ToSet(all)
      BY <2>2, <2>3, <2>6, AnswerFacts
    <3> QED
      BY <3>1, <3>2, <2>1, <2>3, <2>6 DEF NoneSkipped, AdditionsLoseNothing
  <2> QED
    BY <2>2, <2>5, <2>6
<1>4. CASE BadUrl \/ GetFails \/ Return
  BY <1>4 DEF BadUrl, GetFails, Return, NoneSkipped, AdditionsLoseNothing
<1>5. CASE UNCHANGED vars
  BY <1>5 DEF vars, history, NoneSkipped, AdditionsLoseNothing, Ahead
<1> QED
  BY <1>1, <1>2, <1>3, <1>4, <1>5 DEF Next

LEMMA ExactSoFarStays == TypeOK /\ ExactSoFar /\ [Next]_vars => ExactSoFar'
<1> SUFFICES ASSUME TypeOK, ExactSoFar, [Next]_vars PROVE ExactSoFar'
  OBVIOUS
<1>1. CASE Change
  BY <1>1 DEF Change, ExactSoFar, StillListIsExact
<1>2. CASE Call
  <2>1. Ahead' = ToSet(list)
    <3>1. url'.page = 1 /\ (url'.page - 1) * PageSize = 0 /\ list' = list
      BY <1>2 DEF Call, FirstUrl
    <3>2. \A i \in DOMAIN list : 0 < i
      BY DEF TypeOK
    <3> QED
      BY <3>1, <3>2 DEF Ahead, ToSet
  <2>2. IsInjective(items') /\ ToSet(items') = {}
    BY <1>2 DEF Call, IsInjective, ToSet
  <2>3. list' = list /\ pc' = "get"
    BY <1>2 DEF Call
  <2> QED
    BY <2>1, <2>2, <2>3 DEF ExactSoFar, StillListIsExact
<1>3. CASE GetPage
  <2>1. UNCHANGED <<list, wanted, changed>> /\ pc = "get" /\ url.page \in Nat \ {0}
    BY <1>3, GetFacts DEF history
  <2>2. PICK all \in Collected :
          \/ /\ url' \in [page : {url.page + 1}, whole : BOOLEAN]
             /\ pc' = "get" /\ items' = all
          \/ /\ Len(list) <= url.page * PageSize
             /\ url' = NoUrl /\ pc' = "done" /\ items' \in Answer(all)
    BY <1>3, GetFacts
  <2> SUFFICES ASSUME ~changed PROVE ExactSoFar'
    BY <2>1, <2>2 DEF ExactSoFar, StillListIsExact
  <2>3. /\ IsInjective(items) /\ ToSet(items) \cap Ahead = {}
        /\ ToSet(items) \cup (Ahead \cap wanted) = ToSet(list) \cap wanted
    BY <2>1 DEF ExactSoFar
  <2>4. Page(url.page) \subseteq Ahead
    BY <2>1, PageIsAhead
  <2>5. /\ all \in Seq(Item) /\ IsInjective(all)
        /\ ToSet(all) = ToSet(items) \cup (Page(url.page) \cap wanted)
    BY <2>1, <2>3, <2>4, CollectedFacts
  <2>6. CASE pc' = "get"
    <3>1. /\ Ahead \subseteq Page(url.page) \cup Ahead'
          /\ Ahead' \subseteq Ahead \ Page(url.page)
      BY <2>1, <2>2, <2>6, AheadShrinks
    <3>2. items' = all
      BY <2>2, <2>6
    <3> QED
      BY <3>1, <3>2, <2>1, <2>3, <2>4, <2>5, <2>6 DEF ExactSoFar, StillListIsExact
  <2>7. CASE pc' = "done"
    <3>1. Ahead = Page(url.page)
      BY <2>1, <2>2, <2>7, NothingAhead
    <3>2. /\ ToSet(items') = ToSet(all)
          /\ \A i, j \in DOMAIN items' : i < j => items'[i] < items'[j]
      BY <2>2, <2>5, <2>7, AnswerFacts
    <3> QED
      BY <3>1, <3>2, <2>1, <2>3, <2>5, <2>7 DEF ExactSoFar, StillListIsExact
  <2> QED
    BY <2>2, <2>6, <2>7
<1>4. CASE BadUrl \/ GetFails \/ Return
  BY <1>4 DEF BadUrl, GetFails, Return, ExactSoFar, StillListIsExact
<1>5. CASE UNCHANGED vars
  BY <1>5 DEF vars, history, ExactSoFar, StillListIsExact, Ahead
<1> QED
  BY <1>1, <1>2, <1>3, <1>4, <1>5 DEF Next

LEMMA SourcedStays == TypeOK /\ Sourced /\ [Next]_vars => Sourced'
<1> SUFFICES ASSUME TypeOK, Sourced, [Next]_vars PROVE Sourced'
  OBVIOUS
<1>1. CASE Change
  BY <1>1, ChangeFacts DEF Sourced, OnlyListedAndWanted
<1>2. CASE Call
  <2>1. ToSet(items') = {}
    BY <1>2 DEF Call, ToSet
  <2>2. listed' = ToSet(list) /\ list' = list
    BY <1>2 DEF Call
  <2> QED
    BY <2>1, <2>2 DEF Sourced, OnlyListedAndWanted
<1>3. CASE GetPage
  <2>1. /\ UNCHANGED <<list, wanted, listed>>
        /\ pc = "get" /\ url.page \in Nat \ {0}
    BY <1>3, GetFacts DEF history
  <2>2. PICK all \in Collected :
          \/ pc' = "get" /\ items' = all
          \/ pc' = "done" /\ items' \in Answer(all)
    BY <1>3, GetFacts
  <2>3. all \in Seq(Item) /\ ToSet(all) = ToSet(items) \cup (Page(url.page) \cap wanted)
    BY <2>1, CollectedFacts
  <2>4. Page(url.page) \subseteq listed
    BY <2>1, PageIsListed DEF Sourced
  <2>5. ToSet(all) \subseteq listed \cap wanted
    BY <2>1, <2>3, <2>4 DEF Sourced, OnlyListedAndWanted
  <2>6. ToSet(items') = ToSet(all)
    BY <2>2, <2>3, AnswerFacts
  <2> QED
    BY <2>1, <2>5, <2>6 DEF Sourced, OnlyListedAndWanted
<1>4. CASE BadUrl \/ GetFails \/ Return
  BY <1>4 DEF BadUrl, GetFails, Return, Sourced, OnlyListedAndWanted
<1>5. CASE UNCHANGED vars
  BY <1>5 DEF vars, history, Sourced, OnlyListedAndWanted
<1> QED
  BY <1>1, <1>2, <1>3, <1>4, <1>5 DEF Next

LEMMA Invariant == Spec => []Inv
<1>1. Inv /\ [Next]_vars => Inv'
  BY NextTypes, NoneSkippedStays, ExactSoFarStays, SourcedStays DEF Inv
<1> QED
  BY <1>1, InitInv, PTL DEF Spec

(* However many pages a list has, if it stays the same it is answered       *)
(* exactly, sorted and without repeats (user_client.go:54-73,82-99).        *)
THEOREM StillListsAreExact == Spec => []StillListIsExact
<1>1. Inv => StillListIsExact
  BY DEF Inv, ExactSoFar
<1> QED
  BY <1>1, Invariant, PTL

(* Teams or repositories that are added between two pages shift the others  *)
(* into pages that are still to come: none is skipped                       *)
(* (user_client.go:51-70,79-96).                                            *)
THEOREM AdditionsAreHarmless == Spec => []AdditionsLoseNothing
<1>1. Inv => AdditionsLoseNothing
  BY DEF Inv, NoneSkipped
<1> QED
  BY <1>1, Invariant, PTL

(* Nothing is collected or answered that GitHub did not list during the     *)
(* call, nor an excluded team (user_client.go:64-68).                       *)
THEOREM NothingForeign == Spec => []OnlyListedAndWanted
<1>1. Inv => OnlyListedAndWanted
  BY DEF Inv, Sourced
<1> QED
  BY <1>1, Invariant, PTL
=============================================================================
