------------------------------ MODULE UserPages -----------------------------
(***************************************************************************)
(* How the query service reads a list from GitHub page by page: Teams and  *)
(* TeamRepos of internal/github/user_client.go, and parseLinkNext, which   *)
(* finds the URL of the next page.  The lists are numbered pages of a list *)
(* that may change while it is being read.                                 *)
(*                                                                         *)
(* Items are numbers, in the order of their names; GitHub lists them in an *)
(* order of its own.                                                       *)
(***************************************************************************)
EXTENDS Integers, FiniteSets, Functions, SequencesExt

CONSTANTS
  Item,         \* teams or repositories
  Kept,         \* teams of the organisation that are not excluded
  PageSize,     \* items per page (pageSize, 100 in the code)
  MaxChanges,   \* bound: changes of the list
  NoUrl

ASSUME ConstantsAssumption ==
  /\ Item \subseteq Int /\ IsFiniteSet(Item) /\ Kept \subseteq Item
  /\ PageSize \in Nat \ {0}
  /\ MaxChanges \in Nat
  /\ NoUrl \notin [page : Nat, whole : BOOLEAN]

VARIABLES
  list,         \* what GitHub lists, in its order
  changes,
  pc,           \* "idle", "get", "done" or "failed"
  wanted,       \* the items this call keeps: Kept for Teams, all for TeamRepos
  url,          \* the next request: [page, whole]
  items,        \* what has been collected, and at the end the answer
  atStart,      \* history: the list when the call began
  listed,       \* history: items listed at some moment of the call
  changed,      \* history: the list has changed during the call
  removed       \* history: an item has been removed during the call

history == <<atStart, listed, changed, removed>>
vars    == <<list, changes, pc, wanted, url, items, history>>

Lists == UNION {SetToSeqs(S) : S \in SUBSET Item}

TypeOK ==
  /\ list \in Seq(Item) /\ IsInjective(list)
  /\ changes \in 0..MaxChanges
  /\ pc \in {"idle", "get", "done", "failed"}
  /\ wanted \in {Kept, Item}
  /\ url \in [page : Nat \ {0}, whole : BOOLEAN] \cup {NoUrl}
  /\ pc = "get" <=> url # NoUrl
  /\ items \in Seq(Item) /\ atStart \in Seq(Item) /\ listed \subseteq Item
  /\ changed \in BOOLEAN /\ removed \in BOOLEAN

Init ==
  /\ list \in Lists
  /\ changes = 0
  /\ pc = "idle" /\ wanted = Item /\ url = NoUrl /\ items = <<>>
  /\ atStart = <<>> /\ listed = {}
  /\ changed = FALSE /\ removed = FALSE

-----------------------------------------------------------------------------
(* GitHub. *)

Change ==
  /\ changes < MaxChanges
  /\ changes' = changes + 1
  /\ changed' = TRUE
  /\ \/ \E x \in Item \ ToSet(list), i \in 1..(Len(list) + 1) :
          /\ list' = InsertAt(list, i, x)
          /\ UNCHANGED removed
     \/ \E i \in 1..Len(list) :
          /\ list' = RemoveAt(list, i)
          /\ removed' = TRUE
  /\ listed' = listed \cup ToSet(list')
  /\ UNCHANGED <<pc, wanted, url, items, atStart>>

Pages == IF list = <<>> THEN 1 ELSE (Len(list) + PageSize - 1) \div PageSize

Places(p) == {i \in DOMAIN list : (p - 1) * PageSize < i /\ i <= p * PageSize}

Page(p) == {list[i] : i \in Places(p)}

Entries(p) ==
  (IF p > 1 THEN {<<"prev", p - 1>>, <<"first", 1>>} ELSE {}) \cup
  (IF p < Pages THEN {<<"next", p + 1>>, <<"last", Pages>>} ELSE {})

(* The Link headers of page p: the entries are there in some order, "next"  *)
(* before "last" as the comment on parseLinkNext shows them.                *)
LinkHeaders(p) ==
  {h \in SetToSeqs(Entries(p)) :
     \A i, j \in DOMAIN h : h[i][1] = "next" /\ h[j][1] = "last" => i < j}

-----------------------------------------------------------------------------
(* The client. *)

(* parseLinkNext: the entry with rel="next".  An entry that follows a comma *)
(* starts with a space, which Trim(urlPart, "<>") does not see through: the *)
(* "<" stays, and what is returned is no URL.                               *)
NextUrl(header) ==
  LET next == {i \in DOMAIN header : header[i][1] = "next"}
  IN  IF next = {} THEN NoUrl
      ELSE LET i == CHOOSE i \in next : TRUE
           IN  [page |-> header[i][2], whole |-> i = 1]

(* Mutant of FirstUrl: pages are counted from 0. *)
FirstUrlZero == [page |-> 0, whole |-> TRUE]

(* Without a page parameter GitHub answers with page 1. *)
FirstUrl == [page |-> 1, whole |-> TRUE]

(* Teams or TeamRepos is called. *)
Call ==
  /\ pc = "idle"
  /\ pc' = "get"
  /\ wanted' \in {Kept, Item}
  /\ url' = FirstUrl
  /\ items' = <<>>
  /\ atStart' = list /\ listed' = ToSet(list)
  /\ changed' = FALSE /\ removed' = FALSE
  /\ UNCHANGED <<list, changes>>

(* Mutants of Collected: only the last page is kept, or excluded teams too. *)
CollectedLast == SetToSeqs(Page(url.page) \cap wanted)

CollectedAll == {items \o page : page \in SetToSeqs(Page(url.page))}

(* The kept items of a page are appended.  Their order within the page is   *)
(* left open: the sort at the end forgets it.                               *)
Collected == {items \o kept : kept \in SetToSeqs(Page(url.page) \cap wanted)}

Rearranged(s) ==
  {[i \in DOMAIN s |-> s[perm[i]]] : perm \in Bijection(DOMAIN s, DOMAIN s)}

(* Mutant of Answer: the order of the pages is kept. *)
AnswerUnsorted(s) == {s}

(* sort.Slice and sort.Strings. *)
Answer(s) ==
  {t \in Rearranged(s) : \A i, j \in DOMAIN t : i < j => t[i] <= t[j]}

(* A page arrives; after the last one the items are sorted by name. *)
GetPage ==
  /\ pc = "get" /\ url.whole
  /\ \E header \in LinkHeaders(url.page) : url' = NextUrl(header)
  /\ \E all \in Collected :
       \/ url' # NoUrl /\ pc' = "get" /\ items' = all
       \/ url' = NoUrl /\ pc' = "done" /\ items' \in Answer(all)
  /\ UNCHANGED <<list, changes, wanted, history>>

(* Mutant of BadUrl: the error is skipped and the same URL tried again. *)
BadUrlIgnored ==
  /\ pc = "get" /\ ~url.whole
  /\ UNCHANGED vars

(* NewRequest refuses the URL. *)
BadUrl ==
  /\ pc = "get" /\ ~url.whole
  /\ pc' = "failed"
  /\ url' = NoUrl /\ items' = <<>>
  /\ UNCHANGED <<list, changes, wanted, history>>

(* Transport error or time-out, a status other than 200, a body that cannot *)
(* be decoded.                                                              *)
GetFails ==
  /\ pc = "get" /\ url.whole
  /\ pc' = "failed"
  /\ url' = NoUrl /\ items' = <<>>
  /\ UNCHANGED <<list, changes, wanted, history>>

(* The handler has taken the answer or the error. *)
Return ==
  /\ pc \in {"done", "failed"}
  /\ pc' = "idle"
  /\ items' = <<>>
  /\ UNCHANGED <<list, changes, wanted, url, history>>

Next == Change \/ Call \/ GetPage \/ BadUrl \/ GetFails \/ Return

Spec == Init /\ [][Next]_vars

(* Every request is answered, fails or times out (15 s). *)
FairSpec == Spec /\ WF_vars(GetPage \/ BadUrl \/ GetFails)

-----------------------------------------------------------------------------
(* A list that does not change while it is read is answered exactly: all of *)
(* its kept items, each once and in the order of their names, from however  *)
(* many pages (user_client.go:54-73,82-99).                                 *)
StillListIsExact ==
  pc = "done" /\ ~changed =>
    /\ ToSet(items) = ToSet(list) \cap wanted
    /\ \A i, j \in DOMAIN items : i < j => items[i] < items[j]

(* Additions during the call lose nothing: pages only shift towards the     *)
(* end, so an item may come twice but is not skipped.  Removals may skip    *)
(* one (the pages are numbered, user_client.go:51,79).                   *)
AdditionsLoseNothing ==
  pc = "done" /\ ~removed => ToSet(atStart) \cap wanted \subseteq ToSet(items)

(* Whatever changes meanwhile, nothing is answered that GitHub did not list *)
(* during the call, and no excluded or foreign team (user_client.go:64-68). *)
OnlyListedAndWanted ==
  pc \in {"get", "done"} => ToSet(items) \subseteq listed \cap wanted

(* A call ends, also with pages that shift: each URL is a later page.       *)
(* (user_client.go:54,82: the loops have no other bound.)                   *)
CallsEnd == pc = "get" ~> pc \in {"done", "failed"}

(* "parseLinkNext extracts the URL from a GitHub Link header's rel="next"   *)
(* entry." (audit_client.go:236)                                            *)
NextIsUrl == url # NoUrl => url.whole
=============================================================================
