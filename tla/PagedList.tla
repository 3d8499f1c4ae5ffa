------------------------------ MODULE PagedList ------------------------------
(***************************************************************************)
(* fetchAllPages (client.go), behind GetVSlots, GetKeys, FindKeys,         *)
(* FindKeyAliases and the two lists of async processes: the pages of a     *)
(* list are fetched one by one, and the list may change between two        *)
(* requests.                                                               *)
(*                                                                         *)
(* An item is the serial number of its creation.  The server numbers pages *)
(* from the state of the list at each request.                             *)
(***************************************************************************)
EXTENDS Naturals, Sequences, FiniteSets, SequencesExt

CONSTANTS
  PageSize,     \* the const pageSize
  MaxItems,     \* bound: items that ever exist
  Orders,       \* how the list is sorted: "newestFirst", "unsorted"
  Envelopes,    \* what pages say of themselves: "full", "noLast"
  Changes       \* what happens to the list meanwhile: "create", "delete"

ASSUME PagingOK ==
  /\ PageSize \in Nat \ {0}
  /\ MaxItems \in Nat
  /\ Orders \subseteq {"newestFirst", "unsorted"}
  /\ Envelopes \subseteq {"full", "noLast"}
  /\ Changes \subseteq {"create", "delete"}

VARIABLES
  order, envelope,   \* of the endpoint, fixed
  items,             \* the server's list
  created,           \* how many items ever existed
  pc,                \* "idle", "fetch", "done" or "failed"
  page,              \* the loop variable
  all,               \* the content accumulated so far
  atStart,           \* history: the list when the call began
  deleted            \* history: items deleted since

vars == <<order, envelope, items, created, pc, page, all, atStart, deleted>>

\* The items 1..n as the endpoint lists them.
Listing(n, o) ==
  [k \in 1 .. n |-> IF o = "newestFirst" THEN n + 1 - k ELSE k]

Init ==
  /\ order \in Orders
  /\ envelope \in Envelopes
  /\ created \in 0 .. MaxItems
  /\ items = Listing(created, order)
  /\ pc = "idle"
  /\ page = 0
  /\ all = <<>>
  /\ atStart = <<>>
  /\ deleted = {}

BeginAt(p) ==
  /\ pc = "idle"
  /\ pc' = "fetch"
  /\ page' = p
  /\ all' = <<>>
  /\ atStart' = items
  /\ deleted' = {}
  /\ UNCHANGED <<order, envelope, items, created>>

\* (wrong variant) Pages counted from 1.
BeginAtPageOne == BeginAt(1)

Begin == BeginAt(0)

-----------------------------------------------------------------------------
(* A page, as the server envelopes it.                                     *)

TotalPages == (Len(items) + PageSize - 1) \div PageSize

Content(p) == SubSeq(items, p * PageSize + 1,
                     IF (p + 1) * PageSize <= Len(items) THEN (p + 1) * PageSize ELSE Len(items))

\* A field that the server leaves out decodes to its zero value.
IsLast(p) == envelope = "full" /\ p + 1 >= TotalPages

-----------------------------------------------------------------------------
(* The loop.                                                               *)

\* (wrong variants) Off by one; only the envelope's last is trusted.
StopOnePageEarly(p) == IsLast(p) \/ Content(p) = <<>> \/ p + 2 >= TotalPages
StopOnLastOnly(p)   == IsLast(p)

\* page >= result.TotalPages-1, in int arithmetic.
Stop(p) == IsLast(p) \/ Content(p) = <<>> \/ p + 1 >= TotalPages

Fetch ==
  /\ pc = "fetch"
  /\ all' = all \o Content(page)
  /\ IF Stop(page)
       THEN pc' = "done" /\ page' = page
       ELSE pc' = pc /\ page' = page + 1
  /\ UNCHANGED <<order, envelope, items, created, atStart, deleted>>

\* An error of do() drops what was accumulated.
FetchFails ==
  /\ pc = "fetch"
  /\ pc' = "failed"
  /\ all' = <<>>
  /\ UNCHANGED <<order, envelope, items, created, page, atStart, deleted>>

Return ==
  /\ pc \in {"done", "failed"}
  /\ pc' = "idle"
  /\ UNCHANGED <<order, envelope, items, created, page, all, atStart, deleted>>

-----------------------------------------------------------------------------
(* Other clients of the server.                                            *)

\* A sorted listing shows a new item first, any other somewhere.
Create ==
  /\ "create" \in Changes
  /\ created < MaxItems
  /\ created' = created + 1
  /\ \E k \in 1 .. Len(items) + 1 :
       /\ order = "newestFirst" => k = 1
       /\ items' = InsertAt(items, k, created + 1)
  /\ UNCHANGED <<order, envelope, pc, page, all, atStart, deleted>>

Delete(k) ==
  /\ "delete" \in Changes
  /\ items' = RemoveAt(items, k)
  /\ deleted' = deleted \cup {items[k]}
  /\ UNCHANGED <<order, envelope, created, pc, page, all, atStart>>

Next ==
  \/ Begin \/ Fetch \/ FetchFails \/ Return
  \/ Create
  \/ \E k \in DOMAIN items : Delete(k)

Spec == Init /\ [][Next]_vars

-----------------------------------------------------------------------------
\* Every variable has its type; no page lies beyond one item per page.
TypeOK ==
  /\ order \in Orders /\ envelope \in Envelopes
  /\ items \in Seq(1 .. MaxItems) /\ all \in Seq(1 .. MaxItems)
  /\ atStart \in Seq(1 .. MaxItems)
  /\ created \in 0 .. MaxItems /\ deleted \subseteq 1 .. MaxItems
  /\ pc \in {"idle", "fetch", "done", "failed"}
  /\ page \in 0 .. MaxItems

(***************************************************************************)
(* A list that does not change while it is fetched (client.go:258) is      *)
(* returned exactly: every item once, in the server's order, also when it  *)
(* is empty or ends on a page boundary, with or without the "last" field.  *)
(***************************************************************************)
UnchangedListIsExact ==
  (pc = "done" /\ items = atStart /\ deleted = {}) => all = items

(***************************************************************************)
(* "List methods iterate every server page; callers always see the         *)
(* complete result" (SPEC.md:371): an item that was listed when the call   *)
(* began and was never deleted is in the result.                           *)
(***************************************************************************)
SurvivorsAreListed ==
  pc = "done" => Range(atStart) \ deleted \subseteq Range(all)

(***************************************************************************)
(* What becomes of SPEC.md:371 when items are deleted meanwhile: the items *)
(* behind a deleted one move up, and one of them may move from the next    *)
(* page to those already fetched (client.go:261).  Each deletion costs the *)
(* result that one item at most, whatever else happens to the list; with   *)
(* none, whatever is created, nothing is lost.                             *)
(***************************************************************************)
OneLostPerDeletion ==
  pc = "done" =>
    Cardinality((Range(atStart) \ deleted) \ Range(all)) <= Cardinality(deleted)

(***************************************************************************)
(* The loop ends (client.go:268): it asks for no page beyond those of the  *)
(* longest list there ever was, whatever happens to the list meanwhile.    *)
(***************************************************************************)
RequestsAreBounded ==
  pc = "fetch" => page * PageSize <= created
=============================================================================
