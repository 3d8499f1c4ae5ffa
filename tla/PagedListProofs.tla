-------------------------- MODULE PagedListProofs --------------------------
(***************************************************************************)
(* Proofs, for every page size and every list, of what fetchAllPages       *)
(* promises of a list that does not change, and of one that does.          *)
(***************************************************************************)
EXTENDS PagedList, CountingLemmas, SequenceTheorems, TLAPS

-----------------------------------------------------------------------------
(* Sequences and pages.                                                    *)

\* InsertAt shifts what follows by one.
LEMMA InsertProperties ==
  ASSUME NEW S, NEW s \in Seq(S), NEW k \in 1 .. Len(s) + 1, NEW e \in S
  PROVE  /\ InsertAt(s, k, e) \in Seq(S)
         /\ Len(InsertAt(s, k, e)) = Len(s) + 1
         /\ \A j \in 1 .. k - 1 : InsertAt(s, k, e)[j] = s[j]
         /\ InsertAt(s, k, e)[k] = e
         /\ \A j \in k + 1 .. Len(s) + 1 : InsertAt(s, k, e)[j] = s[j - 1]
PROOF
<1> DEFINE before == SubSeq(s, 1, k - 1)
           after  == SubSeq(s, k, Len(s))
           middle == <<e>>
<1>0. Len(s) \in Nat /\ k \in Nat /\ 1 <= k /\ k <= Len(s) + 1
  OBVIOUS
<1>1. /\ before \in Seq(S) /\ Len(before) = k - 1
      /\ \A j \in 1 .. k - 1 : before[j] = s[j]
  OBVIOUS
<1>2. /\ after \in Seq(S) /\ Len(after) = Len(s) - k + 1
      /\ \A j \in 1 .. Len(s) - k + 1 : after[j] = s[k - 1 + j]
  OBVIOUS
<1>3. middle \in Seq(S) /\ Len(middle) = 1 /\ middle[1] = e
  OBVIOUS
<1>4. InsertAt(s, k, e) = (before \o middle) \o after
  BY DEF InsertAt
<1> HIDE DEF before, after, middle
<1> DEFINE front == before \o middle
<1>5. /\ front \in Seq(S) /\ Len(front) = k
      /\ \A j \in 1 .. k : front[j] = IF j <= k - 1 THEN before[j] ELSE middle[j - (k - 1)]
  <2>1. Len(before) + Len(middle) = k
    BY <1>0, <1>1, <1>3
  <2>2. /\ front \in Seq(S) /\ Len(front) = Len(before) + Len(middle)
        /\ \A j \in 1 .. Len(before) + Len(middle) :
             front[j] = IF j <= Len(before) THEN before[j] ELSE middle[j - Len(before)]
    BY <1>1, <1>3, ConcatProperties
  <2> HIDE DEF front
  <2> QED BY <1>1, <2>1, <2>2
<1>6. \A j \in 1 .. k - 1 : front[j] = s[j]
  BY <1>0, <1>1, <1>5
<1>7. front[k] = e
  <2>1. k \in 1 .. k /\ ~(k <= k - 1) /\ k - (k - 1) = 1
    BY <1>0
  <2>2. front[k] = middle[k - (k - 1)]
    BY <1>5, <2>1
  <2> QED BY <1>3, <2>1, <2>2
<1> HIDE DEF front
<1>8. /\ front \o after \in Seq(S) /\ Len(front \o after) = Len(s) + 1
      /\ \A j \in 1 .. Len(s) + 1 : (front \o after)[j] = IF j <= k THEN front[j] ELSE after[j - k]
  <2>1. Len(front) + Len(after) = Len(s) + 1
    BY <1>0, <1>2, <1>5
  <2> QED BY <1>2, <1>5, <2>1, ConcatProperties
<1>9. InsertAt(s, k, e) = front \o after
  BY <1>4 DEF front
<1>10. ASSUME NEW j \in k + 1 .. Len(s) + 1 PROVE InsertAt(s, k, e)[j] = s[j - 1]
  <2>1. j - k \in 1 .. Len(s) - k + 1 /\ ~(j <= k) /\ j \in 1 .. Len(s) + 1
        /\ k - 1 + (j - k) = j - 1
    BY <1>0
  <2>2. after[j - k] = s[j - 1]
    BY <1>2, <2>1
  <2> QED BY <1>8, <1>9, <2>1, <2>2
<1> QED BY <1>0, <1>6, <1>7, <1>8, <1>9, <1>10

\* RemoveAt drops one item, and what follows moves up by one.
LEMMA RemoveProperties ==
  ASSUME NEW S, NEW s \in Seq(S), NEW k \in 1 .. Len(s)
  PROVE  /\ RemoveAt(s, k) \in Seq(S) /\ Len(RemoveAt(s, k)) = Len(s) - 1
         /\ \A j \in 1 .. k - 1 : RemoveAt(s, k)[j] = s[j]
         /\ \A j \in k .. Len(s) - 1 : RemoveAt(s, k)[j] = s[j + 1]
PROOF
<1> DEFINE before == SubSeq(s, 1, k - 1)
           after  == SubSeq(s, k + 1, Len(s))
<1>0. Len(s) \in Nat /\ k \in Nat /\ 1 <= k /\ k <= Len(s)
  OBVIOUS
<1>1. /\ before \in Seq(S) /\ Len(before) = k - 1
      /\ \A j \in 1 .. k - 1 : before[j] = s[j]
  OBVIOUS
<1>2. /\ after \in Seq(S) /\ Len(after) = Len(s) - k
      /\ \A j \in 1 .. Len(s) - k : after[j] = s[k + j]
  OBVIOUS
<1>3. RemoveAt(s, k) = before \o after
  BY DEF RemoveAt
<1> HIDE DEF before, after
<1> DEFINE rest == before \o after
<1>4. /\ rest \in Seq(S) /\ Len(rest) = Len(s) - 1
      /\ \A j \in 1 .. Len(s) - 1 :
           rest[j] = IF j <= k - 1 THEN before[j] ELSE after[j - (k - 1)]
  <2>1. Len(before) + Len(after) = Len(s) - 1
    BY <1>0, <1>1, <1>2
  <2>2. /\ rest \in Seq(S) /\ Len(rest) = Len(before) + Len(after)
        /\ \A j \in 1 .. Len(before) + Len(after) :
             rest[j] = IF j <= Len(before) THEN before[j] ELSE after[j - Len(before)]
    BY <1>1, <1>2, ConcatProperties
  <2> HIDE DEF rest
  <2> QED BY <1>1, <2>1, <2>2
<1>5. ASSUME NEW j \in k .. Len(s) - 1 PROVE RemoveAt(s, k)[j] = s[j + 1]
  <2>1. /\ j - (k - 1) \in 1 .. Len(s) - k /\ ~(j <= k - 1) /\ j \in 1 .. Len(s) - 1
        /\ k + (j - (k - 1)) = j + 1
    BY <1>0
  <2>2. after[j - (k - 1)] = s[j + 1]
    BY <1>2, <2>1
  <2> QED BY <1>3, <1>4, <2>1, <2>2
<1>6. ASSUME NEW j \in 1 .. k - 1 PROVE RemoveAt(s, k)[j] = s[j]
  <2>1. j \in 1 .. Len(s) - 1 /\ j <= k - 1
    BY <1>0
  <2> QED BY <1>1, <1>3, <1>4, <2>1
<1> QED BY <1>3, <1>4, <1>5, <1>6

\* The number of pages: page p is followed by another one iff the list is
\* longer than p + 1 pages.
LEMMA PageCount ==
  ASSUME NEW n \in Nat, NEW d \in Nat \ {0}, NEW p \in Nat
  PROVE  /\ (n + d - 1) \div d \in Nat
         /\ p * d \in Nat /\ (p + 1) * d = p * d + d
         /\ p + 1 >= (n + d - 1) \div d => n <= p * d + d
         /\ p + 1 < (n + d - 1) \div d => p * d + d < n
PROOF
<1>1. p * d \in Nat /\ (p + 1) * d = p * d + d /\ (n + d - 1) \div d \in Nat
  OBVIOUS
<1>2. p + 1 >= (n + d - 1) \div d => n <= (p + 1) * d
  OBVIOUS
<1>3. p + 1 < (n + d - 1) \div d => (p + 1) * d < n
  OBVIOUS
<1> QED BY <1>1, <1>2, <1>3

\* A page holds the items of its positions, and a list ends on its last page.
LEMMA PageProperties ==
  ASSUME TypeOK, NEW p \in Nat
  PROVE  /\ p * PageSize \in Nat /\ (p + 1) * PageSize = p * PageSize + PageSize
         /\ Content(p) \in Seq(1 .. MaxItems)
         /\ Len(Content(p)) = IF p * PageSize >= Len(items) THEN 0
                              ELSE IF (p + 1) * PageSize <= Len(items) THEN PageSize
                              ELSE Len(items) - p * PageSize
         /\ \A j \in 1 .. Len(Content(p)) : Content(p)[j] = items[p * PageSize + j]
         /\ Stop(p) => Len(items) <= (p + 1) * PageSize
         /\ ~Stop(p) => (p + 1) * PageSize < Len(items)
PROOF
<1> USE PagingOK DEF PagingOK
<1>0. items \in Seq(1 .. MaxItems) /\ Len(items) \in Nat /\ PageSize \in Nat \ {0}
  BY DEF TypeOK
<1> DEFINE low  == p * PageSize
           high == IF low + PageSize <= Len(items) THEN low + PageSize ELSE Len(items)
<1>1. /\ low \in Nat /\ (p + 1) * PageSize = low + PageSize /\ TotalPages \in Nat
      /\ p + 1 >= TotalPages => Len(items) <= low + PageSize
      /\ p + 1 < TotalPages => low + PageSize < Len(items)
  BY <1>0, PageCount DEF TotalPages
<1>2. Content(p) = SubSeq(items, low + 1, high)
  BY <1>1 DEF Content
<1> HIDE DEF low
<1>3. high \in Nat /\ high <= Len(items) /\ low + 1 \in Nat
  BY <1>0, <1>1
<1> HIDE DEF high
<1>4. \A i \in low + 1 .. high : items[i] \in 1 .. MaxItems
  BY <1>0, <1>1, <1>3
<1>5. /\ Content(p) \in Seq(1 .. MaxItems)
      /\ Len(Content(p)) = IF low + 1 <= high THEN high - (low + 1) + 1 ELSE 0
      /\ \A i \in 1 .. high - (low + 1) + 1 : Content(p)[i] = items[low + 1 + i - 1]
  BY <1>2, <1>3, <1>4, SubSeqProperties
<1>6. Len(Content(p)) = IF low >= Len(items) THEN 0
                        ELSE IF low + PageSize <= Len(items) THEN PageSize
                        ELSE Len(items) - low
  BY <1>0, <1>1, <1>5 DEF high
<1>7. ASSUME NEW j \in 1 .. Len(Content(p)) PROVE Content(p)[j] = items[low + j]
  <2>1. j \in 1 .. high - (low + 1) + 1 /\ low + 1 + j - 1 = low + j
    BY <1>1, <1>3, <1>5
  <2> QED BY <1>5, <2>1
<1>8. Content(p) = <<>> => Len(items) <= low + PageSize
  <2>1. Content(p) = <<>> => Len(Content(p)) = 0
    OBVIOUS
  <2> QED BY <1>0, <1>1, <1>6, <2>1
<1>9. Stop(p) => Len(items) <= low + PageSize
  BY <1>1, <1>8 DEF Stop, IsLast
<1>10. ~Stop(p) => low + PageSize < Len(items)
  BY <1>1 DEF Stop
<1> QED BY <1>1, <1>5, <1>6, <1>7, <1>9, <1>10 DEF low

-----------------------------------------------------------------------------
(* The inductive invariant.                                                *)

\* The list holds existing items, and no page beyond its longest is asked for.
BoundInv ==
  /\ items \in Seq(1 .. created)
  /\ Len(items) <= created
  /\ page * PageSize <= created

\* A list that was not changed has been fetched up to the page asked for.
UnchangedInv ==
  deleted = {} =>
    /\ Len(atStart) <= Len(items)
    /\ pc = "fetch" /\ items = atStart =>
         /\ Len(all) = page * PageSize
         /\ page * PageSize <= Len(items)
         /\ \A j \in 1 .. Len(all) : all[j] = items[j]
    /\ pc = "done" /\ items = atStart => all = items

IInv == TypeOK /\ BoundInv /\ UnchangedInv

\* IInv holds initially.
LEMMA InvInit == Init => IInv
PROOF
<1> SUFFICES ASSUME Init PROVE IInv
  OBVIOUS
<1> USE PagingOK DEF PagingOK, Init
<1>1. created \in Nat /\ created <= MaxItems /\ 0 * PageSize = 0 /\ MaxItems \in Nat
  OBVIOUS
<1>2. items \in Seq(1 .. created) /\ Len(items) = created
  <2>1. items = [k \in 1 .. created |-> IF order = "newestFirst" THEN created + 1 - k ELSE k]
    BY DEF Listing
  <2> QED BY <1>1, <2>1
<1>3. items \in Seq(1 .. MaxItems)
  BY <1>1, <1>2
<1>4. <<>> \in Seq(1 .. MaxItems) /\ <<>> \in Seq(1 .. created) /\ Len(<<>>) = 0
  OBVIOUS
<1>5. TypeOK
  BY <1>1, <1>3, <1>4 DEF TypeOK
<1>6. BoundInv
  BY <1>1, <1>2 DEF BoundInv
<1>7. UnchangedInv
  BY <1>1, <1>2, <1>4 DEF UnchangedInv
<1> QED BY <1>5, <1>6, <1>7 DEF IInv

\* A call begins with the list as it is, and has fetched nothing.
LEMMA BeginStep == IInv /\ Begin => IInv'
PROOF
<1> SUFFICES ASSUME IInv, Begin PROVE IInv'
  OBVIOUS
<1> USE PagingOK DEF PagingOK, IInv, Begin, BeginAt
<1>1. /\ 0 * PageSize = 0 /\ Len(items) \in Nat /\ created \in 0 .. MaxItems
      /\ items \in Seq(1 .. MaxItems) /\ Len(<<>>) = 0
  BY DEF TypeOK
<1>2. TypeOK'
  BY <1>1 DEF TypeOK
<1>3. BoundInv'
  BY <1>1 DEF BoundInv, TypeOK
<1>4. UnchangedInv'
  BY <1>1 DEF UnchangedInv
<1> QED BY <1>2, <1>3, <1>4

\* The steps that change neither the list nor what was fetched of it.
LEMMA ReturnStep == IInv /\ (FetchFails \/ Return \/ UNCHANGED vars) => IInv'
PROOF
<1> SUFFICES ASSUME IInv, FetchFails \/ Return \/ UNCHANGED vars PROVE IInv'
  OBVIOUS
<1>1. /\ UNCHANGED <<order, envelope, items, created, page, atStart, deleted>>
      /\ \/ pc' = "failed" /\ all' = <<>>
         \/ pc' = "idle" /\ all' = all
         \/ pc' = pc /\ all' = all
  BY DEF FetchFails, Return, vars
<1>s. <<>> \in Seq(1 .. MaxItems)
  OBVIOUS
<1>2. TypeOK'
  <2>1. all' \in Seq(1 .. MaxItems) /\ pc' \in {"idle", "fetch", "done", "failed"}
    BY <1>1, <1>s DEF IInv, TypeOK
  <2> QED BY <1>1, <2>1 DEF IInv, TypeOK
<1>3. BoundInv' /\ UnchangedInv'
  BY <1>1 DEF IInv, BoundInv, UnchangedInv
<1> QED BY <1>2, <1>3 DEF IInv

\* A deletion ends what is promised of the call.
LEMMA DeleteStep == ASSUME IInv, NEW k \in DOMAIN items, Delete(k) PROVE IInv'
PROOF
<1>1. /\ items \in Seq(1 .. MaxItems) /\ items \in Seq(1 .. created) /\ k \in 1 .. Len(items)
      /\ Len(items) \in Nat /\ created \in Nat /\ items[k] \in 1 .. MaxItems
  <2>1. /\ items \in Seq(1 .. MaxItems) /\ items \in Seq(1 .. created) /\ created \in Nat
    BY PagingOK DEF PagingOK, IInv, TypeOK, BoundInv
  <2>2. k \in 1 .. Len(items) /\ Len(items) \in Nat
    BY <2>1
  <2> QED BY <2>1, <2>2, ElementOfSeq
<1>2. items' = RemoveAt(items, k) /\ deleted' = deleted \cup {items[k]}
      /\ UNCHANGED <<order, envelope, created, pc, page, all, atStart>>
  BY DEF Delete
<1>3. items' \in Seq(1 .. MaxItems) /\ items' \in Seq(1 .. created) /\ Len(items') = Len(items) - 1
  BY <1>1, <1>2, RemoveProperties
<1>4. TypeOK'
  BY <1>1, <1>2, <1>3 DEF IInv, TypeOK
<1>5. BoundInv'
  BY <1>1, <1>2, <1>3 DEF IInv, BoundInv
<1>6. UnchangedInv'
  BY <1>2 DEF UnchangedInv
<1> QED BY <1>4, <1>5, <1>6 DEF IInv

\* A creation puts a new item somewhere, and what follows moves back by one.
LEMMA CreateShifts ==
  ASSUME IInv, Create
  PROVE  /\ items \in Seq(1 .. MaxItems) /\ items \in Seq(1 .. created)
         /\ Len(items) \in Nat /\ Len(items) <= created /\ created \in Nat
         /\ created + 1 <= MaxItems /\ MaxItems \in Nat
         /\ created' = created + 1
         /\ UNCHANGED <<order, envelope, pc, page, all, atStart, deleted>>
         /\ items' \in Seq(1 .. MaxItems) /\ items' \in Seq(1 .. created')
         /\ Len(items') = Len(items) + 1
         /\ \E k \in 1 .. Len(items) + 1 :
              /\ \A j \in 1 .. k - 1 : items'[j] = items[j]
              /\ items'[k] = created + 1
              /\ \A j \in k + 1 .. Len(items) + 1 : items'[j] = items[j - 1]
PROOF
<1> USE PagingOK DEF PagingOK
<1>1. /\ items \in Seq(1 .. MaxItems) /\ items \in Seq(1 .. created)
      /\ Len(items) \in Nat /\ Len(items) <= created /\ created \in Nat
      /\ created + 1 <= MaxItems /\ MaxItems \in Nat
  BY DEF IInv, TypeOK, BoundInv, Create
<1>2. PICK k \in 1 .. Len(items) + 1 : items' = InsertAt(items, k, created + 1)
  BY DEF Create
<1>3. created' = created + 1 /\ UNCHANGED <<order, envelope, pc, page, all, atStart, deleted>>
  BY DEF Create
<1>4. /\ Len(items') = Len(items) + 1
      /\ \A j \in 1 .. k - 1 : items'[j] = items[j]
      /\ items'[k] = created + 1
      /\ \A j \in k + 1 .. Len(items) + 1 : items'[j] = items[j - 1]
      /\ items' \in Seq(1 .. MaxItems) /\ items' \in Seq(1 .. created')
  <2>1. /\ items \in Seq(1 .. created + 1) /\ created + 1 \in 1 .. created + 1
        /\ created + 1 \in 1 .. MaxItems
    BY <1>1
  <2>2. items' \in Seq(1 .. MaxItems)
    BY <1>1, <1>2, <2>1, InsertProperties
  <2> DEFINE S == 1 .. created + 1
  <2>3. items \in Seq(S) /\ created + 1 \in S
    BY <2>1
  <2> HIDE DEF S
  <2> DEFINE s == InsertAt(items, k, created + 1)
  <2>a. /\ s \in Seq(S) /\ Len(s) = Len(items) + 1
        /\ \A j \in 1 .. k - 1 : s[j] = items[j]
        /\ s[k] = created + 1
        /\ \A j \in k + 1 .. Len(items) + 1 : s[j] = items[j - 1]
    BY <2>3, InsertProperties
  <2>b. items' = s
    BY <1>2
  <2> HIDE DEF s
  <2>4. /\ items' \in Seq(S) /\ Len(items') = Len(items) + 1
        /\ \A j \in 1 .. k - 1 : items'[j] = items[j]
        /\ items'[k] = created + 1
        /\ \A j \in k + 1 .. Len(items) + 1 : items'[j] = items[j - 1]
    BY <2>a, <2>b
  <2> QED BY <1>3, <2>2, <2>4 DEF S
<1> QED BY <1>1, <1>3, <1>4

\* A creation shifts items to later pages, never to an earlier one.
LEMMA CreateStep == IInv /\ Create => IInv'
PROOF
<1> SUFFICES ASSUME IInv, Create PROVE IInv'
  OBVIOUS
<1> USE PagingOK DEF PagingOK
<1>1. /\ items \in Seq(1 .. MaxItems) /\ items \in Seq(1 .. created)
      /\ Len(items) \in Nat /\ Len(items) <= created /\ created \in Nat
      /\ created + 1 <= MaxItems /\ MaxItems \in Nat
  BY CreateShifts
<1>2. PICK k \in 1 .. Len(items) + 1 :
         /\ \A j \in 1 .. k - 1 : items'[j] = items[j]
         /\ items'[k] = created + 1
         /\ \A j \in k + 1 .. Len(items) + 1 : items'[j] = items[j - 1]
  BY CreateShifts
<1>3. created' = created + 1 /\ UNCHANGED <<order, envelope, pc, page, all, atStart, deleted>>
  BY CreateShifts
<1>4. /\ Len(items') = Len(items) + 1
      /\ \A j \in 1 .. k - 1 : items'[j] = items[j]
      /\ items'[k] = created + 1
      /\ \A j \in k + 1 .. Len(items) + 1 : items'[j] = items[j - 1]
      /\ items' \in Seq(1 .. MaxItems) /\ items' \in Seq(1 .. created')
  BY <1>2, CreateShifts
<1>5. TypeOK'
  BY <1>1, <1>3, <1>4 DEF IInv, TypeOK
<1>6. BoundInv'
  <2>1. page * PageSize \in Nat /\ page * PageSize <= created
    BY DEF IInv, TypeOK, BoundInv
  <2> QED BY <1>1, <1>3, <1>4, <2>1 DEF BoundInv
<1>7. UnchangedInv'
  <2> SUFFICES ASSUME deleted = {}
               PROVE  Len(atStart) <= Len(items') /\ items' # atStart
    BY <1>3 DEF UnchangedInv
  <2>1. Len(atStart) <= Len(items) /\ Len(atStart) \in Nat
    BY DEF IInv, UnchangedInv, TypeOK
  <2>2. Len(atStart) < Len(items')
    BY <1>1, <1>4, <2>1
  <2> QED BY <1>1, <1>4, <2>1, <2>2
<1> QED BY <1>5, <1>6, <1>7 DEF IInv

\* A page is no later than the first item it could hold.
LEMMA PageBound ==
  ASSUME NEW p \in Nat, NEW d \in Nat \ {0}, NEW n \in Nat, p * d <= n
  PROVE  p <= n
PROOF
  OBVIOUS

\* A page is appended: a list that did not change has then been fetched up to
\* the next page, or up to its end.
LEMMA FetchStep == IInv /\ Fetch => IInv'
PROOF
<1> SUFFICES ASSUME IInv, Fetch PROVE IInv'
  OBVIOUS
<1> USE PagingOK DEF PagingOK
<1> DEFINE C == Content(page)
           from == page * PageSize
           to == (page + 1) * PageSize
<1>1. /\ page \in Nat /\ Len(items) \in Nat /\ items \in Seq(1 .. MaxItems)
      /\ all \in Seq(1 .. MaxItems) /\ Len(all) \in Nat /\ PageSize \in Nat \ {0}
      /\ created \in Nat /\ created <= MaxItems /\ Len(items) <= created /\ pc = "fetch"
      /\ atStart \in Seq(1 .. MaxItems)
  BY DEF IInv, TypeOK, BoundInv, Fetch
<1>2. /\ all' = all \o C
      /\ \/ Stop(page) /\ pc' = "done" /\ page' = page
         \/ ~Stop(page) /\ pc' = "fetch" /\ page' = page + 1
      /\ UNCHANGED <<order, envelope, items, created, atStart, deleted>>
  BY <1>1 DEF Fetch
<1>3. /\ from \in Nat /\ to = from + PageSize /\ C \in Seq(1 .. MaxItems)
      /\ Len(C) = IF from >= Len(items) THEN 0
                  ELSE IF to <= Len(items) THEN PageSize ELSE Len(items) - from
      /\ \A j \in 1 .. Len(C) : C[j] = items[from + j]
      /\ Stop(page) => Len(items) <= to
      /\ ~Stop(page) => to < Len(items)
  BY <1>1, PageProperties DEF IInv
<1>4. from <= created
  BY DEF IInv, BoundInv
<1>5. /\ all' \in Seq(1 .. MaxItems) /\ Len(all') = Len(all) + Len(C)
      /\ \A j \in 1 .. Len(all) + Len(C) :
           all'[j] = IF j <= Len(all) THEN all[j] ELSE C[j - Len(all)]
  <2> HIDE DEF C
  <2>1. all \in Seq(1 .. MaxItems) /\ C \in Seq(1 .. MaxItems) /\ all' = all \o C
    BY <1>1, <1>2, <1>3
  <2> QED BY <2>1, ConcatProperties
<1>p. page' * PageSize = IF Stop(page) THEN from ELSE to
  BY <1>2
<1>l. Len(C) \in Nat
  BY <1>3
<1> HIDE DEF C, from, to
<1>6. BoundInv'
  <2>1. page' * PageSize <= created
    BY <1>1, <1>3, <1>4, <1>p
  <2> QED BY <1>2, <2>1 DEF IInv, BoundInv
<1>7. TypeOK'
  <2>1. page' \in Nat /\ page' * PageSize <= created
    BY <1>1, <1>2, <1>6 DEF BoundInv
  <2>2. page' \in 0 .. MaxItems
    <3>1. PICK p \in Nat : p = page' /\ p * PageSize <= created
      BY <2>1
    <3>2. p <= created
      BY <1>1, <3>1, PageBound
    <3> QED BY <1>1, <3>1, <3>2
  <2> QED BY <1>2, <1>5, <2>2 DEF IInv, TypeOK
<1>8. UnchangedInv'
  <2> SUFFICES ASSUME deleted = {}
               PROVE  /\ Len(atStart) <= Len(items)
                      /\ pc' = "fetch" /\ items = atStart =>
                           /\ Len(all') = page' * PageSize
                           /\ page' * PageSize <= Len(items)
                           /\ \A j \in 1 .. Len(all') : all'[j] = items[j]
                      /\ pc' = "done" /\ items = atStart => all' = items
    BY <1>2 DEF UnchangedInv
  <2>1. Len(atStart) <= Len(items)
    BY DEF IInv, UnchangedInv
  <2>2. ASSUME items = atStart
        PROVE  /\ Len(all) = from /\ from <= Len(items)
               /\ \A j \in 1 .. Len(all') : all'[j] = items[j]
    <3>1. /\ Len(all) = from /\ from <= Len(items)
          /\ \A j \in 1 .. Len(all) : all[j] = items[j]
      BY <1>1, <2>2 DEF IInv, UnchangedInv, from
    <3>2. ASSUME NEW j \in 1 .. Len(all') PROVE all'[j] = items[j]
      <4>1. CASE j <= Len(all)
        <5>1. j \in 1 .. Len(all) /\ j \in 1 .. Len(all) + Len(C)
          BY <1>1, <1>5, <4>1
        <5> QED BY <1>5, <3>1, <4>1, <5>1
      <4>2. CASE ~(j <= Len(all))
        <5>1. /\ j - Len(all) \in 1 .. Len(C) /\ from + (j - Len(all)) = j
              /\ j \in 1 .. Len(all) + Len(C)
          BY <1>1, <1>3, <1>5, <1>l, <3>1, <4>2
        <5>2. C[j - Len(all)] = items[j]
          BY <1>3, <5>1
        <5> QED BY <1>5, <4>2, <5>1, <5>2
      <4> QED BY <4>1, <4>2
    <3> QED BY <3>1, <3>2
  <2>3. ASSUME ~Stop(page), items = atStart
        PROVE  Len(all') = to /\ to <= Len(items)
    <3>1. from < Len(items) /\ to <= Len(items) /\ to = from + PageSize
      BY <1>1, <1>3, <2>3
    <3>2. Len(C) = PageSize
      BY <1>1, <1>3, <3>1
    <3> QED BY <1>5, <2>2, <2>3, <3>1, <3>2
  <2>4. ASSUME Stop(page), items = atStart PROVE all' = items
    <3>0. Len(all) = from /\ from <= Len(items) /\ Len(items) <= to /\ to = from + PageSize
      BY <1>3, <2>2, <2>4
    <3>a. Len(C) = Len(items) - from
      BY <1>1, <1>3, <3>0
    <3>b. Len(all') = Len(all) + Len(C)
      BY <1>5
    <3>c. from + (Len(items) - from) = Len(items)
      BY <1>1, <1>3
    <3>1. Len(all') = Len(items)
      BY <3>0, <3>a, <3>b, <3>c
    <3> QED BY <1>1, <1>5, <2>2, <2>4, <3>1, SeqEqual
  <2> QED BY <1>2, <1>p, <2>1, <2>2, <2>3, <2>4
<1> QED BY <1>6, <1>7, <1>8 DEF IInv

\* IInv holds in every reachable state.
LEMMA Inductive == Spec => []IInv
PROOF
<1>1. IInv /\ [Next]_vars => IInv'
  BY BeginStep, FetchStep, ReturnStep, CreateStep, DeleteStep DEF Next
<1> QED BY <1>1, InvInit, PTL DEF Spec

-----------------------------------------------------------------------------
(* What deletions cost.                                                    *)

\* No item is listed twice, and a deleted one no more.
ListedInv ==
  /\ \A i, j \in 1 .. Len(items) : items[i] = items[j] => i = j
  /\ \A j \in 1 .. Len(items) : items[j] \notin deleted
  /\ deleted \subseteq 1 .. created

\* The survivors that no page brought and no later page will bring.
Survivors == Range(atStart) \ deleted
Missed == {x \in Survivors \ Range(all) :
             \A j \in 1 .. Len(items) : j > page * PageSize => items[j] # x}

LossInv ==
  /\ ListedInv
  /\ pc = "fetch" => Cardinality(Missed) <= Cardinality(deleted)
  /\ OneLostPerDeletion

\* The sets counted are finite.
LEMMA CountedItems ==
  ASSUME TypeOK
  PROVE  IsFiniteSet(deleted) /\ IsFiniteSet(Survivors) /\ IsFiniteSet(Missed)
PROOF
<1>1. IsFiniteSet(1 .. MaxItems)
  BY PagingOK, FS_Interval DEF PagingOK
<1>2. Range(atStart) \subseteq 1 .. MaxItems /\ deleted \subseteq 1 .. MaxItems
  BY RangeOfSeq DEF TypeOK
<1>3. Survivors \subseteq 1 .. MaxItems /\ Missed \subseteq 1 .. MaxItems
  BY <1>2 DEF Survivors, Missed
<1> QED BY <1>1, <1>2, <1>3, MoreElements

\* A call begins with nothing missed, on a list with nothing deleted.
LEMMA LossBegin == IInv /\ LossInv /\ Begin => LossInv'
PROOF
<1> SUFFICES ASSUME IInv, LossInv, Begin PROVE LossInv'
  OBVIOUS
<1>1. /\ pc' = "fetch" /\ page' = 0 /\ atStart' = items /\ deleted' = {} /\ items' = items
      /\ created' = created
  BY DEF Begin, BeginAt
<1>2. items \in Seq(1 .. MaxItems) /\ 0 * PageSize = 0
  BY PagingOK DEF IInv, TypeOK, PagingOK
<1>3. Missed' = {}
  <2> SUFFICES ASSUME NEW x \in Missed' PROVE FALSE
    OBVIOUS
  <2>1. PICK j \in 1 .. Len(items) : items[j] = x
    BY <1>1, <1>2 DEF Missed, Survivors, Range
  <2> QED BY <1>1, <1>2, <2>1 DEF Missed
<1>4. Cardinality(Missed') <= Cardinality(deleted')
  BY <1>1, <1>3, FS_EmptySet
<1> QED BY <1>1, <1>4 DEF LossInv, ListedInv, OneLostPerDeletion

\* A page appended: what it holds is not missed.
LEMMA LossFetch == IInv /\ LossInv /\ Fetch => LossInv'
PROOF
<1> SUFFICES ASSUME IInv, LossInv, Fetch PROVE LossInv'
  OBVIOUS
<1> DEFINE C == Content(page)
           from == page * PageSize
           to == (page + 1) * PageSize
<1>1. /\ page \in Nat /\ Len(items) \in Nat /\ PageSize \in Nat \ {0}
      /\ all \in Seq(1 .. MaxItems) /\ C \in Seq(1 .. MaxItems) /\ pc = "fetch"
  BY PagingOK, PageProperties DEF PagingOK, IInv, TypeOK, Fetch
<1>2. /\ all' = all \o C
      /\ \/ Stop(page) /\ pc' = "done" /\ page' = page
         \/ ~Stop(page) /\ pc' = "fetch" /\ page' = page + 1
      /\ UNCHANGED <<items, created, atStart, deleted>>
  BY <1>1 DEF Fetch
<1>3. /\ from \in Nat /\ to = from + PageSize
      /\ Len(C) = IF from >= Len(items) THEN 0
                  ELSE IF to <= Len(items) THEN PageSize ELSE Len(items) - from
      /\ \A j \in 1 .. Len(C) : C[j] = items[from + j]
      /\ Stop(page) => Len(items) <= to
  BY <1>1, PageProperties DEF IInv
<1>4. Range(all) \subseteq Range(all') /\ Range(C) \subseteq Range(all')
  BY <1>1, <1>2, RangeConcatenation
<1>5. page' * PageSize = IF Stop(page) THEN from ELSE to
  BY <1>2
<1> HIDE DEF C, from, to
<1>6. ASSUME NEW j \in 1 .. Len(items), from < j, j <= to PROVE items[j] \in Range(all')
  <2>1. Len(C) = IF to <= Len(items) THEN PageSize ELSE Len(items) - from
    BY <1>1, <1>3, <1>6
  <2>2. j - from \in 1 .. Len(C) /\ from + (j - from) = j
    BY <1>1, <1>3, <1>6, <2>1
  <2>3. C[j - from] = items[j] /\ j - from \in DOMAIN C
    BY <1>1, <1>3, <2>2
  <2> QED BY <1>4, <2>3 DEF Range
<1>7. Survivors' = Survivors
  BY <1>2 DEF Survivors
<1>8. ASSUME NEW x \in Survivors \ Range(all'),
             \A j \in 1 .. Len(items) : j > to => items[j] # x
      PROVE  x \in Missed
  <2>1. x \notin Range(all)
    BY <1>4, <1>8
  <2>2. ASSUME NEW j \in 1 .. Len(items), j > from PROVE items[j] # x
    BY <1>1, <1>3, <1>6, <1>8, <2>2
  <2> QED BY <1>8, <2>1, <2>2 DEF Missed, from
<1>9. Cardinality(Missed) <= Cardinality(deleted)
  BY <1>1 DEF LossInv
<1>10. /\ Cardinality(Missed) \in Nat /\ Cardinality(deleted) \in Nat
       /\ \A S : S \subseteq Missed =>
            Cardinality(S) \in Nat /\ Cardinality(S) <= Cardinality(Missed)
  BY CountedItems, MoreElements, FS_CardinalityType DEF IInv
<1>11. CASE Stop(page)
  <2>1. Survivors' \ Range(all') \subseteq Missed
    BY <1>1, <1>3, <1>7, <1>8, <1>11
  <2>2. Cardinality(Survivors' \ Range(all')) <= Cardinality(deleted')
    BY <1>2, <1>9, <1>10, <2>1
  <2> QED BY <1>2, <1>11, <2>2 DEF LossInv, ListedInv, OneLostPerDeletion, Survivors
<1>12. CASE ~Stop(page)
  <2>1. Missed' \subseteq Missed
    BY <1>2, <1>5, <1>7, <1>8, <1>12 DEF Missed
  <2>2. Cardinality(Missed') <= Cardinality(deleted')
    BY <1>2, <1>9, <1>10, <2>1
  <2> QED BY <1>2, <1>12, <2>2 DEF LossInv, ListedInv, OneLostPerDeletion
<1> QED BY <1>11, <1>12

\* A creation moves no item to a page already fetched.
LEMMA LossCreate == IInv /\ LossInv /\ Create => LossInv'
PROOF
<1> SUFFICES ASSUME IInv, LossInv, Create PROVE LossInv'
  OBVIOUS
<1>1. /\ items \in Seq(1 .. created) /\ Len(items) \in Nat /\ created \in Nat
      /\ Len(items') = Len(items) + 1
      /\ UNCHANGED <<pc, page, all, atStart, deleted>>
  BY CreateShifts
<1>2. PICK k \in 1 .. Len(items) + 1 :
         /\ \A j \in 1 .. k - 1 : items'[j] = items[j]
         /\ items'[k] = created + 1
         /\ \A j \in k + 1 .. Len(items) + 1 : items'[j] = items[j - 1]
  BY CreateShifts
<1>3. \A j \in 1 .. Len(items) : items[j] # created + 1
  <2>1. \A j \in 1 .. Len(items) : items[j] \in 1 .. created
    BY <1>1, ElementOfSeq
  <2> QED BY <1>1, <2>1
<1>4. ASSUME NEW j \in 1 .. Len(items')
      PROVE  \/ j = k /\ items'[j] = created + 1
             \/ j < k /\ j \in 1 .. Len(items) /\ items'[j] = items[j]
             \/ j > k /\ j - 1 \in 1 .. Len(items) /\ items'[j] = items[j - 1]
  BY <1>1, <1>2
<1>5. created + 1 \notin deleted /\ deleted \subseteq 1 .. created'
  BY <1>1, CreateShifts DEF LossInv, ListedInv
<1>6. ListedInv'
  <2>1. ASSUME NEW i \in 1 .. Len(items'), NEW j \in 1 .. Len(items'), items'[i] = items'[j]
        PROVE  i = j
    <3>1. CASE i = k \/ j = k
      BY <1>3, <1>4, <2>1, <3>1
    <3>2. CASE i < k /\ j < k
      BY <1>4, <2>1, <3>2 DEF LossInv, ListedInv
    <3>3. CASE i > k /\ j > k
      <4>1. i - 1 = j - 1
        BY <1>4, <2>1, <3>3 DEF LossInv, ListedInv
      <4> QED BY <4>1
    <3>4. CASE i < k /\ j > k
      <4>1. i = j - 1
        BY <1>4, <2>1, <3>4 DEF LossInv, ListedInv
      <4> QED BY <3>4, <4>1
    <3>5. CASE i > k /\ j < k
      <4>1. i - 1 = j
        BY <1>4, <2>1, <3>5 DEF LossInv, ListedInv
      <4> QED BY <3>5, <4>1
    <3> QED BY <3>1, <3>2, <3>3, <3>4, <3>5
  <2>2. ASSUME NEW j \in 1 .. Len(items') PROVE items'[j] \notin deleted
    BY <1>4, <1>5 DEF LossInv, ListedInv
  <2> QED BY <1>1, <1>5, <2>1, <2>2 DEF ListedInv
<1>7. Missed' \subseteq Missed
  <2> SUFFICES ASSUME NEW x \in Missed', NEW j \in 1 .. Len(items), j > page * PageSize, items[j] = x
               PROVE  FALSE
    BY <1>1 DEF Missed, Survivors
  <2>1. /\ page * PageSize \in Nat
        /\ \A i \in 1 .. Len(items') : i > page * PageSize => items'[i] # x
    BY <1>1, PagingOK DEF Missed, PagingOK, IInv, TypeOK
  <2>2. CASE j < k
    BY <1>1, <1>2, <2>1, <2>2
  <2>3. CASE j >= k
    <3>1. /\ j + 1 \in k + 1 .. Len(items) + 1 /\ (j + 1) - 1 = j
          /\ j + 1 \in 1 .. Len(items') /\ j + 1 > page * PageSize
      BY <1>1, <2>1, <2>3
    <3>2. items'[j + 1] = items[j]
      BY <1>2, <3>1
    <3> QED BY <2>1, <3>1, <3>2
  <2> QED BY <2>2, <2>3
<1>8. pc = "fetch" => Cardinality(Missed') <= Cardinality(deleted)
  <2>1. /\ Cardinality(Missed) \in Nat /\ Cardinality(deleted) \in Nat
        /\ Cardinality(Missed') \in Nat /\ Cardinality(Missed') <= Cardinality(Missed)
    BY <1>7, CountedItems, MoreElements, FS_CardinalityType DEF IInv
  <2> QED BY <2>1 DEF LossInv
<1> QED BY <1>1, <1>6, <1>8 DEF LossInv, OneLostPerDeletion

\* A deletion moves one item at most to a page already fetched.
LEMMA LossDelete ==
  ASSUME IInv, LossInv, NEW k \in DOMAIN items, Delete(k)
  PROVE  LossInv'
PROOF
<1>1. /\ items \in Seq(1 .. MaxItems) /\ Len(items) \in Nat /\ k \in 1 .. Len(items)
      /\ items' = RemoveAt(items, k) /\ deleted' = deleted \cup {items[k]}
      /\ UNCHANGED <<pc, page, all, atStart>>
  BY DEF Delete, IInv, TypeOK
<1>2. /\ Len(items') = Len(items) - 1
      /\ \A j \in 1 .. k - 1 : items'[j] = items[j]
      /\ \A j \in k .. Len(items) - 1 : items'[j] = items[j + 1]
  BY <1>1, RemoveProperties
<1>3. ASSUME NEW j \in 1 .. Len(items')
      PROVE  \/ j < k /\ j \in 1 .. Len(items) /\ items'[j] = items[j]
             \/ j >= k /\ j + 1 \in 1 .. Len(items) /\ items'[j] = items[j + 1]
  BY <1>1, <1>2
<1>4. items[k] \notin deleted
  BY <1>1 DEF LossInv, ListedInv
<1>5. ListedInv'
  <2>1. ASSUME NEW i \in 1 .. Len(items'), NEW j \in 1 .. Len(items'), items'[i] = items'[j]
        PROVE  i = j
    BY <1>1, <1>3, <2>1 DEF LossInv, ListedInv
  <2>2. ASSUME NEW j \in 1 .. Len(items') PROVE items'[j] \notin deleted \cup {items[k]}
    BY <1>1, <1>3 DEF LossInv, ListedInv
  <2>3. items[k] \in 1 .. created /\ created' = created
    BY <1>1, ElementOfSeq DEF IInv, BoundInv, Delete
  <2> QED BY <1>1, <2>1, <2>2, <2>3 DEF LossInv, ListedInv
<1>6. /\ IsFiniteSet(deleted) /\ Cardinality(deleted) \in Nat
      /\ Cardinality(deleted') = Cardinality(deleted) + 1
  BY <1>1, <1>4, CountedItems, FS_AddElement, FS_CardinalityType DEF IInv
<1>7. Survivors' \subseteq Survivors
  BY <1>1 DEF Survivors
<1>8. pc = "fetch" => Cardinality(Missed') <= Cardinality(deleted')
  <2> DEFINE last == items[page * PageSize + 1]
  <2>1. Missed' \subseteq Missed \cup {last}
    <3> SUFFICES ASSUME NEW x \in Missed', x \notin Missed PROVE x = last
      OBVIOUS
    <3>1. /\ page * PageSize \in Nat /\ x # items[k]
          /\ \A i \in 1 .. Len(items') : i > page * PageSize => items'[i] # x
      BY <1>1, PagingOK DEF Missed, Survivors, PagingOK, IInv, TypeOK
    <3>2. PICK j \in 1 .. Len(items) : j > page * PageSize /\ items[j] = x
      BY <1>1, <1>7 DEF Missed
    <3>3. CASE j < k
      <4>1. j \in 1 .. k - 1 /\ j \in 1 .. Len(items')
        BY <1>1, <1>2, <3>3
      <4> QED BY <1>2, <3>1, <3>2, <4>1
    <3>4. CASE j > k
      <4>1. j - 1 \in k .. Len(items) - 1 /\ (j - 1) + 1 = j /\ j - 1 \in 1 .. Len(items')
        BY <1>1, <1>2, <3>4
      <4>2. items'[j - 1] = x
        BY <1>2, <3>2, <4>1
      <4>3. j = page * PageSize + 1
        BY <1>1, <3>1, <3>2, <4>1, <4>2
      <4> QED BY <3>2, <4>3
    <3> QED BY <1>1, <3>1, <3>2, <3>3, <3>4
  <2> HIDE DEF last
  <2>2. /\ Cardinality(Missed) \in Nat /\ Cardinality(Missed') \in Nat
        /\ Cardinality(Missed') <= Cardinality(Missed) + 1
    BY <2>1, CountedItems, OneMoreElement, FS_CardinalityType DEF IInv
  <2>3. pc = "fetch" => Cardinality(Missed) <= Cardinality(deleted)
    BY DEF LossInv
  <2> QED BY <1>6, <2>2, <2>3
<1>9. OneLostPerDeletion'
  <2> SUFFICES ASSUME pc = "done"
               PROVE  Cardinality(Survivors' \ Range(all)) <= Cardinality(deleted')
    BY <1>1 DEF OneLostPerDeletion, Survivors
  <2>1. IsFiniteSet(Survivors \ Range(all))
    BY CountedItems, FS_Difference DEF IInv
  <2>2. /\ Cardinality(Survivors \ Range(all)) \in Nat
        /\ Cardinality(Survivors' \ Range(all)) \in Nat
        /\ Cardinality(Survivors' \ Range(all)) <= Cardinality(Survivors \ Range(all))
    BY <1>7, <2>1, MoreElements
  <2>3. Cardinality(Survivors \ Range(all)) <= Cardinality(deleted)
    BY DEF LossInv, OneLostPerDeletion, Survivors
  <2> QED BY <1>6, <2>2, <2>3
<1> QED BY <1>1, <1>5, <1>8, <1>9 DEF LossInv

\* The remaining steps keep what counts, or end the call.
LEMMA LossReturn == LossInv /\ (FetchFails \/ Return \/ UNCHANGED vars) => LossInv'
PROOF
<1> SUFFICES ASSUME LossInv, FetchFails \/ Return \/ UNCHANGED vars PROVE LossInv'
  OBVIOUS
<1>1. /\ UNCHANGED <<items, created, page, atStart, deleted>>
      /\ pc' \in {"failed", "idle"} \/ (pc' = pc /\ all' = all)
  BY DEF FetchFails, Return, vars
<1> QED BY <1>1 DEF LossInv, ListedInv, Missed, Survivors, OneLostPerDeletion

-----------------------------------------------------------------------------
(* The safety properties.                                                  *)

\* Every reachable state is well typed; in particular the page counter is
\* bounded by the items that ever existed.
THEOREM TypeCorrect == Spec => []TypeOK
PROOF
<1>1. IInv => TypeOK
  BY DEF IInv
<1> QED BY <1>1, Inductive, PTL

\* A list that does not change while it is fetched is returned exactly, for
\* every page size and length (client.go:258).
THEOREM UnchangedExact == Spec => []UnchangedListIsExact
PROOF
<1>1. IInv => UnchangedListIsExact
  BY DEF IInv, UnchangedInv, UnchangedListIsExact
<1> QED BY <1>1, Inductive, PTL

(***************************************************************************)
(* A deletion while a list is fetched costs the result one item at most    *)
(* (client.go:261), for every page size, every order and every number of   *)
(* changes: what of SPEC.md:371 holds of a list that shrinks as well.      *)
(***************************************************************************)
THEOREM OneLost == Spec => []OneLostPerDeletion
PROOF
<1>1. Init => LossInv
  <2> SUFFICES ASSUME Init PROVE LossInv
    OBVIOUS
  <2>1. /\ created \in Nat /\ pc = "idle" /\ deleted = {}
        /\ items = [k \in 1 .. created |-> IF order = "newestFirst" THEN created + 1 - k ELSE k]
    BY PagingOK DEF PagingOK, Init, Listing
  <2>2. Len(items) = created
    BY <2>1
  <2>3. ASSUME NEW i \in 1 .. Len(items), NEW j \in 1 .. Len(items), items[i] = items[j]
        PROVE  i = j
    BY <2>1, <2>2, <2>3
  <2> QED BY <2>1, <2>3 DEF LossInv, ListedInv, OneLostPerDeletion
<1>2. IInv /\ LossInv /\ [Next]_vars => LossInv'
  BY LossBegin, LossFetch, LossCreate, LossDelete, LossReturn DEF Next
<1>3. LossInv => OneLostPerDeletion
  BY DEF LossInv
<1> QED BY <1>1, <1>2, <1>3, Inductive, PTL DEF Spec

\* The loop asks for no page beyond those of the longest list there ever was
\* (client.go:268).
THEOREM RequestsBounded == Spec => []RequestsAreBounded
PROOF
<1>1. IInv => RequestsAreBounded
  BY DEF IInv, BoundInv, RequestsAreBounded
<1> QED BY <1>1, Inductive, PTL
=============================================================================
