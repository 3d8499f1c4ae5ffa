------------------------- MODULE KeyRotationProofs -------------------------
(***************************************************************************)
(* Proofs, for any number of concurrent RotateKey calls and of keys and    *)
(* every choice of views, that RotateKey identifies its own successor.     *)
(*                                                                         *)
(* The argument: only the newest key of a chain is active, so a rotation   *)
(* of k that succeeds creates k + 1, and no key was created between the    *)
(* first read and the rotation.  Every link older than k that the second   *)
(* read can show was therefore in the first one.                           *)
(*                                                                         *)
(* A redirect that do() takes for a success is excluded by NoRedirect: with*)
(* one, the second read follows a rotation that never happened, as the run *)
(* of UnknownMeansRotated shows.                                           *)
(***************************************************************************)
EXTENDS KeyRotation, TLAPS

\* The rotate request is never answered with a redirect.
NoRedirect == "redirect" \notin Answers

-----------------------------------------------------------------------------
(* Types.                                                                  *)

\* The initial states have the types of TypeOK.
LEMMA TypeInit == Init => TypeOK
PROOF
  BY RotationOK DEF RotationOK, Init, TypeOK, Keys, NoKey, Outcomes

\* What the server shows are keys.
LEMMA LinksAreKeys ==
  ASSUME NEW k \in Keys, view \in Views
  PROVE  Links(k) \subseteq Keys
PROOF
<1>1. Chain \subseteq Keys /\ view \in {"forward", "backward", "both", "chain"}
  BY RotationOK DEF RotationOK, Chain
<1> QED BY <1>1 DEF Links

\* ReturnWith keeps the types when an id comes with "successor" alone.
LEMMA ReturnTypes ==
  ASSUME TypeOK, NEW r \in Rotators, NEW o \in Outcomes, NEW id \in Keys \cup {NoKey},
         ReturnWith(r, o, id), id # NoKey <=> o = "successor"
  PROVE  /\ pc' \in [Rotators -> {"idle", "readBefore", "rotate", "readAfter"}]
         /\ outcome' \in [Rotators -> Outcomes]
         /\ found' \in [Rotators -> Keys \cup {NoKey}]
         /\ \A s \in Rotators : found'[s] # NoKey <=> outcome'[s] = "successor"
PROOF
  BY DEF TypeOK, ReturnWith

\* So does Answered: none of its answers brings an id.
LEMMA AnswerTypes ==
  ASSUME TypeOK, NEW r \in Rotators, \E answer \in Answers : Answered(r, answer)
  PROVE  /\ pc' \in [Rotators -> {"idle", "readBefore", "rotate", "readAfter"}]
         /\ outcome' \in [Rotators -> Outcomes]
         /\ found' \in [Rotators -> Keys \cup {NoKey}]
         /\ \A s \in Rotators : found'[s] # NoKey <=> outcome'[s] = "successor"
PROOF
<1>1. CASE pc' = [pc EXCEPT ![r] = "readAfter"] /\ UNCHANGED <<outcome, found>>
  BY <1>1 DEF TypeOK
<1>2. CASE \E answer \in {"apiError", "transportError"} : ReturnWith(r, answer, NoKey)
  BY <1>2, ReturnTypes DEF Outcomes
<1> QED BY <1>1, <1>2 DEF Answered

\* Every action, and stuttering, keeps the types of TypeOK.
LEMMA TypeStep == TypeOK /\ [Next]_vars => TypeOK'
PROOF
<1> SUFFICES ASSUME TypeOK, [Next]_vars PROVE TypeOK'
  OBVIOUS
<1> USE RotationOK DEF RotationOK, serverVars, callVars
<1>n. NoKey \notin Keys /\ Keys \subseteq Nat
  BY DEF NoKey, Keys
<1>1. ASSUME NEW r \in Rotators, NEW k \in Keys, Begin(r, k) PROVE TypeOK'
  BY <1>1, <1>n DEF Begin, TypeOK, Outcomes
<1>2. ASSUME NEW r \in Rotators, ReadBefore(r) PROVE TypeOK'
  <2>1. Links(key[r]) \subseteq Keys
    BY LinksAreKeys DEF TypeOK
  <2> QED BY <1>2, <2>1 DEF ReadBefore, TypeOK
<1>3. ASSUME NEW r \in Rotators, Rotate(r) PROVE TypeOK'
  <2>0. created + 1 \in Keys
    BY <1>3 DEF Rotate, RotateOnServer, CanRotate, TypeOK, Keys
  <2>1. /\ view' = view /\ created' \in Keys
        /\ state' \in [Keys -> {"none", "ACTIVE", "DEACTIVATED", "DESTROYED", "DELETED"}]
        /\ next' \in [Keys -> Keys \cup {NoKey}] /\ mine' \in [Rotators -> Keys \cup {NoKey}]
    BY <1>3, <2>0 DEF Rotate, RotateOnServer, TypeOK
  <2> QED BY <1>3, <2>1, AnswerTypes DEF Rotate, TypeOK
<1>r. ASSUME NEW r \in Rotators, RotateFails(r) PROVE TypeOK'
  BY <1>r, AnswerTypes DEF RotateFails, TypeOK
<1>4. ASSUME NEW r \in Rotators, ReadBeforeFails(r) \/ ReadAfterFails(r)
      PROVE  TypeOK'
  <2>1. PICK o \in Outcomes \ {"successor"} : ReturnWith(r, o, NoKey)
    BY <1>4 DEF ReadBeforeFails, ReadAfterFails, ReadAfterFailsWith, Outcomes
  <2> QED BY <1>4, <1>n, <2>1, ReturnTypes
          DEF ReadBeforeFails, ReadAfterFails, ReadAfterFailsWith, TypeOK
<1>5. ASSUME NEW r \in Rotators, ReadAfter(r) PROVE TypeOK'
  <2>1. Links(key[r]) \subseteq Keys
    BY LinksAreKeys DEF TypeOK
  <2>2. \/ \E id \in Keys : ReturnWith(r, "successor", id)
        \/ ReturnWith(r, "unknown", NoKey)
    BY <1>5, <2>1 DEF ReadAfter
  <2>3. \E o \in Outcomes, id \in Keys \cup {NoKey} :
          ReturnWith(r, o, id) /\ (id # NoKey <=> o = "successor")
    BY <1>n, <2>2 DEF Outcomes
  <2> QED BY <1>5, <2>3, ReturnTypes DEF ReadAfter, TypeOK
<1>6. ASSUME NEW k \in Keys, SetKeyState(k) \/ DeleteKey(k) PROVE TypeOK'
  BY <1>6 DEF SetKeyState, DeleteKey, Advance, TypeOK
<1>7. CASE UNCHANGED vars
  BY <1>7 DEF vars, TypeOK
<1> QED BY <1>1, <1>2, <1>3, <1>r, <1>4, <1>5, <1>6, <1>7 DEF Next

\* Every reachable state is well typed, and a returned id always comes with a
\* nil error and never with another.
THEOREM TypeCorrect == Spec => []TypeOK
PROOF
  BY TypeInit, TypeStep, PTL DEF Spec

-----------------------------------------------------------------------------
(* The server.                                                             *)

\* Only the newest key is active, and a key is followed by the next one.
ServerInv ==
  /\ \A k \in Keys : state[k] = "none" <=> k > created
  /\ \A k \in Keys : state[k] = "ACTIVE" => k = created
  /\ \A k \in Keys : next[k] # NoKey => next[k] = k + 1 /\ k < created

\* What no step does: forget a key, revive one or change a link.
Monotone ==
  /\ view' = view /\ created' \in Keys /\ created <= created'
  /\ \A k \in Keys : k <= created /\ Exists(k)' => Exists(k)
  /\ \A k \in Keys : state[k] = "DELETED" => state'[k] = "DELETED"
  /\ \A k \in Keys : next'[k] # next[k] => k = created /\ next[k] = NoKey /\ next'[k] = k + 1

\* What a rotation does: it replaces the newest key, which was active.
LEMMA RotateEffect ==
  ASSUME TypeOK, ServerInv, NEW r \in Rotators, RotateOnServer(r)
  PROVE  /\ key[r] = created /\ created + 1 \in Keys /\ next[created] = NoKey
         /\ created' = created + 1 /\ view' = view
         /\ next' = [next EXCEPT ![created] = created + 1]
         /\ state' = [state EXCEPT ![created] = "DEACTIVATED", ![created + 1] = "ACTIVE"]
         /\ state[created] = "ACTIVE" /\ state[created + 1] = "none"
         /\ mine' = [mine EXCEPT ![r] = created + 1]
PROOF
<1>0. /\ key[r] \in Keys /\ state[key[r]] = "ACTIVE"
      /\ created \in Keys /\ created < MaxKeys
  BY DEF RotateOnServer, CanRotate, TypeOK
<1>1. key[r] = created /\ created + 1 \in Keys /\ state[created] = "ACTIVE"
  BY <1>0, RotationOK DEF RotationOK, ServerInv, Keys
<1>2. next[created] = NoKey
  BY DEF ServerInv, TypeOK, Keys
<1>3. state[created + 1] = "none"
  BY <1>1 DEF ServerInv, TypeOK, Keys
<1> QED BY <1>1, <1>2, <1>3 DEF RotateOnServer

\* What a change of state does: the key moves forward in its lifecycle.
LEMMA AdvanceEffect ==
  ASSUME TypeOK, NEW k \in Keys, SetKeyState(k) \/ DeleteKey(k)
  PROVE  /\ Exists(k) /\ UNCHANGED <<view, created, next, callVars>>
         /\ \E to \in {"DEACTIVATED", "DESTROYED", "DELETED"} :
              state' = [state EXCEPT ![k] = to]
PROOF
  BY DEF SetKeyState, DeleteKey, Advance

\* A step rotates, advances one key, or leaves the keys alone.
LEMMA ServerCases ==
  ASSUME TypeOK, [Next]_vars
  PROVE  \/ \E r \in Rotators : RotateOnServer(r)
         \/ \E k \in Keys : SetKeyState(k) \/ DeleteKey(k)
         \/ UNCHANGED <<view, created, state, next>>
PROOF
  BY DEF Next, Begin, ReadBefore, ReadBeforeFails, Rotate, RotateFails, ReadAfter,
         ReadAfterFails, ReadAfterFailsWith, serverVars, vars

\* ServerInv is preserved, and the server is Monotone.
LEMMA ServerStep == TypeOK /\ ServerInv /\ [Next]_vars => ServerInv' /\ Monotone
PROOF
<1> SUFFICES ASSUME TypeOK, ServerInv, [Next]_vars PROVE ServerInv' /\ Monotone
  OBVIOUS
<1>1. ASSUME NEW r \in Rotators, RotateOnServer(r) PROVE ServerInv' /\ Monotone
  <2>1. /\ created \in Keys /\ created + 1 \in Keys /\ next[created] = NoKey
        /\ created' = created + 1 /\ view' = view
        /\ next' = [next EXCEPT ![created] = created + 1]
        /\ state' = [state EXCEPT ![created] = "DEACTIVATED", ![created + 1] = "ACTIVE"]
        /\ state[created] = "ACTIVE" /\ state[created + 1] = "none"
    BY <1>1, RotateEffect DEF TypeOK
  <2>2. ASSUME NEW k \in Keys
        PROVE  /\ k = created => state'[k] = "DEACTIVATED" /\ next'[k] = k + 1
               /\ k = created + 1 => state'[k] = "ACTIVE"
               /\ k \notin {created, created + 1} => state'[k] = state[k]
               /\ k # created => next'[k] = next[k]
    BY <2>1 DEF TypeOK, Keys
  <2>i. created \in Nat /\ Keys \subseteq Nat
    BY <2>1 DEF Keys
  <2>3. ServerInv'
    <3>1. ASSUME NEW k \in Keys
          PROVE  /\ state'[k] = "none" <=> k > created'
                 /\ state'[k] = "ACTIVE" => k = created'
      <4>0. k \in Nat /\ created \in Nat /\ created' = created + 1
        BY <2>i, <2>1
      <4>1. CASE k = created \/ k = created + 1
        <5>1. state'[k] = "DEACTIVATED" \/ (k = created' /\ state'[k] = "ACTIVE")
          BY <2>2, <4>0, <4>1
        <5>2. ~(k > created')
          BY <4>0, <4>1
        <5> QED BY <5>1, <5>2
      <4>2. CASE ~(k = created \/ k = created + 1)
        <5>1. state'[k] = state[k]
          BY <2>2, <4>2
        <5>2. state[k] = "none" <=> k > created
          BY DEF ServerInv
        <5>3. state[k] = "ACTIVE" => k = created
          BY DEF ServerInv
        <5> QED BY <4>0, <4>2, <5>1, <5>2, <5>3
      <4> QED BY <4>1, <4>2
    <3>2. ASSUME NEW k \in Keys, next'[k] # NoKey PROVE next'[k] = k + 1 /\ k < created'
      BY <2>i, <2>1, <2>2, <3>2 DEF ServerInv
    <3> QED BY <3>1, <3>2 DEF ServerInv
  <2>4. Monotone
    <3>1. view' = view /\ created' \in Keys /\ created <= created'
      BY <2>i, <2>1
    <3>2. ASSUME NEW k \in Keys
          PROVE  /\ k <= created /\ Exists(k)' => Exists(k)
                 /\ state[k] = "DELETED" => state'[k] = "DELETED"
                 /\ next'[k] # next[k] => k = created /\ next[k] = NoKey /\ next'[k] = k + 1
      <4>1. CASE k = created
        BY <2>1, <2>2, <4>1 DEF Exists
      <4>2. CASE k = created + 1
        BY <2>i, <2>1, <2>2, <4>2
      <4>3. CASE k \notin {created, created + 1}
        BY <2>2, <4>3 DEF Exists
      <4> QED BY <4>1, <4>2, <4>3
    <3> QED BY <3>1, <3>2 DEF Monotone
  <2> QED BY <2>3, <2>4
<1>2. ASSUME NEW k \in Keys, SetKeyState(k) \/ DeleteKey(k) PROVE ServerInv' /\ Monotone
  <2>1. PICK to \in {"DEACTIVATED", "DESTROYED", "DELETED"} : state' = [state EXCEPT ![k] = to]
    BY <1>2, AdvanceEffect
  <2>2. Exists(k) /\ view' = view /\ created' = created /\ next' = next
    BY <1>2, AdvanceEffect
  <2>3. ASSUME NEW j \in Keys
        PROVE  state'[j] = IF j = k THEN to ELSE state[j]
    BY <2>1 DEF TypeOK
  <2>4. ServerInv'
    BY <2>2, <2>3 DEF ServerInv, Exists, Keys
  <2>5. Monotone
    BY <2>2, <2>3 DEF Monotone, Exists, TypeOK, Keys
  <2> QED BY <2>4, <2>5
<1>3. CASE UNCHANGED <<view, created, state, next>>
  BY <1>3 DEF TypeOK, Keys, ServerInv, Monotone, Exists
<1> QED BY <1>1, <1>2, <1>3, ServerCases

-----------------------------------------------------------------------------
(* The links.                                                              *)

\* The links of k that are older than k.
OldLinks(k) ==
  {p \in Chain : p < k /\ \/ view = "chain"
                          \/ view \in {"backward", "both"} /\ next[p] = k}

\* What keyLinks of k can show: all its older links, no other old key, and
\* newer keys that are its successor unless the whole chain is listed.
LEMMA LinksSplit ==
  ASSUME TypeOK, ServerInv, NEW k \in Keys, k <= created
  PROVE  /\ Links(k) \subseteq Chain
         /\ OldLinks(k) \subseteq Links(k)
         /\ \A id \in Links(k) : id < k => id \in OldLinks(k)
         /\ \A id \in Links(k) : id > k => id = k + 1 \/ view = "chain"
         /\ view = "chain" /\ k < created => Links(k) = Chain
PROOF
<1>1. /\ view \in {"forward", "backward", "both", "chain"} /\ created \in Nat
      /\ Keys \subseteq Nat \ {0} /\ Chain \subseteq Keys /\ k \in Nat
  BY RotationOK DEF RotationOK, TypeOK, Keys, Chain
<1>2. ASSUME NEW p \in Chain, next[p] = k PROVE p < k /\ ~(p > k)
  BY <1>1, <1>2 DEF ServerInv, NoKey
<1>3. ASSUME NEW n \in Chain, n = next[k] PROVE n = k + 1 /\ ~(n < k)
  <2>1. n # NoKey /\ n \in Nat
    BY <1>1 DEF NoKey
  <2>2. n = k + 1
    BY <1>3, <2>1 DEF ServerInv
  <2> QED BY <1>1, <2>2
<1>5. CASE view = "forward"
  <2>1. Links(k) = {n \in Chain : n = next[k]} /\ OldLinks(k) = {}
    BY <1>5 DEF Links, OldLinks
  <2> QED BY <1>3, <1>5, <2>1
<1>6. CASE view = "backward"
  <2>1. Links(k) = {p \in Chain : next[p] = k}
    BY <1>6 DEF Links
  <2>2. OldLinks(k) = {p \in Chain : p < k /\ next[p] = k}
    BY <1>6 DEF OldLinks
  <2> QED BY <1>2, <1>6, <2>1, <2>2
<1>7. CASE view = "both"
  <2>1. Links(k) = {n \in Chain : n = next[k]} \cup {p \in Chain : next[p] = k}
    BY <1>7 DEF Links
  <2>2. OldLinks(k) = {p \in Chain : p < k /\ next[p] = k}
    BY <1>7 DEF OldLinks
  <2> QED BY <1>2, <1>3, <1>7, <2>1, <2>2
<1>8. CASE view = "chain"
  <2>1. Links(k) = IF created = 1 THEN {} ELSE Chain
    BY <1>8 DEF Links
  <2>2. OldLinks(k) = {p \in Chain : p < k}
    BY <1>8 DEF OldLinks
  <2>3. CASE created = 1
    <3>1. k = 1 /\ \A p \in Chain : ~(p < k)
      BY <1>1, <2>3
    <3> QED BY <1>8, <2>1, <2>2, <2>3, <3>1
  <2>4. CASE created # 1
    BY <1>8, <2>1, <2>2, <2>4
  <2> QED BY <2>3, <2>4
<1> QED BY <1>1, <1>5, <1>6, <1>7, <1>8

\* A key that exists already gets no further old links.
LEMMA OldLinksShrink ==
  ASSUME TypeOK, Monotone, NEW k \in Keys, k <= created
  PROVE  OldLinks(k)' \subseteq OldLinks(k)
PROOF
<1>1. SUFFICES ASSUME NEW p \in OldLinks(k)' PROVE p \in OldLinks(k)
  OBVIOUS
<1>a. p \in Chain' /\ p < k /\ (view' = "chain" \/ (view' \in {"backward", "both"} /\ next'[p] = k))
  <2>1. OldLinks(k)' =
          {q \in Chain' : /\ q < k
                          /\ view' = "chain" \/ (view' \in {"backward", "both"} /\ next'[q] = k)}
    BY DEF OldLinks
  <2> QED BY <1>1, <2>1
<1>b. p \in Keys /\ Exists(p)'
  BY <1>a DEF Chain, Exists
<1>c. view' = view
  BY DEF Monotone
<1>2. /\ p \in Keys /\ p < k /\ Exists(p)'
      /\ view = "chain" \/ (view \in {"backward", "both"} /\ next'[p] = k)
  BY <1>a, <1>b, <1>c
<1>3. p \in Nat /\ k \in Nat /\ created \in Nat
  BY <1>2 DEF TypeOK, Keys
<1>4. p <= created /\ p # created
  BY <1>2, <1>3
<1>5. Exists(p) /\ next'[p] = next[p]
  BY <1>2, <1>4 DEF Monotone
<1> QED BY <1>2, <1>4, <1>5 DEF OldLinks, Chain

-----------------------------------------------------------------------------
(* The calls.                                                              *)

\* What RotateKey knows at each point, and what its outcome says.
CallInv(r) ==
  /\ key[r] <= created
  /\ pc[r] # "idle" => outcome[r] = "none"
  /\ pc[r] \in {"readBefore", "rotate"} => mine[r] = NoKey
  /\ pc[r] = "readAfter" => mine[r] # NoKey /\ before[r] \subseteq 1 .. key[r]
  /\ pc[r] = "rotate" => before[r] \subseteq 1 .. created
  /\ pc[r] \in {"rotate", "readAfter"} => OldLinks(key[r]) \subseteq before[r]
  /\ mine[r] # NoKey => mine[r] = key[r] + 1 /\ next[key[r]] = mine[r]
  /\ outcome[r] = "successor" =>
       /\ mine[r] # NoKey
       /\ \/ found[r] = mine[r]
          \/ view = "chain" /\ state[mine[r]] = "DELETED" /\ found[r] > mine[r]
  /\ outcome[r] = "unknown" => mine[r] # NoKey
  /\ outcome[r] = "readError" => mine[r] = NoKey

\* CallInv(r) outlives whatever the server and the other callers do.
LEMMA CallKept ==
  ASSUME TypeOK, Monotone, NEW r \in Rotators, CallInv(r),
         pc'[r] = pc[r], key'[r] = key[r], before'[r] = before[r],
         mine'[r] = mine[r], outcome'[r] = outcome[r], found'[r] = found[r]
  PROVE  CallInv(r)'
PROOF
<1>1. /\ key[r] \in Keys /\ key[r] <= created /\ created' \in Nat /\ created \in Nat
      /\ created <= created' /\ view' = view /\ key[r] \in Nat
      /\ mine[r] \in Keys \cup {NoKey}
  BY DEF CallInv, Monotone, TypeOK, Keys
<1>3. key'[r] <= created' /\ (before[r] \subseteq 1 .. created => before[r] \subseteq 1 .. created')
  BY <1>1
<1>4. mine[r] # NoKey => next'[key[r]] = next[key[r]]
  BY <1>1 DEF CallInv, Monotone
<1>5. mine[r] # NoKey /\ state[mine[r]] = "DELETED" => state'[mine[r]] = "DELETED"
  BY <1>1 DEF Monotone
<1>6. ASSUME pc[r] \in {"rotate", "readAfter"} PROVE OldLinks(key[r])' \subseteq before[r]
  <2>1. PICK k \in Keys : k = key[r] /\ k <= created
    BY <1>1
  <2>2. OldLinks(key[r])' = OldLinks(k)'
    BY <2>1 DEF OldLinks
  <2>3. OldLinks(k) \subseteq before[r]
    BY <1>6, <2>1 DEF CallInv
  <2> QED BY <2>1, <2>2, <2>3, OldLinksShrink
<1> QED BY <1>1, <1>3, <1>4, <1>5, <1>6 DEF CallInv

\* What a caller changes are its own variables.
LEMMA OtherCalls ==
  ASSUME TypeOK, NEW r \in Rotators, NEW s \in Rotators, s # r,
         \/ \E k \in Keys : Begin(s, k)
         \/ ReadBefore(s) \/ ReadBeforeFails(s) \/ Rotate(s) \/ RotateFails(s)
         \/ ReadAfter(s) \/ ReadAfterFails(s)
  PROVE  /\ pc'[r] = pc[r] /\ key'[r] = key[r] /\ before'[r] = before[r]
         /\ mine'[r] = mine[r] /\ outcome'[r] = outcome[r] /\ found'[r] = found[r]
PROOF
  BY DEF TypeOK, Begin, ReadBefore, ReadBeforeFails, Rotate, RotateOnServer, RotateFails,
         ReadAfter, ReadAfterFails, ReadAfterFailsWith, ReturnWith, Answered

\* The first read has every older link, and no key that is not there yet.
LEMMA ReadBeforeStep ==
  ASSUME TypeOK, ServerInv, NEW r \in Rotators, CallInv(r), ReadBefore(r)
  PROVE  CallInv(r)'
PROOF
<1>1. /\ key[r] \in Keys /\ key[r] <= created /\ UNCHANGED <<view, created, state, next, key, mine>>
      /\ UNCHANGED <<outcome, found>> /\ before'[r] = Links(key[r]) /\ pc'[r] = "rotate"
      /\ pc[r] = "readBefore"
  BY DEF ReadBefore, TypeOK, CallInv, serverVars
<1>2. Links(key[r]) \subseteq Chain /\ OldLinks(key[r]) \subseteq Links(key[r])
  BY <1>1, LinksSplit
<1>3. Chain \subseteq 1 .. created
  BY DEF Chain, Keys
<1>4. OldLinks(key[r])' = OldLinks(key[r])
  BY <1>1 DEF OldLinks, Chain, Exists
<1> QED BY <1>1, <1>2, <1>3, <1>4 DEF CallInv

\* A rotation replaces the newest key, so nothing new is older than it.
LEMMA RotateStep ==
  ASSUME TypeOK, ServerInv, Monotone, NEW r \in Rotators, CallInv(r), Rotate(r)
  PROVE  CallInv(r)'
PROOF
<1>1. /\ key[r] = created /\ created + 1 \in Keys /\ created' = created + 1
      /\ next'[created] = created + 1 /\ mine'[r] = created + 1
  BY RotateEffect DEF Rotate, TypeOK
<1>2. /\ pc[r] = "rotate" /\ outcome[r] = "none" /\ key' = key /\ before' = before
      /\ before[r] \subseteq 1 .. created /\ OldLinks(key[r]) \subseteq before[r]
  BY DEF Rotate, CallInv
<1>3. \/ pc'[r] = "readAfter" /\ outcome'[r] = "none"
      \/ pc'[r] = "idle" /\ outcome'[r] \in {"apiError", "transportError"}
  BY <1>2 DEF Rotate, Answered, ReturnWith, TypeOK
<1>4. OldLinks(key[r])' \subseteq before[r]
  <2>1. PICK k \in Keys : k = key[r] /\ k <= created
    BY DEF TypeOK, CallInv
  <2>2. OldLinks(key[r])' = OldLinks(k)'
    BY <1>2, <2>1 DEF OldLinks
  <2> QED BY <1>2, <2>1, <2>2, OldLinksShrink
<1>5. created \in Nat /\ created + 1 # NoKey
  BY DEF TypeOK, Keys, NoKey
<1> QED BY <1>1, <1>2, <1>3, <1>4, <1>5 DEF CallInv

\* The single new link is younger than the key: it is the successor, or the
\* successor is not among the links because it was deleted.
LEMMA ReadAfterStep ==
  ASSUME TypeOK, ServerInv, NEW r \in Rotators, CallInv(r), ReadAfter(r)
  PROVE  CallInv(r)'
PROOF
<1> DEFINE k == key[r]
<1>1. /\ k \in Keys /\ k <= created /\ mine[r] = k + 1 /\ mine[r] # NoKey /\ next[k] = mine[r]
      /\ before[r] \subseteq 1 .. k /\ OldLinks(k) \subseteq before[r]
      /\ pc[r] = "readAfter" /\ mine[r] \in Keys
  BY DEF ReadAfter, CallInv, TypeOK
<1>2. UNCHANGED <<view, created, state, next, key, before, mine>> /\ pc'[r] = "idle"
  BY DEF ReadAfter, ReturnWith, serverVars, TypeOK
<1>3. k \in Nat /\ created \in Nat /\ k < created
  BY <1>1 DEF ServerInv, TypeOK, Keys
<1>4. ASSUME NEW id \in Links(k), newKeyLink(before[r], Links(k), k, id)
      PROVE  id = mine[r] \/ (view = "chain" /\ state[mine[r]] = "DELETED" /\ id > mine[r])
  <2>1. /\ Links(k) \subseteq Chain
        /\ id < k => id \in OldLinks(k)
        /\ id > k => id = k + 1 \/ view = "chain"
        /\ view = "chain" => Links(k) = Chain
    BY <1>1, <1>3, LinksSplit
  <2>2. Links(k) \ (before[r] \cup {k}) = {id}
    BY <1>4 DEF newKeyLink, NewLinks
  <2>3. id \notin before[r] /\ id # k /\ id \in Nat
    BY <2>1, <2>2 DEF Chain, Keys
  <2>4. id > k
    BY <1>1, <1>3, <2>1, <2>3
  <2>5. CASE id = k + 1
    <3>1. mine[r] = k + 1
      BY <1>1
    <3> QED BY <2>5, <3>1
  <2>6. CASE id # k + 1
    <3>1. view = "chain" /\ Links(k) = Chain
      BY <2>1, <2>4, <2>6
    <3>2. mine[r] \notin before[r] /\ mine[r] # k /\ mine[r] # id
      BY <1>1, <1>3, <2>6
    <3>3. mine[r] \notin Chain
      BY <2>2, <3>1, <3>2
    <3>4. mine[r] <= created /\ ~(mine[r] > created)
      BY <1>1, <1>3
    <3>5. state[mine[r]] \notin {"ACTIVE", "DEACTIVATED", "DESTROYED", "none"}
      BY <1>1, <3>3, <3>4 DEF Chain, Exists, ServerInv
    <3>6. state[mine[r]] = "DELETED"
      BY <1>1, <3>5 DEF TypeOK
    <3>7. id > mine[r]
      BY <1>1, <1>3, <2>3, <2>4, <2>6
    <3> QED BY <3>1, <3>6, <3>7
  <2> QED BY <2>5, <2>6
<1>5. \/ /\ outcome'[r] = "successor"
         /\ \/ found'[r] = mine[r]
            \/ view = "chain" /\ state[mine[r]] = "DELETED" /\ found'[r] > mine[r]
      \/ outcome'[r] = "unknown"
  <2>1. CASE \E id \in Links(k) : newKeyLink(before[r], Links(k), k, id) /\ ReturnWith(r, "successor", id)
    BY <1>4, <2>1 DEF ReturnWith, TypeOK
  <2>2. CASE ReturnWith(r, "unknown", NoKey)
    BY <2>2 DEF ReturnWith, TypeOK
  <2> QED BY <2>1, <2>2 DEF ReadAfter
<1> HIDE DEF k
<1> QED BY <1>1, <1>2, <1>3, <1>5 DEF CallInv, k

\* The remaining steps of a call: it begins, or returns without an id.
LEMMA OtherStep ==
  ASSUME NoRedirect, TypeOK, ServerInv, Monotone, NEW r \in Rotators, CallInv(r),
         \/ \E k \in Keys : Begin(r, k)
         \/ ReadBeforeFails(r) \/ RotateFails(r) \/ ReadAfterFails(r)
  PROVE  CallInv(r)'
PROOF
<1>1. CASE \E k \in Keys : Begin(r, k)
  <2>1. /\ key'[r] \in Keys /\ key'[r] <= created /\ pc'[r] = "readBefore"
        /\ outcome'[r] = "none" /\ mine'[r] = NoKey /\ created' = created
    BY <1>1 DEF Begin, TypeOK, serverVars
  <2> QED BY <2>1 DEF CallInv
<1>2. CASE ReadBeforeFails(r) \/ RotateFails(r) \/ ReadAfterFails(r)
  <2>0. RotateFails(r) => ReturnWith(r, "apiError", NoKey) \/ ReturnWith(r, "transportError", NoKey)
    BY RotationOK DEF RotationOK, NoRedirect, RotateFails, Answered
  <2>1. /\ UNCHANGED <<view, created, state, next, key, before, mine>> /\ pc'[r] = "idle"
    BY <1>2, <2>0 DEF ReadBeforeFails, RotateFails, ReadAfterFails, ReadAfterFailsWith, ReturnWith,
                serverVars, TypeOK
  <2>2. \/ /\ pc[r] \in {"readBefore", "rotate"}
           /\ outcome'[r] \in {"readError", "apiError", "transportError"}
        \/ pc[r] = "readAfter" /\ outcome'[r] = "unknown"
    BY <1>2, <2>0 DEF ReadBeforeFails, RotateFails, ReadAfterFails, ReadAfterFailsWith, ReturnWith,
                TypeOK
  <2> QED BY <2>1, <2>2 DEF CallInv
<1> QED BY <1>1, <1>2

IInv == TypeOK /\ ServerInv /\ \A r \in Rotators : CallInv(r)

\* IInv holds initially.
LEMMA InvInit == Init => IInv
PROOF
<1> SUFFICES ASSUME Init PROVE IInv
  OBVIOUS
<1>1. ServerInv
  BY DEF Init, ServerInv, Keys, NoKey
<1>2. ASSUME NEW r \in Rotators PROVE CallInv(r)
  BY DEF Init, CallInv
<1> QED BY <1>1, <1>2, TypeInit DEF IInv

\* IInv is preserved by every step.
LEMMA InvStep == NoRedirect /\ IInv /\ [Next]_vars => IInv'
PROOF
<1> SUFFICES ASSUME NoRedirect, IInv, [Next]_vars PROVE IInv'
  OBVIOUS
<1>1. /\ TypeOK /\ ServerInv /\ TypeOK' /\ ServerInv' /\ Monotone
      /\ \A r \in Rotators : CallInv(r)
  BY TypeStep, ServerStep DEF IInv
<1>2. ASSUME NEW r \in Rotators PROVE CallInv(r)'
  <2>1. ASSUME NEW s \in Rotators,
               \/ \E k \in Keys : Begin(s, k)
               \/ ReadBefore(s) \/ ReadBeforeFails(s) \/ Rotate(s) \/ RotateFails(s)
               \/ ReadAfter(s) \/ ReadAfterFails(s)
        PROVE  CallInv(r)'
    <3>1. CASE s # r
      BY <1>1, <2>1, <3>1, OtherCalls, CallKept
    <3>2. CASE s = r
      BY <1>1, <2>1, <3>2, ReadBeforeStep, RotateStep, ReadAfterStep, OtherStep
    <3> QED BY <3>1, <3>2
  <2>2. ASSUME UNCHANGED callVars PROVE CallInv(r)'
    BY <1>1, <2>2, CallKept DEF callVars
  <2>3. ASSUME \/ \E k \in Keys : SetKeyState(k) \/ DeleteKey(k)
               \/ UNCHANGED vars
        PROVE  UNCHANGED callVars
    BY <2>3 DEF SetKeyState, DeleteKey, Advance, vars, callVars
  <2> QED BY <2>1, <2>2, <2>3 DEF Next
<1> QED BY <1>1, <1>2 DEF IInv

\* IInv holds in every reachable state.
LEMMA Inductive ==
  ASSUME NoRedirect
  PROVE  Spec => []IInv
PROOF
  BY InvInit, InvStep, PTL DEF Spec

-----------------------------------------------------------------------------
(* The safety properties.                                                  *)

\* The id RotateKey returns is the successor its own rotation created
\* (key_lifecycle.go:53), but for a deleted one in a listed chain, when the
\* rotate request is not answered with a redirect.
THEOREM SuccessorOwn ==
  ASSUME NoRedirect
  PROVE  Spec => []SuccessorIsOwn
PROOF
<1>1. IInv => SuccessorIsOwn
  BY DEF IInv, CallInv, SuccessorIsOwn
<1> QED BY <1>1, Inductive, PTL

\* An id and ErrSuccessorUnknown mean that the key was rotated, an error of the
\* first read that it was not (key_lifecycle.go:44), whatever else the server
\* answers to a rotation that it has or has not executed, but for a redirect.
THEOREM OutcomeTells ==
  ASSUME NoRedirect
  PROVE  Spec => []OutcomeTellsRotation
PROOF
<1>1. IInv => OutcomeTellsRotation
  BY DEF IInv, CallInv, OutcomeTellsRotation
<1> QED BY <1>1, Inductive, PTL
=============================================================================
