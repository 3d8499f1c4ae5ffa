----------------------------- MODULE KeyRotation -----------------------------
(***************************************************************************)
(* RotateKey (key_lifecycle.go): read the key's links, rotate, read the    *)
(* links again, and take the single new one for the successor.  Several    *)
(* clients rotate keys of one chain, advance key states and delete keys,   *)
(* all between these requests.  What the server did with a request and what*)
(* its caller is told of it are independent, but for a success, which is   *)
(* only reported of a rotation that was executed.                          *)
(*                                                                         *)
(* Keys are numbered in the order of their creation.  A request is executed*)
(* at most once: do() replays it only after a 401 (see OneShotCall).       *)
(***************************************************************************)
EXTENDS Naturals, Sequences

CONSTANTS
  Rotators,   \* concurrent calls of RotateKey
  Views,      \* what the server may show in keyLinks, see Links
  Answers,    \* how a rotate request may be answered, see Answered
  MaxKeys     \* bound: keys that ever exist

ASSUME RotationOK ==
  /\ Views \subseteq {"forward", "backward", "both", "chain"}
  /\ Answers \subseteq {"success", "redirect", "apiError", "transportError"}
  /\ MaxKeys \in Nat \ {0}

Keys  == 1 .. MaxKeys
NoKey == 0

VARIABLES
  view,      \* the server: how it fills in keyLinks
  created,   \* the server: how many keys were ever created
  state,     \* the server: the lifecycle state of each
  next,      \* the server: the successor of each
  pc,        \* where each RotateKey is
  key,       \* its keyID
  before,    \* the key links it read first
  mine,      \* history: the successor that its own rotation created
  outcome,   \* what it returned
  found      \* the id it returned

serverVars == <<view, created, state, next>>
callVars   == <<pc, key, before, mine, outcome, found>>
vars == <<serverVars, callVars>>

Outcomes == {"none", "successor", "unknown", "readError", "apiError", "transportError"}

Init ==
  /\ view \in Views
  /\ created = 1
  /\ state = [k \in Keys |-> IF k = 1 THEN "ACTIVE" ELSE "none"]
  /\ next = [k \in Keys |-> NoKey]
  /\ pc = [r \in Rotators |-> "idle"]
  /\ key = [r \in Rotators |-> 1]
  /\ before = [r \in Rotators |-> {}]
  /\ mine = [r \in Rotators |-> NoKey]
  /\ outcome = [r \in Rotators |-> "none"]
  /\ found = [r \in Rotators |-> NoKey]

-----------------------------------------------------------------------------
(* The server: external, as the SDK, its tests and SPEC.md describe it.    *)

\* The lifecycle is forward-only, and a destroyed key keeps its metadata.
Lifecycle == <<"ACTIVE", "DEACTIVATED", "DESTROYED", "DELETED">>

Exists(k) == state[k] \in {"ACTIVE", "DEACTIVATED", "DESTROYED"}

\* The keys of a chain, linked by rotations.  All keys here descend from 1.
Chain == {k \in Keys : k <= created /\ Exists(k)}

\* "link direction is deployment-observed, not guaranteed" (SPEC.md:283).
Links(k) ==
  LET forward  == {n \in Chain : n = next[k]}
      backward == {p \in Chain : next[p] = k}
  IN  CASE view = "forward"  -> forward
        [] view = "backward" -> backward
        [] view = "both"     -> forward \cup backward
        [] view = "chain"    -> IF created = 1 THEN {} ELSE Chain

CanRotate(k) == state[k] = "ACTIVE" /\ created < MaxKeys

\* Deactivates k and creates a linked successor.
RotateOnServer(r) ==
  /\ CanRotate(key[r])
  /\ created' = created + 1
  /\ state' = [state EXCEPT ![key[r]] = "DEACTIVATED", ![created + 1] = "ACTIVE"]
  /\ next' = [next EXCEPT ![key[r]] = created + 1]
  /\ mine' = [mine EXCEPT ![r] = created + 1]
  /\ UNCHANGED view

-----------------------------------------------------------------------------
(* Other methods on the keys of the chain: one request each, executed at   *)
(* most once, whose failures change nothing.                               *)

Advance(k, to) ==
  /\ Exists(k)
  /\ \E i, j \in DOMAIN Lifecycle :
       i < j /\ Lifecycle[i] = state[k] /\ Lifecycle[j] = to
  /\ state' = [state EXCEPT ![k] = to]
  /\ UNCHANGED <<view, created, next, callVars>>

SetKeyState(k) == \E to \in {"DEACTIVATED", "DESTROYED"} : Advance(k, to)

\* Material and metadata are gone, links included.
DeleteKey(k) == Advance(k, "DELETED")

-----------------------------------------------------------------------------
(* RotateKey.                                                              *)

Begin(r, k) ==
  /\ pc[r] = "idle"
  /\ k <= created
  /\ pc' = [pc EXCEPT ![r] = "readBefore"]
  /\ key' = [key EXCEPT ![r] = k]
  /\ before' = [before EXCEPT ![r] = {}]
  /\ mine' = [mine EXCEPT ![r] = NoKey]
  /\ outcome' = [outcome EXCEPT ![r] = "none"]
  /\ found' = [found EXCEPT ![r] = NoKey]
  /\ UNCHANGED serverVars

ReturnWith(r, o, id) ==
  /\ pc' = [pc EXCEPT ![r] = "idle"]
  /\ outcome' = [outcome EXCEPT ![r] = o]
  /\ found' = [found EXCEPT ![r] = id]

ReadBefore(r) ==
  /\ pc[r] = "readBefore"
  /\ Exists(key[r])
  /\ before' = [before EXCEPT ![r] = Links(key[r])]
  /\ pc' = [pc EXCEPT ![r] = "rotate"]
  /\ UNCHANGED <<serverVars, key, mine, outcome, found>>

\* A deleted key is not found; any other error of GetKey ends the call too.
ReadBeforeFails(r) ==
  /\ pc[r] = "readBefore"
  /\ ReturnWith(r, "readError", NoKey)
  /\ UNCHANGED <<serverVars, key, before, mine>>

\* do() takes a success for a nil error, and a redirect that net/http does not
\* follow too: RotateKey goes on to its second read.  An API error or a
\* transport error is returned.
Answered(r, answer) ==
  \/ /\ answer \in {"success", "redirect"}
     /\ pc' = [pc EXCEPT ![r] = "readAfter"]
     /\ UNCHANGED <<outcome, found>>
  \/ /\ answer \in {"apiError", "transportError"}
     /\ ReturnWith(r, answer, NoKey)

\* The request is executed.  Its caller may still be told of an error: a 5xx
\* after the fact, a response that is lost.
Rotate(r) ==
  /\ pc[r] = "rotate"
  /\ RotateOnServer(r)
  /\ \E answer \in Answers : Answered(r, answer)
  /\ UNCHANGED <<key, before>>

\* The request is refused (a key that is not active: KEY_LIFECYCLE), answered
\* by something in front of the server, or lost.
RotateFails(r) ==
  /\ pc[r] = "rotate"
  /\ \E answer \in Answers \ {"success"} : Answered(r, answer)
  /\ UNCHANGED <<serverVars, key, before, mine>>

NewLinks(old, new, self) == new \ (old \cup {self})

\* (wrong variant) Any new link will do.
AnyNewKeyLink(old, new, self, id) == id \in NewLinks(old, new, self)

\* id is the single entry of new that is neither in old nor self.
newKeyLink(old, new, self, id) == NewLinks(old, new, self) = {id}

ReadAfter(r) ==
  /\ pc[r] = "readAfter"
  /\ Exists(key[r])
  /\ LET after == Links(key[r])
         Identified(id) == newKeyLink(before[r], after, key[r], id)
     IN  \/ \E id \in after : Identified(id) /\ ReturnWith(r, "successor", id)
         \/ ~(\E id \in after : Identified(id)) /\ ReturnWith(r, "unknown", NoKey)
  /\ UNCHANGED <<serverVars, key, before, mine>>

ReadAfterFailsWith(r, o, id) ==
  /\ pc[r] = "readAfter"
  /\ ReturnWith(r, o, id)
  /\ UNCHANGED <<serverVars, key, before, mine>>

\* (wrong variants) The second read fails like the first one; the id of the
\* rotated key is returned beside the error.
ReadAfterFailsPlainly(r) == ReadAfterFailsWith(r, "readError", NoKey)
ReadAfterFailsWithKey(r) == ReadAfterFailsWith(r, "unknown", key[r])

\* The error of the second read is joined with ErrSuccessorUnknown.
ReadAfterFails(r) == ReadAfterFailsWith(r, "unknown", NoKey)

Next ==
  \/ \E r \in Rotators :
       \/ \E k \in Keys : Begin(r, k)
       \/ ReadBefore(r) \/ ReadBeforeFails(r)
       \/ Rotate(r) \/ RotateFails(r)
       \/ ReadAfter(r) \/ ReadAfterFails(r)
  \/ \E k \in Keys : SetKeyState(k) \/ DeleteKey(k)

Spec == Init /\ [][Next]_vars

-----------------------------------------------------------------------------
\* Every variable has its type, and an id comes with a nil error, uuid.Nil
\* with any other.
TypeOK ==
  /\ view \in Views
  /\ created \in Keys
  /\ state \in [Keys -> {"none", "ACTIVE", "DEACTIVATED", "DESTROYED", "DELETED"}]
  /\ next \in [Keys -> Keys \cup {NoKey}]
  /\ pc \in [Rotators -> {"idle", "readBefore", "rotate", "readAfter"}]
  /\ key \in [Rotators -> Keys]
  /\ before \in [Rotators -> SUBSET Keys]
  /\ mine \in [Rotators -> Keys \cup {NoKey}]
  /\ outcome \in [Rotators -> Outcomes]
  /\ found \in [Rotators -> Keys \cup {NoKey}]
  /\ \A r \in Rotators : found[r] # NoKey <=> outcome[r] = "successor"

(***************************************************************************)
(* The id that RotateKey returns (key_lifecycle.go:53) is the successor    *)
(* that this very rotation created, whoever rotates the chain on between   *)
(* the two reads and whatever keyLinks shows.  There is one exception: a   *)
(* server that lists the whole chain, and a successor deleted before the   *)
(* second read; the id is then that of a later generation.                 *)
(***************************************************************************)
SuccessorIsOwn ==
  \A r \in Rotators :
    outcome[r] = "successor" =>
      /\ mine[r] # NoKey
      /\ \/ found[r] = mine[r]
         \/ view = "chain" /\ state[mine[r]] = "DELETED" /\ found[r] > mine[r]

(***************************************************************************)
(* "RotateKey distinguishes outcomes" (SPEC.md:376): an id and             *)
(* ErrSuccessorUnknown are only returned when the key was rotated, and the *)
(* error of the first read only when it was not.  An API error and a       *)
(* transport error leave it open (key_lifecycle.go:44), as for any call.   *)
(***************************************************************************)
OutcomeTellsRotation ==
  \A r \in Rotators :
    /\ outcome[r] \in {"successor", "unknown"} => mine[r] # NoKey
    /\ outcome[r] = "readError" => mine[r] = NoKey

(***************************************************************************)
(* "ErrSuccessorUnknown reports that a rotation succeeded"                 *)
(* (key_lifecycle.go:14), whatever the rotate request was answered with.   *)
(***************************************************************************)
UnknownMeansRotated ==
  \A r \in Rotators : outcome[r] = "unknown" => mine[r] # NoKey
=============================================================================
