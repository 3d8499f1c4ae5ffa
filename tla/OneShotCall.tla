---------------------------- MODULE OneShotCall -----------------------------
(***************************************************************************)
(* What Client.do promises the callers of the SDK, without tokens, replays *)
(* or locks: while a call is open its operation may take effect on the     *)
(* server, once; and some outcomes tell whether it did.                    *)
(***************************************************************************)
EXTENDS Naturals

CONSTANT Callers

VARIABLES
  phase,     \* "idle" or "open"
  effects,   \* how often the server executed the latest operation
  outcome    \* of the latest call, "none" while it is open

vars == <<phase, effects, outcome>>

\* A nil error: the operation was executed.
Done == {"ok"}

\* The request was refused for its token or never sent, or there was none.
NotDone == {"unauthorized", "tokenError", "loggedOut", "logoutError"}

\* The caller cannot tell.
Unknown == {"apiError", "transportError", "decodeError"}

Init ==
  /\ phase = [g \in Callers |-> "idle"]
  /\ effects = [g \in Callers |-> 0]
  /\ outcome = [g \in Callers |-> "none"]

Open(g) ==
  /\ phase[g] = "idle"
  /\ phase' = [phase EXCEPT ![g] = "open"]
  /\ effects' = [effects EXCEPT ![g] = 0]
  /\ outcome' = [outcome EXCEPT ![g] = "none"]

TakeEffect(g) ==
  /\ phase[g] = "open"
  /\ effects[g] = 0
  /\ effects' = [effects EXCEPT ![g] = 1]
  /\ UNCHANGED <<phase, outcome>>

Finish(g, o) ==
  /\ phase[g] = "open"
  /\ o \in Done => effects[g] = 1
  /\ o \in NotDone => effects[g] = 0
  /\ phase' = [phase EXCEPT ![g] = "idle"]
  /\ outcome' = [outcome EXCEPT ![g] = o]
  /\ UNCHANGED effects

Next == \E g \in Callers :
  \/ Open(g)
  \/ TakeEffect(g)
  \/ \E o \in Done \cup NotDone \cup Unknown : Finish(g, o)

Spec == Init /\ [][Next]_vars
=============================================================================
