------------------------------- MODULE CallOut -------------------------------
(***************************************************************************)
(* What opening an occurrence promises to the people in the control room,  *)
(* with no table, message or statement in sight: once the occurrence       *)
(* exists, the calls it owes are decided once and for all; they are made   *)
(* one by one; it is announced only when every call owed has been made;    *)
(* and it may be abandoned before that, after which nothing more happens.  *)
(***************************************************************************)
CONSTANTS
  Request,  \* occurrences that may be opened
  Call      \* calls an occurrence may owe

VARIABLES
  phase,    \* Request -> how far the opening got
  owed,     \* Request -> calls decided for it
  called    \* Request -> calls made

callVars == <<phase, owed, called>>

Phase == {"none", "open", "calling", "announced", "abandoned"}

Init ==
  /\ phase  = [r \in Request |-> "none"]
  /\ owed   = [r \in Request |-> {}]
  /\ called = [r \in Request |-> {}]

Open(r) ==
  /\ phase[r] = "none"
  /\ phase' = [phase EXCEPT ![r] = "open"]
  /\ UNCHANGED <<owed, called>>

Decide(r) ==
  /\ phase[r] = "open"
  /\ phase' = [phase EXCEPT ![r] = "calling"]
  /\ owed' \in [Request -> SUBSET Call]
  /\ \A q \in Request \ {r} : owed'[q] = owed[q]
  /\ UNCHANGED called

MakeCall(r) ==
  /\ phase[r] = "calling"
  /\ \E c \in owed[r] \ called[r] :
       called' = [called EXCEPT ![r] = @ \cup {c}]
  /\ UNCHANGED <<phase, owed>>

Announce(r) ==
  /\ phase[r] = "calling"
  /\ called[r] = owed[r]
  /\ phase' = [phase EXCEPT ![r] = "announced"]
  /\ UNCHANGED <<owed, called>>

(* A failed request, or all those in flight when the process stops.        *)
Abandon(S) ==
  /\ \A r \in S : phase[r] \in {"open", "calling"}
  /\ phase' = [r \in Request |-> IF r \in S THEN "abandoned" ELSE phase[r]]
  /\ UNCHANGED <<owed, called>>

Next ==
  \/ \E r \in Request : Open(r) \/ Decide(r) \/ MakeCall(r) \/ Announce(r)
  \/ \E S \in SUBSET Request : Abandon(S)

Spec == Init /\ [][Next]_callVars
=============================================================================
