------------------------------- MODULE CaseFile -------------------------------
(***************************************************************************)
(* What the situation room promises to those who follow an occurrence,     *)
(* with no request, row or socket in sight: an occurrence has one file.    *)
(* Whatever happens to it is one entry of the log of its file, written at  *)
(* once with what it changes: the status, whether the occurrence was ever  *)
(* resolved, the steps of the plan in force.  A note may be headed like any*)
(* other entry, and changes nothing.  Nobody is told of a change of status *)
(* more often than the log has it.                                         *)
(***************************************************************************)
EXTENDS Naturals, Sequences, FiniteSets

CONSTANTS
  Occurrence,  \* occurrences a file may be opened for
  Status,      \* statuses of an occurrence
  Resolved,    \* the status that resolves it
  Plan,        \* plans that may be activated
  Heading,     \* what a note may be headed with
  Length       \* numbers of steps a plan may have

VARIABLES
  status,    \* Occurrence -> its status; "unopened" before it has a file
  resolved,  \* Occurrence -> was it ever resolved
  log,       \* Occurrence -> the entries of its file
  steps,     \* Occurrence -> the steps of its plan, as <<plan, position>>
  told       \* Occurrence -> the statuses its followers were told of

fileVars == <<status, resolved, log, steps, told>>

IsOpen(o)   == status[o] # "unopened"
Moved(s)    == [what |-> "moved", to |-> s]
Enter(o, e) == log' = [log EXCEPT ![o] = Append(@, e)]
Times(s, x) == Cardinality({i \in DOMAIN s : s[i] = x})

Init ==
  /\ status   = [o \in Occurrence |-> "unopened"]
  /\ resolved = [o \in Occurrence |-> FALSE]
  /\ log      = [o \in Occurrence |-> <<>>]
  /\ steps    = [o \in Occurrence |-> {}]
  /\ told     = [o \in Occurrence |-> <<>>]

Open(o, s) ==
  /\ ~ IsOpen(o)
  /\ Enter(o, [what |-> "opened"])
  /\ status' = [status EXCEPT ![o] = s]
  /\ UNCHANGED <<resolved, steps, told>>

Move(o, s) ==
  /\ IsOpen(o)
  /\ Enter(o, Moved(s))
  /\ status' = [status EXCEPT ![o] = s]
  /\ resolved' = [resolved EXCEPT ![o] = @ \/ s = Resolved]
  /\ UNCHANGED <<steps, told>>

(* The steps of the plan take the place of those of the plan before.       *)
Activate(o, p, n) ==
  /\ IsOpen(o)
  /\ Enter(o, [what |-> "activated", plan |-> p])
  /\ steps' = [steps EXCEPT ![o] = {<<p, i>> : i \in 0 .. (n - 1)}]
  /\ UNCHANGED <<status, resolved, told>>

(* A note, even one headed as a resolution, is not one.                    *)
Annotate(o, t) ==
  /\ IsOpen(o)
  /\ Enter(o, [what |-> "note", heading |-> t])
  /\ UNCHANGED <<status, resolved, steps, told>>

Tell(o, s) ==
  /\ Times(told[o], s) < Times(log[o], Moved(s))
  /\ told' = [told EXCEPT ![o] = Append(@, s)]
  /\ UNCHANGED <<status, resolved, log, steps>>

Next ==
  \E o \in Occurrence :
    \/ \E s \in Status : Open(o, s) \/ Move(o, s) \/ Tell(o, s)
    \/ \E p \in Plan, n \in Length : Activate(o, p, n)
    \/ \E t \in Heading : Annotate(o, t)

Spec == Init /\ [][Next]_fileVars
=============================================================================
