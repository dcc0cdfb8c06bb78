------------------------------ MODULE Workflow ------------------------------
(***************************************************************************)
(* What the engine reads of a workflow (internal/spec: Workflow, Step), and *)
(* the table that turns an outcome into the next target.  A workflow is     *)
(* immutable for the life of a run, so all of it is CONSTANT.               *)
(***************************************************************************)
EXTENDS Integers, FiniteSets

CONSTANTS
  Steps,      \* the ids of the steps the cursor can be on
  StartStep,  \* start:
  MaxSteps,   \* max_steps:
  Kind,       \* kind: of each step
  MaxVisits,  \* max_visits:
  Attempts,   \* attempts:
  Tries,      \* retry.max_attempts, 1 where the step declares no retry:
  Template,   \* the values attempt_key: can render to, {} where it is omitted
  HasPost,    \* the steps that declare a postcondition:
  Emits,      \* the outcomes other than failure a step's body can report
  Timeout,    \* timeout: of the wait and human steps, in ticks
  Outcomes,   \* outcomes:, a function from some outcomes to targets
  Catch,      \* catch:, the first entry for each outcome it names
  NextStep,   \* next:, or NoStep
  Terminal,   \* terminal:, a function from terminal ids to their status
  Invariants, \* whether the workflow declares invariants:
  Texts       \* the failure texts postconditions produce, whitespace apart

Kinds == {"deterministic", "agentic", "wait", "human", "parallel"}

NoStep == ""
NoText == ""
Diagnostic == "diagnostic"   \* the text of any hard failure

\* An attempt key: the bootstrap key "", the hash of a failure text, or the
\* value of the step's own template.
Keys == {""} \cup Texts \cup UNION {Template[s] : s \in Steps}

Reserved == {"failure", "exhausted"}

\* `blocked` and `done` exist without being declared; any other target is a
\* step or a declared terminal (the validator's rule 3).
Ends == DOMAIN Terminal \cup {"done", "blocked"}

ASSUME WorkflowAssumption ==
  /\ IsFiniteSet(Steps)
  /\ NoStep \notin Steps /\ Steps \cap Ends = {}
  /\ StartStep \in Steps
  /\ MaxSteps \in Nat \ {0}
  /\ Kind \in [Steps -> Kinds]
  /\ MaxVisits \in [Steps -> Nat \ {0}]
  /\ Attempts \in [Steps -> Nat \ {0}]
  /\ Tries \in [Steps -> Nat \ {0}]
  /\ Timeout \in [Steps -> Nat]
  /\ Invariants \in BOOLEAN
  /\ NextStep \in [Steps -> Steps \cup Ends \cup {NoStep}]
  /\ \A s \in Steps :
       /\ \A o \in DOMAIN Outcomes[s] : Outcomes[s][o] \in Steps \cup Ends
       /\ \A o \in DOMAIN Catch[s] : Catch[s][o] \in Steps \cup Ends
  /\ \A t \in DOMAIN Terminal : Terminal[t] \in {"ok", "blocked"}
  /\ \A s \in Steps : Template[s] # {} => Kind[s] \in {"deterministic", "agentic"}

-----------------------------------------------------------------------------

ResolveTarget(s, outcome) ==
  IF outcome \in DOMAIN Outcomes[s] THEN Outcomes[s][outcome]
  ELSE IF outcome \in DOMAIN Catch[s] THEN Catch[s][outcome]
  ELSE IF outcome \in Reserved THEN "blocked"
  ELSE NextStep[s]

\* The outcomes a step can have: those of its body, and for a wait or a human
\* step that of its deadline.
Producible(s) == Emits[s] \cup {"failure", "exhausted"}
                 \cup IF Kind[s] \in {"wait", "human"} THEN {"timeout"} ELSE {}

\* The validator rejects a workflow in which one of them leads nowhere.
ASSUME RoutesAssumption ==
  \A s \in Steps : \A o \in Producible(s) : ResolveTarget(s, o) # NoStep

\* The edge is a catch edge: for a reserved outcome always, for another one
\* when it was routed through catch:.
ViaCatch(s, outcome) ==
  \/ outcome \in Reserved
  \/ outcome \notin DOMAIN Outcomes[s] /\ outcome \in DOMAIN Catch[s]

EndStatus(target) == IF target \in DOMAIN Terminal THEN Terminal[target]
                     ELSE IF target = "blocked" THEN "blocked" ELSE "ok"

=============================================================================
