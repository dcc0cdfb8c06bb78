-------------------------------- MODULE Walk --------------------------------
(***************************************************************************)
(* What a run promises its workflow's author: it is a walk over the edges   *)
(* the workflow declares.  The run is at a place and inside it or not; it   *)
(* goes in within the caps, comes out by one of the step's edges, and a     *)
(* capped step is passed over by its exhausted edge.  Crashes, resumes,     *)
(* retries and attempts do not exist at this level.                         *)
(***************************************************************************)
EXTENDS Workflow, Functions

VARIABLES
  at,       \* the step or end the walk has reached, NoStep before and after
  inside,   \* the step's visit has begun
  visits,   \* how often each step was visited
  status    \* "new", "live", "blocked" or "over"

walkVars == <<at, inside, visits, status>>

WalkInit ==
  /\ at = NoStep /\ inside = FALSE /\ status = "new"
  /\ visits = [s \in Steps |-> 0]

AtCap(s) == visits[s] >= MaxVisits[s] \/ SumFunction(visits) >= MaxSteps

Targets(s) == {ResolveTarget(s, o) : o \in Producible(s)}

\* The walk is about to go into s.
Ahead(s) == at = s \/ (at = NoStep /\ s = StartStep)

Begin ==
  /\ status = "new"
  /\ status' = "live"
  /\ UNCHANGED <<at, inside, visits>>

Visit(s) ==
  /\ status = "live" /\ ~inside /\ Ahead(s) /\ ~AtCap(s)
  /\ at' = s /\ inside' = TRUE
  /\ visits' = [visits EXCEPT ![s] = @ + 1]
  /\ UNCHANGED status

Leave ==
  /\ status = "live" /\ inside
  /\ at' \in Targets(at) /\ inside' = FALSE
  /\ UNCHANGED <<visits, status>>

PassOver(s) ==
  /\ status = "live" /\ ~inside /\ Ahead(s) /\ AtCap(s)
  /\ at' = ResolveTarget(s, "exhausted")
  /\ UNCHANGED <<inside, visits, status>>

\* At an end; a blocked walk is back at a step that leads there.
Finish ==
  /\ status = "live" /\ at \in Ends
  /\ IF EndStatus(at) = "blocked"
       THEN status' = "blocked" /\ at' \in {s \in Steps : at \in Targets(s)}
       ELSE status' = "over" /\ at' = NoStep
  /\ UNCHANGED <<inside, visits>>

\* An invariant is violated by what the step has done.
Block ==
  /\ status = "live" /\ inside
  /\ status' = "blocked" /\ inside' = FALSE
  /\ UNCHANGED <<at, visits>>

Intervene ==
  /\ status = "blocked"
  /\ status' = "live"
  /\ UNCHANGED <<at, inside, visits>>

Abandon ==
  /\ status \in {"live", "blocked"}
  /\ status' = "over" /\ at' = NoStep /\ inside' = FALSE
  /\ UNCHANGED visits

WalkNext == \/ Begin \/ Leave \/ Finish \/ Block \/ Intervene \/ Abandon
            \/ \E s \in Steps : Visit(s) \/ PassOver(s)

WalkSpec == WalkInit /\ [][WalkNext]_walkVars

=============================================================================
