------------------------------ MODULE RunLoop ------------------------------
(***************************************************************************)
(* The commands that drive a run, and the run loop they share               *)
(* (internal/engine/engine.go, outcome.go, invariants.go; cli/abandon.go).  *)
(* A command holds the run lock from start to end, so at most one is under  *)
(* way; it appends one event per action, and may die between any two.       *)
(***************************************************************************)
EXTENDS Journal

CONSTANT MaxCrashes   \* bound: how many commands may die half way

ASSUME MaxCrashesAssumption == MaxCrashes \in Nat

VARIABLES
  rs,       \* the journal, as Replay sees it
  cmd,      \* the command that holds the lock
  holds,    \* every declared invariant holds in the world as it is
  age,      \* how long ago a parked step was entered, and its question asked
  leaving,  \* a pawl abandon has looked at the run and found it not over
  crashes,  \* commands that have died
  hist      \* history, read by properties only

runVars == <<rs, cmd, holds, age, leaving, crashes, hist>>

\* `at` is the engine's local cursor, `seen` the ${last_error} frozen for the
\* attempt, `gate` whether invariants are evaluated before the TRANSITION.
Idle == [pc |-> "idle", at |-> NoCursor, retry |-> FALSE, seen |-> NoText,
         outcome |-> "", gate |-> FALSE]

AtPC(label, c) == [Idle EXCEPT !.pc = label, !.at = c]
Resolved(c, outcome, gate) ==
  [AtPC("route", c) EXCEPT !.outcome = outcome, !.gate = gate]

Never == -1

\* STEP_ENTER and an intervention's RESUME start the deadline of a wait.
Entered(s) == [age EXCEPT ![s].entered = IF Kind[s] = "wait" THEN 0 ELSE @]

\* Where a step starts when nothing of it is in flight.
Fresh(s) == [step |-> s, attempt |-> 1, key |-> "", hard |-> 0]

RunInit ==
  /\ rs = NewRun /\ cmd = Idle /\ holds = TRUE
  /\ age = [s \in Steps |-> [entered |-> Never, asked |-> Never]]
  /\ leaving = FALSE /\ crashes = 0
  /\ hist = [arrivals |-> [s \in Steps |-> 0], retries |-> 0, firstSeen |-> NoText,
             entered |-> NoCursor]

\* A step's body, an agent or a person may make the invariants true or false.
WorldChanges == holds' \in IF Invariants THEN BOOLEAN ELSE {TRUE}

\* The ways into a step so far, counted up to one more than the visits it may
\* have (a bound: blocks and interventions at a capped step go on for ever).
OneMore(arrivals, s) ==
  [x \in Steps |-> IF x = s /\ arrivals[x] <= MaxVisits[x] THEN arrivals[x] + 1
                   ELSE arrivals[x]]

\* A visit may begin: it has had no STEP_ENTER yet.
Arrive(s) ==
  hist' = [hist EXCEPT !.arrivals = OneMore(@, s), !.retries = 0, !.entered = NoCursor]

-----------------------------------------------------------------------------
(* pawl run: Start and Resume *)

Start ==
  /\ cmd = Idle /\ ~rs.started
  /\ rs' = AfterRunStart(rs)
  /\ cmd' = AtPC("enter", Fresh(StartStep))
  /\ Arrive(StartStep)
  /\ UNCHANGED <<holds, age, leaving, crashes>>

\* Mutant: a crash resume enters a parked step afresh.
StaysParkedNever(r, s) == FALSE

\* A crash resume of a wait, or of a question already asked, re-prints it.
StaysParked(r, s) ==
  /\ r.resumedInFlight = s
  /\ Kind[s] = "wait" \/ (Kind[s] = "human" /\ s \in r.asked)

\* RESUME is journaled, then the cursor's step is dispatched.  Nothing stops a
\* Resume of a run that is merely waiting for its session.
Resume ==
  /\ cmd = Idle /\ rs.started /\ ~RunTerminal(rs)
  /\ LET intervention == RunBlocked(rs)
         c == [Cursor(rs) EXCEPT !.attempt = IF intervention THEN 1 ELSE @,
                                 !.hard = IF intervention THEN 0 ELSE @]
         r == AfterResume(rs, c, intervention)
     IN /\ rs' = r
        /\ cmd' = IF c.step \notin Steps \/ (~intervention /\ StaysParked(r, c.step))
                  THEN Idle ELSE AtPC("enter", c)
        /\ IF intervention
             THEN WorldChanges /\ Arrive(c.step) /\ age' = Entered(c.step)
             ELSE UNCHANGED <<holds, hist, age>>
  /\ UNCHANGED <<leaving, crashes>>

-----------------------------------------------------------------------------
(* Entering a step *)

\* Mutants of Capped: one visit, or one step, too many.
CappedVisitLate(r, s) ==
  /\ r.resumedInFlight # s
  /\ r.visits[s] > MaxVisits[s] \/ SumFunction(r.visits) >= MaxSteps

CappedStepLate(r, s) ==
  /\ r.resumedInFlight # s
  /\ r.visits[s] >= MaxVisits[s] \/ SumFunction(r.visits) > MaxSteps

\* checkCaps: one more entry would exceed max_visits: or max_steps:.
Capped(r, s) ==
  /\ r.resumedInFlight # s
  /\ r.visits[s] >= MaxVisits[s] \/ SumFunction(r.visits) >= MaxSteps

EnterCapped ==
  /\ cmd.pc = "enter" /\ Capped(rs, cmd.at.step)
  /\ cmd' = Resolved(cmd.at, "exhausted", FALSE)
  /\ UNCHANGED <<rs, holds, age, leaving, crashes, hist>>

\* beginAttempt: without a key, a step with a template renders it and takes up
\* whatever budget is recorded under the result.
BeginAttempt(r, c) ==
  IF c.key = "" /\ Template[c.step] # {}
    THEN {[c EXCEPT !.key = k, !.attempt = r.attempts[c.step][k] + 1] : k \in Template[c.step]}
    ELSE {[c EXCEPT !.attempt = IF @ = 0 THEN 1 ELSE @]}

\* What follows the STEP_ENTER: run: is executed, a DISPATCH is put together,
\* a question is asked, members are fanned out; a wait is parked and the command
\* is over.
AfterEntry(c, seen) ==
  CASE Kind[c.step] = "deterministic" -> [AtPC("body", c) EXCEPT !.seen = seen]
    [] Kind[c.step] = "agentic" -> AtPC("dispatch", c)
    [] Kind[c.step] = "human" -> AtPC("ask", c)
    [] Kind[c.step] = "parallel" -> AtPC("fan", c)
    [] Kind[c.step] = "wait" -> Idle

EnterStep ==
  /\ cmd.pc = "enter" /\ ~Capped(rs, cmd.at.step)
  /\ \E c \in BeginAttempt(rs, cmd.at) :
       LET r == AfterStepEnter(rs, c, FALSE)
           resumed == rs.resumedInFlight = c.step /\ c = hist.entered
       IN /\ rs' = r
          /\ cmd' = AfterEntry(c, r.attemptLastError)
          /\ hist' = [hist EXCEPT !.retries = IF resumed THEN @ ELSE 0,
                                  !.firstSeen = IF c.hard > 0 THEN @ ELSE r.attemptLastError,
                                  !.entered = c]
          /\ age' = Entered(c.step)
  /\ UNCHANGED <<holds, leaving, crashes>>

-----------------------------------------------------------------------------
(* Leaving a step *)

\* preTransitionInvariantBlock: the violation pre-empts the TRANSITION.
InvariantBlocks ==
  /\ cmd.pc = "route" /\ cmd.gate /\ ~holds
  /\ rs' = AfterRunEnd(rs, cmd.at.step, "blocked")
  /\ cmd' = Idle
  /\ UNCHANGED <<holds, age, leaving, crashes, hist>>

Transition ==
  /\ cmd.pc = "route" /\ (cmd.gate => holds)
  /\ LET s == cmd.at.step
         target == ResolveTarget(s, cmd.outcome)
     IN /\ rs' = AfterTransition(rs, s, target, ViaCatch(s, cmd.outcome))
        /\ IF target \in Steps
             THEN cmd' = AtPC("enter", Fresh(target)) /\ Arrive(target)
             ELSE /\ cmd' = [AtPC("end", cmd.at) EXCEPT !.outcome = target]
                  /\ UNCHANGED hist
  /\ UNCHANGED <<holds, age, leaving, crashes>>

\* Mutant: the terminal's id is recorded instead of its status.
EndNamesTerminal ==
  /\ cmd.pc = "end"
  /\ rs' = AfterRunEnd(rs, cmd.at.step, cmd.outcome)
  /\ cmd' = Idle
  /\ UNCHANGED <<holds, age, leaving, crashes, hist>>

\* afterTransition at a terminal.
End ==
  /\ cmd.pc = "end"
  /\ rs' = AfterRunEnd(rs, cmd.at.step, EndStatus(cmd.outcome))
  /\ cmd' = Idle
  /\ UNCHANGED <<holds, age, leaving, crashes, hist>>

-----------------------------------------------------------------------------

\* The process dies, or returns an error after a write that failed.
Crash ==
  /\ cmd # Idle /\ crashes < MaxCrashes
  /\ crashes' = crashes + 1
  /\ cmd' = Idle
  /\ UNCHANGED <<rs, holds, age, leaving, hist>>

\* pawl abandon looks at the run before it takes the lock...
AbandonLooks ==
  /\ rs.started /\ ~RunTerminal(rs) /\ ~leaving
  /\ leaving' = TRUE
  /\ UNCHANGED <<rs, cmd, holds, age, crashes, hist>>

\* ...and not again after.
AbandonEnds ==
  /\ leaving /\ cmd = Idle
  /\ rs' = AfterRunEnd(rs, NoStep, "abandoned")
  /\ leaving' = FALSE
  /\ UNCHANGED <<cmd, holds, age, crashes, hist>>

LoopStep == EnterCapped \/ EnterStep \/ InvariantBlocks \/ Transition \/ End

RunStep == Start \/ Resume \/ LoopStep \/ Crash \/ AbandonLooks \/ AbandonEnds

=============================================================================
