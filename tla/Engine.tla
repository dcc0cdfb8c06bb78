------------------------------- MODULE Engine -------------------------------
(***************************************************************************)
(* A run of a workflow of deterministic and agentic steps: the commands,    *)
(* the session that submits results, the crashes, and what must come of it. *)
(***************************************************************************)
EXTENDS Bodies

Init == RunInit

\* A run that has ended, with nobody left to act on it.
Over == RunTerminal(rs) /\ cmd = Idle /\ ~leaving /\ UNCHANGED runVars

Next == RunStep \/ BodyStep \/ Submit \/ Over

Spec == Init /\ [][Next]_runVars

\* A command that is running goes on running.
Progress == LoopStep \/ BodyStep

\* Every command that pawl executes is killed at a wall-clock ceiling, so a
\* process that does not die gets to its next event.
CommandsRun == Spec /\ WF_runVars(Progress)

\* The session, which the Stop hook does not let go, submits what it was asked
\* for and runs pawl run again when a command has died.
SessionWorks == CommandsRun /\ WF_runVars(Start) /\ WF_runVars(Resume) /\ SF_runVars(Submit)

-----------------------------------------------------------------------------
(* Types *)

Places == Steps \cup Ends \cup {NoStep}

\* An outcome of a step, or a target that is not a step.
Words == Ends \cup {NoStep} \cup UNION {Producible(s) : s \in Steps}

Cursors == [step : Places, attempt : Nat, key : Keys, hard : Nat]

Runs ==
  [ started : BOOLEAN, attempts : [Steps -> [Keys -> Nat]], visits : [Steps -> Nat],
    lastError : Texts \cup {NoText, Diagnostic},
    attemptLastError : Texts \cup {NoText, Diagnostic},
    lastEnter : Cursors, left : BOOLEAN, inFlight : BOOLEAN,
    lastTarget : Places, blockedStep : Places,
    lastKey : [Steps -> Keys], postOK : [Steps -> BOOLEAN],
    resumedInFlight : Places,
    ended : BOOLEAN, endStatus : {"", "ok", "blocked", "abandoned"},
    asked : SUBSET Steps, answered : SUBSET Steps ]

Commands ==
  [ pc : {"idle", "enter", "body", "judge", "again", "failed", "dispatch", "ask",
          "fan", "route", "end"},
    at : Cursors, retry : BOOLEAN, seen : Texts \cup {NoText, Diagnostic},
    outcome : Words, gate : BOOLEAN ]

TypeOK ==
  /\ rs \in Runs /\ cmd \in Commands
  /\ holds \in BOOLEAN /\ leaving \in BOOLEAN
  /\ age \in [Steps -> [entered : Int, asked : Int]] /\ crashes \in 0..MaxCrashes
  /\ hist \in [arrivals : [Steps -> Nat], retries : Nat,
               firstSeen : Texts \cup {NoText, Diagnostic},
               entered : Cursors]

-----------------------------------------------------------------------------
(* What holds *)

\* No step is entered more often than max_visits:, whatever crashes, resumes
\* and interventions there are: the re-entries for which the cap is not checked
\* are not counted either.
VisitsWithinMax == \A s \in Steps : rs.visits[s] <= MaxVisits[s]

\* Nor are all steps together entered more often than max_steps:.
StepsWithinMax == SumFunction(rs.visits) <= MaxSteps

\* "A crash resume never consumes a visit": a step has had no more visits than
\* the run had reasons to enter it, its transitions there and interventions.
CrashConsumesNoVisit == \A s \in Steps : rs.visits[s] <= hist.arrivals[s]

\* Within one visit a step is re-entered fewer times than attempts:, whatever the
\* texts it fails with, and so the keys: nextTryNumber (engine.go:462) goes on
\* from the attempt that failed.  format-spec.md:200 and replay.go:8 say otherwise,
\* that a different text starts a fresh budget.  Two things do start one: a crash
\* re-entry whose entry had no key to go on with (see CrashKeepsAttempt), from
\* which on hist counts anew, and a result submitted to a run that is blocked,
\* whose last TRANSITION may have cleared what it would be counted in; that run
\* the property leaves out.
RetriesWithinBudget ==
  ~RunBlocked(rs) /\ cmd.pc \in {"body", "dispatch"}
    => hist.retries < Attempts[cmd.at.step]

\* An entry of a step that declares attempt_key: has the key that rendered to.
HasKey(c) == Template[c.step] # {} => c.key # ""

\* The STEP_ENTER after a crash RESUME has the attempt, the key and the try of
\* the body that the STEP_ENTER before the crash had, whatever commands died in
\* between.  Except where that one should have had a key and has none, because
\* attempt_key: rendered to nothing or because its step was first seen by a
\* submit: then beginAttempt renders it again.
CrashKeepsAttempt ==
  [][cmd.pc = "enter" /\ rs.resumedInFlight = cmd.at.step /\ rs' # rs /\ HasKey(hist.entered)
       => rs'.lastEnter = hist.entered]_runVars

\* However often a body fails hard, and whatever crashes there are in between,
\* every retry of it sees the ${last_error} the attempt's latest first try saw.
TriesSeeOneError == cmd.pc = "body" /\ cmd.at.hard > 0 => cmd.seen = hist.firstSeen

\* A step that was entered is not left for its target while an invariant is
\* violated, whichever outcome it has.
GatedTransitions == [][rs.inFlight /\ ~rs'.inFlight /\ rs'.left => holds]_runVars

\* Nothing is journaled once a run has ended, except by a pawl abandon that
\* looked at the run before.
FinalButForAbandon == [][RunTerminal(rs) /\ rs' # rs => leaving /\ ~leaving']_runVars

\* The command is at one of several steps that are all capped and hand over to
\* each other by exhausted: nothing is counted there any more.
GoesRound ==
  /\ cmd.pc = "enter"
  /\ \E C \in SUBSET Steps :
       /\ cmd.at.step \in C
       /\ \A s \in C : Capped(rs, s) /\ ResolveTarget(s, "exhausted") \in C

\* Every command comes to an end: max_visits: and max_steps: stop a cycle of
\* deterministic steps, attempts: and retry: stop a step that keeps failing.
\* Only a cycle of exhausted edges has nothing that would stop it.
CommandsReturn == cmd # Idle ~> cmd = Idle \/ GoesRound

\* The journal leaves the run at a place that is not a step although it has
\* not ended: no command can take it further.
Stranded == rs.started /\ ~rs.ended /\ cmd = Idle /\ Cursor(rs).step \notin Steps

\* A run whose session keeps working ends, or stops for a person; or a crash
\* has left it stranded, or it goes round capped steps.
RunsStop == rs.started ~> rs.ended \/ Stranded \/ GoesRound

-----------------------------------------------------------------------------
(* A run is a walk: crashes, resumes and retries are not visible in where the  *)
(* run is and how often it has been where.                                     *)

W == INSTANCE Walk WITH
       at     <- IF RunTerminal(rs) THEN NoStep ELSE Cursor(rs).step,
       inside <- rs.inFlight /\ ~rs.ended,
       visits <- rs.visits,
       status <- IF RunTerminal(rs) THEN "over" ELSE IF RunBlocked(rs) THEN "blocked"
                 ELSE IF rs.started THEN "live" ELSE "new"

\* The journal of a workflow of deterministic steps records a walk.
IsWalk == W!WalkSpec

-----------------------------------------------------------------------------
(* What the repository says of the engine, and the engine does not do *)

\* A run that has not ended can be resumed, wherever a crash has left it.
NeverStranded == ~Stranded
=============================================================================
