------------------------------ MODULE Journal ------------------------------
(***************************************************************************)
(* What a process learns of a run by replaying its journal                  *)
(* (internal/journal/replay.go).  A journal is only ever appended to and    *)
(* Replay is a fold over it, so the state it yields is kept here instead of *)
(* the events: one After... operator per kind of event, each the case of    *)
(* Replay's switch for that kind.  What the engine scans the events for     *)
(* itself (is a question open, is its answer written) is kept beside it.    *)
(***************************************************************************)
EXTENDS Workflow, Functions

NoCursor == [step |-> NoStep, attempt |-> 0, key |-> "", hard |-> 0]

\* f with the value at x, where f has one, replaced by v.
With(f, x, v) == [y \in DOMAIN f |-> IF y = x THEN v ELSE f[y]]

\* The RunState of the empty journal.
NewRun ==
  [ started  |-> FALSE,            \* RUN_START is journaled
    attempts |-> [s \in Steps |-> [k \in Keys |-> 0]],   \* 0: no entry
    visits   |-> [s \in Steps |-> 0],
    lastError |-> NoText, attemptLastError |-> NoText,
    lastEnter |-> NoCursor, left |-> FALSE, inFlight |-> FALSE,
    lastTarget |-> NoStep, blockedStep |-> NoStep,
    lastKey  |-> [s \in Steps |-> ""], postOK |-> [s \in Steps |-> TRUE],
    resumedInFlight |-> NoStep,
    ended |-> FALSE, endStatus |-> "",
    \* not in RunState, but scanned for: the human steps asked since their
    \* entry, and those whose answer is written since they were last asked
    asked |-> {}, answered |-> {} ]

RunTerminal(r) == r.ended /\ r.endStatus # "blocked"
RunBlocked(r) == r.ended /\ r.endStatus = "blocked"

\* Mutant: how often the body was tried is not part of the cursor.
CursorDropsTry(r) ==
  IF RunBlocked(r)
    THEN LET s == IF r.blockedStep # NoStep THEN r.blockedStep ELSE r.lastEnter.step
         IN  IF s \in Steps
               THEN [step |-> s, attempt |-> r.attempts[s][r.lastKey[s]],
                     key |-> r.lastKey[s], hard |-> 0]
               ELSE [NoCursor EXCEPT !.step = s]
  ELSE IF r.left THEN [step |-> r.lastTarget, attempt |-> 1, key |-> "", hard |-> 0]
  ELSE [r.lastEnter EXCEPT !.hard = 0]

\* RunState.Cursor, by the three rules at the end of Replay.
Cursor(r) ==
  IF RunBlocked(r)
    THEN LET s == IF r.blockedStep # NoStep THEN r.blockedStep ELSE r.lastEnter.step
         IN  IF s \in Steps
               THEN [step |-> s, attempt |-> r.attempts[s][r.lastKey[s]],
                     key |-> r.lastKey[s], hard |-> 0]
               ELSE [NoCursor EXCEPT !.step = s]
  ELSE IF r.left THEN [step |-> r.lastTarget, attempt |-> 1, key |-> "", hard |-> 0]
  ELSE r.lastEnter

-----------------------------------------------------------------------------
(* Replay, event by event *)

AfterRunStart(r) == [r EXCEPT !.started = TRUE]

\* Mutant: every entry freezes the error anew.
EnteringThaws(r, c) ==
  [r EXCEPT !.lastEnter = c,
            !.left = FALSE,
            !.attempts = With(@, c.step, IF c.step \in Steps
                                         THEN With(r.attempts[c.step], c.key, c.attempt)
                                         ELSE {}),
            !.lastKey = With(@, c.step, c.key),
            !.postOK = With(@, c.step, TRUE),
            !.attemptLastError = r.lastError]

\* What STEP_ENTER and RESUME have in common: c becomes the last entry.
Entering(r, c) ==
  [r EXCEPT !.lastEnter = c,
            !.left = FALSE,
            !.attempts = With(@, c.step, IF c.step \in Steps
                                         THEN With(r.attempts[c.step], c.key, c.attempt)
                                         ELSE {}),
            !.lastKey = With(@, c.step, c.key),
            !.postOK = With(@, c.step, TRUE),
            !.attemptLastError = IF c.hard = 0 THEN r.lastError ELSE @]

\* Mutants of AfterResume: the step in flight is forgotten; an intervention
\* goes on with the visit that was blocked.
AfterResumeForgets(r, c, intervention) ==
  [Entering(r, c) EXCEPT
     !.resumedInFlight = NoStep,
     !.inFlight = IF intervention THEN FALSE ELSE @,
     !.ended = IF r.endStatus = "blocked" THEN FALSE ELSE @,
     !.endStatus = IF RunBlocked(r) THEN "" ELSE @,
     !.asked = IF intervention THEN {} ELSE @]

AfterResumeContinues(r, c, intervention) ==
  [Entering(r, c) EXCEPT
     !.resumedInFlight = IF r.inFlight /\ r.lastEnter.step = c.step THEN c.step ELSE NoStep,
     !.ended = IF r.endStatus = "blocked" THEN FALSE ELSE @,
     !.endStatus = IF RunBlocked(r) THEN "" ELSE @,
     !.asked = IF intervention THEN {} ELSE @]

AfterResume(r, c, intervention) ==
  [Entering(r, c) EXCEPT
     !.resumedInFlight = IF ~intervention /\ r.inFlight /\ r.lastEnter.step = c.step
                         THEN c.step ELSE NoStep,
     !.inFlight = IF intervention THEN FALSE ELSE @,
     !.ended = IF r.endStatus = "blocked" THEN FALSE ELSE @,
     !.endStatus = IF RunBlocked(r) THEN "" ELSE @,
     !.asked = IF intervention THEN {} ELSE @]

\* Mutant: no visit is counted.
AfterStepEnterUncounted(r, c, retry) ==
  [Entering(r, c) EXCEPT
     !.resumedInFlight = IF @ = c.step THEN NoStep ELSE @,
     !.inFlight = TRUE,
     !.asked = @ \ {c.step}]

\* An ungrouped STEP_ENTER counts a visit unless it is a retry of the attempt
\* or of its body, or the re-entry that a crash RESUME asked for.
AfterStepEnter(r, c, retry) ==
  [Entering(r, c) EXCEPT
     !.visits[c.step] = IF r.resumedInFlight = c.step \/ retry \/ c.hard > 0
                        THEN @ ELSE @ + 1,
     !.resumedInFlight = IF @ = c.step THEN NoStep ELSE @,
     !.inFlight = TRUE,
     !.asked = @ \ {c.step}]

AfterWrites(r, s) ==
  [r EXCEPT !.answered = @ \cup {s}]

AfterPostcondition(r, s, ok, text) ==
  [r EXCEPT !.postOK[s] = ok, !.lastError = IF ok THEN NoText ELSE text]

\* A budget is cleared when the postcondition passed and the step leaves by a
\* non-catch edge; the key cleared is the last one the step was entered under.
AfterTransition(r, s, target, viaCatch) ==
  [r EXCEPT !.left = TRUE, !.inFlight = FALSE, !.resumedInFlight = NoStep,
            !.lastTarget = target,
            !.attempts[s] = IF ~viaCatch /\ r.postOK[s] THEN With(@, r.lastKey[s], 0) ELSE @,
            !.asked = @ \ {s}]

AfterHumanAsked(r, s) ==
  [r EXCEPT !.asked = @ \cup {s}, !.answered = @ \ {s}]

AfterRunEnd(r, s, status) ==
  [r EXCEPT !.ended = TRUE, !.endStatus = status, !.asked = {},
            !.blockedStep = IF status # "blocked" THEN @
                            ELSE IF s # NoStep THEN s ELSE r.lastEnter.step]

=============================================================================
