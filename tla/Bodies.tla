------------------------------- MODULE Bodies -------------------------------
(***************************************************************************)
(* Attempts at a deterministic or an agentic step                           *)
(* (internal/engine/deterministic.go, agentic.go, submit.go): the body      *)
(* runs, retry: re-runs a body that failed hard, the postcondition judges   *)
(* what it did, and attempts: re-enters the step when it did not pass.      *)
(***************************************************************************)
EXTENDS RunLoop

\* pcs: "body" run: is executing; "judge" its WRITES, or the session's, are
\* journaled; "again" a hard failure will be retried; "failed" the
\* postcondition failed; "dispatch" a DISPATCH is being put together.
Judging(kind) == cmd.pc = "judge" /\ Kind[cmd.at.step] = kind

untouched == <<holds, age, leaving, crashes>>

-----------------------------------------------------------------------------
(* A deterministic body *)

RunBody ==
  /\ cmd.pc = "body"
  /\ WorldChanges
  /\ cmd' = [cmd EXCEPT !.pc = "judge"]
  /\ UNCHANGED <<rs, age, leaving, crashes, hist>>

\* A non-zero exit, the wall-clock ceiling or unintelligible output.
HardFails ==
  /\ Judging("deterministic")
  /\ rs' = AfterPostcondition(rs, cmd.at.step, FALSE, Diagnostic)
  /\ cmd' = IF cmd.at.hard + 1 < Tries[cmd.at.step]
            THEN [cmd EXCEPT !.pc = "again"]
            ELSE Resolved(cmd.at, "failure", TRUE)
  /\ UNCHANGED <<untouched, hist>>

\* An exit-0 body that prints the token `failure` is never retried.
PrintsFailure ==
  /\ Judging("deterministic")
  /\ rs' = AfterPostcondition(rs, cmd.at.step, FALSE, Diagnostic)
  /\ cmd' = Resolved(cmd.at, "failure", TRUE)
  /\ UNCHANGED <<untouched, hist>>

\* The next try is journaled before the backoff.
HardRetry ==
  /\ cmd.pc = "again"
  /\ LET c == [cmd.at EXCEPT !.hard = @ + 1]
     IN /\ rs' = AfterStepEnter(rs, c, cmd.retry)
        /\ cmd' = [cmd EXCEPT !.pc = "body", !.at = c]
        /\ hist' = [hist EXCEPT !.entered = c]
  /\ UNCHANGED untouched

-----------------------------------------------------------------------------
(* An agentic step *)

\* The DISPATCH is printed; the session holds the step until pawl submit.
Dispatch ==
  /\ cmd.pc = "dispatch"
  /\ cmd' = Idle
  /\ UNCHANGED <<rs, untouched, hist>>

ContextUnavailable ==
  /\ cmd.pc = "dispatch"
  /\ rs' = AfterPostcondition(rs, cmd.at.step, FALSE, Diagnostic)
  /\ cmd' = Resolved(cmd.at, "failure", TRUE)
  /\ UNCHANGED <<untouched, hist>>

\* Mutant: a result is accepted for a run that is over.
SubmitToOver ==
  /\ cmd = Idle /\ rs.started
  /\ Cursor(rs).step \in Steps /\ Kind[Cursor(rs).step] = "agentic"
  /\ WorldChanges
  /\ cmd' = AtPC("judge", Cursor(rs))
  /\ UNCHANGED <<rs, age, leaving, crashes, hist>>

\* Accepted for the cursor's step and attempt, unless the run is over.
Submit ==
  /\ cmd = Idle /\ rs.started /\ ~RunTerminal(rs)
  /\ Cursor(rs).step \in Steps /\ Kind[Cursor(rs).step] = "agentic"
  /\ WorldChanges
  /\ cmd' = AtPC("judge", Cursor(rs))
  /\ UNCHANGED <<rs, age, leaving, crashes, hist>>

-----------------------------------------------------------------------------
(* The postcondition, and what follows it *)

\* A step without a postcondition journals a pass only to take back the
\* diagnostic of a body that has since recovered.
Passes ==
  /\ Judging("deterministic") \/ Judging("agentic")
  /\ LET s == cmd.at.step
     IN /\ rs' = IF s \in HasPost \/ cmd.at.hard > 0
                 THEN AfterPostcondition(rs, s, TRUE, NoText) ELSE rs
        /\ \E outcome \in Emits[s] : cmd' = Resolved(cmd.at, outcome, TRUE)
  /\ UNCHANGED <<untouched, hist>>

\* A submitted result can also fail by not fitting the step's writes:.
Fails ==
  /\ \/ Judging("deterministic") /\ cmd.at.step \in HasPost
     \/ Judging("agentic")
  /\ \E text \in Texts :
       /\ rs' = AfterPostcondition(rs, cmd.at.step, FALSE, text)
       /\ cmd' = [cmd EXCEPT !.pc = "failed", !.at.hard = 0,
                  !.at.key = IF Template[cmd.at.step] = {} THEN text ELSE @]
  /\ UNCHANGED <<untouched, hist>>

\* Mutant: a failure text not seen before starts the count again.
NextTryOfKey(r, c) == r.attempts[c.step][c.key] + 1

\* nextTryNumber, for the attempt that just failed and the key it failed with.
NextTry(r, c) ==
  LET recorded == r.attempts[c.step][c.key]
  IN  1 + IF recorded > c.attempt THEN recorded ELSE c.attempt

\* Mutant: invariants are not evaluated on the way out of a capped step.
FailsCappedUngated ==
  /\ cmd.pc = "failed" /\ Capped(rs, cmd.at.step)
  /\ cmd' = Resolved(cmd.at, "exhausted", FALSE)
  /\ UNCHANGED <<rs, untouched, hist>>

\* The caps are checked again before another attempt.
FailsCapped ==
  /\ cmd.pc = "failed" /\ Capped(rs, cmd.at.step)
  /\ cmd' = Resolved(cmd.at, "exhausted", TRUE)
  /\ UNCHANGED <<rs, untouched, hist>>

FailsFinally ==
  /\ cmd.pc = "failed" /\ ~Capped(rs, cmd.at.step)
  /\ NextTry(rs, cmd.at) > Attempts[cmd.at.step]
  /\ cmd' = Resolved(cmd.at, "failure", TRUE)
  /\ UNCHANGED <<rs, untouched, hist>>

\* A Retry entry: another attempt within the same visit.
Reenter ==
  /\ cmd.pc = "failed" /\ ~Capped(rs, cmd.at.step)
  /\ NextTry(rs, cmd.at) <= Attempts[cmd.at.step]
  /\ LET c == [cmd.at EXCEPT !.attempt = NextTry(rs, cmd.at)]
         r == AfterStepEnter(rs, c, TRUE)
     IN /\ rs' = r
        /\ cmd' = [AfterEntry(c, r.attemptLastError) EXCEPT !.retry = TRUE]
        /\ hist' = [hist EXCEPT !.firstSeen = r.attemptLastError, !.entered = c,
                  !.retries = IF @ >= Attempts[c.step] THEN @ ELSE @ + 1]
  /\ UNCHANGED untouched

BodyStep == \/ RunBody \/ HardFails \/ PrintsFailure \/ HardRetry
            \/ Dispatch \/ ContextUnavailable
            \/ Passes \/ Fails \/ FailsCapped \/ FailsFinally \/ Reenter

=============================================================================
