------------------------------- MODULE Parked -------------------------------
(***************************************************************************)
(* Steps a run is parked on (internal/engine/wait.go, poll.go, human.go),   *)
(* beside the steps of Engine.  A pawl poll re-runs a wait step's poll:     *)
(* without the run lock and takes it only to report; a person's answer to a *)
(* human step arrives by pawl submit.  Time passes in ticks.                *)
(***************************************************************************)
EXTENDS Engine

CONSTANTS
  Pollers,     \* the pawl poll processes there may be at a time
  HasWrites    \* the human steps that declare writes:

ASSUME HasWritesAssumption == HasWrites \subseteq Steps

VARIABLE polls   \* what each poller is doing

vars == <<runVars, polls>>

\* `left` is the time to the deadline the poller computed when it started,
\* `streak` its consecutive hard failures, `diag` whether it reports a text.
NoPoll == [st |-> "off", step |-> NoStep, left |-> 0, streak |-> 0,
           outcome |-> "", diag |-> FALSE]

ParkedInit == Init /\ polls = [p \in Pollers |-> NoPoll]

-----------------------------------------------------------------------------
(* pawl poll *)

\* pollPrecheck: the run has not ended, BLOCKED included, and is at this step.
Parked(s) ==
  /\ rs.started /\ ~rs.ended
  /\ Cursor(rs).step = s /\ s \in Steps /\ Kind[s] = "wait"
  /\ age[s].entered # Never

\* Mutant: a deadline that has passed is not recognised as such.
TimeLeftUnchecked(s) == Timeout[s] - age[s].entered

TimeLeft(s) == IF age[s].entered < Timeout[s] THEN Timeout[s] - age[s].entered ELSE 0

PollStart(p) ==
  /\ polls[p].st = "off"
  /\ \E s \in Steps :
       /\ Parked(s)
       /\ polls' = [polls EXCEPT ![p] = [NoPoll EXCEPT !.st = "loop", !.step = s,
                                                       !.left = TimeLeft(s)]]
  /\ UNCHANGED runVars

\* The run is somewhere else, or somebody has the lock when p wants to report.
PollLeaves(p) ==
  /\ \/ polls[p].st # "off" /\ ~Parked(polls[p].step)
     \/ polls[p].st = "decided" /\ cmd # Idle
  /\ polls' = [polls EXCEPT ![p] = NoPoll]
  /\ UNCHANGED runVars

\* The process is killed, with the Monitor that ran it.
PollDies(p) ==
  /\ polls[p].st # "off" /\ crashes < MaxCrashes
  /\ crashes' = crashes + 1
  /\ polls' = [polls EXCEPT ![p] = NoPoll]
  /\ UNCHANGED <<rs, cmd, holds, age, leaving, hist>>

Polling(p) == polls[p].st = "loop" /\ Parked(polls[p].step)

Decide(p, outcome, diag) ==
  polls' = [polls EXCEPT ![p].st = "decided", ![p].outcome = outcome, ![p].diag = diag]

\* Mutant: a poll that is failing is left to its retries.
PollTimesOutNotFailing(p) ==
  /\ Polling(p) /\ polls[p].left = 0 /\ polls[p].streak = 0
  /\ Decide(p, "timeout", FALSE)
  /\ UNCHANGED runVars

PollTimesOut(p) ==
  /\ Polling(p) /\ polls[p].left = 0
  /\ Decide(p, "timeout", FALSE)
  /\ UNCHANGED runVars

PollNotYet(p) ==
  /\ Polling(p) /\ polls[p].left > 0
  /\ polls' = [polls EXCEPT ![p].streak = 0]
  /\ UNCHANGED runVars

\* A routed token; the token `failure` is reported at once, with its text.
PollRoutes(p) ==
  /\ Polling(p) /\ polls[p].left > 0
  /\ \E outcome \in Emits[polls[p].step] \cup {"failure"} :
       Decide(p, outcome, outcome = "failure")
  /\ WorldChanges
  /\ UNCHANGED <<rs, cmd, age, leaving, crashes, hist>>

\* A failure that printed nothing has no text to report.
PollHardFails(p) ==
  /\ Polling(p) /\ polls[p].left > 0
  /\ IF polls[p].streak + 1 < Tries[polls[p].step]
       THEN polls' = [polls EXCEPT ![p].streak = @ + 1]
       ELSE \E diag \in BOOLEAN : Decide(p, "failure", diag)
  /\ UNCHANGED runVars

\* completeWait: the lock is free and the run, looked at again, still there.
PollCompletes(p) ==
  /\ polls[p].st = "decided" /\ cmd = Idle /\ Parked(polls[p].step)
  /\ rs' = IF polls[p].diag THEN AfterPostcondition(rs, polls[p].step, FALSE, Diagnostic)
           ELSE rs
  /\ cmd' = [AtPC("judge", Cursor(rs)) EXCEPT !.outcome = polls[p].outcome]
  /\ polls' = [polls EXCEPT ![p] = NoPoll]
  /\ UNCHANGED <<untouched, hist>>

\* The postcondition of a wait can only turn the outcome into failure.
WaitJudged ==
  /\ Judging("wait")
  /\ LET s == cmd.at.step
     IN \/ /\ s \notin HasPost
           /\ cmd' = Resolved(cmd.at, cmd.outcome, TRUE)
           /\ UNCHANGED rs
        \/ /\ s \in HasPost
           /\ cmd' = Resolved(cmd.at, cmd.outcome, TRUE)
           /\ rs' = AfterPostcondition(rs, s, TRUE, NoText)
        \/ /\ s \in HasPost
           /\ cmd' = Resolved(cmd.at, "failure", TRUE)
           /\ \E text \in Texts : rs' = AfterPostcondition(rs, s, FALSE, text)
  /\ UNCHANGED <<untouched, hist, polls>>

-----------------------------------------------------------------------------
(* A human step *)

Ask ==
  /\ cmd.pc = "ask"
  /\ rs' = AfterHumanAsked(rs, cmd.at.step)
  /\ age' = [age EXCEPT ![cmd.at.step].asked = 0]
  /\ cmd' = Idle
  /\ UNCHANGED <<holds, leaving, crashes, hist, polls>>

OptionsUnavailable ==
  /\ cmd.pc = "ask"
  /\ rs' = AfterPostcondition(rs, cmd.at.step, FALSE, Diagnostic)
  /\ cmd' = Resolved(cmd.at, "failure", TRUE)
  /\ UNCHANGED <<untouched, hist, polls>>

\* SubmitHuman: the run is at s, and a question was asked at this attempt
\* (there is none at the attempt 0 that a cleared budget leaves the cursor on).
Answering(s) ==
  /\ cmd = Idle /\ rs.started /\ ~RunTerminal(rs)
  /\ Cursor(rs).step = s /\ Kind[s] = "human"
  /\ Cursor(rs).attempt = 1 /\ age[s].asked # Never

\* Mutant: every submit is judged against the deadline.
LateEvenIfWritten(s) == age[s].asked > Timeout[s]

\* An answer written in time is not judged against the deadline again.
Late(s) == age[s].asked > Timeout[s] /\ s \notin rs.answered

AnswerLate ==
  /\ \E s \in Steps : /\ Answering(s) /\ Late(s)
                      /\ cmd' = Resolved(Cursor(rs), "timeout", TRUE)
  /\ UNCHANGED <<rs, untouched, hist, polls>>

AnswerAccepted ==
  /\ \E s \in Steps :
       /\ Answering(s) /\ ~Late(s)
       /\ rs' = IF s \in HasWrites THEN AfterWrites(rs, s) ELSE rs
       /\ \E outcome \in Emits[s] : cmd' = Resolved(Cursor(rs), outcome, TRUE)
  /\ WorldChanges
  /\ UNCHANGED <<age, leaving, crashes, hist, polls>>

AnswerRejected ==
  /\ \E s \in Steps :
       /\ Answering(s) /\ ~Late(s)
       /\ rs' = AfterPostcondition(rs, s, FALSE, Diagnostic)
       /\ cmd' = Resolved(Cursor(rs), "failure", TRUE)
  /\ UNCHANGED <<untouched, hist, polls>>

-----------------------------------------------------------------------------

\* Ages count up to just beyond the deadline, where they stop mattering.
Older(t, s) == IF t = Never \/ t > Timeout[s] THEN t ELSE t + 1

Tick ==
  /\ age' = [s \in Steps |-> [entered |-> Older(age[s].entered, s),
                              asked |-> Older(age[s].asked, s)]]
  /\ polls' = [p \in Pollers |-> [polls[p] EXCEPT !.left = IF @ = 0 THEN 0 ELSE @ - 1]]
  /\ UNCHANGED <<rs, cmd, holds, leaving, crashes, hist>>

PollStep(p) == \/ PollLeaves(p) \/ PollTimesOut(p) \/ PollNotYet(p)
               \/ PollRoutes(p) \/ PollHardFails(p)

ParkedStep == WaitJudged \/ Ask \/ OptionsUnavailable

Answer == AnswerLate \/ AnswerAccepted \/ AnswerRejected

ParkedNext ==
  \/ Next /\ UNCHANGED polls
  \/ ParkedStep \/ Answer \/ Tick
  \/ \E p \in Pollers : PollStart(p) \/ PollStep(p) \/ PollDies(p) \/ PollCompletes(p)

ParkedSpec == ParkedInit /\ [][ParkedNext]_vars

\* Time passes, commands run, and whenever the run is parked on a wait there
\* is a poller that looks at its deadline and gets the lock now and then to
\* report.  Nothing is assumed of what its poll answers.
PollersWork ==
  /\ ParkedSpec /\ WF_vars(Tick)
  /\ WF_vars((Progress /\ UNCHANGED polls) \/ ParkedStep)
  /\ \A p \in Pollers : /\ WF_vars(PollStart(p))
                        /\ WF_vars(PollLeaves(p) \/ PollTimesOut(p))
                        /\ SF_vars(PollCompletes(p))

-----------------------------------------------------------------------------
(* Properties *)

Polls ==
  [ st : {"off", "loop", "decided"}, step : Steps \cup {NoStep}, left : Nat,
    streak : Nat, outcome : Words, diag : BOOLEAN ]

ParkedTypeOK == TypeOK /\ polls \in [Pollers -> Polls]

\* "A crash resume keeps the original deadline": while a visit lasts, nothing
\* makes its wait younger or asks its question again.
DeadlinePinned ==
  [][\A s \in Steps : rs.inFlight /\ ~rs.ended /\ rs.lastEnter.step = s =>
       /\ Kind[s] = "wait" => age'[s].entered >= age[s].entered
       /\ s \in rs.asked => age'[s].asked >= age[s].asked]_vars

\* An answer that was written in time is not turned into a timeout by a crash
\* before its TRANSITION and a second submit after the deadline; "timeout" may
\* of course be the name of one of the answers.
AnswerStands ==
  [][cmd.pc = "route" /\ cmd.outcome = "timeout" /\ "timeout" \notin Emits[cmd.at.step]
       /\ rs'.left /\ ~rs.left
       => cmd.at.step \notin rs.answered]_vars

\* Every wait comes to an end, by its token, by a failure or by its deadline.
WaitsEnd ==
  \A s \in Steps : Kind[s] = "wait" /\ rs.inFlight /\ rs.lastEnter.step = s
                     ~> ~rs.inFlight \/ rs.ended

=============================================================================
