---------------------------- MODULE Engine_walk ----------------------------
(***************************************************************************)
(* Proofs about Engine: what a crash, a resume and a retry leave as it was. *)
(* The ${last_error} that a body sees is frozen for the attempt; a visit    *)
(* keeps within its budget of attempts, and a resume goes on with the       *)
(* attempt that was interrupted; and Engine implements Walk, where the run  *)
(* is and how often it has been where shows none of the three.              *)
(***************************************************************************)
EXTENDS Engine_proofs

\* A body is executed, or its result is looked at, or it will be run again.
Trying == cmd.pc \in {"body", "again"} \/ Judging("deterministic")

\* What the journal has frozen is what the latest first try saw, wherever a
\* further try can come from: the command under way, the journal that it leaves
\* when it dies, and the command that resumes it.
SeenInv ==
  /\ rs.lastEnter.hard > 0 => rs.attemptLastError = hist.firstSeen
  /\ cmd.pc = "enter" /\ cmd.at.hard > 0 => rs.attemptLastError = hist.firstSeen
  /\ Trying => rs.attemptLastError = hist.firstSeen /\ cmd.seen = hist.firstSeen
  /\ cmd.pc = "failed" => cmd.at.hard = 0

\* Neither the last entry nor what is frozen changes.
Frozen(q, r) == q.lastEnter = r.lastEnter /\ q.attemptLastError = r.attemptLastError

\* The entry is c, and unless it is a first try nothing thaws.
EntryOf(q, r, c) == q.lastEnter = c /\ (c.hard > 0 => q.attemptLastError = r.attemptLastError)

-----------------------------------------------------------------------------
(* What the events do to the last entry and the frozen error *)

\* What STEP_ENTER and RESUME have in common freezes the error at a first try.
LEMMA EnteringFreezes ==
  ASSUME NEW r \in Runs, NEW c \in Cursors
  PROVE  EntryOf(Entering(r, c), r, c)
<1> DEFINE a == With(r.attempts, c.step, IF c.step \in Steps
                                         THEN With(r.attempts[c.step], c.key, c.attempt) ELSE {})
           k == With(r.lastKey, c.step, c.key)
           p == With(r.postOK, c.step, TRUE)
           x == IF c.hard = 0 THEN r.lastError ELSE r.attemptLastError
           q == [r EXCEPT !.lastEnter = c, !.left = FALSE, !.attempts = a, !.lastKey = k,
                          !.postOK = p, !.attemptLastError = x]
<1>1. q = Entering(r, c)
  BY DEF Entering
<1>2. c.hard > 0 => x = r.attemptLastError
  BY DEF Cursors
<1> HIDE DEF a, k, p, x
<1>3. q.lastEnter = c /\ q.attemptLastError = x
  BY DEF Runs
<1> QED
  BY <1>1, <1>2, <1>3, Zenon DEF EntryOf

\* So does a RESUME.
LEMMA ResumeFreezes ==
  ASSUME NEW r \in Runs, NEW c \in Cursors, NEW intervention \in BOOLEAN
  PROVE  EntryOf(AfterResume(r, c, intervention), r, c)
<1> DEFINE e == Entering(r, c)
           resumed == IF ~intervention /\ r.inFlight /\ r.lastEnter.step = c.step
                      THEN c.step ELSE NoStep
           inFlight == IF intervention THEN FALSE ELSE e.inFlight
           ended == IF r.endStatus = "blocked" THEN FALSE ELSE e.ended
           endStatus == IF RunBlocked(r) THEN "" ELSE e.endStatus
           asked == IF intervention THEN {} ELSE e.asked
           q == [e EXCEPT !.resumedInFlight = resumed, !.inFlight = inFlight, !.ended = ended,
                          !.endStatus = endStatus, !.asked = asked]
<1>1. q = AfterResume(r, c, intervention)
  BY DEF AfterResume
<1>2. e \in Runs /\ EntryOf(e, r, c)
  BY EnteringType, EnteringFreezes, Zenon
<1> HIDE DEF e, resumed, inFlight, ended, endStatus, asked
<1>3. q.lastEnter = e.lastEnter /\ q.attemptLastError = e.attemptLastError
  BY <1>2 DEF Runs
<1> QED
  BY <1>1, <1>2, <1>3, Zenon DEF EntryOf

\* So does a STEP_ENTER.
LEMMA StepEnterFreezes ==
  ASSUME NEW r \in Runs, NEW c \in Cursors, c.step \in Steps, NEW retry \in BOOLEAN
  PROVE  EntryOf(AfterStepEnter(r, c, retry), r, c)
<1> DEFINE e == Entering(r, c)
           visits == [e.visits EXCEPT ![c.step] =
                        IF r.resumedInFlight = c.step \/ retry \/ c.hard > 0 THEN @ ELSE @ + 1]
           resumed == IF e.resumedInFlight = c.step THEN NoStep ELSE e.resumedInFlight
           asked == e.asked \ {c.step}
           q == [e EXCEPT !.visits = visits, !.resumedInFlight = resumed,
                          !.inFlight = TRUE, !.asked = asked]
<1>1. q = AfterStepEnter(r, c, retry)
  BY DEF AfterStepEnter
<1>2. e \in Runs /\ EntryOf(e, r, c)
  BY EnteringType, EnteringFreezes, Zenon
<1> HIDE DEF e, visits, resumed, asked
<1>3. q.lastEnter = e.lastEnter /\ q.attemptLastError = e.attemptLastError
  BY <1>2 DEF Runs
<1> QED
  BY <1>1, <1>2, <1>3, Zenon DEF EntryOf

\* A POSTCONDITION changes the error, not what is frozen of it.
LEMMA PostconditionFreezes ==
  ASSUME NEW r \in Runs, NEW s \in Steps, NEW ok \in BOOLEAN, NEW text
  PROVE  Frozen(AfterPostcondition(r, s, ok, text), r)
<1> DEFINE post == [r.postOK EXCEPT ![s] = ok]
           err == IF ok THEN NoText ELSE text
           q == [r EXCEPT !.postOK = post, !.lastError = err]
<1>1. q = AfterPostcondition(r, s, ok, text)
  BY DEF AfterPostcondition
<1> HIDE DEF post, err
<1>2. q.lastEnter = r.lastEnter /\ q.attemptLastError = r.attemptLastError
  BY DEF Runs
<1> QED
  BY <1>1, <1>2, Zenon DEF Frozen

\* Nor does a TRANSITION change that.
LEMMA TransitionFreezes ==
  ASSUME NEW r \in Runs, NEW s, NEW target, NEW viaCatch
  PROVE  Frozen(AfterTransition(r, s, target, viaCatch), r)
<1> DEFINE attempts == [r.attempts EXCEPT ![s] = IF ~viaCatch /\ r.postOK[s]
                                                 THEN With(@, r.lastKey[s], 0) ELSE @]
           asked == r.asked \ {s}
           q == [r EXCEPT !.left = TRUE, !.inFlight = FALSE, !.resumedInFlight = NoStep,
                          !.lastTarget = target, !.attempts = attempts, !.asked = asked]
<1>1. q = AfterTransition(r, s, target, viaCatch)
  BY DEF AfterTransition
<1> HIDE DEF attempts, asked
<1>2. q.lastEnter = r.lastEnter /\ q.attemptLastError = r.attemptLastError
  BY DEF Runs
<1> QED
  BY <1>1, <1>2, Zenon DEF Frozen

\* Nor does a RUN_END.
LEMMA RunEndFreezes ==
  ASSUME NEW r \in Runs, NEW s, NEW status
  PROVE  Frozen(AfterRunEnd(r, s, status), r)
<1> DEFINE blocked == IF status # "blocked" THEN r.blockedStep
                      ELSE IF s # NoStep THEN s ELSE r.lastEnter.step
           q == [r EXCEPT !.ended = TRUE, !.endStatus = status, !.asked = {},
                          !.blockedStep = blocked]
<1>1. q = AfterRunEnd(r, s, status)
  BY DEF AfterRunEnd
<1> HIDE DEF blocked
<1>2. q.lastEnter = r.lastEnter /\ q.attemptLastError = r.attemptLastError
  BY DEF Runs
<1> QED
  BY <1>1, <1>2, Zenon DEF Frozen

-----------------------------------------------------------------------------
(* The steps *)

TryInv == TInv /\ SeenInv

\* A step that freezes nothing anew, and begins no further try.
LEMMA StaysFrozen ==
  ASSUME TryInv, Frozen(rs', rs), hist'.firstSeen = hist.firstSeen,
         ~(cmd'.pc = "enter" /\ cmd'.at.hard > 0),
         Trying' => Trying /\ cmd'.seen = cmd.seen, cmd'.pc = "failed" => cmd'.at.hard = 0
  PROVE  SeenInv'
  BY DEF TryInv, SeenInv, Frozen

\* A first try: what it sees is what later ones have to see.
LEMMA FirstTry ==
  ASSUME NEW c \in Cursors, c.hard = 0, rs'.lastEnter = c,
         hist'.firstSeen = rs'.attemptLastError, cmd'.pc \notin {"enter", "failed"},
         Trying' => cmd'.seen = rs'.attemptLastError
  PROVE  SeenInv'
  BY DEF SeenInv

\* A further try: it sees what is frozen, which the first try saw.
LEMMA FurtherTry ==
  ASSUME rs.attemptLastError = hist.firstSeen, rs'.attemptLastError = rs.attemptLastError,
         hist'.firstSeen = hist.firstSeen, cmd'.pc # "failed",
         Trying' => cmd'.seen = rs'.attemptLastError
  PROVE  SeenInv'
  BY DEF SeenInv

\* The command that follows an entry sees what the entry has frozen.
LEMMA EntrySees ==
  ASSUME NEW c \in Cursors, c.step \in Steps, NEW seen \in Errors
  PROVE  LET e == AfterEntry(c, seen)
         IN  e \in Commands /\ e.pc \notin {"enter", "again", "judge", "failed"} /\ (e.pc = "body" => e.seen = seen)
<1> DEFINE e == AfterEntry(c, seen)
<1>1. e \in Commands
  BY AfterEntryType
<1>2. e.pc \notin {"enter", "again", "judge", "failed"}
  BY WorkflowAssumption DEF AfterEntry, AtPC, Idle, Kinds
<1>3. e.pc = "body" => e.seen = seen
  BY WorkflowAssumption DEF AfterEntry, AtPC, Idle, Kinds
<1> QED
  BY <1>1, <1>2, <1>3

\* A RESUME finds the entry of the latest try.
LEMMA ResumeTries == TryInv /\ Resume => SeenInv'
<1> SUFFICES ASSUME TryInv, Resume PROVE SeenInv'
  OBVIOUS
<1> DEFINE intervention == RunBlocked(rs)
           c == [Cursor(rs) EXCEPT !.attempt = IF intervention THEN 1 ELSE @,
                                   !.hard = IF intervention THEN 0 ELSE @]
           q == AfterResume(rs, c, intervention)
<1>1. rs \in Runs /\ Cursor(rs) \in Cursors /\ hist \in Hists /\ intervention \in BOOLEAN
  BY CursorType DEF TryInv, TInv, TypeOK, Hists, Errors, RunBlocked
<1>2. c \in Cursors /\ (intervention => c.hard = 0) /\ (~intervention => c.hard = Cursor(rs).hard)
  BY <1>1 DEF Cursors
<1>3. ~intervention /\ Cursor(rs).hard > 0 => Cursor(rs) = rs.lastEnter
  <2>1. CASE rs.left
    <3>1. ~intervention => Cursor(rs).hard = 0
      BY <2>1 DEF Cursor
    <3> QED
      BY <3>1
  <2>2. CASE ~rs.left
    BY <2>2 DEF Cursor
  <2> QED
    BY <2>1, <2>2
<1>4. /\ rs' = q
      /\ cmd' = Idle \/ cmd' = AtPC("enter", c)
      /\ hist'.firstSeen = hist.firstSeen
  BY <1>1 DEF Resume, Arrive, Hists
<1> HIDE DEF c
<1>5. EntryOf(q, rs, c)
  BY ONLY <1>1, <1>2, ResumeFreezes, Zenon
<1> HIDE DEF q
<1>6. cmd'.pc = "idle" \/ (cmd'.pc = "enter" /\ cmd'.at = c)
  <2>1. Idle.pc = "idle"
    BY DEF Idle
  <2>2. AtPC("enter", c).pc = "enter" /\ AtPC("enter", c).at = c
    BY <1>2, CommandType
  <2> QED
    BY <1>4, <2>1, <2>2
<1>7. ~Trying'
  BY <1>6 DEF Trying, Judging
<1>8. c.hard > 0 => rs.attemptLastError = hist.firstSeen
  BY <1>2, <1>3 DEF TryInv, SeenInv
<1> QED
  <2>1. rs'.lastEnter.hard > 0 => rs'.attemptLastError = hist'.firstSeen
    BY <1>4, <1>5, <1>8 DEF EntryOf
  <2>2. cmd'.pc = "enter" /\ cmd'.at.hard > 0 => rs'.attemptLastError = hist'.firstSeen
    BY <1>4, <1>5, <1>6, <1>8 DEF EntryOf
  <2> QED
    BY <1>6, <1>7, <2>1, <2>2 DEF SeenInv

\* An entry is a first try, or the one that a crash interrupted.
LEMMA EnterTries == TryInv /\ EnterStep => SeenInv'
<1> SUFFICES ASSUME TryInv, EnterStep PROVE SeenInv'
  OBVIOUS
<1>1. rs \in Runs /\ cmd.at \in Cursors /\ cmd.at.step \in Steps /\ hist \in Hists
  BY DEF TryInv, TInv, TypeOK, AtStep, Commands, Hists, Errors, EnterStep
<1>2. PICK c \in BeginAttempt(rs, cmd.at) :
        /\ rs' = AfterStepEnter(rs, c, FALSE)
        /\ cmd' = AfterEntry(c, rs'.attemptLastError)
        /\ hist'.firstSeen = IF c.hard > 0 THEN hist.firstSeen ELSE rs'.attemptLastError
  BY <1>1 DEF EnterStep, Hists
<1>3. c \in Cursors /\ c.step \in Steps /\ c.hard = cmd.at.hard /\ c.hard \in Nat
  BY <1>1, BeginAttemptType DEF Cursors
<1>4. rs' \in Runs /\ EntryOf(rs', rs, c)
  <2>1. AfterStepEnter(rs, c, FALSE) \in Runs /\ EntryOf(AfterStepEnter(rs, c, FALSE), rs, c)
    BY <1>1, <1>3, AfterStepEnterType, StepEnterFreezes
  <2> QED
    BY <1>2, <2>1
<1>5. rs'.attemptLastError \in Errors
  BY <1>4 DEF Runs, Errors
<1>6. cmd'.pc \notin {"enter", "again", "judge", "failed"} /\ (cmd'.pc = "body" => cmd'.seen = rs'.attemptLastError)
  BY <1>2, <1>3, <1>5, EntrySees
<1>7. Trying' => cmd'.seen = rs'.attemptLastError
  BY <1>6 DEF Trying, Judging
<1>8. CASE c.hard = 0
  <2>1. hist'.firstSeen = rs'.attemptLastError
    BY <1>2, <1>8
  <2>2. rs'.lastEnter = c
    BY <1>4 DEF EntryOf
  <2> QED
    BY <1>3, <1>6, <1>7, <1>8, <2>1, <2>2, FirstTry
<1>9. CASE c.hard > 0
  <2>1. rs.attemptLastError = hist.firstSeen
    BY <1>3, <1>9 DEF TryInv, SeenInv, EnterStep
  <2> QED
    BY <1>2, <1>4, <1>6, <1>7, <1>9, <2>1, FurtherTry DEF EntryOf
<1>10. c.hard = 0 \/ c.hard > 0
  BY <1>3
<1> QED
  BY <1>8, <1>9, <1>10, Zenon

\* A hard retry is a further try.
LEMMA HardRetryTries == TryInv /\ HardRetry => SeenInv'
<1> SUFFICES ASSUME TryInv, HardRetry PROVE SeenInv'
  OBVIOUS
<1> DEFINE c == [cmd.at EXCEPT !.hard = @ + 1]
<1>1. /\ rs \in Runs /\ cmd \in Commands /\ cmd.at \in Cursors /\ cmd.at.step \in Steps
      /\ cmd.retry \in BOOLEAN /\ hist \in Hists
  BY DEF TryInv, TInv, TypeOK, AtStep, Commands, Hists, Errors, HardRetry
<1>2. c \in Cursors /\ c.step \in Steps /\ c.hard > 0
  BY <1>1 DEF Cursors
<1>3. /\ rs' = AfterStepEnter(rs, c, cmd.retry) /\ cmd' = [cmd EXCEPT !.pc = "body", !.at = c]
      /\ hist'.firstSeen = hist.firstSeen
  BY <1>1 DEF HardRetry, Hists
<1> HIDE DEF c
<1>4. EntryOf(AfterStepEnter(rs, c, cmd.retry), rs, c)
  BY ONLY <1>1, <1>2, StepEnterFreezes, Zenon
<1>5. cmd'.seen = cmd.seen /\ cmd'.pc = "body"
  BY <1>1, <1>3 DEF Commands
<1>6. rs.attemptLastError = hist.firstSeen /\ cmd.seen = hist.firstSeen
  BY DEF TryInv, SeenInv, Trying, HardRetry
<1>7. rs'.attemptLastError = rs.attemptLastError
  BY <1>2, <1>3, <1>4 DEF EntryOf
<1> QED
  BY <1>3, <1>5, <1>6, <1>7, FurtherTry

\* A retry of the attempt is a first try.
LEMMA ReenterTries == TryInv /\ Reenter => SeenInv'
<1> SUFFICES ASSUME TryInv, Reenter PROVE SeenInv'
  OBVIOUS
<1> DEFINE c == [cmd.at EXCEPT !.attempt = NextTry(rs, cmd.at)]
           e == AfterEntry(c, rs'.attemptLastError)
<1>1. rs \in Runs /\ cmd.at \in Cursors /\ cmd.at.step \in Steps /\ hist \in Hists
  BY DEF TryInv, TInv, TypeOK, AtStep, Commands, Hists, Errors, Reenter
<1>2. c \in Cursors /\ c.step \in Steps /\ c.hard = 0
  <2>1. cmd.at.hard = 0
    BY DEF TryInv, SeenInv, Reenter
  <2>2. NextTry(rs, cmd.at) \in Nat
    BY <1>1, NextTryType
  <2> QED
    BY <1>1, <2>1, <2>2 DEF Cursors
<1>3. /\ rs' = AfterStepEnter(rs, c, TRUE) /\ cmd' = [e EXCEPT !.retry = TRUE]
      /\ hist'.firstSeen = rs'.attemptLastError
  BY <1>1 DEF Reenter, Hists
<1> HIDE DEF c
<1>4. rs' \in Runs /\ EntryOf(rs', rs, c)
  <2>1. AfterStepEnter(rs, c, TRUE) \in Runs /\ EntryOf(AfterStepEnter(rs, c, TRUE), rs, c)
    BY <1>1, <1>2, AfterStepEnterType, StepEnterFreezes
  <2> QED
    BY <1>3, <2>1
<1>5. rs'.attemptLastError \in Errors
  BY <1>4 DEF Runs, Errors
<1>6. /\ e \in Commands /\ e.pc \notin {"enter", "again", "judge", "failed"}
      /\ e.pc = "body" => e.seen = rs'.attemptLastError
  BY <1>2, <1>5, EntrySees
<1> HIDE DEF e
<1>7. cmd'.pc = e.pc /\ cmd'.seen = e.seen
  BY <1>3, <1>6 DEF Commands
<1>8. Trying' => cmd'.seen = rs'.attemptLastError
  BY <1>6, <1>7 DEF Trying, Judging
<1> QED
  BY <1>2, <1>3, <1>4, <1>6, <1>7, <1>8, FirstTry DEF EntryOf


\* Every step keeps what the tries of a body see.
LEMMA TryStep == TryInv /\ [Next]_runVars => SeenInv'
<1> SUFFICES ASSUME TryInv, [Next]_runVars PROVE SeenInv'
  OBVIOUS
<1>1. /\ rs \in Runs /\ cmd \in Commands /\ cmd.at \in Cursors /\ Cursor(rs) \in Cursors
      /\ hist \in Hists /\ (cmd.pc # "idle" => cmd.at.step \in Steps)
  BY CursorType DEF TryInv, TInv, TypeOK, AtStep, Commands, Hists, Errors
<1>2. /\ Frozen(rs, rs)
      /\ \A s, target, viaCatch : Frozen(AfterTransition(rs, s, target, viaCatch), rs)
      /\ \A s, status : Frozen(AfterRunEnd(rs, s, status), rs)
      /\ \A s \in Steps, ok \in BOOLEAN : \A text :
           Frozen(AfterPostcondition(rs, s, ok, text), rs)
  BY <1>1, TransitionFreezes, RunEndFreezes, PostconditionFreezes DEF Frozen
\* The commands that follow a step other than an entry.
<1>3. /\ Idle.pc = "idle"
      /\ \A c \in Cursors : AtPC("enter", c).pc = "enter" /\ AtPC("enter", c).at = c
                             /\ AtPC("judge", c).pc = "judge" /\ AtPC("judge", c).at = c
      /\ \A c, outcome : [AtPC("end", c) EXCEPT !.outcome = outcome].pc = "end"
  BY CommandType DEF Idle, AtPC
<1>r. ASSUME NEW outcome, NEW gate, cmd' = Resolved(cmd.at, outcome, gate)
      PROVE  cmd'.pc = "route"
  BY <1>r DEF Resolved, AtPC, Idle
<1>4. ASSUME Frozen(rs', rs), hist'.firstSeen = hist.firstSeen,
             cmd'.pc \in {"idle", "route", "end", "again", "failed", "judge"},
             cmd'.pc = "again" \/ (cmd'.pc = "judge" /\ Judging("deterministic")')
               => Trying /\ cmd'.seen = cmd.seen,
             cmd'.pc = "failed" => cmd'.at.hard = 0
      PROVE  SeenInv'
  BY <1>4, StaysFrozen DEF Trying, Judging
<1>5. CASE UNCHANGED runVars
  BY <1>5 DEF runVars, TryInv, SeenInv, Trying, Judging
<1>6. CASE Start
  <2>1. /\ rs' = [rs EXCEPT !.started = TRUE] /\ cmd' = AtPC("enter", Fresh(StartStep))
        /\ hist'.firstSeen = hist.firstSeen
    BY <1>1, <1>6 DEF Start, AfterRunStart, Arrive, Hists
  <2>2. Frozen(rs', rs)
    BY <1>1, <2>1 DEF Runs, Frozen
  <2>3. Fresh(StartStep) \in Cursors /\ Fresh(StartStep).hard = 0
    BY <1>1, CommandType, WorkflowAssumption DEF Fresh
  <2>4. cmd'.pc = "enter" /\ cmd'.at.hard = 0
    BY <1>3, <2>1, <2>3
  <2> QED
    BY <2>1, <2>2, <2>4, StaysFrozen DEF Trying, Judging
<1>7. CASE EnterCapped \/ FailsCapped \/ FailsFinally
  <2>1. rs' = rs /\ hist' = hist
    BY <1>7 DEF EnterCapped, FailsCapped, FailsFinally
  <2>2. cmd'.pc = "route"
    BY <1>7, <1>r DEF EnterCapped, FailsCapped, FailsFinally
  <2> QED
    BY <1>2, <1>4, <2>1, <2>2
<1>8. CASE InvariantBlocks \/ End \/ AbandonEnds
  <2>1. Frozen(rs', rs) /\ hist' = hist /\ cmd' = Idle
    BY <1>2, <1>8 DEF InvariantBlocks, End, AbandonEnds
  <2> QED
    BY <1>3, <1>4, <2>1
<1>9. CASE Crash \/ Dispatch
  BY <1>2, <1>3, <1>4, <1>9 DEF Crash, Dispatch
<1>10. CASE AbandonLooks
  BY <1>10 DEF AbandonLooks, TryInv, SeenInv, Trying, Judging
<1>11. CASE Transition
  <2> DEFINE target == ResolveTarget(cmd.at.step, cmd.outcome)
             via == ViaCatch(cmd.at.step, cmd.outcome)
  <2>1. /\ rs' = AfterTransition(rs, cmd.at.step, target, via)
        /\ hist'.firstSeen = hist.firstSeen
        /\ \/ target \in Steps /\ cmd' = AtPC("enter", Fresh(target))
           \/ cmd' = [AtPC("end", cmd.at) EXCEPT !.outcome = target]
    BY <1>1, <1>11 DEF Transition, Arrive, Hists
  <2> HIDE DEF target, via
  <2>2. Frozen(rs', rs)
    BY <1>2, <2>1
  <2>3. CASE target \in Steps /\ cmd' = AtPC("enter", Fresh(target))
    <3>1. Fresh(target) \in Cursors /\ Fresh(target).hard = 0
      BY <1>1, <2>3, CommandType DEF Fresh
    <3>2. cmd'.pc = "enter" /\ cmd'.at.hard = 0
      BY <1>3, <2>3, <3>1
    <3> QED
      BY <2>1, <2>2, <3>2, StaysFrozen DEF Trying, Judging
  <2>4. CASE cmd' = [AtPC("end", cmd.at) EXCEPT !.outcome = target]
    <3>1. cmd'.pc = "end"
      BY <1>3, <2>4
    <3> QED
      BY <1>4, <2>1, <2>2, <3>1
  <2> QED
    BY <2>1, <2>3, <2>4
<1>12. CASE RunBody
  <2>1. cmd' = [cmd EXCEPT !.pc = "judge"] /\ rs' = rs /\ hist' = hist /\ Trying
    BY <1>12 DEF RunBody, Trying
  <2>2. cmd'.pc = "judge" /\ cmd'.seen = cmd.seen
    BY <1>1, <2>1 DEF Commands
  <2> QED
    BY <1>2, <1>4, <2>1, <2>2
<1>13. CASE HardFails
  <2>1. /\ cmd.at.step \in Steps /\ Trying /\ hist' = hist
        /\ rs' = AfterPostcondition(rs, cmd.at.step, FALSE, Diagnostic)
        /\ cmd' = [cmd EXCEPT !.pc = "again"] \/ cmd' = Resolved(cmd.at, "failure", TRUE)
    BY <1>1, <1>13 DEF HardFails, Trying, Judging
  <2>2. Frozen(rs', rs)
    BY <1>2, <2>1
  <2>3. (cmd'.pc = "again" /\ cmd'.seen = cmd.seen) \/ cmd'.pc = "route"
    <3>1. CASE cmd' = [cmd EXCEPT !.pc = "again"]
      BY <1>1, <3>1 DEF Commands
    <3>2. CASE cmd' = Resolved(cmd.at, "failure", TRUE)
      BY <1>r, <3>2
    <3> QED
      BY <2>1, <3>1, <3>2
  <2> QED
    BY <1>4, <2>1, <2>2, <2>3
<1>14. CASE PrintsFailure \/ ContextUnavailable
  <2>1. /\ cmd.at.step \in Steps /\ hist' = hist
        /\ rs' = AfterPostcondition(rs, cmd.at.step, FALSE, Diagnostic)
        /\ cmd' = Resolved(cmd.at, "failure", TRUE)
    BY <1>1, <1>14 DEF PrintsFailure, ContextUnavailable, Judging
  <2>2. cmd'.pc = "route"
    BY <1>r, <2>1
  <2> QED
    BY <1>2, <1>4, <2>1, <2>2
<1>15. CASE Submit
  <2>1. /\ rs' = rs /\ hist' = hist /\ cmd' = AtPC("judge", Cursor(rs))
        /\ Kind[Cursor(rs).step] = "agentic"
    BY <1>15 DEF Submit
  <2>2. cmd'.pc = "judge" /\ cmd'.at = Cursor(rs)
    BY <1>1, <1>3, <2>1
  <2>3. ~Judging("deterministic")'
    BY <2>1, <2>2 DEF Judging
  <2> QED
    BY <1>2, <1>4, <2>1, <2>2, <2>3
<1>16. CASE Passes
  <2>1. /\ cmd.at.step \in Steps /\ hist' = hist
        /\ rs' = rs \/ rs' = AfterPostcondition(rs, cmd.at.step, TRUE, NoText)
        /\ \E outcome : cmd' = Resolved(cmd.at, outcome, TRUE)
    BY <1>1, <1>16 DEF Passes, Judging
  <2>2. Frozen(rs', rs)
    BY <1>2, <2>1
  <2>3. cmd'.pc = "route"
    BY <1>r, <2>1
  <2> QED
    BY <1>4, <2>1, <2>2, <2>3
<1>17. CASE Fails
  <2>1. cmd.at.step \in Steps /\ hist' = hist
    BY <1>1, <1>17 DEF Fails, Judging
  <2>2. PICK text \in Texts :
          /\ rs' = AfterPostcondition(rs, cmd.at.step, FALSE, text)
          /\ cmd' = [cmd EXCEPT !.pc = "failed", !.at.hard = 0,
                     !.at.key = IF Template[cmd.at.step] = {} THEN text ELSE @]
    BY <1>17 DEF Fails
  <2>3. cmd'.pc = "failed" /\ cmd'.at.hard = 0
    BY <1>1, <2>2 DEF Commands, Cursors
  <2> QED
    BY <1>2, <1>4, <2>1, <2>2, <2>3
<1> QED
  BY <1>5, <1>6, <1>7, <1>8, <1>9, <1>10, <1>11, <1>12, <1>13, <1>14, <1>15, <1>16, <1>17,
     ResumeTries, EnterTries, HardRetryTries, ReenterTries
     DEF Next, RunStep, LoopStep, BodyStep, Over

\* However often a body fails hard, and whatever crashes there are in between,
\* every retry of it sees the ${last_error} the attempt's latest first try saw.
THEOREM TriesAgree == Spec => []TriesSeeOneError
<1>1. Init => SeenInv
  <2>1. NewRun.lastEnter.hard = 0 /\ Idle.pc = "idle"
    BY DEF NewRun, NoCursor, Idle
  <2> QED
    BY <2>1 DEF Init, RunInit, SeenInv, Trying, Judging
<1>2. TryInv => TriesSeeOneError
  BY DEF TryInv, SeenInv, Trying, TriesSeeOneError
<1>3. TInv /\ SeenInv /\ [Next]_runVars => SeenInv'
  BY TryStep DEF TryInv
<1>4. TInv /\ SeenInv => TriesSeeOneError
  BY <1>2 DEF TryInv
<1> QED
  BY <1>1, <1>3, <1>4, TypeInvariant, PTL DEF Spec

-----------------------------------------------------------------------------
(* The budget of attempts, and the attempt that a resume goes on with *)

\* The visit has had fewer retries than the attempt it is at, and than it may.
Within(retries, c) == retries < c.attempt /\ retries < Attempts[c.step]

\* The attempt in flight, which a crash resume goes on with, has a number and is
\* what the visit's latest STEP_ENTER entered, whatever the journal's last entry
\* is; and as long as the run has not ended every cursor, that of the command and
\* that of the journal it may leave behind, is ahead of the retries.
AttemptInv ==
  /\ rs.inFlight => /\ rs.lastEnter.step \in Steps /\ rs.lastEnter.attempt >= 1
                    /\ rs.lastEnter = hist.entered
  /\ cmd.pc = "enter" /\ rs.resumedInFlight = cmd.at.step => rs.inFlight /\ cmd.at = rs.lastEnter
  /\ Trying => cmd.at.attempt >= 1
  /\ ~rs.ended /\ cmd.pc \in {"body", "judge", "again", "failed", "dispatch"}
       => Within(hist.retries, cmd.at)
  /\ ~rs.ended /\ Cursor(rs).step \in Steps => Within(hist.retries, Cursor(rs))

AInv == IInv /\ AttemptInv

-----------------------------------------------------------------------------

\* The entry of an attempt that has a number and a key goes on with both.
LEMMA GoesOnWith ==
  ASSUME NEW r \in Runs, NEW at \in Cursors, at.step \in Steps, NEW c \in BeginAttempt(r, at)
  PROVE  /\ c.attempt >= 1
         /\ at.attempt >= 1 /\ HasKey(at) => c = at
<1>1. CASE at.key = "" /\ Template[at.step] # {}
  <2>1. PICK k \in Template[at.step] :
          c = [at EXCEPT !.key = k, !.attempt = r.attempts[at.step][k] + 1]
    BY <1>1 DEF BeginAttempt
  <2>2. k \in Keys
    BY DEF Keys
  <2> DEFINE n == r.attempts[at.step][k] + 1
  <2>3. n \in Nat /\ n >= 1
    <3>1. r.attempts \in [Steps -> [Keys -> Nat]]
      BY DEF Runs
    <3>2. r.attempts[at.step][k] \in Nat
      BY <2>2, <3>1
    <3> QED
      BY ONLY <3>2
  <2>4. c = [at EXCEPT !.key = k, !.attempt = n]
    BY <2>1
  <2> HIDE DEF n
  <2>5. c.key = k /\ c.attempt = n
    BY <2>4 DEF Cursors
  <2> QED
    BY <1>1, <2>2, <2>3, <2>5 DEF HasKey
<1>2. CASE ~(at.key = "" /\ Template[at.step] # {})
  <2>1. c = [at EXCEPT !.attempt = IF @ = 0 THEN 1 ELSE @]
    BY <1>2 DEF BeginAttempt
  <2>2. /\ c.step = at.step /\ c.key = at.key
        /\ c.attempt = IF at.attempt = 0 THEN 1 ELSE at.attempt
    BY <2>1 DEF Cursors
  <2>3. at.attempt \in Nat
    BY DEF Cursors
  <2>4. at.attempt >= 1 => c = at
    BY <2>1, <2>3 DEF Cursors
  <2>5. c.attempt >= 1
    BY ONLY <2>2, <2>3
  <2> QED
    BY ONLY <2>4, <2>5
<1> QED
  BY <1>1, <1>2

\* The parts of the other invariants that are used below.
LEMMA AttemptParts ==
  ASSUME AInv
  PROVE  /\ rs \in Runs /\ cmd \in Commands /\ hist \in Hists /\ hist.retries \in Nat
         /\ cmd.at \in Cursors /\ Cursor(rs) \in Cursors /\ cmd.retry \in BOOLEAN
         /\ cmd.pc # "idle" => cmd.at.step \in Steps
         /\ cmd # Idle => ~RunTerminal(rs)
         /\ rs.inFlight => ~rs.left
         /\ Attempts \in [Steps -> Nat \ {0}]
  BY Parts, WorkflowAssumption DEF AInv, IInv, EntryInv, FinalInv, TInv, AtStep, Hists

\* The cursor of a run that has not ended.
LEMMA CursorIs ==
  ASSUME NEW r, ~r.ended
  PROVE  /\ ~r.left => Cursor(r) = r.lastEnter
         /\ r.left => Cursor(r) = [step |-> r.lastTarget, attempt |-> 1, key |-> "", hard |-> 0]
  BY DEF Cursor, RunBlocked

\* A step that leaves the run and the cursor of the command where they are.
LEMMA AttemptStays ==
  ASSUME AInv, Kept(rs', rs), rs'.lastEnter = rs.lastEnter, rs'.lastTarget = rs.lastTarget,
         rs'.left = rs.left, rs'.inFlight = rs.inFlight, hist' = hist,
         cmd'.pc # "enter",
         \/ cmd'.pc \in {"idle", "route", "end"}
         \/ /\ cmd.pc \in {"body", "judge", "again", "failed"} /\ cmd'.pc \in {"judge", "again", "failed"}
            /\ cmd'.at.step = cmd.at.step /\ cmd'.at.attempt = cmd.at.attempt
            /\ (Trying' => Trying)
  PROVE  AttemptInv'
<1>1. ~rs.ended => Cursor(rs') = Cursor(rs)
  BY CursorIs DEF Kept
<1>2. rs'.ended = rs.ended
  BY DEF Kept
<1>3. ~rs.ended /\ Cursor(rs).step \in Steps => Within(hist.retries, Cursor(rs))
  BY DEF AInv, AttemptInv
<1>4. CASE cmd'.pc \in {"idle", "route", "end"}
  BY <1>1, <1>2, <1>3, <1>4 DEF AInv, AttemptInv, Trying, Judging
<1>5. CASE /\ cmd.pc \in {"body", "judge", "again", "failed"} /\ cmd'.pc \in {"judge", "again", "failed"}
           /\ cmd'.at.step = cmd.at.step /\ cmd'.at.attempt = cmd.at.attempt
           /\ (Trying' => Trying)
  BY <1>1, <1>2, <1>3, <1>5 DEF AInv, AttemptInv, Within
<1> QED
  BY <1>4, <1>5

\* The run has been entered at c, or the step of c been entered again.
LEMMA AttemptEntered ==
  ASSUME AInv, NEW c \in Cursors, c.step \in Steps, c.attempt >= 1, hist'.entered = c,
         rs'.lastEnter = c, rs'.left = FALSE, rs'.ended = rs.ended,
         ~rs.ended => Within(hist'.retries, c),
         cmd'.pc \notin {"enter"}, cmd'.pc \in {"body", "judge", "again", "failed", "dispatch"} => cmd'.at = c
  PROVE  AttemptInv'
<1>1. ~rs'.ended => Cursor(rs') = c
  BY CursorIs
<1> QED
  BY <1>1 DEF AttemptInv, Trying, Judging

\* A RESUME that is not of the step in flight does not mark one as resumed.
LEMMA ResumeMarks ==
  ASSUME NEW r \in Runs, NEW c \in Cursors, NEW intervention \in BOOLEAN,
         intervention \/ ~r.inFlight
  PROVE  AfterResume(r, c, intervention).resumedInFlight = NoStep
<1> DEFINE e == Entering(r, c)
           resumed == IF ~intervention /\ r.inFlight /\ r.lastEnter.step = c.step
                      THEN c.step ELSE NoStep
           inFlight == IF intervention THEN FALSE ELSE e.inFlight
           ended == IF r.endStatus = "blocked" THEN FALSE ELSE e.ended
           endStatus == IF RunBlocked(r) THEN "" ELSE e.endStatus
           asked == IF intervention THEN {} ELSE e.asked
           q == [e EXCEPT !.resumedInFlight = resumed, !.inFlight = inFlight, !.ended = ended,
                          !.endStatus = endStatus, !.asked = asked]
<1>1. q = AfterResume(r, c, intervention)
  BY DEF AfterResume
<1>2. e \in Runs
  BY EnteringType
<1>3. resumed = NoStep
  OBVIOUS
<1> HIDE DEF e, resumed, inFlight, ended, endStatus, asked
<1>4. q.resumedInFlight = resumed
  BY <1>2 DEF Runs
<1> QED
  BY <1>1, <1>3, <1>4, Zenon

\* A RESUME goes on with the attempt it finds, or with a first one.
LEMMA ResumeAttempts == AInv /\ Resume => AttemptInv'
<1> SUFFICES ASSUME AInv, Resume PROVE AttemptInv'
  OBVIOUS
<1> DEFINE intervention == RunBlocked(rs)
           c == [Cursor(rs) EXCEPT !.attempt = IF intervention THEN 1 ELSE @,
                                   !.hard = IF intervention THEN 0 ELSE @]
           q == AfterResume(rs, c, intervention)
<1>1. /\ rs \in Runs /\ Cursor(rs) \in Cursors /\ intervention \in BOOLEAN
      /\ hist \in Hists /\ Attempts \in [Steps -> Nat \ {0}]
  BY AttemptParts DEF RunBlocked
<1>2. /\ c \in Cursors /\ c.step = Cursor(rs).step
      /\ intervention => c.attempt = 1
      /\ ~intervention => c = Cursor(rs)
  BY <1>1 DEF Cursors
<1>3. /\ ~RunTerminal(rs) /\ rs' = q
      /\ cmd' = Idle \/ (cmd' = AtPC("enter", c) /\ c.step \in Steps)
      /\ intervention => hist'.retries = 0
      /\ ~intervention => hist' = hist
  <2> HIDE DEF c
  <2> QED
    BY <1>1 DEF Resume, Arrive, Hists, c
<1> HIDE DEF c
<1>4. /\ q.left = FALSE /\ q.lastEnter = c
      /\ intervention => ~q.inFlight
      /\ ~intervention => q.inFlight = rs.inFlight
  BY ONLY <1>1, <1>2, AfterResumeFields, Zenon
<1>5. intervention \/ ~rs.inFlight => q.resumedInFlight = NoStep
  BY ONLY <1>1, <1>2, ResumeMarks, Zenon
<1> HIDE DEF q
<1>6. ~intervention => ~rs.ended
  BY <1>3 DEF RunTerminal, RunBlocked
<1>7. q.inFlight => rs.inFlight /\ c = rs.lastEnter
  BY <1>2, <1>4, <1>6, AttemptParts, CursorIs
<1>8. c.step \in Steps => Within(hist'.retries, c)
  <2>1. CASE intervention
    BY <1>1, <1>2, <1>3, <2>1 DEF Within
  <2>2. CASE ~intervention
    BY <1>2, <1>3, <1>6, <2>2 DEF AInv, AttemptInv
  <2> QED
    BY <2>1, <2>2
<1> HIDE DEF intervention
<1>9. cmd'.pc = "idle" \/ (cmd'.pc = "enter" /\ cmd'.at = c /\ c.step \in Steps)
  <2>1. Idle.pc = "idle" /\ AtPC("enter", c).pc = "enter" /\ AtPC("enter", c).at = c
    BY <1>2, CommandType DEF Idle
  <2> QED
    BY <1>3, <2>1
<1>10. ~rs'.ended => Cursor(rs') = c
  BY <1>3, <1>4, CursorIs
<1>11. cmd'.pc = "enter" /\ rs'.resumedInFlight = cmd'.at.step => q.inFlight
  BY <1>3, <1>4, <1>5, <1>9, WorkflowAssumption
<1>12. q.inFlight => c.step \in Steps /\ c.attempt >= 1 /\ c = hist'.entered
  BY <1>3, <1>4, <1>7 DEF AInv, AttemptInv
<1> QED
  BY <1>3, <1>4, <1>8, <1>9, <1>10, <1>11, <1>12 DEF AttemptInv, Trying, Judging

\* A STEP_ENTER makes c the last entry of a run that is not left.
LEMMA EntryMoves ==
  ASSUME NEW r \in Runs, NEW c \in Cursors, c.step \in Steps, NEW retry \in BOOLEAN
  PROVE  LET q == AfterStepEnter(r, c, retry)
         IN  q \in Runs /\ q.lastEnter = c /\ q.left = FALSE /\ q.ended = r.ended
<1>1. AfterStepEnter(r, c, retry) \in Runs
  BY AfterStepEnterType
<1>2. EntryOf(AfterStepEnter(r, c, retry), r, c)
  BY StepEnterFreezes
<1>3. AfterStepEnter(r, c, retry).left = FALSE /\ AfterStepEnter(r, c, retry).ended = r.ended
  BY AfterStepEnterFields
<1> QED
  BY <1>1, <1>2, <1>3, Zenon DEF EntryOf

\* An entry is the interrupted one again, or that of a visit without retries.
LEMMA EnterAttempts == AInv /\ EnterStep => AttemptInv'
<1> SUFFICES ASSUME AInv, EnterStep PROVE AttemptInv'
  OBVIOUS
<1>1. /\ rs \in Runs /\ cmd.at \in Cursors /\ cmd.pc = "enter" /\ cmd.at.step \in Steps
      /\ hist \in Hists /\ Attempts \in [Steps -> Nat \ {0}] /\ ~RunTerminal(rs)
  <2>1. cmd.pc = "enter"
    BY DEF EnterStep
  <2> QED
    BY <2>1, AttemptParts, PCs
<1>2. PICK c \in BeginAttempt(rs, cmd.at) :
        /\ rs' = AfterStepEnter(rs, c, FALSE)
        /\ cmd' = AfterEntry(c, rs'.attemptLastError)
        /\ hist'.retries = IF rs.resumedInFlight = c.step /\ c = hist.entered
                            THEN hist.retries ELSE 0
        /\ hist'.entered = c
  BY <1>1 DEF EnterStep, Hists
<1>3. c \in Cursors /\ c.step = cmd.at.step /\ c.step \in Steps
  BY <1>1, BeginAttemptType
<1>4. c.attempt >= 1
  BY <1>1, GoesOnWith
<1>5. rs' \in Runs /\ rs'.lastEnter = c /\ rs'.left = FALSE /\ rs'.ended = rs.ended
  <2> DEFINE q == AfterStepEnter(rs, c, FALSE)
  <2>1. q \in Runs /\ q.lastEnter = c /\ q.left = FALSE /\ q.ended = rs.ended
    BY ONLY <1>1, <1>3, EntryMoves, Zenon
  <2> HIDE DEF q
  <2>2. rs' = q
    BY <1>2 DEF q
  <2> QED
    BY <2>1, <2>2
<1>6. rs'.attemptLastError \in Errors
  BY <1>5 DEF Runs, Errors
<1>7. cmd'.pc # "enter" /\ (cmd'.pc # "idle" => cmd'.at = c)
  BY <1>2, <1>3, <1>6, EntrySees, AfterEntryType
<1>8. ~rs.ended => Within(hist'.retries, c)
  <2>1. CASE rs.resumedInFlight = c.step /\ c = hist.entered
    <3>1. rs.inFlight
      BY <1>1, <1>3, <2>1 DEF AInv, AttemptInv
    <3>2. c = rs.lastEnter
      BY <2>1, <3>1 DEF AInv, AttemptInv
    <3>3. ~rs.ended => Cursor(rs) = c
      BY <3>1, <3>2, AttemptParts, CursorIs
    <3> QED
      BY <1>2, <1>3, <2>1, <3>3 DEF AInv, AttemptInv
  <2>2. CASE ~(rs.resumedInFlight = c.step /\ c = hist.entered)
    BY <1>1, <1>2, <1>3, <1>4, <2>2 DEF Within, Cursors
  <2> QED
    BY <2>1, <2>2
<1> QED
  BY <1>2, <1>3, <1>4, <1>5, <1>7, <1>8, AttemptEntered

\* Another try of the body belongs to the same attempt.
LEMMA HardRetryAttempts == AInv /\ HardRetry => AttemptInv'
<1> SUFFICES ASSUME AInv, HardRetry PROVE AttemptInv'
  OBVIOUS
<1> DEFINE c == [cmd.at EXCEPT !.hard = @ + 1]
<1>1. /\ rs \in Runs /\ cmd \in Commands /\ cmd.at \in Cursors /\ cmd.pc = "again"
      /\ cmd.at.step \in Steps /\ cmd.retry \in BOOLEAN /\ hist \in Hists
  <2>1. cmd.pc = "again"
    BY DEF HardRetry
  <2> QED
    BY <2>1, AttemptParts
<1>2. c \in Cursors /\ c.step = cmd.at.step /\ c.step \in Steps /\ c.attempt = cmd.at.attempt /\ c.key = cmd.at.key
  BY <1>1 DEF Cursors
<1>3. /\ rs' = AfterStepEnter(rs, c, cmd.retry) /\ cmd' = [cmd EXCEPT !.pc = "body", !.at = c]
      /\ hist'.retries = hist.retries /\ hist'.entered = c
  <2>1. hist' = [hist EXCEPT !.entered = c]
    BY DEF HardRetry
  <2> HIDE DEF c
  <2>2. hist'.retries = hist.retries /\ hist'.entered = c
    BY <1>1, <1>2, <2>1, RemembersType
  <2> QED
    BY <2>2 DEF HardRetry, c
<1> HIDE DEF c
<1>4. rs'.lastEnter = c /\ rs'.left = FALSE /\ rs'.ended = rs.ended
  <2> DEFINE q == AfterStepEnter(rs, c, cmd.retry)
  <2>1. q \in Runs /\ q.lastEnter = c /\ q.left = FALSE /\ q.ended = rs.ended
    BY ONLY <1>1, <1>2, EntryMoves, Zenon
  <2> HIDE DEF q
  <2>2. rs' = q
    BY <1>3 DEF q
  <2> QED
    BY <2>1, <2>2
<1>5. cmd'.pc = "body" /\ cmd'.at = c
  BY <1>1, <1>3 DEF Commands
<1>6. c.attempt >= 1
  BY <1>1, <1>2 DEF AInv, AttemptInv, Trying
<1>7. ~rs.ended => Within(hist'.retries, c)
  BY <1>1, <1>2, <1>3 DEF AInv, AttemptInv, Within
<1> QED
  BY <1>2, <1>3, <1>4, <1>5, <1>6, <1>7, AttemptEntered

\* A retry raises the number of the attempt by more than that of the retries.
LEMMA ReenterAttempts == AInv /\ Reenter => AttemptInv'
<1> SUFFICES ASSUME AInv, Reenter PROVE AttemptInv'
  OBVIOUS
<1> DEFINE n == NextTry(rs, cmd.at)
           c == [cmd.at EXCEPT !.attempt = n]
           e == AfterEntry(c, rs'.attemptLastError)
<1>1. /\ rs \in Runs /\ cmd.at \in Cursors /\ cmd.at.step \in Steps /\ cmd.pc = "failed"
      /\ hist \in Hists /\ hist.retries \in Nat /\ Attempts \in [Steps -> Nat \ {0}]
  <2>1. cmd.pc = "failed"
    BY DEF Reenter
  <2> QED
    BY <2>1, AttemptParts
<1>2. n \in Nat /\ n > cmd.at.attempt
  <2> DEFINE recorded == rs.attempts[cmd.at.step][cmd.at.key]
  <2>1. recorded \in Nat
    <3>1. rs.attempts \in [Steps -> [Keys -> Nat]] /\ cmd.at.key \in Keys
      BY <1>1 DEF Runs, Cursors
    <3> QED
      BY <1>1, <3>1
  <2>2. cmd.at.attempt \in Nat
    BY <1>1 DEF Cursors
  <2>3. n = 1 + IF recorded > cmd.at.attempt THEN recorded ELSE cmd.at.attempt
    BY DEF NextTry
  <2> HIDE DEF recorded, n
  <2> QED
    BY ONLY <2>1, <2>2, <2>3
<1>3. /\ rs' = AfterStepEnter(rs, c, TRUE) /\ cmd' = [e EXCEPT !.retry = TRUE]
      /\ n <= Attempts[cmd.at.step]
      /\ hist'.retries = IF hist.retries >= Attempts[c.step] THEN hist.retries
                         ELSE hist.retries + 1
      /\ hist'.entered = c
  BY <1>1 DEF Reenter, Hists
<1> HIDE DEF n
<1>4. /\ c \in Cursors /\ c.step = cmd.at.step /\ c.step \in Steps
      /\ c.attempt = n /\ c.key = cmd.at.key
  BY <1>1, <1>2 DEF Cursors
<1> HIDE DEF c
<1>5. rs' \in Runs /\ rs'.lastEnter = c /\ rs'.left = FALSE /\ rs'.ended = rs.ended
  <2> DEFINE q == AfterStepEnter(rs, c, TRUE)
  <2>1. q \in Runs /\ q.lastEnter = c /\ q.left = FALSE /\ q.ended = rs.ended
    BY ONLY <1>1, <1>4, EntryMoves, Zenon
  <2> HIDE DEF q
  <2>2. rs' = q
    BY <1>3 DEF q
  <2> QED
    BY <2>1, <2>2
<1>6. rs'.attemptLastError \in Errors
  BY <1>5 DEF Runs, Errors
<1>7. e \in Commands /\ e.pc # "enter" /\ (e.pc # "idle" => e.at = c)
  BY <1>4, <1>6, EntrySees, AfterEntryType
<1> HIDE DEF e
<1>8. cmd'.pc = e.pc /\ cmd'.at = e.at
  BY <1>3, <1>7 DEF Commands
<1>9. c.attempt >= 1
  <2>1. cmd.at.attempt \in Nat
    BY <1>1 DEF Cursors
  <2> QED
    BY ONLY <1>2, <1>4, <2>1
<1>10. ~rs.ended => Within(hist'.retries, c)
  <2> SUFFICES ASSUME ~rs.ended PROVE Within(hist'.retries, c)
    OBVIOUS
  <2>1. Within(hist.retries, cmd.at)
    BY <1>1 DEF AInv, AttemptInv
  <2>2. cmd.at.attempt \in Nat /\ Attempts[c.step] \in Nat
    BY <1>1, <1>4 DEF Cursors
  <2> QED
    BY <1>1, <1>2, <1>3, <1>4, <2>1, <2>2 DEF Within
<1> QED
  BY <1>3, <1>4, <1>5, <1>7, <1>8, <1>9, <1>10, AttemptEntered

\* A transition leaves the attempt behind.
LEMMA TransitionAttempts == AInv /\ Transition => AttemptInv'
<1> SUFFICES ASSUME AInv, Transition PROVE AttemptInv'
  OBVIOUS
<1> DEFINE s == cmd.at.step
           target == ResolveTarget(s, cmd.outcome)
           via == ViaCatch(s, cmd.outcome)
           q == AfterTransition(rs, s, target, via)
<1>1. /\ rs \in Runs /\ cmd.at \in Cursors /\ s \in Steps
      /\ hist \in Hists /\ Attempts \in [Steps -> Nat \ {0}]
  <2>1. cmd.pc = "route"
    BY DEF Transition
  <2> QED
    BY <2>1, AttemptParts
<1>2. target \in Places /\ via \in BOOLEAN
  BY <1>1, TargetType DEF ViaCatch
<1>3. /\ rs' = q
      /\ target \in Steps => cmd' = AtPC("enter", Fresh(target)) /\ hist'.retries = 0
      /\ target \notin Steps => cmd' = [AtPC("end", cmd.at) EXCEPT !.outcome = target]
  BY <1>1 DEF Transition, Arrive, Hists
<1> HIDE DEF s, target, via
<1>4. /\ q.left = TRUE /\ q.inFlight = FALSE
      /\ q.resumedInFlight = NoStep /\ q.lastTarget = target
  BY ONLY <1>1, <1>2, AfterTransitionFields, Zenon
<1> HIDE DEF q
<1>5. target \in Steps => cmd'.pc = "enter" /\ cmd'.at.step = target
  <2>1. ASSUME target \in Steps
        PROVE  Fresh(target) \in Cursors /\ Fresh(target).step = target
    BY <2>1 DEF Fresh, Cursors, Places, Keys
  <2> QED
    BY <1>3, <2>1, PCs
<1>6. target \notin Steps => cmd'.pc = "end"
  <2>1. AtPC("end", cmd.at) \in Commands /\ AtPC("end", cmd.at).pc = "end"
    BY <1>1, CommandType
  <2> QED
    BY <1>3, <2>1 DEF Commands
<1> DEFINE d == [step |-> target, attempt |-> 1, key |-> "", hard |-> 0]
<1>7. ~rs'.ended => Cursor(rs') = d
  BY <1>3, <1>4, CursorIs
<1>8. d.step = target /\ (target \in Steps => Within(hist'.retries, d))
  BY <1>1, <1>3 DEF Within
<1> HIDE DEF d
<1>9. cmd'.pc = "enter" => rs'.resumedInFlight # cmd'.at.step
  BY <1>3, <1>4, <1>5, <1>6, WorkflowAssumption
<1>10. ~rs'.ended /\ Cursor(rs').step \in Steps => Within(hist'.retries, Cursor(rs'))
  BY <1>7, <1>8
<1>11. cmd'.pc \in {"enter", "end"} /\ ~rs'.inFlight
  BY <1>3, <1>4, <1>5, <1>6
<1> QED
  BY <1>9, <1>10, <1>11 DEF AttemptInv, Trying, Judging

\* Every step keeps the attempts in order.
LEMMA AttemptStep == AInv /\ [Next]_runVars => AttemptInv'
<1> SUFFICES ASSUME AInv, [Next]_runVars PROVE AttemptInv'
  OBVIOUS
<1>0. /\ rs \in Runs /\ cmd \in Commands /\ hist \in Hists
      /\ cmd.at \in Cursors /\ Cursor(rs) \in Cursors
      /\ cmd.pc # "idle" => cmd.at.step \in Steps
  BY AttemptParts
<1>k. Kept(rs, rs)
  BY DEF Kept
<1>i. Idle.pc = "idle"
  BY DEF Idle
<1>r. ASSUME NEW outcome, NEW gate, cmd' = Resolved(cmd.at, outcome, gate)
      PROVE  cmd'.pc = "route"
  BY <1>r DEF Resolved, AtPC, Idle
<1>e. Diagnostic \in Errors /\ NoText \in Errors /\ Texts \subseteq Errors
  BY DEF Errors
<1>q. ASSUME rs' = rs, hist' = hist, cmd'.pc \in {"idle", "route", "end"}
      PROVE  AttemptInv'
  BY <1>k, <1>q, AttemptStays
<1>p. ASSUME NEW s \in Steps, NEW ok \in BOOLEAN, NEW text \in Errors,
             rs' = AfterPostcondition(rs, s, ok, text), hist' = hist, cmd'.pc # "enter",
             \/ cmd'.pc = "route"
             \/ /\ cmd.pc \in {"body", "judge", "again", "failed"}
                /\ cmd'.pc \in {"judge", "again", "failed"}
                /\ cmd'.at.step = cmd.at.step /\ cmd'.at.attempt = cmd.at.attempt
                /\ (Trying' => Trying)
      PROVE  AttemptInv'
  <2> DEFINE q == AfterPostcondition(rs, s, ok, text)
  <2>1. rs \in Runs
    BY <1>0
  <2>2. /\ Kept(q, rs) /\ q.lastEnter = rs.lastEnter /\ q.left = rs.left
        /\ q.inFlight = rs.inFlight /\ q.lastTarget = rs.lastTarget
    BY ONLY <2>1, AfterPostconditionFields, Zenon
  <2> HIDE DEF q
  <2>3. rs' = q
    BY <1>p DEF q
  <2> QED
    BY <1>p, <2>2, <2>3, AttemptStays
<1>x. ASSUME NEW s \in Places, NEW status \in {"ok", "blocked", "abandoned"},
             rs' = AfterRunEnd(rs, s, status), cmd' = Idle, hist' = hist
      PROVE  AttemptInv'
  <2> DEFINE q == AfterRunEnd(rs, s, status)
  <2>1. rs \in Runs
    BY <1>0
  <2>2. q.inFlight = rs.inFlight /\ q.ended = TRUE
    BY ONLY <2>1, AfterRunEndFields, Zenon
  <2>3. q.lastEnter = rs.lastEnter
    BY ONLY <2>1, RunEndFreezes, Zenon DEF Frozen
  <2> HIDE DEF q
  <2>4. rs' = q
    BY <1>x DEF q
  <2> QED
    BY <1>i, <1>x, <2>2, <2>3, <2>4 DEF AInv, AttemptInv, Trying, Judging
<1>1. CASE Start
  <2>1. rs = NewRun /\ rs' = [NewRun EXCEPT !.started = TRUE] /\ cmd' = AtPC("enter", Fresh(StartStep))
    BY <1>1 DEF Start, AfterRunStart, AInv, IInv, FinalInv
  <2>2. /\ ~rs'.inFlight /\ ~rs'.left /\ ~rs'.ended
        /\ rs'.lastEnter = NoCursor /\ rs'.resumedInFlight = NoStep
    BY <2>1 DEF NewRun
  <2>3. cmd'.pc = "enter" /\ cmd'.at.step \in Steps
    <3>1. Fresh(StartStep) \in Cursors /\ Fresh(StartStep).step = StartStep
      BY WorkflowAssumption DEF Fresh, Cursors, Places, Keys
    <3> QED
      BY <2>1, <3>1, PCs, WorkflowAssumption
  <2>4. Cursor(rs').step \notin Steps
    <3>1. Cursor(rs') = NoCursor
      BY <2>2, CursorIs
    <3>2. NoCursor.step = NoStep
      BY DEF NoCursor
    <3> QED
      BY <3>1, <3>2, WorkflowAssumption
  <2> QED
    BY <2>2, <2>3, <2>4, WorkflowAssumption DEF AttemptInv, Trying, Judging
<1>2. CASE EnterCapped \/ FailsCapped \/ FailsFinally
  <2>1. rs' = rs /\ hist' = hist
    BY <1>2 DEF EnterCapped, FailsCapped, FailsFinally
  <2>2. cmd'.pc = "route"
    BY <1>2, <1>r DEF EnterCapped, FailsCapped, FailsFinally
  <2> QED
    BY <1>q, <2>1, <2>2
<1>3. CASE InvariantBlocks
  <2>1. cmd.at.step \in Places
    BY <1>0 DEF Cursors
  <2> QED
    BY <1>3, <1>x, <2>1 DEF InvariantBlocks
<1>4. CASE End
  <2>1. cmd.at.step \in Places /\ EndStatus(cmd.outcome) \in {"ok", "blocked", "abandoned"}
    BY <1>0, WorkflowAssumption DEF Cursors, EndStatus
  <2> QED
    BY <1>4, <1>x, <2>1 DEF End
<1>5. CASE Crash \/ Dispatch
  BY <1>5, <1>i, <1>q DEF Crash, Dispatch
<1>6. CASE AbandonLooks
  BY <1>6 DEF AbandonLooks, AInv, AttemptInv, Trying, Judging
<1>7. CASE AbandonEnds
  <2>1. NoStep \in Places /\ cmd' = Idle
    BY <1>7 DEF AbandonEnds, Places
  <2> QED
    BY <1>7, <1>x, <2>1 DEF AbandonEnds
<1>8. CASE RunBody
  <2>1. cmd' = [cmd EXCEPT !.pc = "judge"] /\ rs' = rs /\ hist' = hist /\ cmd.pc = "body"
    BY <1>8 DEF RunBody
  <2>2. cmd'.pc = "judge" /\ cmd'.at = cmd.at
    BY <1>0, <2>1 DEF Commands
  <2>3. Trying
    BY <2>1 DEF Trying
  <2> QED
    BY <1>k, <2>1, <2>2, <2>3, AttemptStays
<1>9. CASE HardFails
  <2>1. cmd.pc = "judge" /\ Trying /\ cmd.at.step \in Steps /\ hist' = hist
    BY <1>0, <1>9 DEF HardFails, Judging, Trying
  <2>2. CASE cmd' = [cmd EXCEPT !.pc = "again"]
    <3>1. cmd'.pc = "again" /\ cmd'.at = cmd.at
      BY <1>0, <2>2 DEF Commands
    <3> QED
      BY <1>9, <1>p, <1>e, <2>1, <3>1 DEF HardFails
  <2>3. CASE cmd' = Resolved(cmd.at, "failure", TRUE)
    BY <1>9, <1>p, <1>e, <1>r, <2>1, <2>3 DEF HardFails
  <2> QED
    BY <1>9, <2>2, <2>3 DEF HardFails
<1>10. CASE PrintsFailure \/ ContextUnavailable
  <2>1. /\ cmd.at.step \in Steps /\ hist' = hist
        /\ rs' = AfterPostcondition(rs, cmd.at.step, FALSE, Diagnostic)
        /\ cmd' = Resolved(cmd.at, "failure", TRUE)
    BY <1>0, <1>10 DEF PrintsFailure, ContextUnavailable, Judging
  <2> QED
    BY <1>p, <1>e, <1>r, <2>1
<1>11. CASE Submit
  <2>1. /\ rs' = rs /\ hist' = hist /\ cmd' = AtPC("judge", Cursor(rs))
        /\ Cursor(rs).step \in Steps /\ Kind[Cursor(rs).step] = "agentic"
    BY <1>11 DEF Submit
  <2>2. cmd'.pc = "judge" /\ cmd'.at = Cursor(rs)
    BY <1>0, <2>1, CommandType
  <2>3. ~Trying'
    BY <2>1, <2>2 DEF Trying, Judging
  <2> QED
    BY <2>1, <2>2, <2>3 DEF AInv, AttemptInv
<1>12. CASE Passes
  <2>1. cmd.at.step \in Steps /\ hist' = hist
    BY <1>0, <1>12 DEF Passes, Judging
  <2>2. cmd'.pc = "route"
    BY <1>12, <1>r DEF Passes
  <2>3. CASE rs' = AfterPostcondition(rs, cmd.at.step, TRUE, NoText)
    BY <1>p, <1>e, <2>1, <2>2, <2>3
  <2>4. CASE rs' = rs
    BY <1>q, <2>1, <2>2, <2>4
  <2> QED
    BY <1>12, <2>3, <2>4 DEF Passes
<1>13. CASE Fails
  <2>1. cmd.pc = "judge" /\ cmd.at.step \in Steps /\ hist' = hist
    BY <1>0, <1>13 DEF Fails, Judging
  <2>2. PICK text \in Texts :
          /\ rs' = AfterPostcondition(rs, cmd.at.step, FALSE, text)
          /\ cmd' = [cmd EXCEPT !.pc = "failed", !.at.hard = 0,
                     !.at.key = IF Template[cmd.at.step] = {} THEN text ELSE @]
    BY <1>13 DEF Fails
  <2>3. cmd'.pc = "failed" /\ cmd'.at.step = cmd.at.step /\ cmd'.at.attempt = cmd.at.attempt
    BY <1>0, <2>2 DEF Commands, Cursors
  <2>4. ~Trying'
    BY <2>3 DEF Trying, Judging
  <2> QED
    BY <1>p, <1>e, <2>1, <2>2, <2>3, <2>4
<1>14. CASE UNCHANGED runVars
  BY <1>14 DEF runVars, AInv, AttemptInv, Trying, Judging
<1> QED
  BY <1>1, <1>2, <1>3, <1>4, <1>5, <1>6, <1>7, <1>8, <1>9, <1>10, <1>11, <1>12, <1>13, <1>14,
     ResumeAttempts, EnterAttempts, HardRetryAttempts, ReenterAttempts, TransitionAttempts
     DEF Next, RunStep, LoopStep, BodyStep, Over

\* So the attempts are in order in every state.
LEMMA Attempting == Spec => []AInv
<1>1. Init => AttemptInv
  <2>1. /\ ~NewRun.inFlight /\ ~NewRun.left /\ ~NewRun.ended
        /\ NewRun.lastEnter.step = NoStep /\ Idle.pc = "idle"
    BY DEF NewRun, NoCursor, Idle
  <2>2. Cursor(NewRun).step \notin Steps
    BY <2>1, CursorIs, WorkflowAssumption
  <2> QED
    BY <2>1, <2>2 DEF Init, RunInit, AttemptInv, Trying, Judging
<1>2. IInv /\ AttemptInv /\ [Next]_runVars => AttemptInv'
  BY AttemptStep DEF AInv
<1> QED
  BY <1>1, <1>2, Invariance, PTL DEF Spec, AInv

-----------------------------------------------------------------------------
(* What follows *)

\* Within one visit a step is re-entered fewer times than attempts:, even when
\* each failure has a text, and so a key, of its own: nextTryNumber goes on from
\* the attempt that failed, whatever attempt_key: renders to and for agentic steps
\* as well as deterministic ones.  (RetriesWithinBudget names the two cases in
\* which the count starts anew.)
THEOREM RetriesBounded == Spec => []RetriesWithinBudget
<1>1. AInv => RetriesWithinBudget
  <2> SUFFICES ASSUME AInv, ~RunBlocked(rs), cmd.pc \in {"body", "dispatch"}
               PROVE  hist.retries < Attempts[cmd.at.step]
    BY DEF RetriesWithinBudget
  <2>1. ~RunTerminal(rs)
    BY AttemptParts, PCs
  <2>2. ~rs.ended
    BY <2>1 DEF RunTerminal, RunBlocked
  <2> QED
    BY <2>2 DEF AInv, AttemptInv, Within
<1> QED
  BY <1>1, Attempting, PTL

\* The STEP_ENTER after a crash RESUME has the attempt, the key and the try of
\* the STEP_ENTER before the crash, which hist remembers beside the journal: any
\* number of commands may have died in between, each having overwritten the
\* journal's last entry with the cursor of its RESUME.
THEOREM AttemptKept == Spec => CrashKeepsAttempt
<1> DEFINE Keeps == cmd.pc = "enter" /\ rs.resumedInFlight = cmd.at.step /\ rs' # rs
                      /\ HasKey(hist.entered) => rs'.lastEnter = hist.entered
<1>1. AInv /\ [Next]_runVars => [Keeps]_runVars
  <2> SUFFICES ASSUME AInv, [Next]_runVars, cmd.pc = "enter",
                      rs.resumedInFlight = cmd.at.step, rs' # rs, HasKey(hist.entered)
               PROVE  rs'.lastEnter = hist.entered
    OBVIOUS
  <2>1. /\ rs \in Runs /\ cmd.at \in Cursors /\ cmd.at.step \in Steps /\ cmd # Idle
        /\ rs.started
    BY AttemptParts, PCs DEF AInv, IInv, FinalInv
  <2>2. EnterStep
    BY <2>1 DEF Next, RunStep, LoopStep, BodyStep, Over, runVars, Start, Resume, EnterCapped,
                InvariantBlocks, Transition, End, Crash, AbandonLooks, AbandonEnds, RunBody,
                HardFails, PrintsFailure, HardRetry, Dispatch, ContextUnavailable, Passes,
                Fails, FailsCapped, FailsFinally, Reenter, Judging, Submit
  <2>3. PICK c \in BeginAttempt(rs, cmd.at) : rs' = AfterStepEnter(rs, c, FALSE)
    BY <2>2 DEF EnterStep
  <2>4. c \in Cursors /\ c.step \in Steps
    BY <2>1, BeginAttemptType
  <2>5. cmd.at = hist.entered /\ cmd.at.attempt >= 1
    BY DEF AInv, AttemptInv
  <2>6. c = hist.entered
    BY <2>1, <2>3, <2>5, GoesOnWith
  <2> DEFINE q == AfterStepEnter(rs, c, FALSE)
  <2>7. q.lastEnter = c
    BY ONLY <2>1, <2>4, EntryMoves, Zenon
  <2> QED
    BY <2>3, <2>6, <2>7
<1> QED
  BY <1>1, Attempting, PTL DEF Spec, CrashKeepsAttempt

-----------------------------------------------------------------------------
(* Engine implements Walk *)

\* Nothing is left to a session: every step is a program.
Machines == \A s \in Steps : Kind[s] = "deterministic"

\* Where the run is, whether the visit there has begun, and how the run is.
Place(r) == IF RunTerminal(r) THEN NoStep ELSE Cursor(r).step
Inside(r) == r.inFlight /\ ~r.ended
Status(r) == IF RunTerminal(r) THEN "over" ELSE IF RunBlocked(r) THEN "blocked"
             ELSE IF r.started THEN "live" ELSE "new"

\* The command is in step with the journal: it acts on the step that the
\* cursor is at, which it has entered or is about to enter or to pass over.
PathInv ==
  /\ cmd.pc \notin {"dispatch", "ask", "fan"}
  /\ cmd.pc # "idle" => ~rs.ended
  /\ cmd.pc = "enter" \/ (cmd.pc = "route" /\ ~cmd.gate)
       => \/ Cursor(rs).step = cmd.at.step
          \/ Cursor(rs).step = NoStep /\ cmd.at.step = StartStep /\ ~rs.inFlight
  /\ cmd.pc = "enter" /\ (rs.resumedInFlight = cmd.at.step \/ cmd.at.hard > 0) => rs.inFlight
  /\ ~rs.left /\ rs.lastEnter.hard > 0 => rs.inFlight
  /\ cmd.pc \in {"body", "judge", "again", "failed"} \/ (cmd.pc = "route" /\ cmd.gate)
       => rs.inFlight /\ Cursor(rs).step = cmd.at.step
  /\ cmd.pc = "route" => cmd.outcome \in Producible(cmd.at.step)
  /\ cmd.pc = "route" /\ ~cmd.gate => cmd.outcome = "exhausted" /\ W!AtCap(cmd.at.step)
  /\ cmd.pc = "end" => /\ ~rs.inFlight /\ cmd.outcome \in Ends
                       /\ Cursor(rs).step = cmd.outcome
                       /\ cmd.outcome \in W!Targets(cmd.at.step)

WInv == IInv /\ PathInv

-----------------------------------------------------------------------------
(* What is seen of a run *)

\* The step of the cursor, rule by rule.
LEMMA CursorPlace ==
  ASSUME NEW r
  PROVE  Cursor(r).step = IF RunBlocked(r)
                          THEN IF r.blockedStep # NoStep THEN r.blockedStep ELSE r.lastEnter.step
                          ELSE IF r.left THEN r.lastTarget ELSE r.lastEnter.step
<1>1. ASSUME NEW s
      PROVE  [NoCursor EXCEPT !.step = s].step = s
  BY DEF NoCursor
<1> QED
  BY <1>1 DEF Cursor

\* A run that is live, or blocked, or over.
LEMMA Seen ==
  ASSUME NEW r
  PROVE  /\ r.started /\ ~r.ended => Status(r) = "live" /\ Place(r) = Cursor(r).step
         /\ r.ended /\ r.endStatus = "blocked" => Status(r) = "blocked" /\ Place(r) = Cursor(r).step
         /\ r.ended /\ r.endStatus # "blocked" => Status(r) = "over" /\ Place(r) = NoStep
         /\ r.ended => Inside(r) = FALSE
         /\ ~r.ended /\ ~r.inFlight => Inside(r) = FALSE
         /\ ~r.ended /\ r.inFlight => Inside(r) = TRUE
BY DEF Status, Place, Inside, RunTerminal, RunBlocked

\* A step that nothing is seen of.
LEMMA Unseen ==
  ASSUME Place(rs') = Place(rs), Inside(rs') = Inside(rs), rs'.visits = rs.visits,
         Status(rs') = Status(rs)
  PROVE  [W!WalkNext]_W!walkVars
BY DEF W!walkVars, Place, Inside, Status

\* Nothing is seen of a step that leaves the run where it is.
LEMMA KeptUnseen ==
  ASSUME Kept(rs', rs), rs'.lastEnter = rs.lastEnter, rs'.lastTarget = rs.lastTarget,
         rs'.left = rs.left, rs'.inFlight = rs.inFlight
  PROVE  /\ [W!WalkNext]_W!walkVars
         /\ Cursor(rs').step = Cursor(rs).step
<1>1. RunTerminal(rs') = RunTerminal(rs) /\ RunBlocked(rs') = RunBlocked(rs)
  BY DEF Kept, RunTerminal, RunBlocked
<1>2. Cursor(rs').step = Cursor(rs).step
  BY <1>1, CursorPlace DEF Kept
<1>3. /\ Place(rs') = Place(rs) /\ Inside(rs') = Inside(rs) /\ Status(rs') = Status(rs)
      /\ rs'.visits = rs.visits
  BY <1>1, <1>2 DEF Place, Inside, Status, Kept
<1> QED
  BY <1>2, <1>3, Unseen

\* A live run that has been moved within its step, or to where it was.
LEMMA LiveUnseen ==
  ASSUME rs.started, rs'.started, ~rs.ended, ~rs'.ended, rs.inFlight = rs'.inFlight,
         rs'.visits = rs.visits, Cursor(rs').step = Cursor(rs).step
  PROVE  [W!WalkNext]_W!walkVars
<1>1. Place(rs') = Place(rs) /\ Status(rs') = Status(rs)
  BY DEF Place, Inside, Status, RunTerminal, RunBlocked
<1>2. Inside(rs') = Inside(rs)
  BY DEF Inside
<1> QED
  BY <1>1, <1>2, Unseen

-----------------------------------------------------------------------------
(* The steps of the walk, by what is seen of them *)

\* The workflow of the walk is that of the run.
LEMMA SameWorkflow ==
  /\ W!NoStep = NoStep /\ W!Ends = Ends
  /\ \A s, o : W!ResolveTarget(s, o) = ResolveTarget(s, o)
  /\ \A s : W!Producible(s) = Producible(s)
  /\ \A target : W!EndStatus(target) = EndStatus(target)
<1>1. W!NoStep = NoStep /\ W!Ends = Ends
  BY DEF W!NoStep, NoStep, W!Ends, Ends
<1>2. W!Reserved = Reserved
  BY DEF W!Reserved, Reserved
<1>3. \A s, o : W!ResolveTarget(s, o) = ResolveTarget(s, o)
  BY <1>2, Zenon DEF W!ResolveTarget, ResolveTarget
<1>4. \A s : W!Producible(s) = Producible(s)
  BY DEF W!Producible, Producible
<1>5. \A target : W!EndStatus(target) = EndStatus(target)
  BY Zenon DEF W!EndStatus, EndStatus
<1> QED
  BY <1>1, <1>3, <1>4, <1>5

\* It counts visits the way the run does.
LEMMA SameSum ==
  ASSUME NEW f
  PROVE  W!SumFunction(f) = SumFunction(f)
BY Zenon DEF W!SumFunction, W!SumFunctionOnSet, W!FoldFunctionOnSet, W!MapThenFoldSet,
             SumFunction, SumFunctionOnSet, FoldFunctionOnSet, MapThenFoldSet

\* A visit begins.
LEMMA Visits ==
  ASSUME NEW s \in Steps, rs.started, ~rs.ended, ~rs.inFlight, ~W!AtCap(s),
         Cursor(rs).step = s \/ (Cursor(rs).step = NoStep /\ s = StartStep),
         rs'.started, ~rs'.ended, rs'.inFlight, Cursor(rs').step = s,
         rs'.visits = [rs.visits EXCEPT ![s] = @ + 1]
  PROVE  W!WalkNext
<1>1. /\ Status(rs) = "live" /\ Place(rs) = Cursor(rs).step /\ Inside(rs) = FALSE
      /\ Status(rs') = "live" /\ Place(rs') = s /\ Inside(rs') = TRUE
  BY DEF Place, Inside, Status, RunTerminal, RunBlocked
<1>2. W!Visit(s)
  BY <1>1, SameWorkflow DEF W!Visit, W!Ahead, Status, Place, Inside
<1> QED
  BY <1>2 DEF W!WalkNext

\* A step is left by one of its edges.
LEMMA Leaves ==
  ASSUME rs.started, ~rs.ended, rs.inFlight,
         rs'.started, ~rs'.ended, ~rs'.inFlight, rs'.visits = rs.visits,
         Cursor(rs').step \in W!Targets(Cursor(rs).step)
  PROVE  W!WalkNext
<1>1. /\ Status(rs) = "live" /\ Place(rs) = Cursor(rs).step /\ Inside(rs) = TRUE
      /\ Status(rs') = "live" /\ Place(rs') = Cursor(rs').step /\ Inside(rs') = FALSE
  BY DEF Place, Inside, Status, RunTerminal, RunBlocked
<1>2. W!Leave
  BY <1>1, SameWorkflow DEF W!Leave, Status, Place, Inside
<1> QED
  BY <1>2 DEF W!WalkNext

\* A step at its cap is passed over.
LEMMA PassesOver ==
  ASSUME NEW s \in Steps, rs.started, ~rs.ended, ~rs.inFlight, W!AtCap(s),
         Cursor(rs).step = s \/ (Cursor(rs).step = NoStep /\ s = StartStep),
         rs'.started, ~rs'.ended, ~rs'.inFlight, rs'.visits = rs.visits,
         Cursor(rs').step = ResolveTarget(s, "exhausted")
  PROVE  W!WalkNext
<1>1. /\ Status(rs) = "live" /\ Place(rs) = Cursor(rs).step /\ Inside(rs) = FALSE
      /\ Status(rs') = "live" /\ Place(rs') = Cursor(rs').step /\ Inside(rs') = FALSE
  BY DEF Place, Inside, Status, RunTerminal, RunBlocked
<1>2. W!PassOver(s)
  BY <1>1, SameWorkflow DEF W!PassOver, W!Ahead, Status, Place, Inside
<1> QED
  BY <1>2 DEF W!WalkNext

\* The walk finishes at an end, or is back at a step that leads there.
LEMMA Finishes ==
  ASSUME NEW s \in Steps, rs.started, ~rs.ended, ~rs.inFlight,
         Cursor(rs).step \in Ends, Cursor(rs).step \in W!Targets(s),
         rs'.ended, ~rs'.inFlight, rs'.visits = rs.visits,
         rs'.endStatus = EndStatus(Cursor(rs).step),
         EndStatus(Cursor(rs).step) = "blocked" => Cursor(rs').step = s
  PROVE  W!WalkNext
<1>1. /\ Status(rs) = "live" /\ Place(rs) = Cursor(rs).step /\ Inside(rs) = FALSE
      /\ Inside(rs') = FALSE
  BY DEF Place, Inside, Status, RunTerminal, RunBlocked
<1>2. CASE EndStatus(Cursor(rs).step) = "blocked"
  <2>1. Status(rs') = "blocked" /\ Place(rs') = s
    BY <1>2 DEF Place, Status, RunTerminal, RunBlocked
  <2>2. W!Finish
    BY <1>1, <1>2, <2>1, SameWorkflow DEF W!Finish, Status, Place, Inside
  <2> QED
    BY <2>2 DEF W!WalkNext
<1>3. CASE EndStatus(Cursor(rs).step) # "blocked"
  <2>1. Status(rs') = "over" /\ Place(rs') = NoStep
    BY <1>3 DEF Place, Status, RunTerminal, RunBlocked
  <2>2. W!Finish
    BY <1>1, <1>3, <2>1, SameWorkflow DEF W!Finish, Status, Place, Inside
  <2> QED
    BY <2>2 DEF W!WalkNext
<1> QED
  BY <1>2, <1>3

\* A visit is cut short by a violated invariant.
LEMMA Blocks ==
  ASSUME rs.started, ~rs.ended, rs.inFlight, rs'.ended, rs'.endStatus = "blocked",
         rs'.visits = rs.visits, Cursor(rs').step = Cursor(rs).step
  PROVE  W!WalkNext
<1>1. /\ Status(rs) = "live" /\ Place(rs) = Cursor(rs).step /\ Inside(rs) = TRUE
      /\ Status(rs') = "blocked" /\ Place(rs') = Cursor(rs).step /\ Inside(rs') = FALSE
  BY DEF Place, Inside, Status, RunTerminal, RunBlocked
<1>2. W!Block
  BY <1>1, SameWorkflow DEF W!Block, Status, Place, Inside
<1> QED
  BY <1>2 DEF W!WalkNext

\* A person takes up a walk that was blocked.
LEMMA Intervenes ==
  ASSUME rs.ended, rs.endStatus = "blocked", rs'.started, ~rs'.ended, ~rs'.inFlight,
         rs'.visits = rs.visits, Cursor(rs').step = Cursor(rs).step
  PROVE  W!WalkNext
<1>1. /\ Status(rs) = "blocked" /\ Place(rs) = Cursor(rs).step /\ Inside(rs) = FALSE
      /\ Status(rs') = "live" /\ Place(rs') = Cursor(rs).step /\ Inside(rs') = FALSE
  BY DEF Place, Inside, Status, RunTerminal, RunBlocked
<1>2. W!Intervene
  BY <1>1, SameWorkflow DEF W!Intervene, Status, Place, Inside
<1> QED
  BY <1>2 DEF W!WalkNext

\* The walk is given up, unless it is over.
LEMMA Abandons ==
  ASSUME rs.started, rs.ended \in BOOLEAN, rs'.ended, rs'.endStatus = "abandoned",
         rs'.visits = rs.visits
  PROVE  [W!WalkNext]_W!walkVars
<1>1. Status(rs') = "over" /\ Place(rs') = NoStep /\ Inside(rs') = FALSE
  BY DEF Place, Inside, Status, RunTerminal, RunBlocked
<1>2. CASE RunTerminal(rs)
  <2>1. Status(rs) = "over" /\ Place(rs) = NoStep /\ Inside(rs) = FALSE
    BY <1>2 DEF Place, Inside, Status, RunTerminal
  <2> QED
    BY <1>1, <2>1, Unseen
<1>3. CASE ~RunTerminal(rs)
  <2>1. Status(rs) \in {"live", "blocked"}
    BY <1>3 DEF Status
  <2>2. W!Abandon
    BY <1>1, <2>1, SameWorkflow DEF W!Abandon, Status, Place, Inside
  <2> QED
    BY <2>2 DEF W!WalkNext
<1> QED
  BY <1>2, <1>3

-----------------------------------------------------------------------------
(* The steps of a run *)

\* The parts of the other invariants that are used below.
LEMMA WalkParts ==
  ASSUME WInv
  PROVE  /\ rs \in Runs /\ cmd \in Commands /\ hist \in Hists /\ cmd.at \in Cursors
         /\ Cursor(rs) \in Cursors /\ cmd.retry \in BOOLEAN /\ rs.visits \in [Steps -> Nat]
         /\ rs.inFlight \in BOOLEAN /\ rs.ended \in BOOLEAN /\ rs.left \in BOOLEAN
         /\ cmd.pc # "idle" => cmd # Idle /\ cmd.at.step \in Steps /\ rs.started /\ ~rs.ended
         /\ rs.inFlight => ~rs.left
<1>1. rs \in Runs /\ cmd \in Commands /\ hist \in Hists /\ cmd.at \in Cursors
      /\ Cursor(rs) \in Cursors /\ cmd.retry \in BOOLEAN /\ rs.visits \in [Steps -> Nat]
  BY Parts DEF WInv, IInv
<1>2. rs.inFlight \in BOOLEAN /\ rs.ended \in BOOLEAN /\ rs.left \in BOOLEAN
  BY <1>1 DEF Runs
<1>3. cmd.pc # "idle" => cmd # Idle /\ cmd.at.step \in Steps /\ rs.started /\ ~rs.ended
  BY PCs DEF WInv, PathInv, IInv, FinalInv, TInv, AtStep
<1> QED
  BY <1>1, <1>2, <1>3 DEF WInv, IInv, EntryInv

\* The outcomes of a step lead along its edges.
LEMMA Edges ==
  ASSUME NEW s, NEW o \in Producible(s)
  PROVE  ResolveTarget(s, o) \in W!Targets(s)
BY SameWorkflow DEF W!Targets

\* A blocked run is blocked at the step that its RUN_END names.
LEMMA RunEndBlocks ==
  ASSUME NEW r \in Runs, NEW s \in Steps
  PROVE  AfterRunEnd(r, s, "blocked").blockedStep = s
<1> DEFINE q == [r EXCEPT !.ended = TRUE, !.endStatus = "blocked", !.asked = {},
                          !.blockedStep = s]
<1>1. q = AfterRunEnd(r, s, "blocked")
  BY WorkflowAssumption DEF AfterRunEnd
<1>2. q.blockedStep = s
  BY DEF Runs
<1> QED
  BY <1>1, <1>2

\* The command keeps in step with a journal that stays where it is.
LEMMA PathStays ==
  ASSUME WInv, Kept(rs', rs), rs'.lastEnter = rs.lastEnter, rs'.lastTarget = rs.lastTarget,
         rs'.left = rs.left, rs'.inFlight = rs.inFlight,
         \/ cmd'.pc = "idle"
         \/ /\ cmd'.pc \in {"judge", "again", "failed"}
            /\ cmd.pc \in {"body", "judge", "again", "failed"} /\ cmd'.at.step = cmd.at.step
         \/ /\ cmd'.pc = "route" /\ cmd'.gate
            /\ cmd.pc \in {"body", "judge", "again", "failed"} /\ cmd'.at.step = cmd.at.step
            /\ cmd'.outcome \in Producible(cmd.at.step)
  PROVE  [W!WalkNext]_W!walkVars /\ PathInv'
<1>1. [W!WalkNext]_W!walkVars /\ Cursor(rs').step = Cursor(rs).step
  BY KeptUnseen
<1>2. PathInv'
  BY <1>1, WalkParts DEF WInv, PathInv, Kept
<1> QED
  BY <1>1, <1>2

\* The command has entered c, within the step's visit.
LEMMA PathEntered ==
  ASSUME NEW c \in Cursors, rs'.lastEnter = c, rs'.left = FALSE, rs'.inFlight = TRUE, ~rs'.ended,
         cmd'.pc = "body", cmd'.at = c
  PROVE  Cursor(rs').step = c.step /\ PathInv'
<1>1. Cursor(rs').step = c.step
  BY CursorPlace DEF RunBlocked
<1> QED
  BY <1>1 DEF PathInv

\* A RESUME is not seen unless it is an intervention.
LEMMA ResumeWalks == WInv /\ Resume => [W!WalkNext]_W!walkVars /\ PathInv'
<1> SUFFICES ASSUME WInv, Resume PROVE [W!WalkNext]_W!walkVars /\ PathInv'
  OBVIOUS
<1> DEFINE intervention == RunBlocked(rs)
           c == [Cursor(rs) EXCEPT !.attempt = IF intervention THEN 1 ELSE @,
                                   !.hard = IF intervention THEN 0 ELSE @]
           q == AfterResume(rs, c, intervention)
<1>1. /\ rs \in Runs /\ Cursor(rs) \in Cursors /\ intervention \in BOOLEAN
      /\ rs.inFlight \in BOOLEAN /\ rs.ended \in BOOLEAN
  BY WalkParts DEF RunBlocked
<1>2. /\ c \in Cursors /\ c.step = Cursor(rs).step
      /\ intervention => c.hard = 0
      /\ ~intervention => c = Cursor(rs)
  BY <1>1 DEF Cursors
<1>3. /\ rs.started /\ ~RunTerminal(rs) /\ rs' = q
      /\ cmd' = Idle \/ (cmd' = AtPC("enter", c) /\ c.step \in Steps)
  <2> HIDE DEF c
  <2> QED
    BY DEF Resume, c
<1> HIDE DEF c
<1>4. /\ q.started = rs.started /\ q.visits = rs.visits /\ q.left = FALSE /\ q.lastEnter = c
      /\ intervention => ~q.inFlight
      /\ ~intervention => q.inFlight = rs.inFlight
      /\ rs.endStatus = "blocked" => ~q.ended
      /\ rs.endStatus # "blocked" => q.ended = rs.ended
  BY ONLY <1>1, <1>2, AfterResumeFields, Zenon
<1>5. intervention \/ ~rs.inFlight => q.resumedInFlight = NoStep
  BY ONLY <1>1, <1>2, ResumeMarks, Zenon
<1> HIDE DEF q
<1>6. /\ intervention => rs.ended /\ rs.endStatus = "blocked"
      /\ ~intervention => ~rs.ended
      /\ ~q.ended
  BY <1>3, <1>4 DEF RunTerminal, RunBlocked
<1>7. Cursor(rs').step = Cursor(rs).step
  BY <1>2, <1>3, <1>4, <1>6, CursorPlace DEF RunBlocked
<1>8. [W!WalkNext]_W!walkVars
  <2>1. CASE intervention
    BY <1>3, <1>4, <1>6, <1>7, <2>1, Intervenes
  <2>2. CASE ~intervention
    BY <1>1, <1>3, <1>4, <1>6, <1>7, <2>2, LiveUnseen
  <2> QED
    BY <2>1, <2>2
<1>9. cmd'.pc = "idle" \/ (cmd'.pc = "enter" /\ cmd'.at = c /\ c.step \in Steps)
  BY <1>2, <1>3, PCs
<1>10. c.hard > 0 => q.inFlight
  <2> SUFFICES ASSUME c.hard > 0 PROVE q.inFlight
    OBVIOUS
  <2>1. ~intervention /\ c = Cursor(rs) /\ ~rs.ended
    BY <1>2, <1>6
  <2>2. rs.left => Cursor(rs).hard = 0
    BY <2>1 DEF Cursor
  <2>3. ~rs.left
    BY <2>1, <2>2
  <2>4. Cursor(rs) = rs.lastEnter
    BY <2>1, <2>3 DEF Cursor, RunBlocked
  <2> QED
    BY <1>4, <2>1, <2>3, <2>4 DEF WInv, PathInv
<1>11. q.resumedInFlight = c.step /\ c.step \in Steps => q.inFlight
  BY <1>1, <1>4, <1>5, WorkflowAssumption
<1> QED
  BY <1>2, <1>3, <1>4, <1>6, <1>7, <1>8, <1>9, <1>10, <1>11 DEF PathInv

\* An entry is a visit, unless it is the one that a crash interrupted.
LEMMA EnterWalks ==
  ASSUME Machines PROVE WInv /\ EnterStep => [W!WalkNext]_W!walkVars /\ PathInv'
<1> SUFFICES ASSUME WInv, EnterStep PROVE [W!WalkNext]_W!walkVars /\ PathInv'
  OBVIOUS
<1>1. /\ rs \in Runs /\ cmd.at \in Cursors /\ cmd.pc = "enter" /\ cmd.at.step \in Steps
      /\ rs.started /\ ~rs.ended /\ rs.inFlight \in BOOLEAN /\ rs.visits \in [Steps -> Nat]
  <2>1. cmd.pc = "enter"
    BY DEF EnterStep
  <2> QED
    BY <2>1, WalkParts
<1>2. PICK c \in BeginAttempt(rs, cmd.at) :
        /\ rs' = AfterStepEnter(rs, c, FALSE)
        /\ cmd' = AfterEntry(c, rs'.attemptLastError)
  BY DEF EnterStep
<1>3. c \in Cursors /\ c.step = cmd.at.step /\ c.step \in Steps /\ c.hard = cmd.at.hard
      /\ c.hard \in Nat
  BY <1>1, BeginAttemptType DEF Cursors
<1> DEFINE q == AfterStepEnter(rs, c, FALSE)
           uncounted == rs.resumedInFlight = c.step \/ c.hard > 0
<1>4. q \in Runs /\ q.lastEnter = c /\ q.left = FALSE /\ q.ended = rs.ended
  BY ONLY <1>1, <1>3, EntryMoves, Zenon
<1>5. /\ q.started = rs.started /\ q.inFlight = TRUE
      /\ q.visits = IF uncounted THEN rs.visits ELSE [rs.visits EXCEPT ![c.step] = @ + 1]
  <2>1. /\ q.started = rs.started /\ q.inFlight = TRUE
        /\ q.visits = IF rs.resumedInFlight = c.step \/ FALSE \/ c.hard > 0
                      THEN rs.visits ELSE [rs.visits EXCEPT ![c.step] = @ + 1]
    BY ONLY <1>1, <1>3, AfterStepEnterFields, Zenon
  <2> QED
    BY <2>1
<1> HIDE DEF q
<1>6. rs' = q
  BY <1>2 DEF q
<1>7. cmd'.pc = "body" /\ cmd'.at = c
  <2>1. rs'.attemptLastError \in Errors
    BY <1>4, <1>6 DEF Runs, Errors
  <2>2. Kind[c.step] = "deterministic"
    BY <1>3 DEF Machines
  <2>3. AfterEntry(c, rs'.attemptLastError) = [AtPC("body", c) EXCEPT !.seen = rs'.attemptLastError]
    BY <2>2 DEF AfterEntry
  <2>4. AtPC("body", c) \in Commands /\ AtPC("body", c).at = c /\ AtPC("body", c).pc = "body"
    BY <1>3, CommandType
  <2> HIDE DEF uncounted
  <2> QED
    BY <1>2, <2>3, <2>4 DEF Commands
<1>8. Cursor(rs').step = c.step /\ PathInv'
  BY <1>1, <1>3, <1>4, <1>5, <1>6, <1>7, PathEntered
<1>9. \/ Cursor(rs).step = c.step
      \/ Cursor(rs).step = NoStep /\ c.step = StartStep /\ ~rs.inFlight
  BY <1>1, <1>3 DEF WInv, PathInv
<1>10. CASE uncounted
  <2>1. rs.inFlight
    BY <1>1, <1>3, <1>10 DEF WInv, PathInv
  <2>2. rs'.inFlight = rs.inFlight /\ rs'.visits = rs.visits
    BY <1>1, <1>5, <1>6, <1>10, <2>1
  <2>3. Cursor(rs').step = Cursor(rs).step /\ rs'.started /\ ~rs'.ended
    BY <1>1, <1>4, <1>5, <1>6, <1>8, <1>9, <2>1
  <2> QED
    BY <1>1, <1>8, <2>2, <2>3, LiveUnseen
<1>11. CASE ~uncounted
  <2>1. ~rs.inFlight
    BY <1>1, <1>3, <1>11 DEF WInv, IInv, EntryInv
  <2>2. ~W!AtCap(c.step)
    <3>1. ~Capped(rs, c.step) /\ rs.resumedInFlight # c.step
      BY <1>3, <1>11 DEF EnterStep
    <3> QED
      BY <3>1, SameSum DEF Capped, W!AtCap
  <2> QED
    BY <1>1, <1>3, <1>4, <1>5, <1>6, <1>8, <1>9, <1>11, <2>1, <2>2, Visits
<1> QED
  BY <1>10, <1>11

\* Another try of the body, or of the attempt, is not seen.
LEMMA RetryWalks ==
  ASSUME WInv, cmd.pc \in {"again", "failed"}, NEW c \in Cursors, c.step = cmd.at.step,
         NEW retry \in BOOLEAN, retry \/ c.hard > 0, rs' = AfterStepEnter(rs, c, retry),
         cmd'.pc = "body", cmd'.at = c
  PROVE  [W!WalkNext]_W!walkVars /\ PathInv'
<1>1. /\ rs \in Runs /\ c.step \in Steps /\ rs.started /\ ~rs.ended
      /\ rs.inFlight /\ rs.inFlight \in BOOLEAN /\ Cursor(rs).step = c.step
  BY WalkParts DEF WInv, PathInv
<1> DEFINE q == AfterStepEnter(rs, c, retry)
           uncounted == rs.resumedInFlight = c.step \/ retry \/ c.hard > 0
<1>2. q \in Runs /\ q.lastEnter = c /\ q.left = FALSE /\ q.ended = rs.ended
  BY ONLY <1>1, EntryMoves, c \in Cursors, retry \in BOOLEAN, Zenon
<1>3. /\ q.started = rs.started /\ q.inFlight = TRUE
      /\ q.visits = IF uncounted THEN rs.visits ELSE [rs.visits EXCEPT ![c.step] = @ + 1]
  BY ONLY <1>1, AfterStepEnterFields, c \in Cursors, retry \in BOOLEAN, Zenon
<1> HIDE DEF q
<1>4. rs' = q
  BY DEF q
<1>5. Cursor(rs').step = c.step /\ PathInv'
  BY <1>1, <1>2, <1>3, <1>4, PathEntered
<1> QED
  BY <1>1, <1>2, <1>3, <1>4, <1>5, LiveUnseen

\* A transition leaves a step that was visited, or passes over one at its cap.
LEMMA TransitionWalks == WInv /\ Transition => [W!WalkNext]_W!walkVars /\ PathInv'
<1> SUFFICES ASSUME WInv, Transition PROVE [W!WalkNext]_W!walkVars /\ PathInv'
  OBVIOUS
<1> DEFINE s == cmd.at.step
           target == ResolveTarget(s, cmd.outcome)
           via == ViaCatch(s, cmd.outcome)
           q == AfterTransition(rs, s, target, via)
<1>1. /\ rs \in Runs /\ cmd \in Commands /\ cmd.at \in Cursors /\ s \in Steps /\ cmd.pc = "route"
      /\ rs.started /\ ~rs.ended /\ cmd.outcome \in Producible(s) /\ cmd.gate \in BOOLEAN
  <2>1. cmd.pc = "route"
    BY DEF Transition
  <2> QED
    BY <2>1, WalkParts DEF WInv, PathInv, Commands
<1>2. target \in Places /\ via \in BOOLEAN
  BY <1>1, TargetType DEF ViaCatch
<1>3. target \in Steps \cup Ends /\ target \in W!Targets(s)
  BY <1>1, <1>2, Edges, RoutesAssumption DEF Places
<1>4. /\ rs' = q
      /\ target \in Steps => cmd' = AtPC("enter", Fresh(target))
      /\ target \notin Steps => cmd' = [AtPC("end", cmd.at) EXCEPT !.outcome = target]
  BY DEF Transition
<1>5. \/ rs.inFlight /\ Cursor(rs).step = s
      \/ /\ ~rs.inFlight /\ cmd.outcome = "exhausted" /\ W!AtCap(s)
         /\ Cursor(rs).step = s \/ (Cursor(rs).step = NoStep /\ s = StartStep)
  BY <1>1 DEF WInv, PathInv, IInv, EntryInv
<1>6. cmd.outcome = "exhausted" => target = ResolveTarget(s, "exhausted")
  OBVIOUS
<1> HIDE DEF s, target, via
<1>7. /\ Kept(q, rs) /\ q.left = TRUE /\ q.inFlight = FALSE
      /\ q.resumedInFlight = NoStep /\ q.lastTarget = target
  BY ONLY <1>1, <1>2, AfterTransitionFields, Zenon
<1> HIDE DEF q
<1>8. Cursor(rs').step = target /\ ~rs'.ended /\ rs'.started /\ rs'.visits = rs.visits
  BY <1>1, <1>4, <1>7, CursorPlace DEF Kept, RunBlocked
<1>9. W!WalkNext
  <2>1. CASE rs.inFlight /\ Cursor(rs).step = s
    BY <1>1, <1>3, <1>4, <1>7, <1>8, <2>1, Leaves
  <2>2. CASE /\ ~rs.inFlight /\ cmd.outcome = "exhausted" /\ W!AtCap(s)
             /\ Cursor(rs).step = s \/ (Cursor(rs).step = NoStep /\ s = StartStep)
    BY <1>1, <1>4, <1>6, <1>7, <1>8, <2>2, PassesOver
  <2> QED
    BY <1>5, <2>1, <2>2
<1>10. PathInv'
  <2>1. CASE target \in Steps
    <3>1. Fresh(target) \in Cursors /\ Fresh(target).step = target /\ Fresh(target).hard = 0
      BY <2>1 DEF Fresh, Cursors, Places, Keys
    <3>2. cmd'.pc = "enter" /\ cmd'.at.step = target /\ cmd'.at.hard = 0
      BY <1>4, <2>1, <3>1, PCs
    <3>3. rs'.resumedInFlight # target
      BY <1>4, <1>7, <2>1, WorkflowAssumption
    <3> QED
      BY <1>4, <1>7, <1>8, <3>2, <3>3 DEF PathInv
  <2>2. CASE target \notin Steps
    <3>1. AtPC("end", cmd.at) \in Commands /\ AtPC("end", cmd.at).pc = "end"
          /\ AtPC("end", cmd.at).at = cmd.at
      BY <1>1, CommandType
    <3>2. cmd'.pc = "end" /\ cmd'.at = cmd.at /\ cmd'.outcome = target
      BY <1>4, <2>2, <3>1 DEF Commands
    <3>3. cmd'.at.step = s
      BY <3>2 DEF s
    <3> QED
      BY <1>3, <1>4, <1>7, <1>8, <2>2, <3>2, <3>3 DEF PathInv
  <2> QED
    BY <2>1, <2>2
<1> QED
  BY <1>9, <1>10

\* What ends a run finishes the walk, or blocks it.
LEMMA EndWalks ==
  WInv /\ (End \/ InvariantBlocks) => [W!WalkNext]_W!walkVars /\ PathInv'
<1> SUFFICES ASSUME WInv, End \/ InvariantBlocks PROVE [W!WalkNext]_W!walkVars /\ PathInv'
  OBVIOUS
<1> DEFINE s == cmd.at.step
           status == IF cmd.pc = "end" THEN EndStatus(cmd.outcome) ELSE "blocked"
           q == AfterRunEnd(rs, s, status)
<1>1. /\ rs \in Runs /\ s \in Steps /\ s \in Places /\ rs.started /\ ~rs.ended
      /\ rs' = q /\ cmd' = Idle
      /\ cmd.pc = "end" \/ (cmd.pc = "route" /\ cmd.gate /\ status = "blocked")
  BY WalkParts DEF End, InvariantBlocks, Places
<1>2. status \in {"ok", "blocked", "abandoned"}
  BY <1>1, TargetType
<1>3. status = "blocked" => q.blockedStep = s
  BY <1>1, RunEndBlocks
<1> HIDE DEF s
<1>4. cmd.pc = "end" => status = EndStatus(cmd.outcome)
  OBVIOUS
<1> HIDE DEF status
<1>5. /\ q.started = rs.started /\ q.visits = rs.visits /\ q.left = rs.left
      /\ q.inFlight = rs.inFlight /\ q.ended = TRUE /\ q.endStatus = status
  BY ONLY <1>1, <1>2, AfterRunEndFields, Zenon
<1>6. q.lastEnter = rs.lastEnter
  BY ONLY <1>1, RunEndFreezes, Zenon DEF Frozen
<1> HIDE DEF q
<1>7. status = "blocked" => Cursor(rs').step = s
  BY <1>1, <1>3, <1>5, CursorPlace, WorkflowAssumption DEF RunBlocked
<1>8. PathInv'
  BY <1>1, <1>5, <1>6, PCs DEF WInv, PathInv
<1>9. CASE cmd.pc = "end"
  <2>1. /\ ~rs.inFlight /\ cmd.outcome \in Ends /\ Cursor(rs).step = cmd.outcome
        /\ cmd.outcome \in W!Targets(s)
    BY <1>9 DEF WInv, PathInv, s
  <2> QED
    BY <1>1, <1>4, <1>5, <1>7, <1>8, <1>9, <2>1, Finishes
<1>10. CASE cmd.pc = "route" /\ cmd.gate /\ status = "blocked"
  <2>1. rs.inFlight /\ Cursor(rs).step = s
    BY <1>10 DEF WInv, PathInv, s
  <2> QED
    BY <1>1, <1>5, <1>7, <1>8, <1>10, <2>1, Blocks
<1> QED
  BY <1>1, <1>9, <1>10

\* Every step of a run of programs is a step of the walk, or is not seen.
LEMMA WalkStep ==
  ASSUME Machines PROVE WInv /\ [Next]_runVars => [W!WalkNext]_W!walkVars /\ PathInv'
<1> SUFFICES ASSUME WInv, [Next]_runVars PROVE [W!WalkNext]_W!walkVars /\ PathInv'
  OBVIOUS
<1>0. /\ rs \in Runs /\ cmd \in Commands /\ hist \in Hists /\ cmd.at \in Cursors
      /\ cmd.retry \in BOOLEAN
      /\ cmd.pc # "idle" => cmd.at.step \in Steps /\ rs.started /\ ~rs.ended
  BY WalkParts
<1>k. Kept(rs, rs)
  BY DEF Kept
<1>r. ASSUME NEW outcome, NEW gate, cmd' = Resolved(cmd.at, outcome, gate)
      PROVE  cmd'.pc = "route" /\ cmd'.gate = gate /\ cmd'.outcome = outcome /\ cmd'.at = cmd.at
  BY <1>r DEF Resolved, AtPC, Idle
<1>w. \A s : {"failure", "exhausted"} \cup Emits[s] \subseteq Producible(s)
  BY DEF Producible
<1>e. Diagnostic \in Errors /\ NoText \in Errors /\ Texts \subseteq Errors
  BY DEF Errors
<1>p. ASSUME NEW s \in Steps, NEW ok \in BOOLEAN, NEW text \in Errors,
             rs' = AfterPostcondition(rs, s, ok, text),
             cmd.pc \in {"body", "judge", "again", "failed"}, cmd'.at.step = cmd.at.step,
             \/ cmd'.pc \in {"judge", "again", "failed"}
             \/ cmd'.pc = "route" /\ cmd'.gate /\ cmd'.outcome \in Producible(cmd.at.step)
      PROVE  [W!WalkNext]_W!walkVars /\ PathInv'
  <2> DEFINE q == AfterPostcondition(rs, s, ok, text)
  <2>1. rs \in Runs
    BY <1>0
  <2>2. /\ Kept(q, rs) /\ q.lastEnter = rs.lastEnter /\ q.left = rs.left
        /\ q.inFlight = rs.inFlight /\ q.lastTarget = rs.lastTarget
    BY ONLY <2>1, AfterPostconditionFields, Zenon
  <2> HIDE DEF q
  <2>3. rs' = q
    BY <1>p DEF q
  <2> QED
    BY <1>p, <2>2, <2>3, PathStays
<1>1. CASE Start
  <2>1. /\ rs = NewRun /\ rs' = [NewRun EXCEPT !.started = TRUE]
        /\ cmd' = AtPC("enter", Fresh(StartStep))
    BY <1>1 DEF Start, AfterRunStart, WInv, IInv, FinalInv
  <2>2. /\ ~rs'.inFlight /\ ~rs'.left /\ ~rs'.ended /\ rs'.started /\ ~rs.started
        /\ rs'.lastEnter = NoCursor /\ rs'.resumedInFlight = NoStep /\ rs'.visits = rs.visits
        /\ ~rs.inFlight /\ ~rs.left /\ ~rs.ended /\ rs.lastEnter = NoCursor
    BY <2>1 DEF NewRun
  <2>3. NoCursor.step = NoStep /\ NoCursor.hard = 0
    BY DEF NoCursor
  <2>4. Cursor(rs).step = NoStep /\ Cursor(rs').step = NoStep
    BY <2>2, <2>3, CursorPlace DEF RunBlocked
  <2>5. Fresh(StartStep) \in Cursors /\ Fresh(StartStep).step = StartStep /\ Fresh(StartStep).hard = 0
    BY WorkflowAssumption DEF Fresh, Cursors, Places, Keys
  <2>6. cmd'.pc = "enter" /\ cmd'.at.step = StartStep /\ cmd'.at.hard = 0
    BY <2>1, <2>5, PCs
  <2>7. PathInv'
    BY <2>2, <2>3, <2>4, <2>6, WorkflowAssumption DEF PathInv
  <2>8. /\ Status(rs) = "new" /\ Place(rs) = NoStep /\ Inside(rs) = FALSE
        /\ Status(rs') = "live" /\ Place(rs') = NoStep /\ Inside(rs') = FALSE
    BY <2>2, <2>4 DEF Status, Place, Inside, RunTerminal, RunBlocked
  <2>9. W!Begin
    BY <2>2, <2>8 DEF W!Begin, Status, Place, Inside
  <2> QED
    BY <2>7, <2>9 DEF W!WalkNext
<1>2. CASE EnterCapped
  <2>1. /\ cmd.pc = "enter" /\ rs' = rs /\ cmd' = Resolved(cmd.at, "exhausted", FALSE)
        /\ Capped(rs, cmd.at.step)
    BY <1>2 DEF EnterCapped
  <2>2. cmd'.pc = "route" /\ ~cmd'.gate /\ cmd'.outcome = "exhausted" /\ cmd'.at = cmd.at
    BY <1>r, <2>1
  <2>3. W!AtCap(cmd.at.step)'
    BY <2>1, <2>2, SameSum DEF Capped, W!AtCap
  <2>4. "exhausted" \in Producible(cmd.at.step)
    BY <1>w
  <2>5. PathInv'
    BY <1>0, <2>1, <2>2, <2>3, <2>4 DEF WInv, PathInv
  <2>6. [W!WalkNext]_W!walkVars
    BY <1>k, <2>1, KeptUnseen
  <2> QED
    BY <2>5, <2>6
<1>3. CASE HardRetry
  <2> DEFINE c == [cmd.at EXCEPT !.hard = @ + 1]
  <2>1. /\ cmd.pc = "again" /\ rs' = AfterStepEnter(rs, c, cmd.retry)
        /\ cmd' = [cmd EXCEPT !.pc = "body", !.at = c]
    BY <1>3 DEF HardRetry
  <2>2. c \in Cursors /\ c.step = cmd.at.step /\ c.hard > 0
    BY <1>0 DEF Cursors
  <2> HIDE DEF c
  <2>3. cmd'.pc = "body" /\ cmd'.at = c
    BY <1>0, <2>1 DEF Commands
  <2> QED
    BY <1>0, <2>1, <2>2, <2>3, RetryWalks
<1>4. CASE Reenter
  <2> DEFINE c == [cmd.at EXCEPT !.attempt = NextTry(rs, cmd.at)]
             b == AtPC("body", c)
             e == [b EXCEPT !.seen = rs'.attemptLastError]
  <2>1. cmd.pc = "failed" /\ cmd.at.step \in Steps
    BY <1>0, <1>4 DEF Reenter
  <2>2. c \in Cursors /\ c.step = cmd.at.step
    <3>1. NextTry(rs, cmd.at) \in Nat
      BY <1>0, <2>1, NextTryType
    <3> QED
      BY <1>0, <3>1 DEF Cursors
  <2>3. rs' = AfterStepEnter(rs, c, TRUE) /\ cmd' = [e EXCEPT !.retry = TRUE]
    BY <1>4, <2>1, <2>2 DEF Reenter, AfterEntry, Machines
  <2>4. b \in Commands /\ b.pc = "body" /\ b.at = c
    BY <2>2, CommandType
  <2> HIDE DEF c, b
  <2>5. cmd'.pc = "body" /\ cmd'.at = c
    BY <2>3, <2>4 DEF Commands
  <2> QED
    BY <2>1, <2>2, <2>3, <2>5, RetryWalks
<1>5. CASE FailsCapped \/ FailsFinally
  <2>1. cmd.pc = "failed" /\ rs' = rs
    BY <1>5 DEF FailsCapped, FailsFinally
  <2>2. cmd'.pc = "route" /\ cmd'.gate /\ cmd'.at = cmd.at
        /\ cmd'.outcome \in Producible(cmd.at.step)
    BY <1>5, <1>r, <1>w DEF FailsCapped, FailsFinally
  <2> QED
    BY <1>k, <2>1, <2>2, PathStays
<1>6. CASE Crash \/ Dispatch
  BY <1>6, <1>k, PCs, PathStays DEF Crash, Dispatch
<1>7. CASE AbandonLooks \/ UNCHANGED runVars
  <2>1. rs' = rs /\ cmd' = cmd
    BY <1>7 DEF AbandonLooks, runVars
  <2>2. PathInv'
    BY <2>1 DEF WInv, PathInv, W!AtCap
  <2> QED
    BY <1>k, <2>1, <2>2, KeptUnseen
<1>8. CASE AbandonEnds
  <2> DEFINE q == AfterRunEnd(rs, NoStep, "abandoned")
  <2>1. /\ rs \in Runs /\ NoStep \in Places /\ rs.started /\ rs.ended \in BOOLEAN
        /\ rs' = q /\ cmd' = Idle
    BY <1>0, <1>8, WalkParts DEF AbandonEnds, Places, WInv, IInv, FinalInv
  <2>2. /\ q.visits = rs.visits /\ q.left = rs.left /\ q.inFlight = rs.inFlight
        /\ q.ended = TRUE /\ q.endStatus = "abandoned"
    BY ONLY <2>1, AfterRunEndFields, Zenon
  <2>3. q.lastEnter = rs.lastEnter
    BY ONLY <2>1, RunEndFreezes, Zenon DEF Frozen
  <2> HIDE DEF q
  <2>4. PathInv'
    BY <2>1, <2>2, <2>3, PCs DEF WInv, PathInv
  <2> QED
    BY <2>1, <2>2, <2>4, Abandons
<1>9. CASE RunBody
  <2>1. cmd' = [cmd EXCEPT !.pc = "judge"] /\ rs' = rs /\ cmd.pc = "body"
    BY <1>9 DEF RunBody
  <2>2. cmd'.pc = "judge" /\ cmd'.at = cmd.at
    BY <1>0, <2>1 DEF Commands
  <2> QED
    BY <1>k, <2>1, <2>2, PathStays
<1>10. CASE HardFails
  <2>1. cmd.pc = "judge" /\ cmd.at.step \in Steps
    BY <1>0, <1>10 DEF HardFails, Judging
  <2>2. CASE cmd' = [cmd EXCEPT !.pc = "again"]
    <3>1. cmd'.pc = "again" /\ cmd'.at = cmd.at
      BY <1>0, <2>2 DEF Commands
    <3> QED
      BY <1>10, <1>p, <1>e, <2>1, <3>1 DEF HardFails
  <2>3. CASE cmd' = Resolved(cmd.at, "failure", TRUE)
    <3>1. cmd'.pc = "route" /\ cmd'.gate /\ cmd'.at = cmd.at
          /\ cmd'.outcome \in Producible(cmd.at.step)
      BY <1>r, <1>w, <2>3
    <3> QED
      BY <1>10, <1>p, <1>e, <2>1, <3>1 DEF HardFails
  <2> QED
    BY <1>10, <2>2, <2>3 DEF HardFails
<1>11. CASE PrintsFailure
  <2>1. /\ cmd.pc = "judge" /\ cmd.at.step \in Steps
        /\ rs' = AfterPostcondition(rs, cmd.at.step, FALSE, Diagnostic)
        /\ cmd' = Resolved(cmd.at, "failure", TRUE)
    BY <1>0, <1>11 DEF PrintsFailure, Judging
  <2>2. cmd'.pc = "route" /\ cmd'.gate /\ cmd'.at = cmd.at
        /\ cmd'.outcome \in Producible(cmd.at.step)
    BY <1>r, <1>w, <2>1
  <2> QED
    BY <1>p, <1>e, <2>1, <2>2
<1>12. CASE Passes
  <2>1. cmd.pc = "judge" /\ cmd.at.step \in Steps
    BY <1>0, <1>12 DEF Passes, Judging
  <2>2. cmd'.pc = "route" /\ cmd'.gate /\ cmd'.at = cmd.at
        /\ cmd'.outcome \in Producible(cmd.at.step)
    BY <1>12, <1>r, <1>w DEF Passes
  <2>3. CASE rs' = AfterPostcondition(rs, cmd.at.step, TRUE, NoText)
    BY <1>p, <1>e, <2>1, <2>2, <2>3
  <2>4. CASE rs' = rs
    BY <1>k, <2>1, <2>2, <2>4, PathStays
  <2> QED
    BY <1>12, <2>3, <2>4 DEF Passes
<1>13. CASE Fails
  <2>1. cmd.pc = "judge" /\ cmd.at.step \in Steps
    BY <1>0, <1>13 DEF Fails, Judging
  <2>2. PICK text \in Texts :
          /\ rs' = AfterPostcondition(rs, cmd.at.step, FALSE, text)
          /\ cmd' = [cmd EXCEPT !.pc = "failed", !.at.hard = 0,
                     !.at.key = IF Template[cmd.at.step] = {} THEN text ELSE @]
    BY <1>13 DEF Fails
  <2>3. cmd'.pc = "failed" /\ cmd'.at.step = cmd.at.step
    BY <1>0, <2>2 DEF Commands, Cursors
  <2> QED
    BY <1>p, <1>e, <2>1, <2>2, <2>3
\* No step is dispatched, and none is submitted.
<1>14. ~ContextUnavailable /\ ~Submit
  BY DEF ContextUnavailable, WInv, PathInv, Submit, Machines
<1> QED
  BY <1>1, <1>2, <1>3, <1>4, <1>5, <1>6, <1>7, <1>8, <1>9, <1>10, <1>11, <1>12, <1>13, <1>14,
     ResumeWalks, EnterWalks, TransitionWalks, EndWalks
     DEF Next, RunStep, LoopStep, BodyStep, Over

\* The journal of a workflow of deterministic steps records a walk over its
\* edges, whatever crashes, resumes, interventions and retries there are.
THEOREM Walks == ASSUME Machines PROVE Spec => IsWalk
<1>1. Init => W!WalkInit /\ PathInv
  <2> SUFFICES ASSUME Init PROVE W!WalkInit /\ PathInv
    OBVIOUS
  <2>1. /\ ~NewRun.inFlight /\ ~NewRun.left /\ ~NewRun.ended /\ ~NewRun.started
        /\ NewRun.lastEnter = NoCursor /\ NewRun.visits = [s \in Steps |-> 0]
    BY DEF NewRun
  <2>2. NoCursor.step = NoStep /\ NoCursor.hard = 0
    BY DEF NoCursor
  <2>3. rs = NewRun /\ cmd.pc = "idle"
    BY PCs DEF Init, RunInit
  <2>4. Cursor(rs).step = NoStep
    BY <2>1, <2>2, <2>3, CursorPlace DEF RunBlocked
  <2>5. PathInv
    BY <2>1, <2>2, <2>3 DEF PathInv
  <2>6. Status(rs) = "new" /\ Place(rs) = NoStep /\ Inside(rs) = FALSE
    BY <2>1, <2>3, <2>4 DEF Status, Place, Inside, RunTerminal, RunBlocked
  <2>7. W!WalkInit
    BY <2>1, <2>3, <2>6, SameWorkflow DEF W!WalkInit, Status, Place, Inside
  <2> QED
    BY <2>5, <2>7
<1>2. IInv /\ PathInv /\ [Next]_runVars => [W!WalkNext]_W!walkVars /\ PathInv'
  BY WalkStep DEF WInv
<1> QED
  BY <1>1, <1>2, Invariance, PTL DEF Spec, IsWalk, W!WalkSpec

=============================================================================
