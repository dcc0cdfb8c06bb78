---------------------------- MODULE Parked_proofs ----------------------------
(***************************************************************************)
(* What holds of waits and questions for every workflow, every number of    *)
(* pollers and every number of crashes: the types, the deadline of a visit, *)
(* and the answer that was written in time.                                 *)
(***************************************************************************)
EXTENDS Parked, Engine_proofs

\* The parts of the inductive invariant that are about parked steps.  A command
\* does not enter a wait that is in flight (a crash resume leaves it parked); it
\* asks a question only where none is open; on its way to the target of a
\* timeout it is not at a step with a written answer; and only human steps have
\* answers.
StayInv ==
  /\ cmd.pc = "enter" /\ rs.inFlight => Kind[cmd.at.step] # "wait"
  /\ cmd.pc = "ask" => cmd.at.step \notin rs.asked
  /\ cmd.pc = "route" /\ cmd.outcome = "timeout" /\ "timeout" \notin Emits[cmd.at.step]
       => cmd.at.step \notin rs.answered
  /\ \A s \in rs.answered : Kind[s] = "human"

Polled == polls \in [Pollers -> Polls]

PInv == IInv /\ KindInv /\ StayInv /\ Polled

\* Neither the run, nor the command, nor the history moves.
Still == rs' = rs /\ cmd' = cmd /\ hist' = hist /\ leaving' = leaving

-----------------------------------------------------------------------------
(* The steps of Engine *)

\* No step of the engine takes a parked step out of the invariant.
LEMMA StayStep == IInv /\ KindInv /\ StayInv /\ Next => StayInv'
<1> SUFFICES ASSUME IInv, KindInv, StayInv, Next
             PROVE  StayInv'
  OBVIOUS
<1>0. /\ cmd \in Commands /\ rs \in Runs /\ cmd.at \in Cursors
      /\ cmd.pc # "idle" => cmd.at.step \in Steps
  BY Known
<1>i. ASSUME cmd' = Idle, rs'.answered = rs.answered
      PROVE  StayInv'
  BY <1>i DEF StayInv, Idle
<1>e. ASSUME cmd'.pc \in {"enter", "end"}, rs'.inFlight = FALSE, rs'.answered = rs.answered
      PROVE  StayInv'
  BY <1>e DEF StayInv
<1>q. ASSUME cmd'.pc \in {"body", "judge", "again", "failed", "dispatch"},
             rs'.answered = rs.answered
      PROVE  StayInv'
  BY <1>q DEF StayInv
<1>r. ASSUME cmd'.pc = "route", rs'.answered = rs.answered, cmd.at.step \in Steps,
             cmd'.at.step = cmd.at.step,
             cmd'.outcome \in Emits[cmd.at.step] \cup {"failure", "exhausted"}
      PROVE  StayInv'
  BY <1>r DEF StayInv
<1>b. ASSUME NEW c \in Cursors, c.step \in Steps, EnteredAt(rs', rs, c), Begun(cmd', c)
      PROVE  StayInv'
  <2>1. /\ cmd'.pc \in {"body", "dispatch", "ask", "fan", "idle"}
        /\ cmd'.pc # "idle" => cmd'.at = c
    BY <1>b, BegunKind
  <2>2. rs'.answered = rs.answered /\ c.step \notin rs'.asked
    BY <1>b DEF EnteredAt
  <2> QED
    BY <2>1, <2>2 DEF StayInv
<1>1. CASE Start
  <2>1. cmd'.pc = "enter" /\ Same(rs', rs) /\ rs = NewRun
    BY <1>1, StartFacts
  <2>2. rs'.inFlight = FALSE /\ rs'.answered = rs.answered
    BY <2>1, NewRunFields DEF Same
  <2> QED
    BY <1>e, <2>1, <2>2
<1>2. CASE Resume
  <2>1. PICK c \in Cursors :
          /\ ResumedAt(rs', rs, c)
          /\ \/ cmd' = Idle
             \/ /\ c.step \in Steps /\ cmd'.pc = "enter" /\ cmd'.at = c
                /\ rs'.inFlight => Kind[c.step] # "wait"
    BY <1>2, ResumeFacts
  <2>2. rs'.answered = rs.answered
    BY <2>1 DEF ResumedAt
  <2>3. CASE cmd' = Idle
    BY <1>i, <2>2, <2>3
  <2>4. CASE cmd'.pc = "enter" /\ cmd'.at = c /\ (rs'.inFlight => Kind[c.step] # "wait")
    BY <2>2, <2>4 DEF StayInv
  <2> QED
    BY <2>1, <2>3, <2>4
<1>3. CASE EnterStep
  BY <1>3, <1>b, EnterStepFacts
<1>4. CASE EnterCapped \/ FailsCapped \/ FailsFinally
  <2>1. /\ rs' = rs /\ cmd.pc # "idle"
        /\ \E outcome \in {"failure", "exhausted"}, gate \in BOOLEAN :
             cmd' = Resolved(cmd.at, outcome, gate)
    BY <1>4 DEF EnterCapped, FailsCapped, FailsFinally
  <2>2. cmd'.pc = "route" /\ cmd'.at = cmd.at /\ cmd'.outcome \in {"failure", "exhausted"}
    BY <2>1 DEF Resolved, AtPC, Idle
  <2> QED
    BY <1>0, <1>r, <2>1, <2>2
<1>5. CASE Transition
  BY <1>5, <1>e, TransitionFacts
<1>6. CASE InvariantBlocks \/ End \/ AbandonEnds
  BY <1>6, <1>i, EndedFacts
<1>7. CASE Crash \/ Dispatch
  BY <1>7, <1>i DEF Crash, Dispatch
<1>8. CASE AbandonLooks \/ Over
  BY <1>8 DEF AbandonLooks, Over, runVars, StayInv
<1>9. CASE HardRetry
  <2>1. PICK c \in Cursors : EnteredAt(rs', rs, c) /\ cmd'.pc = "body"
    BY <1>9, ReentryFacts
  <2> QED
    BY <1>q, <2>1 DEF EnteredAt
<1>10. CASE Reenter
  BY <1>10, <1>b, ReentryFacts
<1>11. CASE HardFails \/ PrintsFailure \/ ContextUnavailable \/ Passes \/ Fails
  <2>1. /\ cmd.pc \in {"judge", "dispatch"} /\ Same(rs', rs) /\ cmd'.at.step = cmd.at.step
        /\ cmd'.pc \in {"again", "failed", "route"}
        /\ cmd'.pc = "route" => cmd'.outcome \in Emits[cmd.at.step] \cup {"failure"}
    BY <1>11, JudgedFacts
  <2>2. rs'.answered = rs.answered /\ cmd.at.step \in Steps
    BY <1>0, <2>1 DEF Same
  <2> QED
    BY <1>q, <1>r, <2>1, <2>2
<1>12. CASE RunBody \/ Submit
  <2>1. cmd'.pc = "judge" /\ rs' = rs
    BY <1>0, <1>12 DEF RunBody, Submit, AtPC, Idle, Commands
  <2> QED
    BY <1>q, <2>1
<1> QED
  BY <1>1, <1>2, <1>3, <1>4, <1>5, <1>6, <1>7, <1>8, <1>9, <1>10, <1>11, <1>12
     DEF Next, RunStep, LoopStep, BodyStep

-----------------------------------------------------------------------------
(* The steps of pollers and people *)

\* The invariant does not look at the ages, and at the world only for its type.
LEMMA StillKeeps ==
  ASSUME IInv, KindInv, StayInv, Still, Rest'
  PROVE  IInv' /\ KindInv' /\ StayInv'
<1>1. TInv'
  BY DEF IInv, TInv, TypeOK, AtStep, Still, Rest
<1>2. EntryInv' /\ VisitInv' /\ FinalInv'
  BY DEF IInv, EntryInv, VisitInv, FinalInv, Still, VisitsWithinMax, CrashConsumesNoVisit, Due
<1> QED
  BY <1>1, <1>2 DEF IInv, KindInv, StayInv, Still

\* q is r but for the errors and an answer to s.
Spoken(q, r, s) ==
  /\ q \in Runs /\ Kept(q, r) /\ q.lastEnter = r.lastEnter
  /\ q.lastTarget = r.lastTarget /\ q.left = r.left /\ q.inFlight = r.inFlight
  /\ \A x \in q.answered : x \in r.answered \/ (x = s /\ Kind[s] = "human")

\* A verdict on a parked step moves the command to the way out of it.
LEMMA VerdictKeeps ==
  ASSUME IInv, KindInv, StayInv, rs.started, ~RunTerminal(rs),
         NEW s \in Steps, NEW at \in Cursors, at.step = s,
         NEW outcome \in Words, cmd' = Resolved(at, outcome, TRUE),
         \/ rs' = rs
         \/ \E ok \in BOOLEAN, text \in Errors : rs' = AfterPostcondition(rs, s, ok, text)
         \/ Kind[s] = "human" /\ rs' = AfterWrites(rs, s),
         Rest', hist' = hist, leaving' = leaving,
         outcome = "timeout" /\ "timeout" \notin Emits[s] => s \notin rs'.answered
  PROVE  IInv' /\ KindInv' /\ StayInv'
<1>1. rs \in Runs /\ hist \in Hists
  BY Known, Parts DEF IInv
<1>2. Spoken(rs', rs, s)
  <2>1. CASE rs' = rs
    BY <1>1, <2>1 DEF Kept, Spoken
  <2>2. ASSUME NEW ok \in BOOLEAN, NEW text \in Errors,
               rs' = AfterPostcondition(rs, s, ok, text)
        PROVE  Spoken(rs', rs, s)
    <3> DEFINE q == AfterPostcondition(rs, s, ok, text)
    <3>1. /\ Kept(q, rs) /\ q.lastEnter = rs.lastEnter /\ q.left = rs.left
          /\ q.inFlight = rs.inFlight /\ q.lastTarget = rs.lastTarget
      BY ONLY <1>1, AfterPostconditionFields, Zenon
    <3>2. q.answered = rs.answered
      BY <1>1, AfterPostconditionHeard
    <3>3. q \in Runs
      BY <1>1, AfterPostconditionType
    <3> HIDE DEF q
    <3>4. rs' = q
      BY <2>2 DEF q
    <3> QED
      BY <3>1, <3>2, <3>3, <3>4 DEF Spoken
  <2>3. CASE Kind[s] = "human" /\ rs' = AfterWrites(rs, s)
    <3> DEFINE answered == rs.answered \cup {s}
               q == [rs EXCEPT !.answered = answered]
    <3>1. answered \in SUBSET Steps
      BY <1>1 DEF Runs
    <3>2. rs' = q
      BY <2>3 DEF AfterWrites
    <3> HIDE DEF answered
    <3>3. /\ q \in Runs /\ Kept(q, rs) /\ q.lastEnter = rs.lastEnter
          /\ q.lastTarget = rs.lastTarget /\ q.left = rs.left /\ q.inFlight = rs.inFlight
          /\ q.answered = answered
      BY <1>1, <3>1 DEF Runs, Kept
    <3> HIDE DEF q
    <3> QED
      BY <2>3, <3>2, <3>3 DEF answered, Spoken
  <2> QED
    BY <2>1, <2>2, <2>3
<1>3. /\ cmd'.pc = "route" /\ cmd'.at = at /\ cmd'.gate = TRUE /\ cmd'.outcome = outcome
  BY DEF Resolved, AtPC, Idle
<1>4. TInv'
  <2>1. cmd' \in Commands
    BY CommandType
  <2> QED
    BY <1>1, <1>2, <1>3, <2>1 DEF Spoken, TInv, TypeOK, AtStep, Rest, Hists, Errors
<1>5. EntryInv' /\ VisitInv' /\ FinalInv'
  BY <1>2, <1>3, Quiet DEF Spoken
<1>6. StayInv'
  BY <1>2, <1>3 DEF StayInv, Spoken
<1> QED
  BY <1>3, <1>4, <1>5, <1>6 DEF IInv, KindInv

\* The outcomes of a parked step are outcomes.
LEMMA ParkedWords ==
  /\ "failure" \in Words /\ \A s \in Steps : Emits[s] \subseteq Words
  /\ \A s \in Steps : Kind[s] \in {"wait", "human"} => "timeout" \in Words
<1>1. StartStep \in Steps
  BY WorkflowAssumption
<1>2. \A s \in Steps : Producible(s) \subseteq Words
  BY DEF Words
<1> QED
  BY <1>1, <1>2 DEF Producible

\* The outcome of a wait is judged.
LEMMA WaitJudgedKeeps == PInv /\ WaitJudged => PInv'
<1> SUFFICES ASSUME PInv, WaitJudged
             PROVE  PInv'
  OBVIOUS
<1>0. /\ IInv /\ KindInv /\ StayInv /\ Polled /\ rs.started /\ ~RunTerminal(rs)
      /\ cmd.at \in Cursors /\ cmd.at.step \in Steps /\ cmd.outcome \in Words
      /\ Kind[cmd.at.step] = "wait"
  BY Known DEF PInv, WaitJudged, Judging
<1>1. /\ Rest' /\ hist' = hist /\ leaving' = leaving /\ polls' = polls
  BY <1>0 DEF WaitJudged, untouched, Rest, IInv, TInv, TypeOK
<1>2. PICK outcome \in Words :
        /\ cmd' = Resolved(cmd.at, outcome, TRUE)
        /\ \/ rs' = rs
           \/ \E ok \in BOOLEAN, text \in Errors :
                rs' = AfterPostcondition(rs, cmd.at.step, ok, text)
  BY <1>0, ParkedWords DEF WaitJudged, Errors
<1>3. rs'.answered = rs.answered
  <2>1. rs \in Runs
    BY <1>0, Known
  <2> QED
    BY <1>0, <1>2, <2>1, AfterPostconditionHeard
<1>4. cmd.at.step \notin rs'.answered
  BY <1>0, <1>3 DEF StayInv
<1>5. IInv' /\ KindInv' /\ StayInv'
  BY <1>0, <1>1, <1>2, <1>4, VerdictKeeps
<1> QED
  BY <1>0, <1>1, <1>5 DEF PInv, Polled

\* A person answers, in time or late.
LEMMA AnswerKeeps == PInv /\ Answer => PInv'
<1> SUFFICES ASSUME PInv, Answer
             PROVE  PInv'
  OBVIOUS
<1>0. /\ IInv /\ KindInv /\ StayInv /\ Polled /\ Cursor(rs) \in Cursors /\ rs \in Runs
  BY Known DEF PInv
<1>1. /\ Rest' /\ hist' = hist /\ leaving' = leaving /\ polls' = polls
  <2>1. holds' \in BOOLEAN /\ age' = age /\ crashes' = crashes
        /\ hist' = hist /\ leaving' = leaving /\ polls' = polls
    BY <1>0, WorldType DEF Answer, AnswerLate, AnswerAccepted, AnswerRejected, untouched,
       IInv, TInv, TypeOK
  <2> QED
    BY <1>0, <2>1 DEF Rest, IInv, TInv, TypeOK
<1>2. CASE AnswerLate
  <2>1. PICK s \in Steps : Answering(s) /\ Late(s) /\ cmd' = Resolved(Cursor(rs), "timeout", TRUE)
    BY <1>2 DEF AnswerLate
  <2>2. /\ rs.started /\ ~RunTerminal(rs) /\ Cursor(rs).step = s /\ rs' = rs
        /\ s \notin rs'.answered /\ "timeout" \in Words
    BY <1>2, <2>1, ParkedWords DEF Answering, Late, AnswerLate
  <2>3. IInv' /\ KindInv' /\ StayInv'
    BY <1>0, <1>1, <2>1, <2>2, VerdictKeeps
  <2> QED
    BY <1>0, <1>1, <2>3 DEF PInv, Polled
<1>3. CASE AnswerAccepted
  <2>1. PICK s \in Steps :
          /\ Answering(s)
          /\ rs' = IF s \in HasWrites THEN AfterWrites(rs, s) ELSE rs
          /\ \E outcome \in Emits[s] : cmd' = Resolved(Cursor(rs), outcome, TRUE)
    BY <1>3 DEF AnswerAccepted
  <2>2. PICK outcome \in Emits[s] : cmd' = Resolved(Cursor(rs), outcome, TRUE)
    BY <2>1
  <2>3. /\ rs.started /\ ~RunTerminal(rs) /\ Cursor(rs).step = s /\ Kind[s] = "human"
        /\ outcome \in Words
    BY <2>1, ParkedWords DEF Answering
  <2>4. IInv' /\ KindInv' /\ StayInv'
    BY <1>0, <1>1, <2>1, <2>2, <2>3, VerdictKeeps
  <2> QED
    BY <1>0, <1>1, <2>4 DEF PInv, Polled
<1>4. CASE AnswerRejected
  <2>1. PICK s \in Steps : /\ Answering(s) /\ cmd' = Resolved(Cursor(rs), "failure", TRUE)
                           /\ rs' = AfterPostcondition(rs, s, FALSE, Diagnostic)
    BY <1>4 DEF AnswerRejected
  <2>2. /\ rs.started /\ ~RunTerminal(rs) /\ Cursor(rs).step = s
        /\ "failure" \in Words /\ Diagnostic \in Errors /\ "failure" # "timeout"
    BY <2>1, ParkedWords DEF Answering, Errors
  <2>3. IInv' /\ KindInv' /\ StayInv'
    BY <1>0, <1>1, <2>1, <2>2, VerdictKeeps
  <2> QED
    BY <1>0, <1>1, <2>3 DEF PInv, Polled
<1> QED
  BY <1>2, <1>3, <1>4 DEF Answer

\* A question is asked, or its options are not to be had.
LEMMA AskKeeps == PInv /\ (Ask \/ OptionsUnavailable) => PInv'
<1> SUFFICES ASSUME PInv, Ask \/ OptionsUnavailable
             PROVE  PInv'
  OBVIOUS
<1>0. /\ IInv /\ KindInv /\ StayInv /\ Polled /\ rs.started /\ ~RunTerminal(rs)
      /\ cmd.at \in Cursors /\ cmd.at.step \in Steps /\ rs \in Runs /\ hist \in Hists
  BY Known, Parts DEF PInv, IInv, Ask, OptionsUnavailable
<1>1. CASE Ask
  <2> DEFINE s == cmd.at.step
             asked == rs.asked \cup {s}
             answered == rs.answered \ {s}
             q == [rs EXCEPT !.asked = asked, !.answered = answered]
  <2>1. rs' = q
    BY <1>1 DEF Ask, AfterHumanAsked
  <2>2. asked \in SUBSET Steps /\ answered \in SUBSET Steps
    BY <1>0 DEF Runs
  <2> HIDE DEF asked, answered
  <2>3. /\ q \in Runs /\ Kept(q, rs) /\ q.lastEnter = rs.lastEnter
        /\ q.lastTarget = rs.lastTarget /\ q.left = rs.left /\ q.inFlight = rs.inFlight
        /\ q.answered = answered
    BY <1>0, <2>2 DEF Runs, Kept
  <2> HIDE DEF q
  <2>4. Rest' /\ hist' = hist /\ leaving' = leaving /\ polls' = polls /\ cmd' = Idle
    <3>1. [age EXCEPT ![s].asked = 0] \in [Steps -> [entered : Int, asked : Int]]
      BY <1>0 DEF IInv, TInv, TypeOK
    <3> QED
      BY <1>0, <1>1, <3>1 DEF Ask, Rest, IInv, TInv, TypeOK
  <2>5. cmd' \in Commands /\ cmd'.pc = "idle"
    BY <1>0, <2>4, CommandType, PCs
  <2>6. TInv'
    BY <1>0, <2>1, <2>3, <2>4, <2>5 DEF TInv, TypeOK, AtStep, Rest, Hists, Errors
  <2>7. EntryInv' /\ VisitInv' /\ FinalInv'
    BY <1>0, <2>1, <2>3, <2>4, <2>5, Quiet
  <2>8. StayInv' /\ KindInv'
    BY <1>0, <2>1, <2>3, <2>5 DEF StayInv, KindInv, answered
  <2> QED
    BY <1>0, <2>4, <2>6, <2>7, <2>8 DEF PInv, IInv, Polled
<1>2. CASE OptionsUnavailable
  <2>1. /\ Rest' /\ hist' = hist /\ leaving' = leaving /\ polls' = polls
    BY <1>0, <1>2 DEF OptionsUnavailable, untouched, Rest, IInv, TInv, TypeOK
  <2>2. /\ "failure" \in Words /\ Diagnostic \in Errors /\ "failure" # "timeout"
    BY ParkedWords DEF Errors
  <2>3. /\ rs' = AfterPostcondition(rs, cmd.at.step, FALSE, Diagnostic)
        /\ cmd' = Resolved(cmd.at, "failure", TRUE)
    BY <1>2 DEF OptionsUnavailable
  <2>4. IInv' /\ KindInv' /\ StayInv'
    BY <1>0, <2>1, <2>2, <2>3, VerdictKeeps
  <2> QED
    BY <1>0, <2>1, <2>4 DEF PInv, Polled
<1> QED
  BY <1>1, <1>2

\* What a poller reports becomes the outcome to be judged.
LEMMA CompletesKeeps == ASSUME NEW p \in Pollers PROVE PInv /\ PollCompletes(p) => PInv'
<1> SUFFICES ASSUME PInv, PollCompletes(p)
             PROVE  PInv'
  OBVIOUS
<1> DEFINE s == polls[p].step
<1>0. /\ IInv /\ KindInv /\ StayInv /\ Polled /\ rs \in Runs /\ Cursor(rs) \in Cursors
      /\ hist \in Hists /\ polls[p] \in Polls /\ polls[p].outcome \in Words
      /\ rs.started /\ ~rs.ended /\ Cursor(rs).step = s /\ s \in Steps
  BY Known, Parts DEF PInv, IInv, Polled, Polls, PollCompletes, Parked
<1>1. Rest' /\ hist' = hist /\ leaving' = leaving /\ Polled'
  <2>1. NoPoll \in Polls
    BY DEF NoPoll, Polls, Words, NoStep
  <2> QED
    BY <1>0, <2>1 DEF PollCompletes, untouched, Rest, IInv, TInv, TypeOK, Polled
<1>2. Spoken(rs', rs, s) /\ rs'.answered = rs.answered
  <2> DEFINE q == AfterPostcondition(rs, s, FALSE, Diagnostic)
  <2>1. FALSE \in BOOLEAN /\ Diagnostic \in Errors /\ rs \in Runs /\ s \in Steps
    BY <1>0 DEF Errors
  <2>2. /\ Kept(q, rs) /\ q.lastEnter = rs.lastEnter /\ q.left = rs.left
        /\ q.inFlight = rs.inFlight /\ q.lastTarget = rs.lastTarget
    BY ONLY <2>1, AfterPostconditionFields, Zenon
  <2>3. q.answered = rs.answered /\ q \in Runs
    BY <2>1, AfterPostconditionHeard, AfterPostconditionType
  <2>4. rs' = q \/ rs' = rs
    BY DEF PollCompletes
  <2> HIDE DEF q
  <2> QED
    BY <1>0, <2>2, <2>3, <2>4 DEF Spoken, Kept
<1>3. cmd' \in Commands /\ cmd'.pc = "judge" /\ cmd'.at = Cursor(rs)
  <2> DEFINE j == AtPC("judge", Cursor(rs))
  <2>1. j \in Commands /\ j.pc = "judge" /\ j.at = Cursor(rs)
    BY <1>0, CommandType
  <2>2. cmd' = [j EXCEPT !.outcome = polls[p].outcome]
    BY DEF PollCompletes
  <2> HIDE DEF j
  <2> QED
    BY <1>0, <2>1, <2>2 DEF Commands
<1>4. TInv'
  BY <1>0, <1>1, <1>2, <1>3 DEF Spoken, TInv, TypeOK, AtStep, Rest, Hists, Errors
<1>5. EntryInv' /\ VisitInv' /\ FinalInv'
  <2>1. ~RunTerminal(rs)
    BY <1>0 DEF RunTerminal
  <2> QED
    BY <1>0, <1>1, <1>2, <1>3, <2>1, Quiet DEF Spoken
<1>6. StayInv' /\ KindInv'
  BY <1>0, <1>2, <1>3 DEF StayInv, KindInv
<1> QED
  BY <1>1, <1>4, <1>5, <1>6 DEF PInv, IInv

\* The other steps of a poller move nothing but itself and perhaps the world.
LEMMA PollKeeps ==
  ASSUME NEW p \in Pollers
  PROVE  PInv /\ (PollStart(p) \/ PollStep(p) \/ PollDies(p)) => PInv'
<1> SUFFICES ASSUME PInv, PollStart(p) \/ PollStep(p) \/ PollDies(p)
             PROVE  PInv'
  OBVIOUS
<1>0. /\ IInv /\ KindInv /\ StayInv /\ polls \in [Pollers -> Polls] /\ polls[p] \in Polls
  BY DEF PInv, Polled
<1>1. Still /\ Rest'
  <2>1. CASE PollDies(p)
    BY <1>0, <2>1, MaxCrashesAssumption DEF PollDies, Still, Rest, IInv, TInv, TypeOK
  <2>2. CASE PollRoutes(p)
    <3>1. holds' \in BOOLEAN
      BY <2>2, WorldType DEF PollRoutes
    <3> QED
      BY <1>0, <2>2, <3>1 DEF PollRoutes, Still, Rest, IInv, TInv, TypeOK
  <2>3. CASE PollStart(p) \/ PollLeaves(p) \/ PollTimesOut(p) \/ PollNotYet(p) \/ PollHardFails(p)
    BY <1>0, <2>3 DEF PollStart, PollLeaves, PollTimesOut, PollNotYet, PollHardFails, runVars,
       Still, Rest, IInv, TInv, TypeOK
  <2> QED
    BY <2>1, <2>2, <2>3 DEF PollStep
<1>2. \E q \in Polls : polls' = [polls EXCEPT ![p] = q]
  <2>0. NoPoll \in Polls
    BY DEF NoPoll, Polls, Words, NoStep
  <2>1. CASE PollStart(p)
    <3>1. PICK s \in Steps :
            polls' = [polls EXCEPT ![p] = [NoPoll EXCEPT !.st = "loop", !.step = s,
                                                         !.left = TimeLeft(s)]]
      BY <2>1 DEF PollStart
    <3>2. TimeLeft(s) \in Nat
      <4>1. age[s].entered \in Int /\ Timeout[s] \in Nat
        BY <1>0, WorkflowAssumption DEF IInv, TInv, TypeOK
      <4> QED
        BY <4>1 DEF TimeLeft
    <3> QED
      BY <2>0, <3>1, <3>2 DEF Polls
  <2>2. CASE PollLeaves(p) \/ PollDies(p)
    BY <2>0, <2>2 DEF PollLeaves, PollDies
  <2>3. ASSUME NEW outcome \in Words, NEW diag \in BOOLEAN, Decide(p, outcome, diag)
        PROVE  \E q \in Polls : polls' = [polls EXCEPT ![p] = q]
    <3>1. [polls[p] EXCEPT !.st = "decided", !.outcome = outcome, !.diag = diag] \in Polls
      BY <1>0 DEF Polls
    <3>2. polls' = [polls EXCEPT ![p] = [polls[p] EXCEPT !.st = "decided", !.outcome = outcome,
                                                         !.diag = diag]]
      BY <1>0, <2>3 DEF Decide
    <3> QED
      BY <3>1, <3>2
  <2>4. CASE PollTimesOut(p)
    BY <2>3, <2>4, ParkedWords DEF PollTimesOut, Polling, Parked
  <2>5. CASE PollRoutes(p)
    BY <2>3, <2>5, ParkedWords DEF PollRoutes, Polling, Parked
  <2>6. ASSUME NEW n \in Nat, polls' = [polls EXCEPT ![p].streak = n]
        PROVE  \E q \in Polls : polls' = [polls EXCEPT ![p] = q]
    <3>1. [polls[p] EXCEPT !.streak = n] \in Polls
      BY <1>0 DEF Polls
    <3>2. polls' = [polls EXCEPT ![p] = [polls[p] EXCEPT !.streak = n]]
      BY <1>0, <2>6
    <3> QED
      BY <3>1, <3>2
  <2>7. CASE PollNotYet(p)
    BY <2>6, <2>7 DEF PollNotYet
  <2>8. CASE PollHardFails(p)
    <3>1. CASE polls' = [polls EXCEPT ![p].streak = @ + 1]
      <4>1. polls[p].streak + 1 \in Nat
        BY <1>0 DEF Polls
      <4>2. polls' = [polls EXCEPT ![p].streak = polls[p].streak + 1]
        BY <3>1
      <4> QED
        BY <2>6, <4>1, <4>2
    <3>2. CASE \E diag \in BOOLEAN : Decide(p, "failure", diag)
      BY <2>3, <3>2, ParkedWords
    <3> QED
      BY <2>8, <3>1, <3>2 DEF PollHardFails
  <2> QED
    BY <2>1, <2>2, <2>4, <2>5, <2>7, <2>8 DEF PollStep
<1>3. Polled'
  BY <1>0, <1>2 DEF Polled
<1>4. IInv' /\ KindInv' /\ StayInv'
  BY <1>0, <1>1, StillKeeps
<1> QED
  BY <1>3, <1>4 DEF PInv

\* Time passes.
LEMMA TickKeeps == PInv /\ Tick => PInv'
<1> SUFFICES ASSUME PInv, Tick
             PROVE  PInv'
  OBVIOUS
<1>0. IInv /\ KindInv /\ StayInv /\ polls \in [Pollers -> Polls]
  BY DEF PInv, Polled
<1>1. age \in [Steps -> [entered : Int, asked : Int]] /\ Timeout \in [Steps -> Nat]
  BY <1>0, WorkflowAssumption DEF IInv, TInv, TypeOK
<1>2. \A s \in Steps : \A t \in Int : Older(t, s) \in Int /\ Older(t, s) >= t
  BY <1>1 DEF Older
<1>3. age' \in [Steps -> [entered : Int, asked : Int]]
  BY <1>1, <1>2 DEF Tick
<1>4. Still /\ Rest'
  BY <1>0, <1>3 DEF Tick, Still, Rest, IInv, TInv, TypeOK
<1>5. Polled'
  <2>1. ASSUME NEW p \in Pollers
        PROVE  [polls[p] EXCEPT !.left = IF @ = 0 THEN 0 ELSE @ - 1] \in Polls
    BY <1>0 DEF Polls
  <2> QED
    BY <2>1 DEF Tick, Polled
<1> QED
  BY <1>0, <1>4, <1>5, StillKeeps DEF PInv

-----------------------------------------------------------------------------
(* The theorems *)

\* No step leaves the invariant.
LEMMA ParkedInvStep == PInv /\ [ParkedNext]_vars => PInv'
<1> SUFFICES ASSUME PInv, [ParkedNext]_vars
             PROVE  PInv'
  OBVIOUS
<1>0. IInv /\ KindInv /\ StayInv /\ Polled
  BY DEF PInv
<1>1. CASE Next /\ UNCHANGED polls
  BY <1>0, <1>1, InvStep, KindStep, StayStep DEF PInv, Polled
<1>2. CASE ParkedStep \/ Answer \/ Tick
  BY <1>2, WaitJudgedKeeps, AskKeeps, AnswerKeeps, TickKeeps DEF ParkedStep
<1>3. CASE \E p \in Pollers : PollStart(p) \/ PollStep(p) \/ PollDies(p) \/ PollCompletes(p)
  BY <1>3, PollKeeps, CompletesKeeps
<1>4. CASE UNCHANGED vars
  <2>1. Still /\ Rest' /\ Polled'
    BY <1>0, <1>4 DEF vars, runVars, Still, Rest, Polled, IInv, TInv, TypeOK
  <2> QED
    BY <1>0, <2>1, StillKeeps DEF PInv
<1> QED
  BY <1>1, <1>2, <1>3, <1>4 DEF ParkedNext

\* The invariant holds in every state.
LEMMA ParkedInvariance == ParkedSpec => []PInv
<1>1. ParkedInit => PInv
  <2> SUFFICES ASSUME ParkedInit
               PROVE  PInv
    OBVIOUS
  <2>1. IInv /\ cmd = Idle /\ rs = NewRun /\ polls = [p \in Pollers |-> NoPoll]
    BY Initially DEF ParkedInit, Init, RunInit
  <2>2. Idle.pc = "idle" /\ NewRun.answered = {} /\ NoPoll \in Polls
    BY DEF Idle, NewRun, NoPoll, Polls, Words, NoStep
  <2> QED
    BY <2>1, <2>2 DEF PInv, KindInv, StayInv, Polled
<1> QED
  BY <1>1, ParkedInvStep, PTL DEF ParkedSpec

\* The run, its commands and its pollers are of their types in every state.
THEOREM ParkedTypes == ParkedSpec => []ParkedTypeOK
<1>1. PInv => ParkedTypeOK
  BY DEF PInv, IInv, TInv, Polled, ParkedTypeOK
<1> QED
  BY <1>1, ParkedInvariance, PTL

\* Waits and questions enter no step more often than max_visits: either.
THEOREM ParkedVisits == ParkedSpec => []VisitsWithinMax
<1>1. PInv => VisitsWithinMax
  BY DEF PInv, IInv, VisitInv
<1> QED
  BY <1>1, ParkedInvariance, PTL

\* An answer that was written in time is not turned into a timeout: a command on
\* its way out of a step by its deadline is at a step without an answer.
THEOREM AnswersStand == ParkedSpec => AnswerStands
<1>1. PInv => (cmd.pc = "route" /\ cmd.outcome = "timeout"
                 /\ "timeout" \notin Emits[cmd.at.step] /\ rs'.left /\ ~rs.left
                 => cmd.at.step \notin rs.answered)
  BY DEF PInv, StayInv
<1> QED
  BY <1>1, ParkedInvariance, PTL DEF ParkedSpec, AnswerStands

\* The wait and the open question of s do not get younger.
NotYounger(s) ==
  /\ Kind[s] = "wait" => age'[s].entered >= age[s].entered
  /\ s \in rs.asked => age'[s].asked >= age[s].asked

\* While a visit lasts nothing makes its wait younger or asks its question
\* again: not a crash, not a resume, not another poller.
THEOREM DeadlinesPinned == ParkedSpec => DeadlinePinned
<1>1. ASSUME PInv, [ParkedNext]_vars, NEW s \in Steps,
             rs.inFlight /\ ~rs.ended /\ rs.lastEnter.step = s
      PROVE  NotYounger(s)
  <2>0. /\ IInv /\ StayInv /\ Timeout[s] \in Nat
        /\ age \in [Steps -> [entered : Int, asked : Int]]
    BY <1>1, WorkflowAssumption DEF PInv, IInv, TInv, TypeOK
  <2>1. CASE age' = age
    <3>1. age[s].entered \in Int /\ age[s].asked \in Int
      BY <2>0
    <3> QED
      BY <2>1, <3>1 DEF NotYounger
  <2>2. ASSUME NEW x \in Steps, age' = Entered(x), x = s => Kind[s] # "wait"
        PROVE  NotYounger(s)
    <3>1. age[s].entered \in Int /\ age[s].asked \in Int
      BY <2>0
    <3>2. age'[s].asked = age[s].asked /\ (x # s \/ Kind[s] # "wait" => age'[s].entered = age[s].entered)
      BY <2>0, <2>2 DEF Entered
    <3> QED
      BY <2>2, <3>1, <3>2 DEF NotYounger
  <2>3. CASE EnterStep
    <3>1. cmd.at.step \in Steps /\ cmd.pc = "enter"
      BY <2>0, <2>3, Known DEF EnterStep
    <3>2. age' = Entered(cmd.at.step)
      <4>1. PICK c \in BeginAttempt(rs, cmd.at) : age' = Entered(c.step)
        BY <2>3 DEF EnterStep
      <4>2. c.step = cmd.at.step
        BY <2>0, <3>1, <4>1, Known, BeginAttemptType
      <4> QED
        BY <4>1, <4>2
    <3>3. Kind[cmd.at.step] # "wait"
      BY <1>1, <2>0, <3>1 DEF StayInv
    <3> QED
      BY <2>2, <3>1, <3>2, <3>3
  <2>4. CASE Resume
    BY <1>1, <2>1, <2>4 DEF Resume, RunBlocked
  <2>5. CASE Ask
    <3>1. cmd.at.step \notin rs.asked
      BY <2>0, <2>5 DEF Ask, StayInv
    <3>2. s # cmd.at.step => age'[s] = age[s]
      BY <2>0, <2>5 DEF Ask
    <3>3. age[s].entered \in Int /\ age[s].asked \in Int
      BY <2>0
    <3>4. age'[s].entered = age[s].entered
      BY <2>0, <2>5 DEF Ask
    <3> QED
      BY <3>1, <3>2, <3>3, <3>4 DEF NotYounger
  <2>6. CASE Tick
    <3>1. age[s].entered \in Int /\ age[s].asked \in Int
      BY <2>0
    <3>2. age'[s].entered = Older(age[s].entered, s) /\ age'[s].asked = Older(age[s].asked, s)
      BY <2>6 DEF Tick
    <3> QED
      BY <2>0, <3>1, <3>2 DEF Older, NotYounger
  <2>7. CASE Next
    BY <2>1, <2>3, <2>4, <2>7 DEF Next, RunStep, LoopStep, BodyStep, Over, runVars, untouched,
       Start, EnterCapped, InvariantBlocks, Transition, End, Crash, AbandonLooks, AbandonEnds,
       RunBody, HardFails, PrintsFailure, HardRetry, Dispatch, ContextUnavailable, Submit,
       Passes, Fails, FailsCapped, FailsFinally, Reenter
  <2>8. CASE WaitJudged \/ OptionsUnavailable \/ Answer
    BY <2>1, <2>8 DEF WaitJudged, OptionsUnavailable, Answer, AnswerLate, AnswerAccepted,
       AnswerRejected, untouched
  <2>9. CASE \E p \in Pollers : PollStart(p) \/ PollStep(p) \/ PollDies(p) \/ PollCompletes(p)
    BY <2>1, <2>9 DEF PollStart, PollStep, PollDies, PollCompletes, PollLeaves, PollTimesOut,
       PollNotYet, PollRoutes, PollHardFails, runVars, untouched
  <2>10. CASE UNCHANGED vars
    BY <2>1, <2>10 DEF vars, runVars
  <2> QED
    BY <1>1, <2>5, <2>6, <2>7, <2>8, <2>9, <2>10 DEF ParkedNext, ParkedStep
<1>2. PInv /\ [ParkedNext]_vars =>
        (\A s \in Steps : rs.inFlight /\ ~rs.ended /\ rs.lastEnter.step = s =>
           /\ Kind[s] = "wait" => age'[s].entered >= age[s].entered
           /\ s \in rs.asked => age'[s].asked >= age[s].asked)
  BY <1>1 DEF NotYounger
<1> QED
  BY <1>2, ParkedInvariance, PTL DEF ParkedSpec, DeadlinePinned
=============================================================================
