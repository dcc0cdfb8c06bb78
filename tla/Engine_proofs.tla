--------------------------- MODULE Engine_proofs ---------------------------
(***************************************************************************)
(* Proofs about Engine: the types, for every workflow that satisfies the    *)
(* assumptions of Workflow; then caps and visits under crashes, the         *)
(* finality of an end and the gate before a transition, from one inductive  *)
(* invariant, which the modules on top of Engine keep as well; last the cap *)
(* on the transitions of a run, from sums over its finitely many steps.     *)
(***************************************************************************)
EXTENDS Engine, WellFoundedInduction, FiniteSetTheorems, TLAPS

\* A command that is under way is at a step.
AtStep == cmd.pc # "idle" => cmd.at.step \in Steps

\* The type invariant that is inductive.
TInv == TypeOK /\ AtStep

\* The values of ${last_error}.
Errors == Texts \cup {NoText, Diagnostic}

-----------------------------------------------------------------------------
(* Typing of the operators: what Replay makes of an event is a run again *)

\* What STEP_ENTER and RESUME have in common yields a run.
LEMMA EnteringType ==
  ASSUME NEW r \in Runs, NEW c \in Cursors
  PROVE  Entering(r, c) \in Runs
<1>1. With(r.attempts, c.step, IF c.step \in Steps THEN With(r.attempts[c.step], c.key, c.attempt)
                                                   ELSE {}) \in [Steps -> [Keys -> Nat]]
  BY DEF With, Runs, Cursors
<1>2. With(r.lastKey, c.step, c.key) \in [Steps -> Keys]
  BY DEF With, Runs, Cursors
<1>3. With(r.postOK, c.step, TRUE) \in [Steps -> BOOLEAN]
  BY DEF With, Runs
<1> QED
  BY <1>1, <1>2, <1>3 DEF Entering, Runs

\* Replaying a RESUME yields a run.
LEMMA AfterResumeType ==
  ASSUME NEW r \in Runs, NEW c \in Cursors, NEW intervention \in BOOLEAN
  PROVE  AfterResume(r, c, intervention) \in Runs
<1> DEFINE e == Entering(r, c)
           resumed == IF ~intervention /\ r.inFlight /\ r.lastEnter.step = c.step
                      THEN c.step ELSE NoStep
           inFlight == IF intervention THEN FALSE ELSE e.inFlight
           ended == IF r.endStatus = "blocked" THEN FALSE ELSE e.ended
           endStatus == IF RunBlocked(r) THEN "" ELSE e.endStatus
           asked == IF intervention THEN {} ELSE e.asked
<1>1. e \in Runs
  BY EnteringType
<1>2. resumed \in Places
  BY DEF Places, Cursors
<1>3. inFlight \in BOOLEAN /\ ended \in BOOLEAN
  BY <1>1 DEF Runs
<1>4. endStatus \in {"", "ok", "blocked", "abandoned"} /\ asked \in SUBSET Steps
  BY <1>1 DEF Runs
<1> SUFFICES [e EXCEPT !.resumedInFlight = resumed, !.inFlight = inFlight, !.ended = ended,
                       !.endStatus = endStatus, !.asked = asked] \in Runs
  BY DEF AfterResume
<1> HIDE DEF e, resumed, inFlight, ended, endStatus, asked
<1> QED
  BY <1>1, <1>2, <1>3, <1>4 DEF Runs

\* Replaying a STEP_ENTER of a step yields a run.
LEMMA AfterStepEnterType ==
  ASSUME NEW r \in Runs, NEW c \in Cursors, c.step \in Steps, NEW retry \in BOOLEAN
  PROVE  AfterStepEnter(r, c, retry) \in Runs
<1> DEFINE e == Entering(r, c)
           counted == IF r.resumedInFlight = c.step \/ retry \/ c.hard > 0
                      THEN e.visits[c.step] ELSE e.visits[c.step] + 1
           visits == [e.visits EXCEPT ![c.step] = counted]
           resumed == IF e.resumedInFlight = c.step THEN NoStep ELSE e.resumedInFlight
           asked == e.asked \ {c.step}
<1>1. e \in Runs
  BY EnteringType
<1>2. visits \in [Steps -> Nat]
  <2>1. e.visits \in [Steps -> Nat]
    BY <1>1 DEF Runs
  <2>2. counted \in Nat
    <3>1. e.visits[c.step] \in Nat /\ e.visits[c.step] + 1 \in Nat
      BY <2>1
    <3> QED
      BY <3>1, Zenon
  <2> QED
    BY <2>1, <2>2
<1>3. resumed \in Places /\ asked \in SUBSET Steps
  BY <1>1 DEF Runs, Places
<1> SUFFICES [e EXCEPT !.visits = visits, !.resumedInFlight = resumed,
                       !.inFlight = TRUE, !.asked = asked] \in Runs
  BY DEF AfterStepEnter
<1> HIDE DEF e, counted, visits, resumed, asked
<1> QED
  BY <1>1, <1>2, <1>3 DEF Runs

\* Replaying a POSTCONDITION yields a run.
LEMMA AfterPostconditionType ==
  ASSUME NEW r \in Runs, NEW s \in Steps, NEW ok \in BOOLEAN, NEW text \in Errors
  PROVE  AfterPostcondition(r, s, ok, text) \in Runs
<1> DEFINE post == [r.postOK EXCEPT ![s] = ok]
           err == IF ok THEN NoText ELSE text
<1>1. post \in [Steps -> BOOLEAN]
  BY DEF Runs
<1>2. err \in Errors
  BY DEF Errors
<1> SUFFICES [r EXCEPT !.postOK = post, !.lastError = err] \in Runs
  BY DEF AfterPostcondition
<1> HIDE DEF post, err
<1> QED
  BY <1>1, <1>2 DEF Runs, Errors

\* Replaying a TRANSITION yields a run.
LEMMA AfterTransitionType ==
  ASSUME NEW r \in Runs, NEW s \in Steps, NEW target \in Places, NEW viaCatch \in BOOLEAN
  PROVE  AfterTransition(r, s, target, viaCatch) \in Runs
<1> DEFINE budget == IF ~viaCatch /\ r.postOK[s] THEN With(r.attempts[s], r.lastKey[s], 0)
                     ELSE r.attempts[s]
           attempts == [r.attempts EXCEPT ![s] = budget]
           asked == r.asked \ {s}
<1>1. budget \in [Keys -> Nat]
  <2>1. r.attempts[s] \in [Keys -> Nat] /\ With(r.attempts[s], r.lastKey[s], 0) \in [Keys -> Nat]
    BY DEF Runs, With
  <2> QED
    BY <2>1, Zenon
<1>2. attempts \in [Steps -> [Keys -> Nat]]
  BY <1>1 DEF Runs
<1>3. asked \in SUBSET Steps /\ NoStep \in Places
  BY DEF Runs, Places
<1> SUFFICES [r EXCEPT !.left = TRUE, !.inFlight = FALSE, !.resumedInFlight = NoStep,
                       !.lastTarget = target, !.attempts = attempts, !.asked = asked] \in Runs
  BY DEF AfterTransition
<1> HIDE DEF budget, attempts, asked
<1> QED
  BY <1>2, <1>3 DEF Runs

\* Replaying a RUN_END with a status the engine writes yields a run.
LEMMA AfterRunEndType ==
  ASSUME NEW r \in Runs, NEW s \in Places, NEW status \in {"ok", "blocked", "abandoned"}
  PROVE  AfterRunEnd(r, s, status) \in Runs
<1> DEFINE blocked == IF status # "blocked" THEN r.blockedStep
                      ELSE IF s # NoStep THEN s ELSE r.lastEnter.step
<1>1. blocked \in Places
  BY DEF Runs, Cursors
<1> SUFFICES [r EXCEPT !.ended = TRUE, !.endStatus = status, !.asked = {},
                       !.blockedStep = blocked] \in Runs
  BY DEF AfterRunEnd
<1> HIDE DEF blocked
<1> QED
  BY <1>1 DEF Runs

\* The cursor of a run, whichever rule it is reconstructed by, is a cursor.
LEMMA CursorType ==
  ASSUME NEW r \in Runs
  PROVE  Cursor(r) \in Cursors
<1>1. NoCursor \in Cursors
  BY DEF NoCursor, Cursors, Places, Keys
<1>2. ASSUME NEW s \in Places
      PROVE  [NoCursor EXCEPT !.step = s] \in Cursors
  BY <1>1 DEF Cursors
<1>3. ASSUME NEW s \in Steps
      PROVE  [step |-> s, attempt |-> r.attempts[s][r.lastKey[s]],
              key |-> r.lastKey[s], hard |-> 0] \in Cursors
  <2>1. r.lastKey \in [Steps -> Keys] /\ r.attempts \in [Steps -> [Keys -> Nat]]
    BY DEF Runs
  <2>2. r.lastKey[s] \in Keys /\ r.attempts[s][r.lastKey[s]] \in Nat
    BY <2>1
  <2> QED
    BY <2>1, <2>2 DEF Cursors, Places
<1>4. (IF r.blockedStep # NoStep THEN r.blockedStep ELSE r.lastEnter.step) \in Places
  BY DEF Runs, Cursors
<1>5. [step |-> r.lastTarget, attempt |-> 1, key |-> "", hard |-> 0] \in Cursors
  BY DEF Runs, Cursors, Keys
<1>6. r.lastEnter \in Cursors
  BY DEF Runs
<1> QED
  BY <1>2, <1>3, <1>4, <1>5, <1>6 DEF Cursor

\* An outcome leads to a step, an end or nowhere, and an end has a status.
LEMMA TargetType ==
  ASSUME NEW s \in Steps, NEW outcome
  PROVE  /\ ResolveTarget(s, outcome) \in Places
         /\ ResolveTarget(s, outcome) \notin Steps => ResolveTarget(s, outcome) \in Words
         /\ EndStatus(outcome) \in {"ok", "blocked"}
<1>1. ResolveTarget(s, outcome) \in Places
  BY WorkflowAssumption DEF ResolveTarget, Places, Ends
<1> QED
  BY <1>1, WorkflowAssumption DEF Places, Words, EndStatus

\* Beginning an attempt changes its key and number, not its step or its try.
LEMMA BeginAttemptType ==
  ASSUME NEW r \in Runs, NEW at \in Cursors, at.step \in Steps, NEW c \in BeginAttempt(r, at)
  PROVE  c \in Cursors /\ c.step = at.step /\ c.hard = at.hard
<1>1. CASE at.key = "" /\ Template[at.step] # {}
  <2>1. PICK k \in Template[at.step] :
          c = [at EXCEPT !.key = k, !.attempt = r.attempts[at.step][k] + 1]
    BY <1>1 DEF BeginAttempt
  <2>2. k \in Keys
    BY DEF Keys
  <2> DEFINE n == r.attempts[at.step][k] + 1
  <2>3. n \in Nat
    <3>1. r.attempts \in [Steps -> [Keys -> Nat]]
      BY DEF Runs
    <3> QED
      BY <2>2, <3>1
  <2> HIDE DEF n
  <2>4. [at EXCEPT !.key = k, !.attempt = n] \in Cursors
    BY <2>2, <2>3 DEF Cursors
  <2> USE DEF n
  <2> QED
    BY <2>1, <2>4 DEF Cursors
<1>2. CASE ~(at.key = "" /\ Template[at.step] # {})
  <2>1. c = [at EXCEPT !.attempt = IF @ = 0 THEN 1 ELSE @]
    BY <1>2 DEF BeginAttempt
  <2> QED
    BY <2>1 DEF Cursors
<1> QED
  BY <1>1, <1>2

\* The number of the next attempt is a number.
LEMMA NextTryType ==
  ASSUME NEW r \in Runs, NEW c \in Cursors, c.step \in Steps
  PROVE  NextTry(r, c) \in Nat
<1>1. r.attempts \in [Steps -> [Keys -> Nat]] /\ c.key \in Keys /\ c.attempt \in Nat
  BY DEF Runs, Cursors
<1>2. c.step \in Steps
  OBVIOUS
<1> QED
  BY ONLY <1>1, <1>2 DEF NextTry

\* The states a command goes through are commands.
LEMMA CommandType ==
  ASSUME NEW c \in Cursors
  PROVE  /\ Idle \in Commands
         /\ \A label \in {"enter", "body", "judge", "dispatch", "ask", "fan", "end"} :
              AtPC(label, c) \in Commands /\ AtPC(label, c).at = c /\ AtPC(label, c).pc = label
         /\ \A outcome \in Words : \A gate \in BOOLEAN :
              Resolved(c, outcome, gate) \in Commands /\ Resolved(c, outcome, gate).at = c
         /\ \A s \in Steps : Fresh(s) \in Cursors /\ Fresh(s).step = s
<1>1. Idle \in Commands
  BY DEF Idle, Commands, NoCursor, Cursors, Places, Keys, Words, NoStep
<1>2. ASSUME NEW label \in {"enter", "body", "judge", "dispatch", "ask", "fan", "route", "end"}
      PROVE  AtPC(label, c) \in Commands /\ AtPC(label, c).at = c /\ AtPC(label, c).pc = label
  BY <1>1 DEF AtPC, Commands
<1>3. ASSUME NEW outcome \in Words, NEW gate \in BOOLEAN
      PROVE  Resolved(c, outcome, gate) \in Commands /\ Resolved(c, outcome, gate).at = c
  <2> DEFINE a == AtPC("route", c)
  <2>1. a \in Commands /\ a.at = c
    BY <1>2
  <2> HIDE DEF a
  <2>2. [a EXCEPT !.outcome = outcome, !.gate = gate] \in Commands
    BY <2>1 DEF Commands
  <2>3. [a EXCEPT !.outcome = outcome, !.gate = gate].at = c
    BY <2>1 DEF Commands
  <2> USE DEF a
  <2> QED
    BY <2>2, <2>3 DEF Resolved
<1>4. ASSUME NEW s \in Steps
      PROVE  Fresh(s) \in Cursors /\ Fresh(s).step = s
  BY DEF Fresh, Cursors, Places, Keys
<1> QED
  BY <1>1, <1>2, <1>3, <1>4

\* So is what follows an entry.
LEMMA AfterEntryType ==
  ASSUME NEW c \in Cursors, c.step \in Steps, NEW seen \in Errors
  PROVE  /\ AfterEntry(c, seen) \in Commands
         /\ AfterEntry(c, seen).pc # "idle" => AfterEntry(c, seen).at = c
<1> DEFINE b == AtPC("body", c)
<1>1. b \in Commands /\ b.at = c
  BY CommandType
<1>2. [b EXCEPT !.seen = seen] \in Commands /\ [b EXCEPT !.seen = seen].at = c
  BY <1>1 DEF Commands, Errors
<1>3. Kind[c.step] \in {"deterministic", "agentic", "human", "wait", "parallel"}
  BY WorkflowAssumption DEF Kinds
<1>4. /\ AtPC("dispatch", c) \in Commands /\ AtPC("dispatch", c).at = c
      /\ AtPC("ask", c) \in Commands /\ AtPC("ask", c).at = c
      /\ AtPC("fan", c) \in Commands /\ AtPC("fan", c).at = c
  BY CommandType
<1>5. Idle \in Commands /\ Idle.pc = "idle"
  BY CommandType DEF Idle
<1> QED
  BY <1>1, <1>2, <1>3, <1>4, <1>5 DEF AfterEntry

-----------------------------------------------------------------------------
(* The type invariant *)

\* The other variables of a run.
Rest == /\ holds \in BOOLEAN /\ leaving \in BOOLEAN
        /\ age \in [Steps -> [entered : Int, asked : Int]] /\ crashes \in 0..MaxCrashes

Hists == [arrivals : [Steps -> Nat], retries : Nat, firstSeen : Errors, entered : Cursors]

\* What a step was entered as is remembered.
LEMMA RemembersType ==
  ASSUME hist \in Hists, NEW c \in Cursors, hist' = [hist EXCEPT !.entered = c]
  PROVE  /\ hist' \in Hists /\ hist'.arrivals = hist.arrivals /\ hist'.retries = hist.retries
         /\ hist'.firstSeen = hist.firstSeen /\ hist'.entered = c
  BY DEF Hists

\* Counting a way into a step keeps the history's type.
LEMMA ArriveType ==
  ASSUME hist \in Hists, NEW s, Arrive(s)
  PROVE  hist' \in Hists
<1>1. OneMore(hist.arrivals, s) \in [Steps -> Nat]
  BY DEF OneMore, Hists
<1>2. NoCursor \in Cursors
  BY DEF NoCursor, Cursors, Places, Keys
<1> QED
  BY <1>1, <1>2 DEF Arrive, Hists

\* Starting the deadline of a wait keeps the type of the ages.
LEMMA EnteredType ==
  ASSUME Rest, NEW s
  PROVE  Entered(s) \in [Steps -> [entered : Int, asked : Int]]
<1>1. ASSUME s \in Steps
      PROVE  [age[s] EXCEPT !.entered = IF Kind[s] = "wait" THEN 0 ELSE @]
               \in [entered : Int, asked : Int]
  BY <1>1 DEF Rest
<1> QED
  BY <1>1 DEF Rest, Entered

\* The invariants hold or do not.
LEMMA WorldType ==
  ASSUME WorldChanges
  PROVE  holds' \in BOOLEAN
BY DEF WorldChanges

\* No step of a run leaves the types, and a command under way is at a step.
LEMMA TypeStep == TInv /\ [Next]_runVars => TInv'
<1> SUFFICES ASSUME TInv, [Next]_runVars
             PROVE  rs' \in Runs /\ cmd' \in Commands /\ AtStep' /\ Rest' /\ hist' \in Hists
  BY DEF TInv, TypeOK, Rest, Hists, Errors
<1>0. /\ rs \in Runs /\ cmd \in Commands /\ AtStep /\ Rest /\ hist \in Hists
      /\ cmd.at \in Cursors /\ Cursor(rs) \in Cursors /\ cmd.retry \in BOOLEAN
      /\ cmd.outcome \in Words
  <2>1. rs \in Runs /\ cmd \in Commands /\ AtStep /\ Rest /\ hist \in Hists
    BY DEF TInv, TypeOK, Rest, Hists, Errors
  <2> QED
    BY <2>1, CursorType DEF Commands
<1> USE <1>0
<1>a. ASSUME cmd' = Idle
      PROVE  cmd' \in Commands /\ AtStep'
  BY <1>a, CommandType DEF AtStep, Idle
<1>b. ASSUME NEW c \in Cursors, c.step \in Steps,
             NEW label \in {"enter", "body", "judge", "dispatch", "ask", "fan", "end"},
             cmd' = AtPC(label, c)
      PROVE  cmd' \in Commands /\ AtStep'
  BY <1>b, CommandType DEF AtStep
<1>c. ASSUME NEW c \in Cursors, c.step \in Steps, NEW outcome \in Words, NEW gate \in BOOLEAN,
             cmd' = Resolved(c, outcome, gate)
      PROVE  cmd' \in Commands /\ AtStep'
  BY <1>c, CommandType DEF AtStep
<1>d. \A s \in Steps : Producible(s) \subseteq Words /\ Emits[s] \subseteq Words
                       /\ {"failure", "exhausted"} \subseteq Words
  BY DEF Producible, Words
<1>1. CASE Start
  <2>1. Fresh(StartStep) \in Cursors /\ Fresh(StartStep).step \in Steps
    BY CommandType, WorkflowAssumption
  <2>2. cmd' \in Commands /\ AtStep'
    BY <1>1, <2>1, <1>b DEF Start
  <2>3. rs' \in Runs
    BY <1>1 DEF Start, AfterRunStart, Runs
  <2>4. hist' \in Hists
    BY <1>1, ArriveType DEF Start
  <2> QED
    BY <1>1, <2>2, <2>3, <2>4 DEF Start, Rest
<1>2. CASE Resume
  <2> DEFINE intervention == RunBlocked(rs)
             c == [Cursor(rs) EXCEPT !.attempt = IF intervention THEN 1 ELSE @,
                                     !.hard = IF intervention THEN 0 ELSE @]
  <2>1. c \in Cursors
    BY DEF Cursors
  <2>2. intervention \in BOOLEAN
    BY DEF RunBlocked, Runs
  <2>3. rs' \in Runs
    BY <1>2, <2>1, <2>2, AfterResumeType DEF Resume
  <2>4. cmd' \in Commands /\ AtStep'
    <3>1. CASE c.step \notin Steps \/ (~intervention /\ StaysParked(rs', c.step))
      BY <1>2, <3>1, <1>a DEF Resume
    <3>2. CASE ~(c.step \notin Steps \/ (~intervention /\ StaysParked(rs', c.step)))
      BY <1>2, <3>2, <2>1, <1>b DEF Resume
    <3> QED
      BY <3>1, <3>2
  <2>5. Rest' /\ hist' \in Hists
    <3>1. CASE intervention
      <4>1. WorldChanges /\ Arrive(c.step) /\ age' = Entered(c.step)
        BY <1>2, <3>1 DEF Resume
      <4>2. Entered(c.step) \in [Steps -> [entered : Int, asked : Int]]
        BY EnteredType
      <4> QED
        BY <1>2, <4>1, <4>2, WorldType, ArriveType DEF Resume, Rest
    <3>2. CASE ~intervention
      BY <1>2, <3>2 DEF Resume, Rest
    <3> QED
      BY <3>1, <3>2
  <2> QED
    BY <2>3, <2>4, <2>5
<1>3. CASE EnterCapped
  <2>1. cmd.at.step \in Steps
    BY <1>3 DEF EnterCapped, AtStep
  <2>2. cmd' \in Commands /\ AtStep'
    BY <1>3, <2>1, <1>c, <1>d DEF EnterCapped
  <2> QED
    BY <1>3, <2>2 DEF EnterCapped, Rest
<1>4. CASE EnterStep
  <2>1. cmd.at.step \in Steps
    BY <1>4 DEF EnterStep, AtStep
  <2>2. PICK c \in BeginAttempt(rs, cmd.at) :
          LET r == AfterStepEnter(rs, c, FALSE)
              resumed == rs.resumedInFlight = c.step /\ c = hist.entered
          IN /\ rs' = r
             /\ cmd' = AfterEntry(c, r.attemptLastError)
             /\ hist' = [hist EXCEPT !.retries = IF resumed THEN @ ELSE 0,
                                     !.firstSeen = IF c.hard > 0 THEN @ ELSE r.attemptLastError,
                                     !.entered = c]
             /\ age' = Entered(c.step)
    BY <1>4 DEF EnterStep
  <2>3. c \in Cursors /\ c.step \in Steps
    BY <2>1, BeginAttemptType
  <2>4. rs' \in Runs /\ rs'.attemptLastError \in Errors
    <3>1. rs' \in Runs
      BY <2>2, <2>3, AfterStepEnterType
    <3> QED
      BY <3>1 DEF Runs, Errors
  <2>5. cmd' \in Commands /\ AtStep'
    BY <2>2, <2>3, <2>4, AfterEntryType DEF AtStep
  <2>6. hist' \in Hists
    BY <2>2, <2>3, <2>4 DEF Hists
  <2>7. Rest'
    BY <1>4, <2>2, EnteredType DEF EnterStep, Rest
  <2> QED
    BY <2>4, <2>5, <2>6, <2>7
<1>5. CASE InvariantBlocks
  <2>1. rs' \in Runs
    BY <1>5, AfterRunEndType DEF InvariantBlocks, Cursors
  <2>2. cmd' \in Commands /\ AtStep'
    BY <1>5, <1>a DEF InvariantBlocks
  <2> QED
    BY <1>5, <2>1, <2>2 DEF InvariantBlocks, Rest
<1>6. CASE Transition
  <2> DEFINE s == cmd.at.step
             target == ResolveTarget(s, cmd.outcome)
  <2>1. s \in Steps
    BY <1>6 DEF Transition, AtStep
  <2>2. target \in Places /\ (target \notin Steps => target \in Words)
    BY <2>1, TargetType
  <2>3. rs' \in Runs
    <3>1. ViaCatch(s, cmd.outcome) \in BOOLEAN
      BY DEF ViaCatch
    <3> QED
      BY <1>6, <2>1, <2>2, <3>1, AfterTransitionType DEF Transition
  <2>4. cmd' \in Commands /\ AtStep' /\ hist' \in Hists
    <3>1. CASE target \in Steps
      <4>1. cmd' = AtPC("enter", Fresh(target)) /\ Arrive(target)
        BY <1>6, <3>1 DEF Transition
      <4>2. Fresh(target) \in Cursors /\ Fresh(target).step \in Steps
        BY <3>1, CommandType
      <4> QED
        BY <4>1, <4>2, <1>b, ArriveType
    <3>2. CASE target \notin Steps
      <4> DEFINE e == AtPC("end", cmd.at)
      <4>1. cmd' = [e EXCEPT !.outcome = target] /\ hist' = hist
        BY <1>6, <3>2 DEF Transition
      <4>2. e \in Commands /\ e.at = cmd.at
        BY CommandType
      <4> HIDE DEF e
      <4>3. cmd' \in Commands /\ cmd'.at = cmd.at
        BY <2>2, <3>2, <4>1, <4>2 DEF Commands
      <4> QED
        BY <2>1, <4>1, <4>3 DEF AtStep
    <3> QED
      BY <3>1, <3>2
  <2> QED
    BY <1>6, <2>3, <2>4 DEF Transition, Rest
<1>7. CASE End
  <2>1. rs' \in Runs
    <3>1. EndStatus(cmd.outcome) \in {"ok", "blocked"}
      BY TargetType, WorkflowAssumption
    <3> QED
      BY <1>7, <3>1, AfterRunEndType DEF End, Cursors
  <2>2. cmd' \in Commands /\ AtStep'
    BY <1>7, <1>a DEF End
  <2> QED
    BY <1>7, <2>1, <2>2 DEF End, Rest
<1>8. CASE Crash
  <2>1. cmd' \in Commands /\ AtStep'
    BY <1>8, <1>a DEF Crash
  <2> QED
    BY <1>8, <2>1, MaxCrashesAssumption DEF Crash, Rest
<1>9. CASE AbandonLooks
  BY <1>9 DEF AbandonLooks, Rest, AtStep
<1>10. CASE AbandonEnds
  <2>1. rs' \in Runs
    BY <1>10, AfterRunEndType DEF AbandonEnds, Places
  <2> QED
    BY <1>10, <2>1 DEF AbandonEnds, Rest, AtStep
<1>11. CASE RunBody
  <2>1. cmd' \in Commands /\ AtStep'
    BY <1>11 DEF RunBody, Commands, AtStep
  <2> QED
    BY <1>11, <2>1, WorldType DEF RunBody, Rest
<1>12. ASSUME NEW s \in Steps, NEW ok \in BOOLEAN, NEW text \in Errors,
              rs' = AfterPostcondition(rs, s, ok, text)
       PROVE  rs' \in Runs
  BY <1>12, AfterPostconditionType
<1>13. Diagnostic \in Errors /\ NoText \in Errors /\ Texts \subseteq Errors
  BY DEF Errors
<1>14. CASE HardFails
  <2>1. cmd.at.step \in Steps
    BY <1>14 DEF HardFails, Judging, AtStep
  <2>2. rs' \in Runs
    BY <1>14, <2>1, <1>12, <1>13 DEF HardFails
  <2>3. cmd' \in Commands /\ AtStep'
    <3>1. CASE cmd' = [cmd EXCEPT !.pc = "again"]
      BY <2>1, <3>1 DEF Commands, AtStep
    <3>2. CASE cmd' = Resolved(cmd.at, "failure", TRUE)
      BY <2>1, <3>2, <1>c, <1>d
    <3> QED
      BY <1>14, <3>1, <3>2 DEF HardFails
  <2> QED
    BY <1>14, <2>2, <2>3 DEF HardFails, Rest, untouched
<1>15. CASE PrintsFailure \/ ContextUnavailable
  <2>1. cmd.at.step \in Steps
    BY <1>15 DEF PrintsFailure, ContextUnavailable, Judging, AtStep
  <2>2. rs' \in Runs
    BY <1>15, <2>1, <1>12, <1>13 DEF PrintsFailure, ContextUnavailable
  <2>3. cmd' \in Commands /\ AtStep'
    BY <1>15, <2>1, <1>c, <1>d DEF PrintsFailure, ContextUnavailable
  <2> QED
    BY <1>15, <2>2, <2>3 DEF PrintsFailure, ContextUnavailable, Rest, untouched
<1>16. CASE HardRetry
  <2> DEFINE c == [cmd.at EXCEPT !.hard = @ + 1]
  <2>1. c \in Cursors /\ c.step \in Steps
    BY <1>16 DEF HardRetry, AtStep, Cursors
  <2>2. /\ rs' = AfterStepEnter(rs, c, cmd.retry) /\ cmd' = [cmd EXCEPT !.pc = "body", !.at = c]
        /\ hist' = [hist EXCEPT !.entered = c]
    BY <1>16 DEF HardRetry
  <2> HIDE DEF c
  <2>3. rs' \in Runs /\ hist' \in Hists
    BY <2>1, <2>2, AfterStepEnterType, RemembersType
  <2>4. cmd' \in Commands /\ AtStep'
    BY <2>1, <2>2 DEF Commands, AtStep
  <2> QED
    BY <1>16, <2>3, <2>4 DEF HardRetry, Rest, untouched
<1>17. CASE Dispatch
  <2>1. cmd' \in Commands /\ AtStep'
    BY <1>17, <1>a DEF Dispatch
  <2> QED
    BY <1>17, <2>1 DEF Dispatch, Rest, untouched
<1>18. CASE Submit
  <2>1. cmd' \in Commands /\ AtStep'
    BY <1>18, <1>b DEF Submit
  <2> QED
    BY <1>18, <2>1, WorldType DEF Submit, Rest
<1>19. CASE Passes
  <2>1. cmd.at.step \in Steps
    BY <1>19 DEF Passes, Judging, AtStep
  <2>2. rs' \in Runs
    <3>1. CASE rs' = AfterPostcondition(rs, cmd.at.step, TRUE, NoText)
      BY <2>1, <3>1, <1>12, <1>13
    <3>2. CASE rs' = rs
      BY <3>2
    <3> QED
      BY <1>19, <3>1, <3>2 DEF Passes
  <2>3. cmd' \in Commands /\ AtStep'
    BY <1>19, <2>1, <1>c, <1>d DEF Passes
  <2> QED
    BY <1>19, <2>2, <2>3 DEF Passes, Rest, untouched
<1>20. CASE Fails
  <2>1. cmd.at.step \in Steps
    BY <1>20 DEF Fails, Judging, AtStep
  <2>2. PICK text \in Texts :
          /\ rs' = AfterPostcondition(rs, cmd.at.step, FALSE, text)
          /\ cmd' = [cmd EXCEPT !.pc = "failed", !.at.hard = 0,
                     !.at.key = IF Template[cmd.at.step] = {} THEN text ELSE @]
    BY <1>20 DEF Fails
  <2>3. rs' \in Runs
    BY <2>1, <2>2, <1>12, <1>13
  <2> DEFINE key == IF Template[cmd.at.step] = {} THEN text ELSE cmd.at.key
             at == [cmd.at EXCEPT !.hard = 0, !.key = key]
  <2>4. key \in Keys
    BY DEF Keys, Cursors
  <2> HIDE DEF key
  <2>5. at \in Cursors /\ at.step = cmd.at.step
    BY <2>4 DEF Cursors
  <2>6. cmd' = [cmd EXCEPT !.pc = "failed", !.at = at]
    BY <2>2 DEF Commands, key
  <2> HIDE DEF at
  <2>7. cmd' \in Commands /\ AtStep'
    BY <2>1, <2>5, <2>6 DEF Commands, AtStep
  <2> QED
    BY <1>20, <2>3, <2>7 DEF Fails, Rest, untouched
<1>21. CASE FailsCapped \/ FailsFinally
  <2>1. cmd.at.step \in Steps
    BY <1>21 DEF FailsCapped, FailsFinally, AtStep
  <2>2. cmd' \in Commands /\ AtStep'
    BY <1>21, <2>1, <1>c, <1>d DEF FailsCapped, FailsFinally
  <2> QED
    BY <1>21, <2>2 DEF FailsCapped, FailsFinally, Rest, untouched
<1>22. CASE Reenter
  <2> DEFINE n == NextTry(rs, cmd.at)
             c == [cmd.at EXCEPT !.attempt = n]
             e == AfterEntry(c, rs'.attemptLastError)
  <2>1. cmd.at.step \in Steps
    BY <1>22 DEF Reenter, AtStep
  <2>2. n \in Nat
    BY <2>1, NextTryType
  <2>3. /\ rs' = AfterStepEnter(rs, c, TRUE)
        /\ cmd' = [e EXCEPT !.retry = TRUE]
        /\ hist' = [hist EXCEPT !.firstSeen = rs'.attemptLastError, !.entered = c,
                     !.retries = IF @ >= Attempts[c.step] THEN @ ELSE @ + 1]
    BY <1>22 DEF Reenter
  <2>4. c \in Cursors /\ c.step \in Steps
    BY <2>1, <2>2 DEF Cursors
  <2> HIDE DEF n, c
  <2>5. rs' \in Runs
    BY <2>3, <2>4, AfterStepEnterType
  <2>6. rs'.attemptLastError \in Errors
    BY <2>5 DEF Runs, Errors
  <2>7. e \in Commands /\ (e.pc # "idle" => e.at = c)
    BY <2>4, <2>6, AfterEntryType
  <2> HIDE DEF e
  <2>8. cmd' \in Commands /\ AtStep'
    BY <2>3, <2>4, <2>7 DEF Commands, AtStep
  <2>9. hist' \in Hists
    <3> DEFINE retries == IF hist.retries >= Attempts[c.step] THEN hist.retries
                          ELSE hist.retries + 1
    <3>1. retries \in Nat
      BY DEF Hists
    <3>2. hist' = [hist EXCEPT !.firstSeen = rs'.attemptLastError, !.entered = c,
                               !.retries = retries]
      BY <2>3
    <3> HIDE DEF retries
    <3> QED
      BY <2>4, <2>6, <3>1, <3>2 DEF Hists
  <2> QED
    BY <1>22, <2>5, <2>8, <2>9 DEF Reenter, Rest, untouched
<1>23. CASE UNCHANGED runVars
  BY <1>23 DEF runVars, Rest, AtStep
<1> QED
  BY <1>1, <1>2, <1>3, <1>4, <1>5, <1>6, <1>7, <1>8, <1>9, <1>10, <1>11, <1>14, <1>15, <1>16,
     <1>17, <1>18, <1>19, <1>20, <1>21, <1>22, <1>23
     DEF Next, RunStep, LoopStep, BodyStep, Over

\* A run starts within the types.
LEMMA TypesInitially == Init => TInv
<1> SUFFICES ASSUME Init
             PROVE  TInv
  OBVIOUS
<1>1. NewRun \in Runs
  <2>1. NoCursor \in Cursors
    BY DEF NoCursor, Cursors, Places, Keys
  <2> QED
    BY <2>1 DEF NewRun, Runs, Places, Keys, NoText, NoStep
<1>2. Idle \in Commands /\ Idle.pc = "idle"
  BY <1>1, CommandType DEF Idle, Runs
<1>3. hist \in Hists
  <2>1. NoCursor \in Cursors
    BY DEF NoCursor, Cursors, Places, Keys
  <2> QED
    BY <2>1 DEF Init, RunInit, Hists, Errors
<1>4. Rest
  <2>1. age \in [Steps -> [entered : Int, asked : Int]]
    BY DEF Init, RunInit, Never
  <2>2. crashes \in 0..MaxCrashes
    BY MaxCrashesAssumption DEF Init, RunInit
  <2> QED
    BY <2>1, <2>2 DEF Init, RunInit, Rest
<1>5. rs \in Runs /\ cmd \in Commands /\ cmd.pc = "idle"
  BY <1>1, <1>2 DEF Init, RunInit
<1> QED
  BY <1>3, <1>4, <1>5 DEF TInv, TypeOK, AtStep, Hists, Errors, Rest

\* So every state is within the types.
LEMMA TypeInvariant == Spec => []TInv
<1>1. Init => TInv
  BY TypesInitially
<1> QED
  BY <1>1, TypeStep, PTL DEF Spec

\* Every state of a run is of the types of RunState and of the engine's cursor.
THEOREM Types == Spec => []TypeOK
BY TypeInvariant, PTL DEF TInv

-----------------------------------------------------------------------------
(* What an event changes of the fields that the other invariants speak of *)

\* Two states of a run differ at most in what only an entry or an end changes.
Kept(q, r) == /\ q.started = r.started /\ q.ended = r.ended /\ q.endStatus = r.endStatus
              /\ q.blockedStep = r.blockedStep /\ q.visits = r.visits

\* What STEP_ENTER and RESUME have in common makes c the last entry.
LEMMA EnteringFields ==
  ASSUME NEW r \in Runs, NEW c \in Cursors
  PROVE  LET q == Entering(r, c)
         IN  /\ Kept(q, r) /\ q.lastEnter = c /\ q.left = FALSE
             /\ q.inFlight = r.inFlight /\ q.lastTarget = r.lastTarget
             /\ q.resumedInFlight = r.resumedInFlight
<1> DEFINE a == With(r.attempts, c.step, IF c.step \in Steps
                                         THEN With(r.attempts[c.step], c.key, c.attempt) ELSE {})
           k == With(r.lastKey, c.step, c.key)
           p == With(r.postOK, c.step, TRUE)
           x == IF c.hard = 0 THEN r.lastError ELSE r.attemptLastError
           q == [r EXCEPT !.lastEnter = c, !.left = FALSE, !.attempts = a, !.lastKey = k,
                          !.postOK = p, !.attemptLastError = x]
<1>1. q = Entering(r, c)
  BY DEF Entering
<1> HIDE DEF a, k, p, x
<1>2. /\ Kept(q, r) /\ q.lastEnter = c /\ q.left = FALSE
      /\ q.inFlight = r.inFlight /\ q.lastTarget = r.lastTarget
      /\ q.resumedInFlight = r.resumedInFlight
  BY DEF Runs, Kept
<1> QED
  BY <1>1, <1>2, Zenon

\* A RESUME keeps the step in flight unless it is an intervention, and takes
\* back a block.
LEMMA AfterResumeFields ==
  ASSUME NEW r \in Runs, NEW c \in Cursors, NEW intervention \in BOOLEAN
  PROVE  LET q == AfterResume(r, c, intervention)
         IN  /\ q.started = r.started /\ q.visits = r.visits
             /\ q.lastEnter = c /\ q.left = FALSE
             /\ intervention => ~q.inFlight
             /\ ~intervention => q.inFlight = r.inFlight
             /\ ~intervention /\ r.inFlight /\ r.lastEnter.step = c.step
                  => q.resumedInFlight = c.step
             /\ r.endStatus = "blocked" => ~q.ended
             /\ r.endStatus # "blocked" => q.ended = r.ended /\ q.endStatus = r.endStatus
<1> DEFINE e == Entering(r, c)
           resumed == IF ~intervention /\ r.inFlight /\ r.lastEnter.step = c.step
                      THEN c.step ELSE NoStep
           inFlight == IF intervention THEN FALSE ELSE e.inFlight
           ended == IF r.endStatus = "blocked" THEN FALSE ELSE e.ended
           endStatus == IF RunBlocked(r) THEN "" ELSE e.endStatus
           asked == IF intervention THEN {} ELSE e.asked
           q == [e EXCEPT !.resumedInFlight = resumed, !.inFlight = inFlight, !.ended = ended,
                          !.endStatus = endStatus, !.asked = asked]
<1>1. q = AfterResume(r, c, intervention)
  BY DEF AfterResume
<1>2. e \in Runs /\ Kept(e, r) /\ e.lastEnter = c /\ e.left = FALSE /\ e.inFlight = r.inFlight
  BY EnteringType, EnteringFields, Zenon
<1>3. /\ intervention => ~inFlight
      /\ ~intervention => inFlight = r.inFlight
      /\ ~intervention /\ r.inFlight /\ r.lastEnter.step = c.step => resumed = c.step
      /\ r.endStatus = "blocked" => ~ended
      /\ r.endStatus # "blocked" => ended = r.ended /\ endStatus = r.endStatus
  BY <1>2, Zenon DEF Kept, RunBlocked
<1> HIDE DEF e, resumed, inFlight, ended, endStatus, asked
<1>4. /\ q.started = e.started /\ q.visits = e.visits /\ q.lastEnter = e.lastEnter
      /\ q.left = e.left /\ q.inFlight = inFlight /\ q.resumedInFlight = resumed
      /\ q.ended = ended /\ q.endStatus = endStatus
  BY <1>2 DEF Runs
<1> HIDE DEF q
<1>5. /\ q.started = r.started /\ q.visits = r.visits
      /\ q.lastEnter = c /\ q.left = FALSE
      /\ intervention => ~q.inFlight
      /\ ~intervention => q.inFlight = r.inFlight
      /\ ~intervention /\ r.inFlight /\ r.lastEnter.step = c.step
           => q.resumedInFlight = c.step
      /\ r.endStatus = "blocked" => ~q.ended
      /\ r.endStatus # "blocked" => q.ended = r.ended /\ q.endStatus = r.endStatus
  BY <1>2, <1>3, <1>4, Zenon DEF Kept
<1> QED
  BY <1>1, <1>5, Zenon

\* A STEP_ENTER puts its step in flight and counts a visit unless it is a
\* re-entry after a crash, of an attempt or of a try.
LEMMA AfterStepEnterFields ==
  ASSUME NEW r \in Runs, NEW c \in Cursors, c.step \in Steps, NEW retry \in BOOLEAN
  PROVE  LET q == AfterStepEnter(r, c, retry)
             uncounted == r.resumedInFlight = c.step \/ retry \/ c.hard > 0
         IN  /\ q.started = r.started /\ q.ended = r.ended /\ q.endStatus = r.endStatus
             /\ q.left = FALSE /\ q.inFlight = TRUE
             /\ q.visits = IF uncounted THEN r.visits ELSE [r.visits EXCEPT ![c.step] = @ + 1]
<1> DEFINE e == Entering(r, c)
           uncounted == r.resumedInFlight = c.step \/ retry \/ c.hard > 0
           visits == [e.visits EXCEPT ![c.step] = IF uncounted THEN @ ELSE @ + 1]
           resumed == IF e.resumedInFlight = c.step THEN NoStep ELSE e.resumedInFlight
           asked == e.asked \ {c.step}
           q == [e EXCEPT !.visits = visits, !.resumedInFlight = resumed,
                          !.inFlight = TRUE, !.asked = asked]
<1>1. q = AfterStepEnter(r, c, retry)
  BY DEF AfterStepEnter
<1>2. e \in Runs /\ Kept(e, r) /\ e.left = FALSE
  BY EnteringType, EnteringFields, Zenon
<1>3. e.visits = r.visits /\ r.visits \in [Steps -> Nat]
  BY <1>2 DEF Kept, Runs
<1>4. uncounted => visits = r.visits
  BY <1>3
<1>5. ~uncounted => visits = [r.visits EXCEPT ![c.step] = @ + 1]
  BY <1>3
<1> HIDE DEF e, uncounted, visits, resumed, asked
<1>6. /\ q.started = e.started /\ q.ended = e.ended /\ q.endStatus = e.endStatus
      /\ q.left = e.left /\ q.inFlight = TRUE /\ q.visits = visits
  BY <1>2 DEF Runs
<1> HIDE DEF q
<1>7. /\ q.started = r.started /\ q.ended = r.ended /\ q.endStatus = r.endStatus
      /\ q.left = FALSE /\ q.inFlight = TRUE
      /\ q.visits = IF uncounted THEN r.visits ELSE [r.visits EXCEPT ![c.step] = @ + 1]
  BY <1>2, <1>4, <1>5, <1>6, Zenon DEF Kept
<1> QED
  BY <1>1, <1>7, Zenon DEF uncounted

\* A POSTCONDITION does not move the run.
LEMMA AfterPostconditionFields ==
  ASSUME NEW r \in Runs, NEW s \in Steps, NEW ok \in BOOLEAN, NEW text \in Errors
  PROVE  LET q == AfterPostcondition(r, s, ok, text)
         IN  /\ Kept(q, r) /\ q.lastEnter = r.lastEnter /\ q.left = r.left
             /\ q.inFlight = r.inFlight /\ q.lastTarget = r.lastTarget
<1> DEFINE post == [r.postOK EXCEPT ![s] = ok]
           err == IF ok THEN NoText ELSE text
           q == [r EXCEPT !.postOK = post, !.lastError = err]
<1>1. q = AfterPostcondition(r, s, ok, text)
  BY DEF AfterPostcondition
<1> HIDE DEF post, err
<1>2. /\ Kept(q, r) /\ q.lastEnter = r.lastEnter /\ q.left = r.left
      /\ q.inFlight = r.inFlight /\ q.lastTarget = r.lastTarget
  BY DEF Runs, Kept
<1> QED
  BY <1>1, <1>2, Zenon

\* A TRANSITION leaves the step for its target.
LEMMA AfterTransitionFields ==
  ASSUME NEW r \in Runs, NEW s \in Steps, NEW target \in Places, NEW viaCatch \in BOOLEAN
  PROVE  LET q == AfterTransition(r, s, target, viaCatch)
         IN  /\ Kept(q, r) /\ q.left = TRUE /\ q.inFlight = FALSE
             /\ q.resumedInFlight = NoStep /\ q.lastTarget = target
<1> DEFINE budget == IF ~viaCatch /\ r.postOK[s] THEN With(r.attempts[s], r.lastKey[s], 0)
                     ELSE r.attempts[s]
           attempts == [r.attempts EXCEPT ![s] = budget]
           asked == r.asked \ {s}
           q == [r EXCEPT !.left = TRUE, !.inFlight = FALSE, !.resumedInFlight = NoStep,
                          !.lastTarget = target, !.attempts = attempts, !.asked = asked]
<1>1. q = AfterTransition(r, s, target, viaCatch)
  BY DEF AfterTransition
<1> HIDE DEF budget, attempts, asked
<1>2. /\ Kept(q, r) /\ q.left = TRUE /\ q.inFlight = FALSE
      /\ q.resumedInFlight = NoStep /\ q.lastTarget = target
  BY DEF Runs, Kept
<1> QED
  BY <1>1, <1>2, Zenon

\* A RUN_END ends the run where it is.
LEMMA AfterRunEndFields ==
  ASSUME NEW r \in Runs, NEW s \in Places, NEW status \in {"ok", "blocked", "abandoned"}
  PROVE  LET q == AfterRunEnd(r, s, status)
         IN  /\ q.started = r.started /\ q.visits = r.visits /\ q.left = r.left
             /\ q.inFlight = r.inFlight /\ q.ended = TRUE /\ q.endStatus = status
<1> DEFINE blocked == IF status # "blocked" THEN r.blockedStep
                      ELSE IF s # NoStep THEN s ELSE r.lastEnter.step
           q == [r EXCEPT !.ended = TRUE, !.endStatus = status, !.asked = {},
                          !.blockedStep = blocked]
<1>1. q = AfterRunEnd(r, s, status)
  BY DEF AfterRunEnd
<1> HIDE DEF blocked
<1>2. /\ q.started = r.started /\ q.visits = r.visits /\ q.left = r.left
      /\ q.inFlight = r.inFlight /\ q.ended = TRUE /\ q.endStatus = status
  BY DEF Runs
<1> QED
  BY <1>1, <1>2, Zenon

-----------------------------------------------------------------------------
(* What an event changes of the fields that only waits, questions, groups and *)
(* lists look at                                                              *)

\* Two states of a run have the same error, questions and answers.
Heard(q, r) == q.lastError = r.lastError /\ q.asked = r.asked /\ q.answered = r.answered

\* An entry as such asks nothing and sets no error.
LEMMA EnteringHeard ==
  ASSUME NEW r \in Runs, NEW c \in Cursors
  PROVE  Heard(Entering(r, c), r)
<1> DEFINE a == With(r.attempts, c.step, IF c.step \in Steps
                                         THEN With(r.attempts[c.step], c.key, c.attempt) ELSE {})
           k == With(r.lastKey, c.step, c.key)
           p == With(r.postOK, c.step, TRUE)
           x == IF c.hard = 0 THEN r.lastError ELSE r.attemptLastError
           q == [r EXCEPT !.lastEnter = c, !.left = FALSE, !.attempts = a, !.lastKey = k,
                          !.postOK = p, !.attemptLastError = x]
<1>1. q = Entering(r, c)
  BY DEF Entering
<1> HIDE DEF a, k, p, x
<1>2. Heard(q, r)
  BY DEF Runs, Heard
<1> QED
  BY <1>1, <1>2, Zenon

\* A RESUME withdraws the questions when it is an intervention, and notes the
\* step in flight when it is not.
LEMMA AfterResumeHeard ==
  ASSUME NEW r \in Runs, NEW c \in Cursors, NEW intervention \in BOOLEAN
  PROVE  LET q == AfterResume(r, c, intervention)
         IN  /\ q.lastError = r.lastError /\ q.answered = r.answered
             /\ q.asked = IF intervention THEN {} ELSE r.asked
             /\ q.lastTarget = r.lastTarget /\ q.blockedStep = r.blockedStep
             /\ q.resumedInFlight = IF ~intervention /\ r.inFlight /\ r.lastEnter.step = c.step
                                    THEN c.step ELSE NoStep
<1> DEFINE e == Entering(r, c)
           resumed == IF ~intervention /\ r.inFlight /\ r.lastEnter.step = c.step
                      THEN c.step ELSE NoStep
           inFlight == IF intervention THEN FALSE ELSE e.inFlight
           ended == IF r.endStatus = "blocked" THEN FALSE ELSE e.ended
           endStatus == IF RunBlocked(r) THEN "" ELSE e.endStatus
           asked == IF intervention THEN {} ELSE e.asked
           q == [e EXCEPT !.resumedInFlight = resumed, !.inFlight = inFlight, !.ended = ended,
                          !.endStatus = endStatus, !.asked = asked]
<1>1. q = AfterResume(r, c, intervention)
  BY DEF AfterResume
<1>2. e \in Runs /\ Kept(e, r) /\ e.lastTarget = r.lastTarget /\ Heard(e, r)
  BY EnteringType, EnteringFields, EnteringHeard, Zenon
<1>3. asked = IF intervention THEN {} ELSE r.asked
  BY <1>2, Zenon DEF Heard
<1> HIDE DEF e, resumed, inFlight, ended, endStatus, asked
<1>4. /\ q.lastError = e.lastError /\ q.answered = e.answered /\ q.asked = asked
      /\ q.lastTarget = e.lastTarget /\ q.blockedStep = e.blockedStep
      /\ q.resumedInFlight = resumed
  BY <1>2 DEF Runs
<1> HIDE DEF q
<1>5. /\ q.lastError = r.lastError /\ q.answered = r.answered
      /\ q.asked = IF intervention THEN {} ELSE r.asked
      /\ q.lastTarget = r.lastTarget /\ q.blockedStep = r.blockedStep
      /\ q.resumedInFlight = IF ~intervention /\ r.inFlight /\ r.lastEnter.step = c.step
                             THEN c.step ELSE NoStep
  BY <1>2, <1>3, <1>4, Zenon DEF Kept, Heard, resumed
<1> QED
  BY <1>1, <1>5, Zenon

\* A STEP_ENTER withdraws the question of its step.
LEMMA AfterStepEnterHeard ==
  ASSUME NEW r \in Runs, NEW c \in Cursors, c.step \in Steps, NEW retry \in BOOLEAN
  PROVE  LET q == AfterStepEnter(r, c, retry)
         IN  /\ q.lastError = r.lastError /\ q.answered = r.answered
             /\ q.asked = r.asked \ {c.step} /\ q.lastEnter = c
             /\ q.lastTarget = r.lastTarget /\ q.blockedStep = r.blockedStep
             /\ q.resumedInFlight = IF r.resumedInFlight = c.step THEN NoStep
                                    ELSE r.resumedInFlight
<1> DEFINE e == Entering(r, c)
           visits == [e.visits EXCEPT ![c.step] =
                        IF r.resumedInFlight = c.step \/ retry \/ c.hard > 0 THEN @ ELSE @ + 1]
           resumed == IF e.resumedInFlight = c.step THEN NoStep ELSE e.resumedInFlight
           asked == e.asked \ {c.step}
           q == [e EXCEPT !.visits = visits, !.resumedInFlight = resumed,
                          !.inFlight = TRUE, !.asked = asked]
<1>1. q = AfterStepEnter(r, c, retry)
  BY DEF AfterStepEnter
<1>2. /\ e \in Runs /\ Kept(e, r) /\ e.lastTarget = r.lastTarget /\ Heard(e, r)
      /\ e.lastEnter = c /\ e.resumedInFlight = r.resumedInFlight
  BY EnteringType, EnteringFields, EnteringHeard, Zenon
<1>3. /\ asked = r.asked \ {c.step}
      /\ resumed = IF r.resumedInFlight = c.step THEN NoStep ELSE r.resumedInFlight
  BY <1>2, Zenon DEF Heard
<1> HIDE DEF e, visits, resumed, asked
<1>4. /\ q.lastError = e.lastError /\ q.answered = e.answered /\ q.asked = asked
      /\ q.lastTarget = e.lastTarget /\ q.blockedStep = e.blockedStep
      /\ q.resumedInFlight = resumed /\ q.lastEnter = e.lastEnter
  BY <1>2 DEF Runs
<1> HIDE DEF q
<1>5. /\ q.lastError = r.lastError /\ q.answered = r.answered
      /\ q.asked = r.asked \ {c.step} /\ q.lastEnter = c
      /\ q.lastTarget = r.lastTarget /\ q.blockedStep = r.blockedStep
      /\ q.resumedInFlight = IF r.resumedInFlight = c.step THEN NoStep ELSE r.resumedInFlight
  BY <1>2, <1>3, <1>4, Zenon DEF Kept, Heard
<1> QED
  BY <1>1, <1>5, Zenon

\* A POSTCONDITION sets or clears the error.
LEMMA AfterPostconditionHeard ==
  ASSUME NEW r \in Runs, NEW s \in Steps, NEW ok \in BOOLEAN, NEW text \in Errors
  PROVE  LET q == AfterPostcondition(r, s, ok, text)
         IN  /\ q.lastError = (IF ok THEN NoText ELSE text)
             /\ q.asked = r.asked /\ q.answered = r.answered
             /\ q.resumedInFlight = r.resumedInFlight
<1> DEFINE post == [r.postOK EXCEPT ![s] = ok]
           err == IF ok THEN NoText ELSE text
           q == [r EXCEPT !.postOK = post, !.lastError = err]
<1>1. q = AfterPostcondition(r, s, ok, text)
  BY DEF AfterPostcondition
<1> HIDE DEF post, err
<1>2. /\ q.lastError = err /\ q.asked = r.asked /\ q.answered = r.answered
      /\ q.resumedInFlight = r.resumedInFlight
  BY DEF Runs
<1> QED
  BY <1>1, <1>2, Zenon DEF err

\* A TRANSITION keeps the error, and the answer that it is about.
LEMMA AfterTransitionHeard ==
  ASSUME NEW r \in Runs, NEW s \in Steps, NEW target \in Places, NEW viaCatch \in BOOLEAN
  PROVE  LET q == AfterTransition(r, s, target, viaCatch)
         IN  /\ q.lastError = r.lastError /\ q.answered = r.answered
             /\ q.asked = r.asked \ {s} /\ q.lastEnter = r.lastEnter
<1> DEFINE budget == IF ~viaCatch /\ r.postOK[s] THEN With(r.attempts[s], r.lastKey[s], 0)
                     ELSE r.attempts[s]
           attempts == [r.attempts EXCEPT ![s] = budget]
           asked == r.asked \ {s}
           q == [r EXCEPT !.left = TRUE, !.inFlight = FALSE, !.resumedInFlight = NoStep,
                          !.lastTarget = target, !.attempts = attempts, !.asked = asked]
<1>1. q = AfterTransition(r, s, target, viaCatch)
  BY DEF AfterTransition
<1> HIDE DEF budget, attempts, asked
<1>2. /\ q.lastError = r.lastError /\ q.answered = r.answered
      /\ q.asked = asked /\ q.lastEnter = r.lastEnter
  BY DEF Runs
<1> QED
  BY <1>1, <1>2, Zenon DEF asked

\* A RUN_END withdraws every question.
LEMMA AfterRunEndHeard ==
  ASSUME NEW r \in Runs, NEW s \in Places, NEW status \in {"ok", "blocked", "abandoned"}
  PROVE  LET q == AfterRunEnd(r, s, status)
         IN  /\ q.lastError = r.lastError /\ q.answered = r.answered /\ q.asked = {}
             /\ q.lastEnter = r.lastEnter /\ q.lastTarget = r.lastTarget
             /\ q.resumedInFlight = r.resumedInFlight
<1> DEFINE blocked == IF status # "blocked" THEN r.blockedStep
                      ELSE IF s # NoStep THEN s ELSE r.lastEnter.step
           q == [r EXCEPT !.ended = TRUE, !.endStatus = status, !.asked = {},
                          !.blockedStep = blocked]
<1>1. q = AfterRunEnd(r, s, status)
  BY DEF AfterRunEnd
<1> HIDE DEF blocked
<1>2. /\ q.lastError = r.lastError /\ q.answered = r.answered /\ q.asked = {}
      /\ q.lastEnter = r.lastEnter /\ q.lastTarget = r.lastTarget
      /\ q.resumedInFlight = r.resumedInFlight
  BY DEF Runs
<1> QED
  BY <1>1, <1>2, Zenon

-----------------------------------------------------------------------------
(* The inductive invariant *)

\* A step that was entered is not left.  While it is about to be entered again,
\* that is what a crash resume recorded; and only a step that was not entered is
\* left without its invariants being evaluated.
EntryInv ==
  /\ rs.inFlight => ~rs.left
  /\ cmd.pc = "enter" /\ rs.inFlight => rs.resumedInFlight = cmd.at.step
  /\ cmd.pc = "route" /\ ~cmd.gate => ~rs.inFlight

\* There was a way into s that has not become a visit.
Due(s) == rs.visits[s] < hist.arrivals[s]

\* A visit is due wherever the next entry will be counted: where a command is
\* about to enter, and where the journal leaves the cursor when it dies.
VisitInv ==
  /\ VisitsWithinMax
  /\ CrashConsumesNoVisit
  /\ cmd.pc = "enter" /\ rs.resumedInFlight # cmd.at.step => Due(cmd.at.step)
  /\ ~rs.ended /\ ~rs.inFlight => \A s \in Steps : Cursor(rs).step = s => Due(s)

\* No command is under way in a run that is over, and nothing is journaled
\* before RUN_START.
FinalInv ==
  /\ RunTerminal(rs) => cmd = Idle
  /\ cmd # Idle \/ leaving => rs.started
  /\ ~rs.started => rs = NewRun

IInv == TInv /\ EntryInv /\ VisitInv /\ FinalInv

\* The parts of the type invariant that the proofs below use.
LEMMA Parts ==
  ASSUME TInv
  PROVE  /\ rs \in Runs /\ cmd \in Commands /\ hist \in Hists
         /\ cmd.at \in Cursors /\ Cursor(rs) \in Cursors /\ cmd.retry \in BOOLEAN
         /\ cmd.outcome \in Words
         /\ rs.visits \in [Steps -> Nat] /\ hist.arrivals \in [Steps -> Nat]
         /\ cmd # Idle /\ cmd.pc # "idle" => cmd.at.step \in Steps
<1>1. rs \in Runs /\ cmd \in Commands /\ AtStep /\ hist \in Hists
  BY DEF TInv, TypeOK, Hists, Errors
<1>2. cmd.at \in Cursors /\ cmd.retry \in BOOLEAN /\ cmd.outcome \in Words
  BY <1>1 DEF Commands
<1>3. rs.visits \in [Steps -> Nat] /\ hist.arrivals \in [Steps -> Nat]
  BY <1>1 DEF Runs, Hists
<1> QED
  BY <1>1, <1>2, <1>3, CursorType DEF AtStep

\* Where a run that has not ended is.
LEMMA CursorStep ==
  ASSUME NEW r, ~r.ended
  PROVE  Cursor(r).step = IF r.left THEN r.lastTarget ELSE r.lastEnter.step
BY DEF Cursor, RunBlocked

\* A step that leaves the run where it is: at most its errors change.
LEMMA Quiet ==
  ASSUME IInv, rs.started, RunTerminal(rs) => cmd' = Idle,
         Kept(rs', rs), rs'.lastEnter = rs.lastEnter, rs'.lastTarget = rs.lastTarget,
         rs'.left = rs.left, rs'.inFlight = rs.inFlight,
         hist' = hist,
         cmd'.pc # "enter", cmd'.pc = "route" => cmd'.gate \/ ~rs.inFlight
  PROVE  EntryInv' /\ VisitInv' /\ FinalInv'
<1>1. EntryInv'
  BY DEF IInv, EntryInv
<1>2. VisitInv'
  <2>1. \A s \in Steps : ~rs'.ended /\ ~rs'.inFlight /\ Cursor(rs').step = s => Due(s)
    <3> SUFFICES ASSUME NEW s \in Steps, ~rs'.ended, ~rs'.inFlight, Cursor(rs').step = s
                 PROVE  Due(s)
      OBVIOUS
    <3>1. ~rs.ended /\ ~rs.inFlight
      BY DEF Kept
    <3>2. Cursor(rs').step = Cursor(rs).step
      BY <3>1, CursorStep DEF Kept
    <3> QED
      BY <3>1, <3>2 DEF IInv, VisitInv
  <2> QED
    BY <2>1 DEF IInv, VisitInv, Kept, VisitsWithinMax, CrashConsumesNoVisit, Due
<1>3. FinalInv'
  BY DEF IInv, FinalInv, Kept, RunTerminal
<1> QED
  BY <1>1, <1>2, <1>3

\* A step is entered; if that counts as a visit, one was due and left to use.
LEMMA Enters ==
  ASSUME IInv, cmd # Idle, NEW c \in Cursors, c.step \in Steps, NEW retry \in BOOLEAN,
         rs' = AfterStepEnter(rs, c, retry), hist'.arrivals = hist.arrivals,
         \/ rs.resumedInFlight = c.step \/ retry \/ c.hard > 0
         \/ rs.visits[c.step] < MaxVisits[c.step] /\ Due(c.step),
         cmd'.pc \notin {"enter", "route"}
  PROVE  EntryInv' /\ VisitInv' /\ FinalInv'
<1>1. rs \in Runs /\ rs.visits \in [Steps -> Nat] /\ hist.arrivals \in [Steps -> Nat]
  BY Parts DEF IInv
<1> DEFINE uncounted == rs.resumedInFlight = c.step \/ retry \/ c.hard > 0
<1>2. /\ rs'.started = rs.started /\ rs'.ended = rs.ended /\ rs'.endStatus = rs.endStatus
      /\ rs'.left = FALSE /\ rs'.inFlight = TRUE
      /\ rs'.visits = IF uncounted THEN rs.visits ELSE [rs.visits EXCEPT ![c.step] = @ + 1]
  <2> DEFINE q == AfterStepEnter(rs, c, retry)
  <2>1. c.step \in Steps
    OBVIOUS
  <2>2. /\ q.started = rs.started /\ q.ended = rs.ended /\ q.endStatus = rs.endStatus
        /\ q.left = FALSE /\ q.inFlight = TRUE
        /\ q.visits = IF uncounted THEN rs.visits ELSE [rs.visits EXCEPT ![c.step] = @ + 1]
    BY ONLY <1>1, <2>1, AfterStepEnterFields, Zenon
  <2> HIDE DEF q, uncounted
  <2>3. rs' = q
    BY DEF q
  <2> QED
    BY <2>2, <2>3
<1>3. EntryInv'
  BY <1>2 DEF EntryInv
<1>4. VisitsWithinMax' /\ CrashConsumesNoVisit'
  <2>1. CASE rs'.visits = rs.visits
    BY <2>1 DEF IInv, VisitInv, VisitsWithinMax, CrashConsumesNoVisit
  <2>2. CASE /\ rs'.visits = [rs.visits EXCEPT ![c.step] = @ + 1]
             /\ rs.visits[c.step] < MaxVisits[c.step] /\ Due(c.step)
    BY <1>1, <2>2, WorkflowAssumption
       DEF IInv, VisitInv, VisitsWithinMax, CrashConsumesNoVisit, Due
  <2> QED
    BY <1>2, <2>1, <2>2
<1>5. VisitInv'
  BY <1>2, <1>4 DEF VisitInv
<1>6. FinalInv'
  BY <1>2 DEF IInv, FinalInv, RunTerminal
<1> QED
  BY <1>3, <1>5, <1>6

\* The run is ended, and with it the command.
LEMMA RunEnds ==
  ASSUME IInv, rs.started, NEW s \in Places, NEW status \in {"ok", "blocked", "abandoned"},
         rs' = AfterRunEnd(rs, s, status), cmd' = Idle, hist' = hist
  PROVE  EntryInv' /\ VisitInv' /\ FinalInv'
<1>1. rs \in Runs
  BY Parts DEF IInv
<1>2. /\ rs'.started = rs.started /\ rs'.visits = rs.visits /\ rs'.left = rs.left
      /\ rs'.inFlight = rs.inFlight /\ rs'.ended = TRUE
  <2> DEFINE q == AfterRunEnd(rs, s, status)
  <2>1. /\ q.started = rs.started /\ q.visits = rs.visits /\ q.left = rs.left
        /\ q.inFlight = rs.inFlight /\ q.ended = TRUE
    BY ONLY <1>1, AfterRunEndFields, Zenon
  <2> HIDE DEF q
  <2>2. rs' = q
    BY DEF q
  <2> QED
    BY <2>1, <2>2
<1>3. cmd'.pc = "idle"
  BY DEF Idle
<1>4. EntryInv'
  BY <1>2, <1>3 DEF IInv, EntryInv
<1>5. VisitInv'
  BY <1>2, <1>3 DEF IInv, VisitInv, VisitsWithinMax, CrashConsumesNoVisit
<1>6. FinalInv'
  BY <1>2 DEF FinalInv
<1> QED
  BY <1>4, <1>5, <1>6

\* A new way into a step makes a visit due there, unless the step is past its
\* last one, and takes none away.
LEMMA ArriveDue ==
  ASSUME IInv, NEW s, Arrive(s), rs'.visits = rs.visits
  PROVE  /\ VisitsWithinMax' /\ CrashConsumesNoVisit'
         /\ \A x \in Steps : Due(x) => Due(x)'
         /\ s \in Steps => Due(s)'
<1>1. /\ hist \in Hists /\ hist.arrivals \in [Steps -> Nat]
      /\ rs.visits \in [Steps -> Nat] /\ MaxVisits \in [Steps -> Nat \ {0}]
  BY Parts, WorkflowAssumption DEF IInv
<1>2. hist'.arrivals = OneMore(hist.arrivals, s)
  BY <1>1 DEF Arrive, Hists
<1>3. \A x \in Steps : hist'.arrivals[x] = IF x = s /\ hist.arrivals[x] <= MaxVisits[x]
                                           THEN hist.arrivals[x] + 1 ELSE hist.arrivals[x]
  BY <1>2 DEF OneMore
<1>4. \A x \in Steps : rs.visits[x] <= MaxVisits[x] /\ rs.visits[x] <= hist.arrivals[x]
  BY DEF IInv, VisitInv, VisitsWithinMax, CrashConsumesNoVisit
<1> QED
  BY <1>1, <1>3, <1>4 DEF VisitsWithinMax, CrashConsumesNoVisit, Due

\* A command is idle or about to enter where it says so.
LEMMA PCs ==
  /\ Idle.pc = "idle"
  /\ \A c \in Cursors : AtPC("enter", c).pc = "enter" /\ AtPC("enter", c).at = c
<1>1. Idle.pc = "idle"
  BY DEF Idle
<1>2. ASSUME NEW c \in Cursors
      PROVE  AtPC("enter", c).pc = "enter" /\ AtPC("enter", c).at = c
  BY DEF AtPC, Idle
<1> QED
  BY <1>1, <1>2

\* Nothing is in flight before RUN_START.
LEMMA NewRunFields == NewRun.inFlight = FALSE /\ NewRun.ended = FALSE
BY DEF NewRun

\* A resume of a crashed run enters again what was in flight, and an intervention
\* is a new way into the step that was blocked.
LEMMA ResumeStep == IInv /\ Resume => EntryInv' /\ VisitInv' /\ FinalInv'
<1> SUFFICES ASSUME IInv, Resume
             PROVE  EntryInv' /\ VisitInv' /\ FinalInv'
  OBVIOUS
<1> DEFINE intervention == RunBlocked(rs)
           c == [Cursor(rs) EXCEPT !.attempt = IF intervention THEN 1 ELSE @,
                                   !.hard = IF intervention THEN 0 ELSE @]
           q == AfterResume(rs, c, intervention)
<1>1. /\ rs \in Runs /\ Cursor(rs) \in Cursors
      /\ rs.visits \in [Steps -> Nat] /\ hist.arrivals \in [Steps -> Nat]
  BY Parts DEF IInv
<1>2. c \in Cursors /\ c.step = Cursor(rs).step
  BY <1>1 DEF Cursors
<1>3. intervention \in BOOLEAN
  BY DEF RunBlocked
<1>4. /\ rs.started /\ ~RunTerminal(rs) /\ rs' = q
      /\ cmd' = Idle \/ cmd' = AtPC("enter", c)
      /\ cmd' = AtPC("enter", c) => c.step \in Steps
      /\ intervention => Arrive(c.step)
      /\ ~intervention => hist' = hist
      /\ leaving' = leaving
  <2>1. Idle # AtPC("enter", c)
    BY <1>2, PCs
  <2> HIDE DEF c
  <2> QED
    BY <2>1 DEF Resume, c
<1> HIDE DEF c
<1>5. /\ q.started = rs.started /\ q.visits = rs.visits
      /\ q.lastEnter = c /\ q.left = FALSE
      /\ intervention => ~q.inFlight
      /\ ~intervention => q.inFlight = rs.inFlight
      /\ ~intervention /\ rs.inFlight /\ rs.lastEnter.step = c.step
           => q.resumedInFlight = c.step
      /\ rs.endStatus = "blocked" => ~q.ended
      /\ rs.endStatus # "blocked" => q.ended = rs.ended /\ q.endStatus = rs.endStatus
  BY ONLY <1>1, <1>2, <1>3, AfterResumeFields, Zenon
<1>6. ~q.ended
  BY <1>4, <1>5 DEF RunTerminal
<1> HIDE DEF q
<1>7. ~intervention => ~rs.ended
  BY <1>4 DEF RunTerminal, RunBlocked
<1> HIDE DEF intervention
<1>8. cmd'.pc # "idle" => cmd'.pc = "enter" /\ cmd'.at = c
  BY <1>2, <1>4, PCs
<1>9. cmd'.pc # "route"
  BY <1>2, <1>4, PCs
<1>10. ~intervention /\ rs.inFlight => rs.lastEnter.step = c.step
  BY <1>2, <1>7, CursorStep DEF IInv, EntryInv
<1>11. EntryInv'
  BY <1>4, <1>5, <1>8, <1>9, <1>10 DEF EntryInv
<1>12. ~q.inFlight => \A s \in Steps : c.step = s => Due(s)'
  <2>1. CASE intervention
    BY <1>4, <1>5, <2>1, ArriveDue
  <2>2. CASE ~intervention
    BY <1>2, <1>4, <1>5, <1>7, <2>2 DEF IInv, VisitInv, Due
  <2> QED
    BY <2>1, <2>2
<1>13. VisitsWithinMax' /\ CrashConsumesNoVisit'
  <2>1. CASE intervention
    BY <1>4, <1>5, <2>1, ArriveDue
  <2>2. CASE ~intervention
    BY <1>4, <1>5, <2>2 DEF IInv, VisitInv, VisitsWithinMax, CrashConsumesNoVisit
  <2> QED
    BY <2>1, <2>2
<1>14. VisitInv'
  <2>1. cmd'.pc = "enter" /\ rs'.resumedInFlight # cmd'.at.step => Due(cmd.at.step)'
    <3> SUFFICES ASSUME cmd'.pc = "enter", rs'.resumedInFlight # cmd'.at.step
                 PROVE  Due(cmd.at.step)'
      OBVIOUS
    <3>1. cmd'.at = c /\ c.step \in Steps
      BY <1>4, <1>8, PCs
    <3>2. ~q.inFlight
      BY <1>4, <1>5, <1>10, <3>1
    <3> QED
      BY <1>12, <3>1, <3>2 DEF Due
  <2>2. \A s \in Steps : ~rs'.ended /\ ~rs'.inFlight /\ Cursor(rs').step = s => Due(s)'
    BY <1>4, <1>5, <1>12, CursorStep
  <2> QED
    BY <1>13, <2>1, <2>2 DEF VisitInv
<1>15. FinalInv'
  BY <1>4, <1>5, <1>6 DEF FinalInv, RunTerminal
<1> QED
  BY <1>11, <1>14, <1>15

\* A transition to a step is a way into it.
LEMMA TransitionStep == IInv /\ Transition => EntryInv' /\ VisitInv' /\ FinalInv'
<1> SUFFICES ASSUME IInv, Transition
             PROVE  EntryInv' /\ VisitInv' /\ FinalInv'
  OBVIOUS
<1> DEFINE s == cmd.at.step
           target == ResolveTarget(s, cmd.outcome)
           via == ViaCatch(s, cmd.outcome)
           q == AfterTransition(rs, s, target, via)
<1>1. rs \in Runs /\ cmd # Idle /\ s \in Steps
  <2>1. cmd.pc = "route"
    BY DEF Transition
  <2> QED
    BY <2>1, Parts, PCs DEF IInv
<1>2. target \in Places /\ via \in BOOLEAN
  BY <1>1, TargetType DEF ViaCatch
<1>3. /\ rs' = q /\ leaving' = leaving
      /\ target \in Steps => cmd' = AtPC("enter", Fresh(target)) /\ Arrive(target)
      /\ target \notin Steps => cmd' = [AtPC("end", cmd.at) EXCEPT !.outcome = target]
                                /\ hist' = hist
  BY DEF Transition
<1> HIDE DEF s, target, via
<1>4. /\ Kept(q, rs) /\ q.left = TRUE /\ q.inFlight = FALSE
      /\ q.resumedInFlight = NoStep /\ q.lastTarget = target
  BY ONLY <1>1, <1>2, AfterTransitionFields, Zenon
<1> HIDE DEF q
<1>5. target \in Steps => cmd'.pc = "enter" /\ cmd'.at.step = target
  <2>1. ASSUME target \in Steps
        PROVE  Fresh(target) \in Cursors /\ Fresh(target).step = target
    BY <2>1 DEF Fresh, Cursors, Places, Keys
  <2> QED
    BY <1>3, <2>1, PCs
<1>6. target \notin Steps => cmd'.pc = "end"
  <2>1. AtPC("end", cmd.at) \in Commands /\ AtPC("end", cmd.at).pc = "end"
    BY Parts, CommandType DEF IInv
  <2> QED
    BY <1>3, <2>1 DEF Commands
<1>7. EntryInv'
  BY <1>3, <1>4, <1>5, <1>6 DEF EntryInv
<1>8. /\ VisitsWithinMax' /\ CrashConsumesNoVisit'
      /\ \A x \in Steps : x = target => Due(x)'
  <2>1. CASE target \in Steps
    <3> PICK x \in Steps : x = target
      BY <2>1
    <3>1. Arrive(x) /\ rs'.visits = rs.visits
      BY <1>3, <1>4, <2>1 DEF Kept
    <3> QED
      BY <3>1, ArriveDue
  <2>2. CASE target \notin Steps
    BY <1>3, <1>4, <2>2 DEF Kept, IInv, VisitInv, VisitsWithinMax, CrashConsumesNoVisit
  <2> QED
    BY <2>1, <2>2
<1>9. \A x \in Steps : ~rs'.ended /\ Cursor(rs').step = x => Due(x)'
  <2>1. ~rs'.ended => Cursor(rs').step = target
    BY <1>3, <1>4, CursorStep
  <2> QED
    BY <1>8, <2>1
<1>10. VisitInv'
  BY <1>3, <1>5, <1>6, <1>8, <1>9 DEF VisitInv, Due
<1>11. FinalInv'
  BY <1>1, <1>3, <1>4 DEF FinalInv, Kept, RunTerminal, IInv
<1> QED
  BY <1>7, <1>10, <1>11

\* Every step of a run preserves the inductive invariant.
LEMMA InvStep == IInv /\ [Next]_runVars => IInv'
<1> SUFFICES ASSUME IInv, [Next]_runVars
             PROVE  EntryInv' /\ VisitInv' /\ FinalInv'
  BY TypeStep DEF IInv
<1>0. /\ rs \in Runs /\ cmd \in Commands /\ cmd.at \in Cursors /\ cmd.retry \in BOOLEAN
      /\ Cursor(rs) \in Cursors /\ cmd.outcome \in Words
      /\ cmd # Idle => rs.started /\ ~RunTerminal(rs)
      /\ cmd.pc # "idle" => cmd # Idle /\ cmd.at.step \in Steps
  BY Parts, PCs DEF IInv, FinalInv
<1>k. Kept(rs, rs)
  BY DEF Kept
<1>r. ASSUME NEW c \in Cursors, NEW outcome \in Words, NEW gate \in BOOLEAN
      PROVE  /\ Resolved(c, outcome, gate).pc = "route"
             /\ Resolved(c, outcome, gate).gate = gate
  BY DEF Resolved, AtPC, Idle
<1>w. {"failure", "exhausted"} \subseteq Words /\ \A s \in Steps : Emits[s] \subseteq Words
  BY WorkflowAssumption DEF Words, Producible
<1>p. ASSUME cmd # Idle, hist' = hist,
             NEW s \in Steps, NEW ok \in BOOLEAN, NEW text \in Errors,
             rs' = AfterPostcondition(rs, s, ok, text),
             cmd'.pc # "enter", cmd'.pc = "route" => cmd'.gate
      PROVE  EntryInv' /\ VisitInv' /\ FinalInv'
  <2> DEFINE q == AfterPostcondition(rs, s, ok, text)
  <2>1. rs \in Runs
    BY <1>0
  <2>2. /\ Kept(q, rs) /\ q.lastEnter = rs.lastEnter /\ q.left = rs.left
        /\ q.inFlight = rs.inFlight /\ q.lastTarget = rs.lastTarget
    BY ONLY <2>1, AfterPostconditionFields, Zenon
  <2> HIDE DEF q
  <2>3. rs' = q
    BY <1>p DEF q
  <2> QED
    BY <1>0, <1>p, <2>2, <2>3, Quiet
<1>e. Diagnostic \in Errors /\ NoText \in Errors /\ Texts \subseteq Errors
  BY DEF Errors
<1>1. CASE Start
  <2>1. /\ rs = NewRun /\ rs' = [NewRun EXCEPT !.started = TRUE]
        /\ cmd' = AtPC("enter", Fresh(StartStep)) /\ Arrive(StartStep)
    BY <1>1 DEF Start, AfterRunStart, IInv, FinalInv
  <2>2. /\ rs'.visits = rs.visits /\ rs'.started /\ ~rs'.inFlight /\ ~rs'.ended
        /\ Cursor(rs').step = NoStep
    BY <2>1, CursorStep DEF NewRun, NoCursor
  <2>3. Fresh(StartStep) \in Cursors /\ Fresh(StartStep).step = StartStep
    BY WorkflowAssumption DEF Fresh, Cursors, Places, Keys
  <2>4. cmd'.pc = "enter" /\ cmd'.at.step = StartStep
    BY <2>1, <2>3, PCs
  <2>5. VisitsWithinMax' /\ CrashConsumesNoVisit' /\ Due(StartStep)'
    BY <2>1, <2>2, ArriveDue, WorkflowAssumption
  <2>6. EntryInv' /\ FinalInv'
    BY <2>2, <2>4 DEF EntryInv, FinalInv, RunTerminal
  <2>7. VisitInv'
    BY <2>2, <2>4, <2>5, WorkflowAssumption DEF VisitInv, Due
  <2> QED
    BY <2>6, <2>7
<1>2. CASE Resume
  BY <1>2, ResumeStep
<1>3. CASE EnterCapped
  <2>1. /\ cmd.pc = "enter" /\ rs.resumedInFlight # cmd.at.step
        /\ rs' = rs /\ hist' = hist /\ cmd' = Resolved(cmd.at, "exhausted", FALSE)
    BY <1>3 DEF EnterCapped, Capped
  <2>2. cmd'.pc = "route"
    BY <1>0, <1>r, <1>w, <2>1
  <2>3. ~rs.inFlight
    BY <2>1 DEF IInv, EntryInv
  <2> QED
    BY <1>0, <1>k, <2>1, <2>2, <2>3, Quiet
<1>4. CASE EnterStep
  <2>1. PICK c \in BeginAttempt(rs, cmd.at) :
          /\ rs' = AfterStepEnter(rs, c, FALSE)
          /\ cmd' = AfterEntry(c, rs'.attemptLastError)
          /\ hist'.arrivals = hist.arrivals
    BY <1>4, Parts DEF EnterStep, IInv, Hists
  <2>2. cmd # Idle /\ cmd.pc = "enter" /\ cmd.at.step \in Steps
    BY <1>0, <1>4 DEF EnterStep
  <2>3. c \in Cursors /\ c.step = cmd.at.step
    BY <1>0, <2>2, BeginAttemptType
  <2>4. cmd'.pc \notin {"enter", "route"}
    BY <2>1, <2>2, <2>3, WorkflowAssumption DEF AfterEntry, AtPC, Idle, Kinds
  <2>5. \/ rs.resumedInFlight = c.step
        \/ rs.visits[c.step] < MaxVisits[c.step] /\ Due(c.step)
    <3>1. ~Capped(rs, cmd.at.step)
      BY <1>4 DEF EnterStep
    <3>2. rs.visits[c.step] \in Nat /\ MaxVisits[c.step] \in Nat
      BY <2>2, <2>3, Parts, WorkflowAssumption DEF IInv
    <3> QED
      BY <2>2, <2>3, <3>1, <3>2 DEF Capped, IInv, VisitInv
  <2> QED
    BY <2>1, <2>2, <2>3, <2>4, <2>5, Enters
<1>5. CASE InvariantBlocks
  <2>1. cmd.at.step \in Places
    BY <1>0 DEF Cursors
  <2> QED
    BY <1>0, <1>5, <2>1, RunEnds DEF InvariantBlocks
<1>6. CASE Transition
  BY <1>6, TransitionStep
<1>7. CASE End
  <2>1. cmd.at.step \in Places /\ EndStatus(cmd.outcome) \in {"ok", "blocked", "abandoned"}
    BY <1>0, TargetType, WorkflowAssumption DEF Cursors
  <2> QED
    BY <1>0, <1>7, <2>1, RunEnds DEF End
<1>8. CASE Crash
  BY <1>0, <1>8, <1>k, PCs, Quiet DEF Crash
<1>9. CASE AbandonLooks
  BY <1>9 DEF AbandonLooks, IInv, EntryInv, VisitInv, FinalInv, VisitsWithinMax,
              CrashConsumesNoVisit, Due
<1>10. CASE AbandonEnds
  <2>1. NoStep \in Places /\ rs.started /\ cmd' = Idle /\ hist' = hist
    BY <1>10 DEF AbandonEnds, Places, IInv, FinalInv
  <2> QED
    BY <1>10, <2>1, RunEnds DEF AbandonEnds
<1>11. CASE RunBody \/ Dispatch \/ FailsCapped \/ FailsFinally
  <2>1. cmd # Idle /\ rs' = rs /\ hist' = hist
    BY <1>0, <1>11 DEF RunBody, Dispatch, FailsCapped, FailsFinally
  <2>2. cmd'.pc # "enter" /\ (cmd'.pc = "route" => cmd'.gate)
    <3>1. CASE cmd' = [cmd EXCEPT !.pc = "judge"]
      BY <1>0, <3>1 DEF Commands
    <3>2. CASE cmd' = Idle
      BY <3>2, PCs
    <3>3. CASE \E outcome \in {"exhausted", "failure"} : cmd' = Resolved(cmd.at, outcome, TRUE)
      BY <1>0, <1>r, <1>w, <3>3
    <3> QED
      BY <1>11, <3>1, <3>2, <3>3 DEF RunBody, Dispatch, FailsCapped, FailsFinally
  <2> QED
    BY <1>0, <1>k, <2>1, <2>2, Quiet
<1>12. CASE HardFails
  <2>1. cmd # Idle /\ cmd.at.step \in Steps
    BY <1>0, <1>12 DEF HardFails, Judging
  <2>2. cmd'.pc # "enter" /\ (cmd'.pc = "route" => cmd'.gate)
    <3>1. CASE cmd' = [cmd EXCEPT !.pc = "again"]
      BY <1>0, <3>1 DEF Commands
    <3>2. CASE cmd' = Resolved(cmd.at, "failure", TRUE)
      BY <1>0, <1>r, <1>w, <3>2
    <3> QED
      BY <1>12, <3>1, <3>2 DEF HardFails
  <2> QED
    BY <1>12, <1>p, <1>e, <2>1, <2>2 DEF HardFails
<1>13. CASE PrintsFailure \/ ContextUnavailable
  <2>1. cmd # Idle /\ cmd.at.step \in Steps
    BY <1>0, <1>13 DEF PrintsFailure, ContextUnavailable, Judging
  <2>2. cmd'.pc # "enter" /\ (cmd'.pc = "route" => cmd'.gate)
    BY <1>0, <1>13, <1>r, <1>w DEF PrintsFailure, ContextUnavailable
  <2> QED
    BY <1>13, <1>p, <1>e, <2>1, <2>2 DEF PrintsFailure, ContextUnavailable
<1>14. CASE HardRetry
  <2> DEFINE c == [cmd.at EXCEPT !.hard = @ + 1]
  <2>1. /\ rs' = AfterStepEnter(rs, c, cmd.retry) /\ cmd' = [cmd EXCEPT !.pc = "body", !.at = c]
        /\ hist' = [hist EXCEPT !.entered = c] /\ cmd # Idle /\ cmd.at.step \in Steps
    BY <1>0, <1>14 DEF HardRetry
  <2>2. c \in Cursors /\ c.step = cmd.at.step /\ c.hard > 0
    BY <1>0 DEF Cursors
  <2> HIDE DEF c
  <2>3. cmd'.pc \notin {"enter", "route"}
    BY <1>0, <2>1 DEF Commands
  <2> QED
    BY <1>0, <2>1, <2>2, <2>3, Enters
<1>15. CASE Submit
  <2>1. rs' = rs /\ hist' = hist /\ rs.started /\ ~RunTerminal(rs)
        /\ cmd' = AtPC("judge", Cursor(rs))
    BY <1>15 DEF Submit
  <2>2. cmd'.pc = "judge"
    BY <2>1 DEF AtPC, Idle
  <2> QED
    BY <1>k, <2>1, <2>2, Quiet
<1>16. CASE Passes
  <2>1. cmd # Idle /\ cmd.at.step \in Steps /\ hist' = hist
    BY <1>0, <1>16 DEF Passes, Judging
  <2>2. cmd'.pc # "enter" /\ (cmd'.pc = "route" => cmd'.gate)
    BY <1>0, <1>16, <1>r, <1>w, <2>1 DEF Passes
  <2>3. CASE rs' = AfterPostcondition(rs, cmd.at.step, TRUE, NoText)
    BY <1>p, <1>e, <2>1, <2>2, <2>3
  <2>4. CASE rs' = rs
    BY <1>0, <1>k, <2>1, <2>2, <2>4, Quiet
  <2> QED
    BY <1>16, <2>3, <2>4 DEF Passes
<1>17. CASE Fails
  <2>1. cmd # Idle /\ cmd.at.step \in Steps /\ hist' = hist
    BY <1>0, <1>17 DEF Fails, Judging
  <2>2. PICK text \in Texts :
          /\ rs' = AfterPostcondition(rs, cmd.at.step, FALSE, text)
          /\ cmd' = [cmd EXCEPT !.pc = "failed", !.at.hard = 0,
                     !.at.key = IF Template[cmd.at.step] = {} THEN text ELSE @]
    BY <1>17 DEF Fails
  <2>3. cmd'.pc = "failed"
    BY <1>0, <2>2 DEF Commands
  <2> QED
    BY <1>p, <1>e, <2>1, <2>2, <2>3
<1>18. CASE Reenter
  <2> DEFINE c == [cmd.at EXCEPT !.attempt = NextTry(rs, cmd.at)]
             e == AfterEntry(c, rs'.attemptLastError)
  <2>1. /\ rs' = AfterStepEnter(rs, c, TRUE) /\ cmd' = [e EXCEPT !.retry = TRUE]
        /\ hist'.arrivals = hist.arrivals /\ cmd # Idle /\ cmd.at.step \in Steps
    BY <1>0, <1>18, Parts DEF Reenter, IInv, Hists
  <2>2. c \in Cursors /\ c.step = cmd.at.step
    <3>1. NextTry(rs, cmd.at) \in Nat
      BY <1>0, <2>1, NextTryType
    <3> QED
      BY <1>0, <3>1 DEF Cursors
  <2>3. rs'.attemptLastError \in Errors
    <3> HIDE DEF c, e
    <3>1. rs' \in Runs
      BY <1>0, <2>1, <2>2, AfterStepEnterType
    <3> QED
      BY <3>1 DEF Runs, Errors
  <2> HIDE DEF c
  <2>4. e \in Commands /\ e.pc \notin {"enter", "route"}
    <3>1. e \in Commands
      BY <2>1, <2>2, <2>3, AfterEntryType
    <3>2. e.pc \notin {"enter", "route"}
      BY <2>1, <2>2, WorkflowAssumption DEF AfterEntry, AtPC, Idle, Kinds
    <3> QED
      BY <3>1, <3>2
  <2> HIDE DEF e
  <2>5. cmd'.pc \notin {"enter", "route"}
    BY <2>1, <2>4 DEF Commands
  <2> QED
    BY <2>1, <2>2, <2>5, Enters
<1>19. CASE UNCHANGED runVars
  BY <1>19 DEF runVars, IInv, EntryInv, VisitInv, FinalInv, VisitsWithinMax,
               CrashConsumesNoVisit, Due
<1> QED
  BY <1>1, <1>2, <1>3, <1>4, <1>5, <1>6, <1>7, <1>8, <1>9, <1>10, <1>11, <1>12, <1>13,
     <1>14, <1>15, <1>16, <1>17, <1>18, <1>19
     DEF Next, RunStep, LoopStep, BodyStep, Over

\* A run begins in the invariant.
LEMMA Initially == Init => IInv
<1> SUFFICES ASSUME Init, TInv
             PROVE  EntryInv /\ VisitInv /\ FinalInv
  BY TypesInitially DEF IInv
<1>1. rs = NewRun /\ cmd = Idle /\ leaving = FALSE /\ hist.arrivals = [s \in Steps |-> 0]
  BY DEF Init, RunInit
<1>2. Cursor(rs).step = NoStep /\ ~rs.inFlight /\ ~rs.ended /\ rs.visits = [s \in Steps |-> 0]
  BY <1>1 DEF Cursor, RunBlocked, NewRun, NoCursor
<1>3. EntryInv /\ FinalInv
  BY <1>1, <1>2, PCs DEF EntryInv, FinalInv, RunTerminal
<1>4. VisitInv
  BY <1>1, <1>2, PCs, WorkflowAssumption
     DEF VisitInv, VisitsWithinMax, CrashConsumesNoVisit, Due
<1> QED
  BY <1>3, <1>4


\* So it holds in every state.
LEMMA Invariance == Spec => []IInv
BY Initially, InvStep, PTL DEF Spec

-----------------------------------------------------------------------------
(* What follows *)

\* No step is entered more often than max_visits:, however many commands die,
\* resume and intervene.
THEOREM VisitsBounded == Spec => []VisitsWithinMax
BY Invariance, PTL DEF IInv, VisitInv

\* No crash makes a step look visited more often than the run had ways into it.
THEOREM CrashesFree == Spec => []CrashConsumesNoVisit
BY Invariance, PTL DEF IInv, VisitInv

\* After the event that ends a run, nothing is journaled but by an abandon that
\* had looked before.
THEOREM Final == Spec => FinalButForAbandon
<1>1. IInv /\ [Next]_runVars => [RunTerminal(rs) /\ rs' # rs => leaving /\ ~leaving']_runVars
  <2> SUFFICES ASSUME IInv, [Next]_runVars, RunTerminal(rs), rs' # rs
               PROVE  leaving /\ ~leaving'
    OBVIOUS
  <2>1. cmd = Idle /\ cmd.pc = "idle" /\ rs.started
    BY PCs, NewRunFields DEF IInv, FinalInv, RunTerminal
  <2>2. ~LoopStep
    BY <2>1 DEF LoopStep, EnterCapped, EnterStep, InvariantBlocks, Transition, End
  <2>3. ~BodyStep
    BY <2>1 DEF BodyStep, RunBody, HardFails, PrintsFailure, HardRetry, Dispatch,
                ContextUnavailable, Passes, Fails, FailsCapped, FailsFinally, Reenter, Judging
  <2>4. AbandonEnds
    BY <2>1, <2>2, <2>3 DEF Next, RunStep, Start, Resume, Crash, AbandonLooks, Submit, Over, runVars
  <2> QED
    BY <2>4 DEF AbandonEnds
<1> QED
  BY <1>1, Invariance, PTL DEF Spec, FinalButForAbandon

\* A step that was entered is left for its target only while the invariants hold.
THEOREM Gated == Spec => GatedTransitions
<1>1. IInv /\ [Next]_runVars => [rs.inFlight /\ ~rs'.inFlight /\ rs'.left => holds]_runVars
  <2> SUFFICES ASSUME IInv, [Next]_runVars, rs.inFlight, ~rs'.inFlight, rs'.left
               PROVE  holds
    OBVIOUS
  <2>0. rs \in Runs /\ cmd.at \in Cursors /\ Cursor(rs) \in Cursors /\ cmd.retry \in BOOLEAN
        /\ (cmd.pc # "idle" => cmd.at.step \in Steps) /\ ~rs.left
    BY Parts, PCs DEF IInv, EntryInv
  <2>1. CASE Transition
    BY <2>1 DEF Transition, IInv, EntryInv
  <2>2. CASE Resume
    <3> DEFINE intervention == RunBlocked(rs)
               c == [Cursor(rs) EXCEPT !.attempt = IF intervention THEN 1 ELSE @,
                                       !.hard = IF intervention THEN 0 ELSE @]
               q == AfterResume(rs, c, intervention)
    <3>1. c \in Cursors /\ intervention \in BOOLEAN
      BY <2>0 DEF Cursors, RunBlocked
    <3>2. rs' = q
      BY <2>2 DEF Resume
    <3> HIDE DEF c, intervention
    <3>3. q.left = FALSE
      BY ONLY <2>0, <3>1, AfterResumeFields, Zenon
    <3> HIDE DEF q
    <3> QED
      BY <3>2, <3>3
  <2>3. ASSUME NEW c \in Cursors, c.step \in Steps, NEW retry \in BOOLEAN,
               rs' = AfterStepEnter(rs, c, retry)
        PROVE  FALSE
    <3> DEFINE q == AfterStepEnter(rs, c, retry)
    <3>1. c.step \in Steps
      BY <2>3
    <3>2. q.inFlight = TRUE
      BY ONLY <2>0, <3>1, AfterStepEnterFields, Zenon
    <3> HIDE DEF q
    <3>3. rs' = q
      BY <2>3 DEF q
    <3> QED
      BY <3>2, <3>3
  <2>4. CASE EnterStep
    <3>1. PICK c \in BeginAttempt(rs, cmd.at) : rs' = AfterStepEnter(rs, c, FALSE)
      BY <2>4 DEF EnterStep
    <3>2. cmd.at.step \in Steps
      BY <2>0, <2>4 DEF EnterStep
    <3>3. c \in Cursors /\ c.step = cmd.at.step
      BY <2>0, <3>2, BeginAttemptType
    <3> QED
      BY <2>3, <3>1, <3>2, <3>3
  <2>5. CASE HardRetry
    <3> DEFINE c == [cmd.at EXCEPT !.hard = @ + 1]
    <3>1. c \in Cursors /\ c.step \in Steps
      BY <2>0, <2>5 DEF HardRetry, Cursors
    <3>2. rs' = AfterStepEnter(rs, c, cmd.retry)
      BY <2>5 DEF HardRetry
    <3> HIDE DEF c
    <3> QED
      BY <2>0, <2>3, <3>1, <3>2
  <2>6. CASE Reenter
    <3>1. rs' = AfterStepEnter(rs, [cmd.at EXCEPT !.attempt = NextTry(rs, cmd.at)], TRUE)
      BY <2>6 DEF Reenter
    <3>2. cmd.at.step \in Steps
      BY <2>0, <2>6 DEF Reenter
    <3>3. NextTry(rs, cmd.at) \in Nat
      BY <2>0, <3>2, NextTryType
    <3>4. [cmd.at EXCEPT !.attempt = NextTry(rs, cmd.at)] \in Cursors
      BY <2>0, <3>3 DEF Cursors
    <3>5. [cmd.at EXCEPT !.attempt = NextTry(rs, cmd.at)].step = cmd.at.step
      BY <2>0 DEF Cursors
    <3> QED
      BY <2>3, <3>1, <3>2, <3>4, <3>5
  <2>7. ASSUME NEW s \in Places, NEW status \in {"ok", "blocked", "abandoned"},
               rs' = AfterRunEnd(rs, s, status)
        PROVE  FALSE
    <3> DEFINE q == AfterRunEnd(rs, s, status)
    <3>1. q.inFlight = rs.inFlight
      BY ONLY <2>0, AfterRunEndFields, Zenon
    <3> HIDE DEF q
    <3>2. rs' = q
      BY <2>7 DEF q
    <3> QED
      BY <3>1, <3>2
  <2>8. CASE InvariantBlocks \/ End \/ AbandonEnds
    <3>1. cmd.at.step \in Places /\ NoStep \in Places
          /\ EndStatus(cmd.outcome) \in {"ok", "blocked", "abandoned"}
      BY <2>0, TargetType, WorkflowAssumption DEF Cursors, Places
    <3> QED
      BY <2>7, <2>8, <3>1 DEF InvariantBlocks, End, AbandonEnds
  <2>9. ASSUME NEW s \in Steps, NEW ok \in BOOLEAN, NEW text \in Errors,
               rs' = AfterPostcondition(rs, s, ok, text)
        PROVE  FALSE
    <3> DEFINE q == AfterPostcondition(rs, s, ok, text)
    <3>1. q.inFlight = rs.inFlight
      BY ONLY <2>0, AfterPostconditionFields, Zenon
    <3> HIDE DEF q
    <3>2. rs' = q
      BY <2>9 DEF q
    <3> QED
      BY <3>1, <3>2
  <2>10. CASE HardFails \/ PrintsFailure \/ ContextUnavailable \/ Passes \/ Fails
    <3>1. cmd.at.step \in Steps
      BY <2>0, <2>10 DEF HardFails, PrintsFailure, ContextUnavailable, Passes, Fails, Judging
    <3>2. Diagnostic \in Errors /\ NoText \in Errors /\ Texts \subseteq Errors
      BY DEF Errors
    <3>3. \/ rs' = rs
          \/ \E ok \in BOOLEAN, text \in Errors :
               rs' = AfterPostcondition(rs, cmd.at.step, ok, text)
      BY <2>10, <3>2 DEF HardFails, PrintsFailure, ContextUnavailable, Passes, Fails
    <3> QED
      BY <2>9, <3>1, <3>3
  <2>11. CASE Start
    <3>1. rs.inFlight = FALSE
      BY <2>11, NewRunFields DEF Start, IInv, FinalInv
    <3> QED
      BY <3>1
  <2>12. CASE rs' = rs
    BY <2>12
  <2> QED
    BY <2>1, <2>2, <2>4, <2>5, <2>6, <2>8, <2>10, <2>11, <2>12
       DEF Next, RunStep, LoopStep, BodyStep, Over, EnterCapped, Crash, AbandonLooks, RunBody,
           Dispatch, Submit, FailsCapped, FailsFinally, runVars
<1> QED
  BY <1>1, Invariance, PTL DEF Spec, GatedTransitions

-----------------------------------------------------------------------------
(* What each action does, for the modules that add steps to these *)

\* Two states of a run differ at most in its counters and its errors.
Same(q, r) ==
  /\ q.ended = r.ended /\ q.endStatus = r.endStatus /\ q.blockedStep = r.blockedStep
  /\ q.left = r.left /\ q.inFlight = r.inFlight /\ q.resumedInFlight = r.resumedInFlight
  /\ q.lastEnter = r.lastEnter /\ q.lastTarget = r.lastTarget
  /\ q.asked = r.asked /\ q.answered = r.answered

\* q is r after a STEP_ENTER at c.
EnteredAt(q, r, c) ==
  /\ q.ended = r.ended /\ q.endStatus = r.endStatus /\ q.blockedStep = r.blockedStep
  /\ q.left = FALSE /\ q.inFlight = TRUE /\ q.lastEnter = c /\ q.lastTarget = r.lastTarget
  /\ q.resumedInFlight = (IF r.resumedInFlight = c.step THEN NoStep ELSE r.resumedInFlight)
  /\ q.asked = r.asked \ {c.step} /\ q.answered = r.answered
  /\ q.lastError = r.lastError

\* d is the command that has entered c.
Begun(d, c) ==
  /\ d.pc = (CASE Kind[c.step] = "deterministic" -> "body"
               [] Kind[c.step] = "agentic" -> "dispatch"
               [] Kind[c.step] = "human" -> "ask"
               [] Kind[c.step] = "parallel" -> "fan"
               [] Kind[c.step] = "wait" -> "idle")
  /\ d.pc # "idle" => d.at = c

\* q is r after a crash resume or an intervention at c.
ResumedAt(q, r, c) ==
  /\ ~q.ended /\ q.blockedStep = r.blockedStep
  /\ q.left = FALSE /\ q.inFlight = (~RunBlocked(r) /\ r.inFlight)
  /\ q.resumedInFlight = (IF q.inFlight THEN c.step ELSE NoStep)
  /\ q.lastEnter = c /\ q.lastTarget = r.lastTarget
  /\ q.asked = (IF RunBlocked(r) THEN {} ELSE r.asked) /\ q.answered = r.answered
  /\ q.lastError = r.lastError
  /\ q.inFlight => c.step = r.lastEnter.step /\ ~r.ended

\* The events have a step, and a step that is under way is not over.
LEMMA SameCursor ==
  ASSUME NEW q, NEW r, Same(q, r)
  PROVE  Cursor(q).step = Cursor(r).step
<1>1. CASE RunBlocked(r)
  <2> DEFINE s == IF r.blockedStep # NoStep THEN r.blockedStep ELSE r.lastEnter.step
  <2>1. Cursor(r).step = s
    BY <1>1 DEF Cursor, NoCursor
  <2>2. Cursor(q).step = s
    BY <1>1 DEF Cursor, NoCursor, Same, RunBlocked
  <2> QED
    BY <2>1, <2>2
<1>2. CASE ~RunBlocked(r)
  BY <1>2 DEF Cursor, Same, RunBlocked
<1> QED
  BY <1>1, <1>2

\* The command that has entered a step does what its kind: says.
LEMMA BegunType ==
  ASSUME NEW c \in Cursors, c.step \in Steps, NEW seen \in Errors
  PROVE  Begun(AfterEntry(c, seen), c) /\ Begun([AfterEntry(c, seen) EXCEPT !.retry = TRUE], c)
<1> DEFINE e == AfterEntry(c, seen)
<1>1. e \in Commands /\ (e.pc # "idle" => e.at = c)
  BY AfterEntryType, Zenon
<1>2. Kind[c.step] \in {"deterministic", "agentic", "human", "wait", "parallel"}
  BY WorkflowAssumption DEF Kinds
<1>3. e.pc = (CASE Kind[c.step] = "deterministic" -> "body"
                [] Kind[c.step] = "agentic" -> "dispatch"
                [] Kind[c.step] = "human" -> "ask"
                [] Kind[c.step] = "parallel" -> "fan"
                [] Kind[c.step] = "wait" -> "idle")
  <2>1. CASE Kind[c.step] = "deterministic"
    BY <2>1 DEF AfterEntry, AtPC, Idle
  <2>2. CASE Kind[c.step] = "agentic"
    BY <2>2 DEF AfterEntry, AtPC, Idle
  <2>3. CASE Kind[c.step] = "human"
    BY <2>3 DEF AfterEntry, AtPC, Idle
  <2>4. CASE Kind[c.step] = "parallel"
    BY <2>4 DEF AfterEntry, AtPC, Idle
  <2>5. CASE Kind[c.step] = "wait"
    BY <2>5 DEF AfterEntry, AtPC, Idle
  <2> QED
    BY <1>2, <2>1, <2>2, <2>3, <2>4, <2>5
<1> HIDE DEF e
<1>4. [e EXCEPT !.retry = TRUE].pc = e.pc /\ [e EXCEPT !.retry = TRUE].at = e.at
  BY <1>1 DEF Commands
<1> QED
  BY <1>1, <1>3, <1>4, Zenon DEF Begun, e

\* What the lemmas below use of the invariant.
LEMMA Known ==
  ASSUME IInv
  PROVE  /\ rs \in Runs /\ cmd \in Commands /\ cmd.at \in Cursors /\ Cursor(rs) \in Cursors
         /\ cmd.retry \in BOOLEAN /\ cmd.outcome \in Words
         /\ cmd.pc # "idle" => cmd # Idle /\ cmd.at.step \in Steps
         /\ cmd # Idle => rs.started /\ ~RunTerminal(rs)
BY Parts, PCs DEF IInv, FinalInv

\* RUN_START changes nothing of a run that has done nothing.
LEMMA StartFacts ==
  ASSUME IInv, Start
  PROVE  /\ cmd = Idle /\ rs = NewRun /\ Same(rs', rs) /\ rs'.lastError = rs.lastError
         /\ cmd'.pc = "enter" /\ cmd'.at = Fresh(StartStep) /\ cmd'.at.step = StartStep
<1>1. cmd = Idle /\ ~rs.started /\ rs = NewRun /\ rs \in Runs
  BY Parts DEF Start, IInv, FinalInv
<1>2. Same(rs', rs) /\ rs'.lastError = rs.lastError
  BY <1>1 DEF Start, AfterRunStart, Same, Runs
<1>3. Fresh(StartStep) \in Cursors /\ Fresh(StartStep).step = StartStep
  BY WorkflowAssumption, CommandType, <1>1 DEF Runs
<1> QED
  BY <1>1, <1>2, <1>3, PCs DEF Start

\* A resume puts the last entry where the cursor was, and unless the run was
\* blocked leaves in flight what is there.
LEMMA ResumeFacts ==
  ASSUME IInv, Resume
  PROVE  \E c \in Cursors :
           /\ c.step = Cursor(rs).step /\ ResumedAt(rs', rs, c)
           /\ \/ cmd' = Idle
              \/ /\ c.step \in Steps /\ cmd'.pc = "enter" /\ cmd'.at = c
                 /\ rs'.inFlight => /\ Kind[c.step] # "wait"
                                    /\ Kind[c.step] = "human" => c.step \notin rs'.asked
<1> DEFINE intervention == RunBlocked(rs)
<1>0. /\ rs \in Runs /\ Cursor(rs) \in Cursors /\ rs.started /\ ~RunTerminal(rs)
      /\ intervention \in BOOLEAN /\ rs.inFlight \in BOOLEAN
  BY Parts DEF Resume, IInv, RunBlocked, Runs
<1>a. rs \in Runs
  BY <1>0
<1>b. intervention \in BOOLEAN
  BY <1>0
<1>1. PICK c : c = [Cursor(rs) EXCEPT !.attempt = IF intervention THEN 1 ELSE @,
                                      !.hard = IF intervention THEN 0 ELSE @]
  OBVIOUS
<1>2. c \in Cursors /\ c.step = Cursor(rs).step
  BY <1>0, <1>1 DEF Cursors
<1>3. PICK r : r = AfterResume(rs, c, intervention)
  OBVIOUS
<1>4. /\ rs' = r
      /\ cmd' = IF c.step \notin Steps \/ (~intervention /\ StaysParked(r, c.step))
                THEN Idle ELSE AtPC("enter", c)
  BY <1>1, <1>3 DEF Resume
<1>5. /\ r.lastEnter = c /\ r.left = FALSE
      /\ r.inFlight = (~intervention /\ rs.inFlight)
      /\ rs.endStatus = "blocked" => ~r.ended
      /\ rs.endStatus # "blocked" => r.ended = rs.ended
      /\ r.inFlight \in BOOLEAN
  <2>1. r \in Runs
    BY <1>0, <1>2, <1>3, AfterResumeType
  <2> DEFINE q == AfterResume(rs, c, intervention)
  <2>2. /\ q.started = rs.started /\ q.visits = rs.visits
        /\ q.lastEnter = c /\ q.left = FALSE
        /\ intervention => ~q.inFlight
        /\ ~intervention => q.inFlight = rs.inFlight
        /\ ~intervention /\ rs.inFlight /\ rs.lastEnter.step = c.step
             => q.resumedInFlight = c.step
        /\ rs.endStatus = "blocked" => ~q.ended
        /\ rs.endStatus # "blocked" => q.ended = rs.ended /\ q.endStatus = rs.endStatus
    BY ONLY <1>a, <1>b, <1>2, AfterResumeFields, Zenon
  <2> HIDE DEF q
  <2>3. r.inFlight \in BOOLEAN
    BY <2>1 DEF Runs
  <2>4. r = q
    BY <1>3 DEF q
  <2> QED
    BY <1>0, <2>2, <2>3, <2>4
<1>6. /\ r.lastError = rs.lastError /\ r.answered = rs.answered
      /\ r.asked = IF intervention THEN {} ELSE rs.asked
      /\ r.lastTarget = rs.lastTarget /\ r.blockedStep = rs.blockedStep
      /\ r.resumedInFlight = IF ~intervention /\ rs.inFlight /\ rs.lastEnter.step = c.step
                             THEN c.step ELSE NoStep
  BY <1>0, <1>2, <1>3, AfterResumeHeard
<1>7. r.inFlight => c.step = rs.lastEnter.step /\ ~rs.ended
  <2>1. ASSUME r.inFlight
        PROVE  ~rs.ended /\ ~rs.left
    BY <1>0, <1>5, <2>1 DEF RunBlocked, RunTerminal, IInv, EntryInv
  <2> QED
    BY <2>1, <1>2, CursorStep
<1>8. ~r.ended
  BY <1>0, <1>5 DEF RunTerminal
<1>9. ResumedAt(r, rs, c)
  BY <1>5, <1>6, <1>7, <1>8, Zenon DEF ResumedAt
<1>10. \/ cmd' = Idle
       \/ /\ c.step \in Steps /\ cmd'.pc = "enter" /\ cmd'.at = c
          /\ r.inFlight => /\ Kind[c.step] # "wait"
                           /\ Kind[c.step] = "human" => c.step \notin r.asked
  <2>1. CASE c.step \notin Steps \/ (~intervention /\ StaysParked(r, c.step))
    BY <1>4, <2>1
  <2>2. CASE ~(c.step \notin Steps \/ (~intervention /\ StaysParked(r, c.step)))
    <3>1. cmd'.pc = "enter" /\ cmd'.at = c
      BY <1>2, <1>4, <2>2, PCs
    <3>2. r.inFlight => r.resumedInFlight = c.step /\ ~intervention
      BY <1>5, <1>6, <1>7
    <3> QED
      BY <2>2, <3>1, <3>2 DEF StaysParked
  <2> QED
    BY <2>1, <2>2
<1> QED
  BY <1>2, <1>4, <1>9, <1>10

\* A STEP_ENTER, in the terms above.
LEMMA EnteredAtFields ==
  ASSUME NEW r \in Runs, NEW c \in Cursors, c.step \in Steps, NEW retry \in BOOLEAN
  PROVE  EnteredAt(AfterStepEnter(r, c, retry), r, c)
<1> DEFINE q == AfterStepEnter(r, c, retry)
<1>1. /\ q.ended = r.ended /\ q.endStatus = r.endStatus /\ q.left = FALSE /\ q.inFlight = TRUE
  BY AfterStepEnterFields, Zenon
<1>2. /\ q.lastError = r.lastError /\ q.answered = r.answered
      /\ q.asked = r.asked \ {c.step} /\ q.lastEnter = c
      /\ q.lastTarget = r.lastTarget /\ q.blockedStep = r.blockedStep
      /\ q.resumedInFlight = IF r.resumedInFlight = c.step THEN NoStep ELSE r.resumedInFlight
  BY AfterStepEnterHeard
<1> HIDE DEF q
<1> QED
  BY <1>1, <1>2, Zenon DEF EnteredAt, q

\* EnterStep enters the step the command is at.
LEMMA EnterStepFacts ==
  ASSUME IInv, EnterStep
  PROVE  \E c \in Cursors : /\ c.step = cmd.at.step /\ c.step \in Steps
                            /\ EnteredAt(rs', rs, c) /\ Begun(cmd', c)
<1>0. rs \in Runs /\ cmd.at \in Cursors /\ cmd.at.step \in Steps /\ FALSE \in BOOLEAN
  BY Known DEF EnterStep
<1>1. PICK c \in BeginAttempt(rs, cmd.at) :
        /\ rs' = AfterStepEnter(rs, c, FALSE)
        /\ cmd' = AfterEntry(c, AfterStepEnter(rs, c, FALSE).attemptLastError)
  BY DEF EnterStep
<1>2. c \in Cursors /\ c.step = cmd.at.step
  BY <1>0, BeginAttemptType
<1>3. EnteredAt(rs', rs, c)
  BY <1>0, <1>1, <1>2, EnteredAtFields
<1>4. AfterStepEnter(rs, c, FALSE).attemptLastError \in Errors
  <2>1. AfterStepEnter(rs, c, FALSE) \in Runs
    BY <1>0, <1>2, AfterStepEnterType
  <2> QED
    BY <2>1 DEF Runs, Errors
<1>5. Begun(cmd', c)
  BY <1>0, <1>1, <1>2, <1>4, BegunType
<1> QED
  BY <1>0, <1>2, <1>3, <1>5

\* Another try or another attempt enters the step again.
LEMMA ReentryFacts ==
  ASSUME IInv, HardRetry \/ Reenter
  PROVE  \E c \in Cursors :
           /\ c.step = cmd.at.step /\ c.step \in Steps /\ EnteredAt(rs', rs, c)
           /\ HardRetry => cmd'.pc = "body" /\ cmd'.at = c
           /\ Reenter => Begun(cmd', c)
<1>0. /\ rs \in Runs /\ cmd \in Commands /\ cmd.at \in Cursors /\ cmd.at.step \in Steps
      /\ cmd.retry \in BOOLEAN
  BY Known DEF HardRetry, Reenter
<1>1. CASE HardRetry
  <2>1. PICK c : c = [cmd.at EXCEPT !.hard = @ + 1]
    OBVIOUS
  <2>2. c \in Cursors /\ c.step = cmd.at.step
    BY <1>0, <2>1 DEF Cursors
  <2>3. rs' = AfterStepEnter(rs, c, cmd.retry) /\ cmd' = [cmd EXCEPT !.pc = "body", !.at = c]
    BY <1>1, <2>1, Zenon DEF HardRetry
  <2>4. cmd'.pc = "body" /\ cmd'.at = c
    BY <1>0, <2>3 DEF Commands
  <2>5. EnteredAt(rs', rs, c)
    BY <1>0, <2>2, <2>3, EnteredAtFields
  <2>6. ~Reenter
    BY <1>1 DEF HardRetry, Reenter
  <2> QED
    BY <1>0, <2>2, <2>4, <2>5, <2>6
<1>2. CASE Reenter
  <2>1. PICK c : c = [cmd.at EXCEPT !.attempt = NextTry(rs, cmd.at)]
    OBVIOUS
  <2>2. c \in Cursors /\ c.step = cmd.at.step
    <3>1. NextTry(rs, cmd.at) \in Nat
      BY <1>0, NextTryType
    <3> QED
      BY <1>0, <2>1, <3>1 DEF Cursors
  <2>3. PICK r : r = AfterStepEnter(rs, c, TRUE)
    OBVIOUS
  <2>4. rs' = r /\ cmd' = [AfterEntry(c, r.attemptLastError) EXCEPT !.retry = TRUE]
    BY <1>2, <2>1, <2>3, Zenon DEF Reenter
  <2>5. EnteredAt(rs', rs, c)
    BY <1>0, <2>2, <2>3, <2>4, EnteredAtFields
  <2>6. r.attemptLastError \in Errors
    <3>1. r \in Runs
      BY <1>0, <2>2, <2>3, AfterStepEnterType
    <3> QED
      BY <3>1 DEF Runs, Errors
  <2>7. Begun(cmd', c)
    BY <1>0, <2>2, <2>4, <2>6, BegunType
  <2>8. ~HardRetry
    BY <1>2 DEF HardRetry, Reenter
  <2> QED
    BY <1>0, <2>2, <2>5, <2>7, <2>8
<1> QED
  BY <1>1, <1>2

\* What judges an attempt changes its verdict and its error and nothing else.
LEMMA JudgedFacts ==
  ASSUME IInv, HardFails \/ PrintsFailure \/ ContextUnavailable \/ Passes \/ Fails
  PROVE  /\ cmd.pc \in {"judge", "dispatch"} /\ Same(rs', rs) /\ cmd'.at.step = cmd.at.step
         /\ cmd.pc = "judge" => Kind[cmd.at.step] \in {"deterministic", "agentic"}
         /\ cmd'.pc \in {"again", "failed", "route"}
         /\ cmd'.pc = "again" => Kind[cmd.at.step] = "deterministic"
         /\ cmd'.pc = "failed" => cmd.pc = "judge"
         /\ cmd'.pc = "route" => /\ cmd'.gate = TRUE
                                 /\ cmd'.outcome \in Emits[cmd.at.step] \cup {"failure"}
<1>0. /\ rs \in Runs /\ cmd \in Commands /\ cmd.at \in Cursors /\ cmd.at.step \in Steps
      /\ Diagnostic \in Errors /\ NoText \in Errors /\ Texts \subseteq Errors
  BY Known DEF HardFails, PrintsFailure, ContextUnavailable, Passes, Fails, Judging, Errors
<1>1. Same(rs', rs)
  <2>1. ASSUME NEW ok \in BOOLEAN, NEW text \in Errors,
               rs' = AfterPostcondition(rs, cmd.at.step, ok, text)
        PROVE  Same(rs', rs)
    <3> DEFINE q == AfterPostcondition(rs, cmd.at.step, ok, text)
    <3>1. /\ Kept(q, rs) /\ q.lastEnter = rs.lastEnter /\ q.left = rs.left
          /\ q.inFlight = rs.inFlight /\ q.lastTarget = rs.lastTarget
      BY <1>0, AfterPostconditionFields, Zenon
    <3>2. /\ q.asked = rs.asked /\ q.answered = rs.answered
          /\ q.resumedInFlight = rs.resumedInFlight
      BY <1>0, AfterPostconditionHeard, Zenon
    <3> HIDE DEF q
    <3>3. Same(q, rs)
      BY <3>1, <3>2, Zenon DEF Same, Kept
    <3> QED
      BY <2>1, <3>3, Zenon DEF q
  <2>2. Same(rs, rs)
    BY DEF Same
  <2>3. CASE HardFails \/ PrintsFailure \/ ContextUnavailable
    BY <1>0, <2>1, <2>3 DEF HardFails, PrintsFailure, ContextUnavailable
  <2>4. CASE Passes
    BY <1>0, <2>1, <2>2, <2>4 DEF Passes
  <2>5. CASE Fails
    BY <1>0, <2>1, <2>5 DEF Fails
  <2> QED
    BY <2>3, <2>4, <2>5
<1>2. ASSUME NEW outcome, cmd' = Resolved(cmd.at, outcome, TRUE)
      PROVE  /\ cmd'.at.step = cmd.at.step /\ cmd'.pc = "route" /\ cmd'.gate = TRUE
             /\ cmd'.outcome = outcome
  BY <1>2 DEF Resolved, AtPC, Idle
<1>3. CASE HardFails
  <2>1. CASE cmd' = [cmd EXCEPT !.pc = "again"]
    <3>1. cmd'.pc = "again" /\ cmd'.at = cmd.at
      BY <1>0, <2>1 DEF Commands
    <3> QED
      BY <1>1, <1>3, <3>1 DEF HardFails, Judging
  <2>2. CASE cmd' = Resolved(cmd.at, "failure", TRUE)
    BY <1>1, <1>2, <1>3, <2>2 DEF HardFails, Judging
  <2> QED
    BY <1>3, <2>1, <2>2 DEF HardFails
<1>4. CASE PrintsFailure
  BY <1>1, <1>2, <1>4 DEF PrintsFailure, Judging
<1>5. CASE ContextUnavailable
  BY <1>1, <1>2, <1>5 DEF ContextUnavailable
<1>6. CASE Passes
  <2>1. PICK outcome \in Emits[cmd.at.step] : cmd' = Resolved(cmd.at, outcome, TRUE)
    BY <1>6 DEF Passes
  <2> QED
    BY <1>1, <1>2, <1>6, <2>1 DEF Passes, Judging
<1>7. CASE Fails
  <2>1. PICK text : cmd' = [cmd EXCEPT !.pc = "failed", !.at.hard = 0,
                              !.at.key = IF Template[cmd.at.step] = {} THEN text ELSE @]
    BY <1>7 DEF Fails
  <2>2. cmd'.pc = "failed" /\ cmd'.at.step = cmd.at.step
    BY <1>0, <2>1 DEF Commands, Cursors
  <2> QED
    BY <1>1, <1>7, <2>2 DEF Fails, Judging
<1> QED
  BY <1>3, <1>4, <1>5, <1>6, <1>7

\* A TRANSITION leaves the step; a command goes on with the target or ends.
LEMMA TransitionFacts ==
  ASSUME IInv, Transition
  PROVE  /\ rs'.ended = rs.ended /\ rs'.endStatus = rs.endStatus
         /\ rs'.blockedStep = rs.blockedStep /\ rs'.lastEnter = rs.lastEnter
         /\ rs'.left = TRUE /\ rs'.inFlight = FALSE /\ rs'.resumedInFlight = NoStep
         /\ rs'.asked = rs.asked \ {cmd.at.step} /\ rs'.answered = rs.answered
         /\ rs'.lastError = rs.lastError
         /\ \/ cmd'.pc = "enter" /\ cmd'.at.step \in Steps
            \/ cmd'.pc = "end" /\ cmd'.at = cmd.at
<1>0. rs \in Runs /\ cmd.at \in Cursors /\ cmd.at.step \in Steps
  BY Known DEF Transition
<1>1. PICK target : target = ResolveTarget(cmd.at.step, cmd.outcome)
  OBVIOUS
<1>2. PICK viaCatch \in BOOLEAN : viaCatch = ViaCatch(cmd.at.step, cmd.outcome)
  BY DEF ViaCatch
<1>3. target \in Places
  BY <1>0, <1>1, TargetType
<1>4. rs' = AfterTransition(rs, cmd.at.step, target, viaCatch)
  BY <1>1, <1>2 DEF Transition
<1> DEFINE q == AfterTransition(rs, cmd.at.step, target, viaCatch)
<1>5. /\ Kept(q, rs) /\ q.left = TRUE /\ q.inFlight = FALSE /\ q.resumedInFlight = NoStep
  BY <1>0, <1>3, AfterTransitionFields, Zenon
<1>6. /\ q.lastError = rs.lastError /\ q.answered = rs.answered
      /\ q.asked = rs.asked \ {cmd.at.step} /\ q.lastEnter = rs.lastEnter
  BY <1>0, <1>3, AfterTransitionHeard
<1>7. rs' = q
  BY <1>4
<1> HIDE DEF q
<1>8. \/ cmd'.pc = "enter" /\ cmd'.at.step \in Steps
      \/ cmd'.pc = "end" /\ cmd'.at = cmd.at
  <2>1. CASE target \in Steps
    <3>1. cmd' = AtPC("enter", Fresh(target))
      BY <1>1, <2>1 DEF Transition
    <3>2. Fresh(target) \in Cursors /\ Fresh(target).step = target
      BY <1>0, <2>1, CommandType
    <3> QED
      BY <2>1, <3>1, <3>2, PCs
  <2>2. CASE target \notin Steps
    <3>1. cmd' = [AtPC("end", cmd.at) EXCEPT !.outcome = target]
      BY <1>1, <2>2 DEF Transition
    <3> QED
      BY <3>1 DEF AtPC, Idle
  <2> QED
    BY <2>1, <2>2
<1> QED
  BY <1>5, <1>6, <1>7, <1>8, Zenon DEF Kept

\* A RUN_END ends the run and, unless it is an abandon's, the command.
LEMMA EndedFacts ==
  ASSUME IInv, InvariantBlocks \/ End \/ AbandonEnds
  PROVE  /\ rs'.ended = TRUE /\ rs'.left = rs.left /\ rs'.inFlight = rs.inFlight
         /\ rs'.resumedInFlight = rs.resumedInFlight
         /\ rs'.lastEnter = rs.lastEnter /\ rs'.lastTarget = rs.lastTarget
         /\ rs'.asked = {} /\ rs'.answered = rs.answered
         /\ rs'.lastError = rs.lastError
         /\ cmd' = Idle /\ (AbandonEnds => cmd = Idle /\ rs'.endStatus = "abandoned")
<1>0. rs \in Runs /\ cmd.at \in Cursors /\ NoStep \in Places
  BY Parts DEF IInv, Places
<1>1. ASSUME NEW s \in Places, NEW status \in {"ok", "blocked", "abandoned"},
             rs' = AfterRunEnd(rs, s, status)
      PROVE  /\ rs'.ended = TRUE /\ rs'.left = rs.left /\ rs'.inFlight = rs.inFlight
             /\ rs'.resumedInFlight = rs.resumedInFlight
             /\ rs'.lastEnter = rs.lastEnter /\ rs'.lastTarget = rs.lastTarget
             /\ rs'.asked = {} /\ rs'.answered = rs.answered
             /\ rs'.lastError = rs.lastError /\ rs'.endStatus = status
  <2> DEFINE q == AfterRunEnd(rs, s, status)
  <2>1. /\ q.left = rs.left /\ q.inFlight = rs.inFlight /\ q.ended = TRUE /\ q.endStatus = status
    BY <1>0, AfterRunEndFields, Zenon
  <2>2. /\ q.lastError = rs.lastError /\ q.answered = rs.answered /\ q.asked = {}
        /\ q.lastEnter = rs.lastEnter /\ q.lastTarget = rs.lastTarget
        /\ q.resumedInFlight = rs.resumedInFlight
    BY <1>0, AfterRunEndHeard, Zenon
  <2> HIDE DEF q
  <2>3. rs' = q
    BY <1>1 DEF q
  <2> QED
    BY <2>1, <2>2, <2>3, Zenon
<1>2. CASE InvariantBlocks
  <2>1. cmd.at.step \in Places /\ cmd # Idle
    BY <1>0, <1>2, PCs DEF Cursors, InvariantBlocks
  <2>2. ~AbandonEnds
    BY <2>1 DEF AbandonEnds
  <2> QED
    BY <1>1, <1>2, <2>1, <2>2 DEF InvariantBlocks
<1>3. CASE End
  <2>1. cmd.at.step \in Places /\ cmd # Idle /\ EndStatus(cmd.outcome) \in {"ok", "blocked"}
    BY <1>0, <1>3, PCs, TargetType, WorkflowAssumption DEF Cursors, End
  <2>2. ~AbandonEnds
    BY <2>1 DEF AbandonEnds
  <2> QED
    BY <1>1, <1>3, <2>1, <2>2 DEF End
<1>4. CASE AbandonEnds
  BY <1>0, <1>1, <1>4 DEF AbandonEnds
<1> QED
  BY <1>2, <1>3, <1>4

\* What a command does with the step it is at is what the step's kind: says.
KindInv ==
  /\ cmd.pc \in {"body", "again"} => Kind[cmd.at.step] = "deterministic"
  /\ cmd.pc = "dispatch" => Kind[cmd.at.step] = "agentic"
  /\ cmd.pc = "ask" => Kind[cmd.at.step] = "human"
  /\ cmd.pc = "fan" => Kind[cmd.at.step] = "parallel"
  /\ cmd.pc = "failed" => Kind[cmd.at.step] \in {"deterministic", "agentic"}

\* A command that has entered a step does with it what its kind: says.
LEMMA BegunKind ==
  ASSUME NEW c \in Cursors, c.step \in Steps, NEW d, Begun(d, c)
  PROVE  /\ d.pc \in {"body", "dispatch", "ask", "fan", "idle"}
         /\ d.pc # "idle" => d.at = c
         /\ d.pc = "body" => Kind[c.step] = "deterministic"
         /\ d.pc = "dispatch" => Kind[c.step] = "agentic"
         /\ d.pc = "ask" => Kind[c.step] = "human"
         /\ d.pc = "fan" => Kind[c.step] = "parallel"
         /\ d.pc = "idle" => Kind[c.step] = "wait"
<1>1. Kind[c.step] \in {"deterministic", "agentic", "human", "wait", "parallel"}
  BY WorkflowAssumption DEF Kinds
<1> QED
  BY <1>1 DEF Begun

\* So it is after every step of the engine.
LEMMA KindStep == IInv /\ KindInv /\ Next => KindInv'
<1> SUFFICES ASSUME IInv, KindInv, Next
             PROVE  KindInv'
  OBVIOUS
<1>0. cmd \in Commands /\ cmd.at \in Cursors
  BY Known
<1>i. ASSUME cmd' = Idle
      PROVE  KindInv'
  BY <1>i DEF KindInv, Idle
<1>s. ASSUME cmd' = cmd
      PROVE  KindInv'
  BY <1>s DEF KindInv
<1>r. ASSUME NEW at, NEW outcome, NEW gate, cmd' = Resolved(at, outcome, gate)
      PROVE  KindInv'
  BY <1>r DEF KindInv, Resolved, AtPC, Idle
<1>b. ASSUME NEW c \in Cursors, c.step \in Steps, Begun(cmd', c)
      PROVE  KindInv'
  <2>1. /\ cmd'.pc \in {"body", "dispatch", "ask", "fan", "idle"}
        /\ cmd'.pc # "idle" => cmd'.at = c
        /\ cmd'.pc = "body" => Kind[c.step] = "deterministic"
        /\ cmd'.pc = "dispatch" => Kind[c.step] = "agentic"
        /\ cmd'.pc = "ask" => Kind[c.step] = "human"
        /\ cmd'.pc = "fan" => Kind[c.step] = "parallel"
    BY <1>b, BegunKind
  <2> QED
    BY <2>1 DEF KindInv
<1>1. CASE Start
  BY <1>1, StartFacts DEF KindInv
<1>2. CASE Resume
  <2>1. cmd' = Idle \/ cmd'.pc = "enter"
    BY <1>2, ResumeFacts
  <2> QED
    BY <1>i, <2>1 DEF KindInv
<1>3. CASE EnterStep
  BY <1>3, <1>b, EnterStepFacts
<1>4. CASE EnterCapped
  BY <1>4, <1>r DEF EnterCapped
<1>5. CASE Transition
  BY <1>5, TransitionFacts DEF KindInv
<1>6. CASE InvariantBlocks \/ End \/ AbandonEnds
  BY <1>6, <1>i, EndedFacts
<1>7. CASE Crash \/ Dispatch
  BY <1>7, <1>i DEF Crash, Dispatch
<1>8. CASE AbandonLooks \/ Over
  BY <1>8, <1>s DEF AbandonLooks, Over, runVars
<1>9. CASE HardRetry
  <2>1. PICK c \in Cursors : c.step = cmd.at.step /\ cmd'.pc = "body" /\ cmd'.at = c
    BY <1>9, ReentryFacts
  <2> QED
    BY <1>9, <2>1 DEF KindInv, HardRetry
<1>10. CASE Reenter
  BY <1>10, <1>b, ReentryFacts
<1>11. CASE HardFails \/ PrintsFailure \/ ContextUnavailable \/ Passes \/ Fails
  BY <1>11, JudgedFacts DEF KindInv
<1>12. CASE FailsCapped \/ FailsFinally
  BY <1>12, <1>r DEF FailsCapped, FailsFinally
<1>13. CASE RunBody \/ Submit
  <2>1. cmd'.pc = "judge"
    BY <1>0, <1>13 DEF RunBody, Submit, AtPC, Idle, Commands
  <2> QED
    BY <2>1 DEF KindInv
<1> QED
  BY <1>1, <1>2, <1>3, <1>4, <1>5, <1>6, <1>7, <1>8, <1>9, <1>10, <1>11, <1>12, <1>13
     DEF Next, RunStep, LoopStep, BodyStep

\* Where a command is, and where the journal says the run is: a command is at
\* the step in flight; it re-enters a step only as a crash resume recorded; and
\* it ends the run only from a step that was left.
WhereInv ==
  /\ cmd.pc # "idle" /\ rs.inFlight /\ ~rs.ended => cmd.at.step = rs.lastEnter.step
  /\ cmd.pc = "enter" /\ rs.resumedInFlight = cmd.at.step
       => rs.inFlight /\ rs.lastEnter.step = cmd.at.step /\ ~rs.ended
  /\ cmd.pc = "end" => ~rs.inFlight

\* A step that leaves the journal's places alone and the command at its step, or
\* takes it to the cursor, leaves that so.
LEMMA WhereQuiet ==
  ASSUME IInv, WhereInv, rs'.inFlight = rs.inFlight, rs'.ended = rs.ended,
         rs'.lastEnter = rs.lastEnter, cmd'.pc \notin {"enter", "end"},
         \/ cmd'.pc = "idle"
         \/ cmd.pc # "idle" /\ cmd'.at.step = cmd.at.step
         \/ cmd'.at.step = Cursor(rs).step
  PROVE  WhereInv'
<1>1. rs.inFlight /\ ~rs.ended => Cursor(rs).step = rs.lastEnter.step
  BY CursorStep DEF IInv, EntryInv
<1> QED
  BY <1>1 DEF WhereInv

\* So it is after every step of the engine.
LEMMA WhereStep == IInv /\ WhereInv /\ Next => WhereInv'
<1> SUFFICES ASSUME IInv, WhereInv, Next
             PROVE  WhereInv'
  OBVIOUS
<1>0. /\ cmd \in Commands /\ rs \in Runs /\ cmd.at \in Cursors /\ NoStep \notin Steps
      /\ cmd.pc # "idle" => cmd.at.step \in Steps
  BY Known, WorkflowAssumption
<1>i. ASSUME cmd' = Idle
      PROVE  WhereInv'
  BY <1>i DEF WhereInv, Idle
<1>e. ASSUME NEW c \in Cursors, EnteredAt(rs', rs, c),
             cmd'.pc \notin {"enter", "end"}, cmd'.pc # "idle" => cmd'.at = c
      PROVE  WhereInv'
  BY <1>e DEF WhereInv, EnteredAt
<1>1. CASE Start
  <2>1. /\ cmd'.pc = "enter" /\ cmd'.at.step = StartStep /\ Same(rs', rs) /\ rs = NewRun
    BY <1>1, StartFacts
  <2>2. rs'.inFlight = FALSE /\ rs'.resumedInFlight = NoStep
    BY <2>1 DEF Same, NewRun
  <2> QED
    BY <1>0, <2>1, <2>2, WorkflowAssumption DEF WhereInv
<1>2. CASE Resume
  <2>1. PICK c \in Cursors :
          /\ ResumedAt(rs', rs, c)
          /\ cmd' = Idle \/ (c.step \in Steps /\ cmd'.pc = "enter" /\ cmd'.at = c)
    BY <1>2, ResumeFacts
  <2>2. CASE c.step \in Steps /\ cmd'.pc = "enter" /\ cmd'.at = c
    BY <1>0, <2>1, <2>2 DEF WhereInv, ResumedAt
  <2> QED
    BY <1>i, <2>1, <2>2
<1>3. CASE EnterStep
  <2>1. PICK c \in Cursors : c.step \in Steps /\ EnteredAt(rs', rs, c) /\ Begun(cmd', c)
    BY <1>3, EnterStepFacts
  <2> QED
    BY <1>e, <2>1, BegunKind
<1>4. CASE EnterCapped \/ FailsCapped \/ FailsFinally
  <2>1. /\ rs' = rs /\ cmd.pc # "idle"
        /\ \E outcome, gate : cmd' = Resolved(cmd.at, outcome, gate)
    BY <1>4 DEF EnterCapped, FailsCapped, FailsFinally
  <2>2. cmd'.pc = "route" /\ cmd'.at = cmd.at
    BY <2>1 DEF Resolved, AtPC, Idle
  <2> QED
    BY <2>1, <2>2, WhereQuiet
<1>5. CASE Transition
  BY <1>0, <1>5, TransitionFacts DEF WhereInv
<1>6. CASE InvariantBlocks \/ End \/ AbandonEnds
  BY <1>6, <1>i, EndedFacts
<1>7. CASE Crash \/ Dispatch
  BY <1>7, <1>i DEF Crash, Dispatch
<1>8. CASE AbandonLooks \/ Over
  BY <1>8 DEF AbandonLooks, Over, runVars, WhereInv
<1>9. CASE HardRetry
  <2>1. PICK c \in Cursors : EnteredAt(rs', rs, c) /\ cmd'.pc = "body" /\ cmd'.at = c
    BY <1>9, ReentryFacts
  <2> QED
    BY <1>e, <2>1
<1>10. CASE Reenter
  <2>1. PICK c \in Cursors : c.step \in Steps /\ EnteredAt(rs', rs, c) /\ Begun(cmd', c)
    BY <1>10, ReentryFacts
  <2> QED
    BY <1>e, <2>1, BegunKind
<1>11. CASE HardFails \/ PrintsFailure \/ ContextUnavailable \/ Passes \/ Fails
  <2>1. /\ cmd.pc \in {"judge", "dispatch"} /\ Same(rs', rs) /\ cmd'.at.step = cmd.at.step
        /\ cmd'.pc \in {"again", "failed", "route"}
    BY <1>11, JudgedFacts
  <2> QED
    BY <2>1, WhereQuiet DEF Same
<1>12. CASE RunBody
  <2>1. /\ rs' = rs /\ cmd.pc = "body" /\ cmd'.pc = "judge" /\ cmd'.at = cmd.at
    BY <1>0, <1>12 DEF RunBody, Commands
  <2> QED
    BY <2>1, WhereQuiet
<1>13. CASE Submit
  <2>1. /\ rs' = rs /\ cmd'.pc = "judge" /\ cmd'.at = Cursor(rs)
    BY <1>13 DEF Submit, AtPC, Idle
  <2> QED
    BY <2>1, WhereQuiet
<1> QED
  BY <1>1, <1>2, <1>3, <1>4, <1>5, <1>6, <1>7, <1>8, <1>9, <1>10, <1>11, <1>12, <1>13
     DEF Next, RunStep, LoopStep, BodyStep

-----------------------------------------------------------------------------
(* Steps of a kind of their own, beside the steps of the engine *)

\* A set of positions that is not empty has a first one.
LEMMA Least ==
  ASSUME NEW S \in SUBSET Nat, S # {}
  PROVE  \E x \in S : \A y \in S : x <= y
<1>1. PICK x \in S : \A y \in S : ~ (<<y, x>> \in OpToRel(<, Nat))
  BY NatLessThanWellFounded, WFMin, Zenon
<1>2. ASSUME NEW y \in S
      PROVE  x <= y
  <2>1. ~ (y < x)
    BY <1>1 DEF OpToRel
  <2> QED
    BY <2>1
<1> QED
  BY <1>2

\* What the engine keeps true, and modules that add steps to it rely on.
RunInv == IInv /\ KindInv /\ WhereInv

\* It holds before anything has run.
LEMMA RunInitially == Init => RunInv
<1> SUFFICES ASSUME Init
             PROVE  KindInv /\ WhereInv
  BY Initially DEF RunInv
<1>1. cmd.pc = "idle"
  BY PCs DEF Init, RunInit
<1> QED
  BY <1>1 DEF KindInv, WhereInv

\* Its own steps keep it, and so does a step that moves neither the run nor the
\* command.
LEMMA RunKeeps ==
  ASSUME RunInv
  PROVE  /\ Next => RunInv'
         /\ rs' = rs /\ cmd' = cmd /\ hist' = hist /\ leaving' = leaving /\ Rest' => RunInv'
         /\ UNCHANGED runVars => RunInv'
<1>1. Next => RunInv'
  BY InvStep, KindStep, WhereStep DEF RunInv
<1>2. ASSUME rs' = rs, cmd' = cmd, hist' = hist, leaving' = leaving, Rest'
      PROVE  RunInv'
  <2>1. TInv'
    BY <1>2 DEF RunInv, IInv, TInv, TypeOK, AtStep, Rest
  <2>2. EntryInv' /\ VisitInv' /\ FinalInv'
    BY <1>2 DEF RunInv, IInv, EntryInv, VisitInv, FinalInv, VisitsWithinMax, CrashConsumesNoVisit, Due
  <2>3. KindInv' /\ WhereInv'
    BY <1>2 DEF RunInv, KindInv, WhereInv
  <2> QED
    BY <2>1, <2>2, <2>3 DEF RunInv, IInv
<1>3. UNCHANGED runVars => Rest'
  BY DEF runVars, RunInv, IInv, TInv, TypeOK, Rest
<1> QED
  BY <1>1, <1>2, <1>3 DEF runVars

\* A step that moves the run at most in its errors, and the command between
\* fanning out, its way out and idleness, keeps the invariants of the engine.
LEMMA AloneKeeps ==
  ASSUME RunInv, rs.started, RunTerminal(rs) => cmd' = Idle,
         rs' \in Runs, Kept(rs', rs), rs'.lastEnter = rs.lastEnter,
         rs'.lastTarget = rs.lastTarget, rs'.left = rs.left, rs'.inFlight = rs.inFlight,
         Rest', hist' = hist, cmd' \in Commands,
         \/ cmd' = Idle
         \/ /\ cmd'.pc \in {"fan", "route"} /\ (cmd'.pc = "route" => cmd'.gate)
            /\ cmd'.at.step \in Steps /\ Kind[cmd'.at.step] = "parallel"
            /\ \/ cmd.pc # "idle" /\ cmd'.at.step = cmd.at.step
               \/ cmd'.at.step = Cursor(rs).step
  PROVE  RunInv'
<1>0. Idle.pc = "idle" /\ hist \in Hists /\ IInv /\ KindInv /\ WhereInv
  BY PCs, Parts DEF RunInv, IInv
<1>1. TInv'
  BY <1>0 DEF TInv, TypeOK, AtStep, Rest, Hists, Errors
<1>2. cmd'.pc \in {"idle", "fan", "route"} /\ (cmd'.pc = "route" => cmd'.gate \/ ~rs.inFlight)
  BY <1>0
<1>3. EntryInv' /\ VisitInv' /\ FinalInv'
  BY <1>0, <1>2, Quiet
<1>4. KindInv'
  BY <1>0 DEF KindInv
<1>5. WhereInv'
  BY <1>0, WhereQuiet DEF Kept
<1> QED
  BY <1>1, <1>3, <1>4, <1>5 DEF RunInv, IInv

\* A command on its way out of a step of M that was entered.
Out(M) == cmd.pc = "route" /\ cmd.gate /\ cmd.at.step \in M

\* The steps of the engine other than a crash and the entry of a step of M.
BesideStep(M) == \/ Start \/ Resume \/ EnterCapped \/ (cmd.at.step \notin M /\ EnterStep)
                 \/ InvariantBlocks \/ Transition \/ End \/ AbandonLooks \/ AbandonEnds
                 \/ BodyStep \/ Submit \/ Over

\* What they can do to a parallel step of M: nothing takes it into the fan or to
\* the way out; nothing enters it; and unless a command is on that way out it
\* stays in flight and does not block.
LEMMA Beside ==
  ASSUME RunInv,
         NEW M \in SUBSET Steps, \A s \in M : Kind[s] = "parallel",
         BesideStep(M)
  PROVE  /\ \/ rs' = rs /\ cmd' = cmd
            \/ /\ cmd.pc # "fan" /\ (cmd'.pc = "fan" => cmd'.at.step \notin M)
               /\ cmd'.pc = "route" /\ cmd'.gate => cmd'.at.step \notin M
         /\ rs'.inFlight /\ rs'.lastEnter.step \in M =>
              /\ rs.inFlight /\ rs'.lastEnter.step = rs.lastEnter.step
              /\ ~rs'.ended => ~rs.ended /\ rs'.lastError = rs.lastError
         /\ cmd'.pc # "idle" =>
              \/ ~rs'.ended
              \/ cmd.pc # "idle" /\ rs'.ended = rs.ended
              \/ Submit
         /\ rs.inFlight /\ rs.lastEnter.step \in M /\ ~RunBlocked(rs) /\ ~Out(M) =>
              rs'.inFlight /\ rs'.lastEnter.step = rs.lastEnter.step /\ ~RunBlocked(rs')
<1> DEFINE
      Cmd == /\ cmd.pc # "fan" /\ (cmd'.pc = "fan" => cmd'.at.step \notin M)
             /\ cmd'.pc = "route" /\ cmd'.gate => cmd'.at.step \notin M
      NoEntry == rs'.inFlight /\ rs'.lastEnter.step \in M =>
              /\ rs.inFlight /\ rs'.lastEnter.step = rs.lastEnter.step
              /\ ~rs'.ended => ~rs.ended /\ rs'.lastError = rs.lastError
      Unended == cmd'.pc # "idle" =>
              \/ ~rs'.ended
              \/ cmd.pc # "idle" /\ rs'.ended = rs.ended
              \/ Submit
      Stays == rs.inFlight /\ rs.lastEnter.step \in M /\ ~RunBlocked(rs) /\ ~Out(M) =>
              rs'.inFlight /\ rs'.lastEnter.step = rs.lastEnter.step /\ ~RunBlocked(rs')
      Goal == ((rs' = rs /\ cmd' = cmd) \/ Cmd) /\ NoEntry /\ Unended /\ Stays
<1> SUFFICES Goal
  OBVIOUS
<1>i. IInv /\ KindInv /\ WhereInv
  BY DEF RunInv
<1>0. /\ cmd \in Commands /\ rs \in Runs /\ cmd.at \in Cursors /\ Idle.pc = "idle"
      /\ cmd.pc # "idle" => cmd # Idle /\ cmd.at.step \in Steps /\ ~RunTerminal(rs)
  BY <1>i, Known, PCs
<1>w. cmd.pc # "idle" /\ rs.inFlight /\ ~RunBlocked(rs) => cmd.at.step = rs.lastEnter.step
  BY <1>i, <1>0 DEF WhereInv, RunTerminal, RunBlocked
<1>q. ASSUME rs' = rs, cmd.pc # "fan", cmd'.pc \notin {"fan", "route"},
             cmd'.pc # "idle" => cmd.pc # "idle" \/ Submit
      PROVE  Goal
  BY <1>q
<1>o. ASSUME rs' = rs, cmd.pc \notin {"idle", "fan"}, cmd'.pc = "route", cmd'.at = cmd.at,
             cmd'.gate => cmd.at.step \notin M
      PROVE  Goal
  BY <1>o
<1>e. ASSUME NEW c \in Cursors, EnteredAt(rs', rs, c), c.step = cmd.at.step, c.step \notin M,
             cmd.pc \notin {"idle", "fan"}, cmd'.pc # "route", cmd'.pc # "idle" => cmd'.at = c
      PROVE  Goal
  BY <1>e, <1>w DEF EnteredAt
<1>1. CASE Start
  <2>1. /\ cmd.pc = "idle" /\ cmd'.pc = "enter" /\ Same(rs', rs) /\ rs = NewRun
    BY <1>i, <1>0, <1>1, StartFacts
  <2>2. rs.inFlight = FALSE /\ rs.ended = FALSE
    BY <2>1, NewRunFields
  <2> QED
    BY <2>1, <2>2 DEF Same
<1>2. CASE Resume
  <2>1. PICK c \in Cursors :
          /\ c.step = Cursor(rs).step /\ ResumedAt(rs', rs, c)
          /\ cmd' = Idle \/ (c.step \in Steps /\ cmd'.pc = "enter" /\ cmd'.at = c)
    BY <1>i, <1>2, ResumeFacts
  <2>2. /\ cmd.pc = "idle" /\ cmd'.pc \in {"idle", "enter"} /\ ~RunTerminal(rs)
    BY <1>0, <1>2, <2>1 DEF Resume
  <2>3. /\ ~rs'.ended /\ rs'.inFlight = (~RunBlocked(rs) /\ rs.inFlight)
        /\ rs'.lastEnter = c /\ rs'.lastError = rs.lastError
        /\ rs'.inFlight => c.step = rs.lastEnter.step /\ ~rs.ended
    BY <2>1, Zenon DEF ResumedAt
  <2>4. rs.inFlight \in BOOLEAN /\ ~RunBlocked(rs')
    BY <1>0, <2>3 DEF Runs, RunBlocked
  <2> QED
    BY <2>2, <2>3, <2>4
<1>3. CASE cmd.at.step \notin M /\ EnterStep
  <2>1. PICK c \in Cursors : c.step = cmd.at.step /\ c.step \in Steps
                             /\ EnteredAt(rs', rs, c) /\ Begun(cmd', c)
    BY <1>i, <1>3, EnterStepFacts
  <2>2. cmd.pc = "enter"
    BY <1>3 DEF EnterStep
  <2> QED
    BY <1>3, <1>e, <2>1, <2>2, BegunKind
<1>4. CASE EnterCapped \/ FailsCapped \/ FailsFinally
  <2>1. /\ rs' = rs /\ cmd.pc \in {"enter", "failed"}
        /\ \E outcome, gate : cmd' = Resolved(cmd.at, outcome, gate)
                              /\ (cmd.pc = "enter" => gate = FALSE)
    BY <1>4 DEF EnterCapped, FailsCapped, FailsFinally
  <2>2. cmd'.pc = "route" /\ cmd'.at = cmd.at /\ (cmd.pc = "enter" => cmd'.gate = FALSE)
    BY <2>1 DEF Resolved, AtPC, Idle
  <2>3. cmd.pc = "failed" => cmd.at.step \notin M
    BY <1>i DEF KindInv
  <2> QED
    BY <1>o, <2>1, <2>2, <2>3
<1>5. CASE Transition
  <2>1. /\ rs'.ended = rs.ended /\ rs'.endStatus = rs.endStatus /\ rs'.lastEnter = rs.lastEnter
        /\ rs'.inFlight = FALSE /\ cmd'.pc \in {"enter", "end"} /\ cmd.pc = "route"
    BY <1>i, <1>5, TransitionFacts DEF Transition
  <2>2. rs.inFlight /\ rs.lastEnter.step \in M /\ ~RunBlocked(rs) => Out(M)
    <3>1. rs.inFlight => cmd.gate
      BY <1>i, <2>1 DEF IInv, EntryInv
    <3> QED
      BY <1>w, <2>1, <3>1 DEF Out
  <2> QED
    BY <2>1, <2>2
<1>6. CASE InvariantBlocks \/ End \/ AbandonEnds
  <2>1. /\ rs'.ended = TRUE /\ rs'.inFlight = rs.inFlight /\ rs'.lastEnter = rs.lastEnter
        /\ cmd' = Idle /\ (AbandonEnds => cmd = Idle /\ rs'.endStatus = "abandoned")
    BY <1>i, <1>6, EndedFacts
  <2>2. cmd.pc # "fan"
    BY <1>0, <1>6, <2>1 DEF InvariantBlocks, End
  <2>3. Stays
    <3>1. CASE AbandonEnds
      BY <2>1, <3>1 DEF RunBlocked
    <3>2. CASE InvariantBlocks
      BY <1>w, <3>2 DEF Out, InvariantBlocks
    <3>3. CASE End
      BY <1>i, <3>3 DEF WhereInv, End
    <3> QED
      BY <1>6, <3>1, <3>2, <3>3
  <2> QED
    BY <1>0, <2>1, <2>2, <2>3
<1>7. CASE Dispatch
  <2>1. rs' = rs /\ cmd.pc = "dispatch" /\ cmd' = Idle
    BY <1>7 DEF Dispatch
  <2> QED
    BY <1>0, <1>q, <2>1
<1>8. CASE AbandonLooks \/ Over
  <2>1. rs' = rs /\ cmd' = cmd
    BY <1>8 DEF AbandonLooks, Over, runVars
  <2> QED
    BY <2>1
<1>9. CASE HardRetry
  <2>1. PICK c \in Cursors : /\ c.step = cmd.at.step /\ EnteredAt(rs', rs, c)
                             /\ cmd'.pc = "body" /\ cmd'.at = c
    BY <1>i, <1>9, ReentryFacts
  <2>2. cmd.pc = "again" /\ c.step \notin M
    BY <1>i, <1>9, <2>1 DEF HardRetry, KindInv
  <2> QED
    BY <1>e, <2>1, <2>2
<1>10. CASE Reenter
  <2>1. PICK c \in Cursors : /\ c.step = cmd.at.step /\ c.step \in Steps
                             /\ EnteredAt(rs', rs, c) /\ Begun(cmd', c)
    BY <1>i, <1>10, ReentryFacts
  <2>2. cmd.pc = "failed" /\ c.step \notin M
    BY <1>i, <1>10, <2>1 DEF Reenter, KindInv
  <2> QED
    BY <1>e, <2>1, <2>2, BegunKind
<1>11. CASE HardFails \/ PrintsFailure \/ ContextUnavailable \/ Passes \/ Fails
  <2>1. /\ cmd.pc \in {"judge", "dispatch"} /\ Same(rs', rs) /\ cmd'.at.step = cmd.at.step
        /\ cmd.pc = "judge" => Kind[cmd.at.step] \in {"deterministic", "agentic"}
        /\ cmd'.pc \in {"again", "failed", "route"}
    BY <1>i, <1>11, JudgedFacts
  <2>2. cmd.at.step \notin M
    BY <1>i, <2>1 DEF KindInv
  <2>3. /\ rs'.inFlight = rs.inFlight /\ rs'.ended = rs.ended
        /\ rs'.lastEnter = rs.lastEnter /\ RunBlocked(rs') = RunBlocked(rs)
    BY <2>1 DEF Same, RunBlocked
  <2>4. rs.inFlight /\ ~rs.ended => cmd.at.step = rs.lastEnter.step
    BY <1>i, <2>1 DEF WhereInv
  <2> QED
    BY <1>w, <2>1, <2>2, <2>3, <2>4
<1>12. CASE RunBody
  <2>1. /\ rs' = rs /\ cmd.pc = "body" /\ cmd'.pc = "judge"
    BY <1>0, <1>12 DEF RunBody, Commands
  <2> QED
    BY <1>q, <2>1
<1>13. CASE Submit
  <2>1. /\ rs' = rs /\ cmd'.pc = "judge" /\ cmd.pc = "idle"
    BY <1>0, <1>13 DEF Submit, AtPC, Idle
  <2> QED
    BY <1>q, <1>13, <2>1
<1> QED
  BY <1>1, <1>2, <1>3, <1>4, <1>5, <1>6, <1>7, <1>8, <1>9, <1>10, <1>11, <1>12, <1>13
     DEF BesideStep, BodyStep
-----------------------------------------------------------------------------
(* The sum of a function over a finite set.  SumFunction takes the function   *)
(* that its recursion defines on the subsets of the domain; that there is one, *)
(* and what it yields, is shown by a smallest subset that would contradict it. *)

\* What the recursion makes of a set, with g for the smaller ones.
SumStep(g, f, T) == IF T = {} THEN 0
                    ELSE LET x == CHOOSE x \in T : TRUE IN f[x] + g[T \ {x}]

\* g is the recursion on the subsets of S, or on those up to a size.
IsSum(g, f, S) == g = [T \in SUBSET S |-> SumStep(g, f, T)]
IsSumUpTo(g, f, S, n) ==
  g = [T \in SUBSET S |-> IF Cardinality(T) <= n THEN SumStep(g, f, T) ELSE 0]

\* SumFunction is the value there of a function that satisfies the recursion.
LEMMA SumIsChosen ==
  ASSUME NEW f
  PROVE  SumFunction(f) = (CHOOSE g : IsSum(g, f, DOMAIN f))[DOMAIN f]
BY Zenon DEF SumFunction, SumFunctionOnSet, FoldFunctionOnSet, MapThenFoldSet, IsSum, SumStep

\* What is left of a finite set without one of its elements is a smaller one.
LEMMA Remainder ==
  ASSUME NEW S, IsFiniteSet(S), NEW T \in SUBSET S, T # {}, NEW x,
         x = CHOOSE y \in T : TRUE
  PROVE  /\ x \in T /\ T \ {x} \in SUBSET S
         /\ Cardinality(T) \in Nat /\ Cardinality(T \ {x}) = Cardinality(T) - 1
         /\ Cardinality(T \ {x}) \in Nat
<1>1. x \in T
  OBVIOUS
<1>2. IsFiniteSet(T)
  BY FS_Subset
<1>3. Cardinality(T) \in Nat
  BY <1>2, FS_CardinalityType
<1>4. IsFiniteSet(T \ {x}) /\ Cardinality(T \ {x}) = Cardinality(T) - 1
  BY <1>1, <1>2, FS_RemoveElement
<1>5. Cardinality(T \ {x}) \in Nat
  BY <1>4, FS_CardinalityType
<1> QED
  BY <1>1, <1>3, <1>4, <1>5

\* The recursion can be carried up to any size of the subsets.
LEMMA SumsUpTo ==
  ASSUME NEW S, IsFiniteSet(S), NEW f, NEW n \in Nat
  PROVE  \E g : IsSumUpTo(g, f, S, n)
<1> DEFINE Bad == {k \in Nat : ~\E g : IsSumUpTo(g, f, S, k)}
<1> SUFFICES ASSUME Bad # {}
             PROVE  FALSE
  OBVIOUS
<1>1. PICK m \in Bad : \A k \in Bad : m <= k
  BY Least
<1>2. m \in Nat /\ ~\E g : IsSumUpTo(g, f, S, m)
  BY <1>1
<1>3. \A T \in SUBSET S : Cardinality(T) \in Nat /\ (Cardinality(T) = 0 => T = {})
  BY FS_Subset, FS_CardinalityType, FS_EmptySet
<1>4. CASE m = 0
  <2> DEFINE g == [T \in SUBSET S |-> 0]
  <2>1. \A T \in SUBSET S : Cardinality(T) <= 0 => SumStep(g, f, T) = 0
    BY <1>3 DEF SumStep
  <2>2. IsSumUpTo(g, f, S, 0)
    BY <2>1 DEF IsSumUpTo
  <2> QED
    BY <1>2, <1>4, <2>2
<1>5. CASE m # 0
  <2>1. m - 1 \in Nat /\ ~ (m <= m - 1)
    BY <1>2, <1>5
  <2>2. m - 1 \notin Bad
    BY <1>1, <2>1
  <2>3. PICK h : IsSumUpTo(h, f, S, m - 1)
    BY <2>1, <2>2
  <2> DEFINE g == [T \in SUBSET S |-> IF Cardinality(T) <= m THEN SumStep(h, f, T) ELSE 0]
  <2>4. ASSUME NEW T \in SUBSET S, Cardinality(T) <= m
        PROVE  SumStep(h, f, T) = SumStep(g, f, T)
    <3>1. CASE T = {}
      BY <3>1 DEF SumStep
    <3>2. CASE T # {}
      <4> DEFINE x == CHOOSE y \in T : TRUE
                 U == T \ {x}
      <4>1. U \in SUBSET S /\ Cardinality(U) = Cardinality(T) - 1 /\ Cardinality(T) \in Nat
        BY <3>2, Remainder
      <4>2. Cardinality(U) <= m - 1 /\ Cardinality(U) <= m
        BY <1>2, <2>4, <4>1
      <4> HIDE DEF U
      <4>3. g[U] = SumStep(h, f, U)
        BY <4>1, <4>2
      <4>4. h[U] = SumStep(h, f, U)
        BY <2>3, <4>1, <4>2 DEF IsSumUpTo
      <4>5. SumStep(h, f, T) = f[x] + h[U] /\ SumStep(g, f, T) = f[x] + g[U]
        BY <3>2 DEF SumStep, U
      <4> QED
        BY <4>3, <4>4, <4>5
    <3> QED
      BY <3>1, <3>2
  <2>5. IsSumUpTo(g, f, S, m)
    BY <2>4 DEF IsSumUpTo
  <2> QED
    BY <1>2, <2>5
<1> QED
  BY <1>4, <1>5

\* So it defines a function on all of them, and SumFunction is its value.
LEMMA SumExists ==
  ASSUME NEW f, IsFiniteSet(DOMAIN f)
  PROVE  \E g : IsSum(g, f, DOMAIN f) /\ SumFunction(f) = g[DOMAIN f]
<1> DEFINE S == DOMAIN f
<1>1. Cardinality(S) \in Nat /\ \A T \in SUBSET S : Cardinality(T) <= Cardinality(S)
  BY FS_CardinalityType, FS_Subset
<1>2. PICK g : IsSumUpTo(g, f, S, Cardinality(S))
  BY <1>1, SumsUpTo
<1>3. IsSum(g, f, S)
  BY <1>1, <1>2 DEF IsSum, IsSumUpTo
<1> DEFINE h == CHOOSE g_1 : IsSum(g_1, f, S)
<1>4. IsSum(h, f, S)
  BY <1>3
<1>5. SumFunction(f) = h[S]
  BY SumIsChosen
<1> QED
  BY <1>4, <1>5

\* Of numbers, the sum is a number, and one more at one place is one more in all.
LEMMA SumOneMore ==
  ASSUME NEW S, IsFiniteSet(S), NEW f \in [S -> Nat], NEW s \in S
  PROVE  /\ SumFunction(f) \in Nat
         /\ SumFunction([f EXCEPT ![s] = @ + 1]) = SumFunction(f) + 1
<1> DEFINE e == [f EXCEPT ![s] = @ + 1]
<1>1. DOMAIN f = S /\ DOMAIN e = S
  OBVIOUS
<1>2. PICK g : IsSum(g, f, S) /\ SumFunction(f) = g[S]
  BY <1>1, SumExists
<1>3. PICK h : IsSum(h, e, S) /\ SumFunction(e) = h[S]
  BY <1>1, SumExists
<1>4. /\ \A x \in S : f[x] \in Nat /\ e[x] = f[x] + (IF x = s THEN 1 ELSE 0)
  OBVIOUS
<1> HIDE DEF e
<1> DEFINE Right(T) == g[T] \in Nat /\ h[T] = g[T] + (IF s \in T THEN 1 ELSE 0)
           Bad == {T \in SUBSET S : ~Right(T)}
           Sizes == {Cardinality(T) : T \in Bad}
<1>5. ASSUME Bad # {}
      PROVE  FALSE
  <2>1. Sizes \in SUBSET Nat /\ Sizes # {}
    BY <1>5, FS_Subset, FS_CardinalityType
  <2>2. PICK n \in Sizes : \A k \in Sizes : n <= k
    BY <2>1, Least
  <2>3. PICK T \in Bad : \A U \in Bad : Cardinality(T) <= Cardinality(U)
    BY <2>2
  <2>4. g[T] = SumStep(g, f, T) /\ h[T] = SumStep(h, e, T)
    BY <1>2, <1>3, <2>3 DEF IsSum
  <2>5. CASE T = {}
    <3>1. g[T] = 0 /\ h[T] = 0
      BY <2>4, <2>5 DEF SumStep
    <3> QED
      BY <2>3, <2>5, <3>1
  <2>6. CASE T # {}
    <3> DEFINE x == CHOOSE y \in T : TRUE
               U == T \ {x}
    <3>1. /\ x \in T /\ U \in SUBSET S
          /\ Cardinality(T) \in Nat /\ Cardinality(U) = Cardinality(T) - 1
      BY <2>3, <2>6, Remainder
    <3>2. g[T] = f[x] + g[U] /\ h[T] = e[x] + h[U]
      BY <2>4, <2>6 DEF SumStep
    <3>3. x \in S /\ x \notin U /\ (s \in T <=> s \in U \/ x = s)
      BY <2>3, <3>1
    <3> HIDE DEF x, U
    <3>4. U \notin Bad
      BY <2>3, <3>1
    <3>5. Right(U)
      BY <3>1, <3>4
    <3>6. f[x] \in Nat /\ e[x] = f[x] + (IF x = s THEN 1 ELSE 0)
      BY <1>4, <3>3
    <3>7. Right(T)
      <4>1. PICK a \in Nat, b \in Nat : a = f[x] /\ b = g[U]
        BY <3>5, <3>6
      <4>2. g[T] = a + b /\ h[T] = a + (IF x = s THEN 1 ELSE 0) + (b + (IF s \in U THEN 1 ELSE 0))
        BY <3>2, <3>5, <3>6, <4>1
      <4> QED
        BY <3>3, <4>1, <4>2
    <3> QED
      BY <2>3, <3>7
  <2> QED
    BY <2>5, <2>6
<1>6. Right(S)
  BY <1>5
<1> QED
  BY <1>2, <1>3, <1>6 DEF e

\* The sum of nothing but zeros is zero.
LEMMA SumOfZeros ==
  ASSUME NEW S, IsFiniteSet(S)
  PROVE  SumFunction([x \in S |-> 0]) = 0
<1> DEFINE f == [x \in S |-> 0]
<1>1. PICK g : IsSum(g, f, S) /\ SumFunction(f) = g[S]
  BY SumExists
<1> DEFINE Bad == {T \in SUBSET S : g[T] # 0}
           Sizes == {Cardinality(T) : T \in Bad}
<1>2. ASSUME Bad # {}
      PROVE  FALSE
  <2>1. Sizes \in SUBSET Nat /\ Sizes # {}
    BY <1>2, FS_Subset, FS_CardinalityType
  <2>2. PICK n \in Sizes : \A k \in Sizes : n <= k
    BY <2>1, Least
  <2>3. PICK T \in Bad : \A U \in Bad : Cardinality(T) <= Cardinality(U)
    BY <2>2
  <2>4. g[T] = SumStep(g, f, T)
    BY <1>1, <2>3 DEF IsSum
  <2>5. CASE T = {}
    BY <2>3, <2>4, <2>5 DEF SumStep
  <2>6. CASE T # {}
    <3> DEFINE x == CHOOSE y \in T : TRUE
               U == T \ {x}
    <3>1. /\ x \in T /\ U \in SUBSET S
          /\ Cardinality(T) \in Nat /\ Cardinality(U) = Cardinality(T) - 1
      BY <2>3, <2>6, Remainder
    <3>2. g[T] = f[x] + g[U]
      BY <2>4, <2>6 DEF SumStep
    <3>3. U \notin Bad
      BY <2>3, <3>1
    <3>4. f[x] = 0 /\ g[U] = 0
      BY <2>3, <3>1, <3>3
    <3> QED
      BY <2>3, <3>2, <3>4
  <2> QED
    BY <2>5, <2>6
<1> QED
  BY <1>1, <1>2

-----------------------------------------------------------------------------
(* max_steps: *)

\* Only an entry that max_steps: leaves room for is counted, and it is one visit.
LEMMA VisitsMove ==
  ASSUME IInv, Next
  PROVE  \/ rs'.visits = rs.visits
         \/ \E s \in Steps : /\ ~(SumFunction(rs.visits) >= MaxSteps)
                            /\ rs'.visits = [rs.visits EXCEPT ![s] = @ + 1]
<1>0. /\ rs \in Runs /\ cmd \in Commands /\ cmd.at \in Cursors /\ cmd.retry \in BOOLEAN
      /\ Cursor(rs) \in Cursors
      /\ cmd.pc # "idle" => cmd.at.step \in Steps
      /\ Diagnostic \in Errors /\ NoText \in Errors /\ Texts \subseteq Errors
  <2>1. Diagnostic \in Errors /\ NoText \in Errors /\ Texts \subseteq Errors
    BY DEF Errors
  <2> QED
    BY <2>1, Known
<1>p. ASSUME NEW s \in Steps, NEW ok \in BOOLEAN, NEW text \in Errors,
             rs' = AfterPostcondition(rs, s, ok, text)
      PROVE  rs'.visits = rs.visits
  BY <1>0, <1>p, AfterPostconditionFields, Zenon DEF Kept
<1>1. CASE Start
  BY <1>0, <1>1 DEF Start, AfterRunStart, Runs
<1>2. CASE Resume
  <2>1. PICK intervention, c :
          /\ intervention = RunBlocked(rs)
          /\ c = [Cursor(rs) EXCEPT !.attempt = IF intervention THEN 1 ELSE @,
                                    !.hard = IF intervention THEN 0 ELSE @]
    OBVIOUS
  <2>2. c \in Cursors /\ intervention \in BOOLEAN
    BY <1>0, <2>1 DEF Cursors, RunBlocked
  <2>3. rs' = AfterResume(rs, c, intervention)
    BY <1>2, <2>1, Zenon DEF Resume
  <2> QED
    BY <1>0, <2>2, <2>3, AfterResumeFields, Zenon
<1>3. CASE EnterStep
  <2>1. cmd.pc = "enter" /\ cmd.at.step \in Steps /\ ~Capped(rs, cmd.at.step)
    BY <1>0, <1>3 DEF EnterStep
  <2>2. PICK c \in BeginAttempt(rs, cmd.at) : rs' = AfterStepEnter(rs, c, FALSE)
    BY <1>3 DEF EnterStep
  <2>3. c \in Cursors /\ c.step = cmd.at.step /\ FALSE \in BOOLEAN
    BY <1>0, <2>1, BeginAttemptType
  <2>4. rs'.visits = IF rs.resumedInFlight = c.step \/ FALSE \/ c.hard > 0 THEN rs.visits
                     ELSE [rs.visits EXCEPT ![c.step] = @ + 1]
    BY <1>0, <2>1, <2>2, <2>3, AfterStepEnterFields, Zenon
  <2>5. CASE rs.resumedInFlight = c.step \/ FALSE \/ c.hard > 0
    BY <2>4, <2>5, Zenon
  <2>6. CASE ~(rs.resumedInFlight = c.step \/ FALSE \/ c.hard > 0)
    <3>1. rs'.visits = [rs.visits EXCEPT ![c.step] = @ + 1]
      BY <2>4, <2>6, Zenon
    <3>2. ~(SumFunction(rs.visits) >= MaxSteps)
      BY <2>1, <2>3, <2>6, Zenon DEF Capped
    <3> QED
      BY <2>1, <2>3, <3>1, <3>2, Zenon
  <2> QED
    BY <2>5, <2>6
<1>4. CASE HardRetry
  <2>1. PICK c : c = [cmd.at EXCEPT !.hard = @ + 1]
    OBVIOUS
  <2>2. c \in Cursors /\ c.step = cmd.at.step /\ c.hard > 0 /\ c.step \in Steps
    BY <1>0, <1>4, <2>1 DEF Cursors, HardRetry
  <2>3. rs' = AfterStepEnter(rs, c, cmd.retry)
    BY <1>4, <2>1, Zenon DEF HardRetry
  <2> QED
    BY <1>0, <2>2, <2>3, AfterStepEnterFields, Zenon
<1>5. CASE Reenter
  <2>1. PICK c : c = [cmd.at EXCEPT !.attempt = NextTry(rs, cmd.at)]
    OBVIOUS
  <2>2. c \in Cursors /\ c.step \in Steps /\ TRUE \in BOOLEAN
    <3>1. cmd.at.step \in Steps /\ NextTry(rs, cmd.at) \in Nat
      BY <1>0, <1>5, NextTryType DEF Reenter
    <3> QED
      BY <1>0, <2>1, <3>1 DEF Cursors
  <2>3. rs' = AfterStepEnter(rs, c, TRUE)
    BY <1>5, <2>1, Zenon DEF Reenter
  <2> QED
    BY <1>0, <2>2, <2>3, AfterStepEnterFields, Zenon
<1>6. CASE Transition
  <2>1. cmd.at.step \in Steps
    BY <1>0, <1>6 DEF Transition
  <2>2. PICK target \in Places, via \in BOOLEAN :
          rs' = AfterTransition(rs, cmd.at.step, target, via)
    BY <1>6, <2>1, TargetType DEF Transition, ViaCatch
  <2> QED
    <3>1. Kept(AfterTransition(rs, cmd.at.step, target, via), rs)
      BY ONLY <1>0, <2>1, target \in Places, via \in BOOLEAN, AfterTransitionFields, Zenon
    <3> QED
      BY <2>2, <3>1, Zenon DEF Kept
<1>7. CASE InvariantBlocks \/ End \/ AbandonEnds
  <2>1. PICK s \in Places, status \in {"ok", "blocked", "abandoned"} :
          rs' = AfterRunEnd(rs, s, status)
    <3>1. cmd.at.step \in Places /\ NoStep \in Places
      BY <1>0 DEF Cursors, Places
    <3>2. cmd.pc # "idle" => EndStatus(cmd.outcome) \in {"ok", "blocked", "abandoned"}
      BY <1>0, TargetType, WorkflowAssumption DEF EndStatus
    <3> QED
      BY <1>7, <3>1, <3>2 DEF InvariantBlocks, End, AbandonEnds
  <2>2. AfterRunEnd(rs, s, status).visits = rs.visits
    BY ONLY <1>0, s \in Places, status \in {"ok", "blocked", "abandoned"}, AfterRunEndFields, Zenon
  <2> QED
    BY <2>1, <2>2
<1>8. CASE HardFails \/ PrintsFailure \/ ContextUnavailable \/ Passes \/ Fails
  <2>1. cmd.at.step \in Steps
    BY <1>0, <1>8 DEF HardFails, PrintsFailure, ContextUnavailable, Passes, Fails, Judging
  <2>2. \/ rs' = rs
        \/ \E ok \in BOOLEAN, text \in Errors :
             rs' = AfterPostcondition(rs, cmd.at.step, ok, text)
    BY <1>0, <1>8 DEF HardFails, PrintsFailure, ContextUnavailable, Passes, Fails
  <2> QED
    BY <1>p, <2>1, <2>2
<1>9. CASE rs' = rs
  BY <1>9
<1> QED
  BY <1>1, <1>2, <1>3, <1>4, <1>5, <1>6, <1>7, <1>8, <1>9
     DEF Next, RunStep, LoopStep, BodyStep, EnterCapped, Crash, AbandonLooks, RunBody, Dispatch,
         FailsCapped, FailsFinally, Submit, Over, runVars

\* All steps together are entered no more often than max_steps: allows, over
\* all commands, crashes and interventions of a run.
THEOREM StepsBounded == Spec => []StepsWithinMax
<1>1. Init => StepsWithinMax
  <2> SUFFICES ASSUME Init
               PROVE  StepsWithinMax
    OBVIOUS
  <2>1. rs.visits = [s \in Steps |-> 0]
    BY DEF Init, RunInit, NewRun
  <2>2. SumFunction(rs.visits) = 0
    BY <2>1, SumOfZeros, WorkflowAssumption
  <2> QED
    BY <2>2, WorkflowAssumption DEF StepsWithinMax
<1>2. IInv /\ StepsWithinMax /\ [Next]_runVars => StepsWithinMax'
  <2> SUFFICES ASSUME IInv, StepsWithinMax, [Next]_runVars
               PROVE  SumFunction(rs'.visits) <= MaxSteps
    BY DEF StepsWithinMax
  <2>1. rs.visits \in [Steps -> Nat] /\ SumFunction(rs.visits) <= MaxSteps
    BY Parts DEF IInv, StepsWithinMax
  <2>2. CASE rs'.visits = rs.visits
    BY <2>1, <2>2
  <2>3. ASSUME NEW s \in Steps, ~(SumFunction(rs.visits) >= MaxSteps),
               rs'.visits = [rs.visits EXCEPT ![s] = @ + 1]
        PROVE  SumFunction(rs'.visits) <= MaxSteps
    <3>1. /\ SumFunction(rs.visits) \in Nat
          /\ SumFunction(rs'.visits) = SumFunction(rs.visits) + 1
      BY <2>1, <2>3, SumOneMore, WorkflowAssumption
    <3> QED
      BY <2>3, <3>1, WorkflowAssumption
  <2> QED
    BY <2>2, <2>3, VisitsMove DEF runVars
<1> QED
  BY <1>1, <1>2, Invariance, PTL DEF Spec

=============================================================================
