------------------------------- MODULE Foreach -------------------------------
(***************************************************************************)
(* A parallel step with foreach: (internal/engine/foreach.go, submit.go,    *)
(* and the item events of internal/journal/replay.go), beside the steps of  *)
(* Engine.  The entry freezes a list; every item runs the body, at once     *)
(* where it is deterministic, else by a dispatch and a pawl submit of its   *)
(* own; the step is joined when none is pending.  An item is its index.     *)
(***************************************************************************)
EXTENDS Engine, FiniteSetsExt

CONSTANTS
  Loops,        \* the steps that declare foreach:
  MaxItems,     \* max_items: of each
  BodyKind,     \* kind: of its body
  BodyTries,    \* retry.max_attempts of a deterministic body
  BodyAttempts, \* attempts: of an agentic body
  BodyKeys      \* the values the body's attempt_key: renders to, {} if omitted

\* What the validator makes sure of (rules 22 to 26).
ASSUME ForeachAssumption ==
  /\ Loops \subseteq Steps
  /\ \A s \in Loops : /\ Kind[s] = "parallel"
                      /\ {"success", "partial"} \subseteq Emits[s]
  /\ MaxItems \in [Loops -> Nat \ {0}]
  /\ BodyKind \in [Loops -> {"deterministic", "agentic"}]
  /\ BodyTries \in [Loops -> Nat \ {0}]
  /\ BodyAttempts \in [Loops -> Nat \ {0}]
  /\ DOMAIN BodyKeys = Loops

VARIABLES
  each,    \* per foreach step: its items, as Replay sees them
  collect, \* per foreach step: how long collect: is, and who succeeded in it
  lap,     \* how far the command that holds the lock is with the items
  told,    \* per foreach step: the items and attempts the session was ever asked for
  past     \* per foreach step: its latest visit, read by properties only

eachVars == <<each, collect, lap, told, past>>
foreachVars == <<runVars, eachVars>>

Index == UNION {0..(MaxItems[s] - 1) : s \in Loops}
ItemKeys == Keys \cup UNION {BodyKeys[s] : s \in Loops}
NoTries == [k \in ItemKeys |-> 0]

\* ForeachItems (its length; `frozen` unless the latest entry resolved at
\* once), PendingItems, ItemOutcome, ItemAttempt, ItemAttemptKey, ItemKeyAttempts.
NoItems ==
  [ frozen |-> FALSE, n |-> 0, pending |-> {}, outcome |-> [i \in Index |-> ""],
    attempt |-> [i \in Index |-> 0], key |-> [i \in Index |-> ""],
    tries |-> [i \in Index |-> NoTries] ]

\* The list is `n` long, NotArray when the key does not hold a list.
NoLap == [at |-> "off", n |-> 0, todo |-> {}, print |-> {}, hard |-> 0]
NotArray == -1

NewVisit == [list |-> 0, res |-> [i \in Index |-> ""], retries |-> [i \in Index |-> 0],
             asked |-> {}, late |-> FALSE]

Item == Min(lap.todo)
Here == each[cmd.at.step]
Agentic(s) == BodyKind[s] = "agentic"
Note(e) == each' = [each EXCEPT ![cmd.at.step] = e]

ForeachInit ==
  /\ Init
  /\ each = [s \in Loops |-> NoItems]
  /\ collect = [s \in Loops |-> [n |-> 0, good |-> {}]]
  /\ lap = NoLap
  /\ told = [s \in Loops |-> {}] /\ past = [s \in Loops |-> NewVisit]

-----------------------------------------------------------------------------
(* Replay, item by item *)

\* Mutant: the entry of a list leaves the outcomes of the list before.
SnapshotKeepsOutcomes(e, n) == [NoItems EXCEPT !.frozen = TRUE, !.n = n, !.outcome = e.outcome]

\* The ungrouped STEP_ENTER with Items starts the group afresh.
Snapshot(e, n) == [NoItems EXCEPT !.frozen = TRUE, !.n = n]

\* The grouped STEP_ENTER: a fresh one starts the item over, a Retry goes on.
AfterItemEnter(e, i, attempt, key, retry) ==
  [e EXCEPT !.pending = @ \cup {i}, !.attempt[i] = attempt, !.key[i] = key,
            !.outcome[i] = IF retry THEN @ ELSE "",
            !.tries[i] = With(IF retry THEN @ ELSE NoTries, key, attempt)]

AfterItemTransition(e, i, outcome) ==
  [e EXCEPT !.pending = @ \ {i}, !.outcome[i] = outcome]

-----------------------------------------------------------------------------
(* Into the step *)

\* A pawl run that resumes the step itself, other than after a block, remembers
\* so until it knows whether there is a list to go on with.
ResumeAt ==
  /\ Resume
  /\ lap' = IF ~RunBlocked(rs) /\ Cursor(rs).step \in Loops
            THEN [NoLap EXCEPT !.at = "rejoin"] ELSE lap
  /\ UNCHANGED <<each, collect, told, past>>

\* resumeForeach: the latest entry froze a list.
Rejoins == lap.at = "rejoin" /\ Here.frozen

CappedEach ==
  /\ cmd.at.step \in Loops /\ ~Rejoins
  /\ EnterCapped
  /\ lap' = NoLap
  /\ UNCHANGED <<each, collect, told, past>>

\* dispatchForeach: the list is read and frozen by the STEP_ENTER; only a list
\* with something in it is.
EnterEach ==
  /\ cmd.at.step \in Loops /\ ~Rejoins
  /\ EnterStep
  /\ LET s == cmd.at.step IN
     \E list \in {NotArray} \cup 0..(MaxItems[s] + 1) :
       /\ Note(IF list \in 1..MaxItems[s] THEN Snapshot(Here, list)
               ELSE [Here EXCEPT !.frozen = FALSE])
       /\ lap' = [NoLap EXCEPT !.n = list,
                    !.at = IF list \in 1..MaxItems[s] THEN "next"
                           ELSE IF list = 0 THEN "join" ELSE "reject",
                    !.todo = IF list \in 1..MaxItems[s] THEN 0..(list - 1) ELSE {}]
       /\ past' = [past EXCEPT ![s] = [NewVisit EXCEPT !.list = list]]
  /\ UNCHANGED <<collect, told>>

\* Mutant: a resume runs every item again.
RejoinEachAll ==
  /\ cmd.pc = "enter" /\ cmd.at.step \in Loops /\ Rejoins
  /\ cmd' = AtPC("fan", cmd.at)
  /\ lap' = [NoLap EXCEPT !.at = "next", !.n = Here.n, !.todo = 0..(Here.n - 1)]
  /\ UNCHANGED <<rs, untouched, hist, each, collect, told, past>>

\* Every item of the frozen list without an outcome runs (again).
RejoinEach ==
  /\ cmd.pc = "enter" /\ cmd.at.step \in Loops /\ Rejoins
  /\ cmd' = AtPC("fan", cmd.at)
  /\ lap' = [NoLap EXCEPT !.at = "next", !.n = Here.n,
               !.todo = {i \in 0..(Here.n - 1) : Here.outcome[i] = ""}]
  /\ UNCHANGED <<rs, untouched, hist, each, collect, told, past>>

\* A value that is no list, or one over max_items:, is a failed step's error...
RejectList ==
  /\ lap.at = "reject"
  /\ rs' = AfterPostcondition(rs, cmd.at.step, FALSE, Diagnostic)
  /\ lap' = [lap EXCEPT !.at = "clear"]
  /\ UNCHANGED <<cmd, untouched, hist, each, collect, told, past>>

\* ...and clears what an earlier visit has collected.
ClearCollect ==
  /\ lap.at = "clear"
  /\ collect' = [collect EXCEPT ![cmd.at.step] = [n |-> 0, good |-> {}]]
  /\ cmd' = Resolved(cmd.at, IF lap.n = NotArray THEN "failure" ELSE "exhausted", TRUE)
  /\ lap' = NoLap
  /\ UNCHANGED <<rs, untouched, hist, each, told, past>>

-----------------------------------------------------------------------------
(* Item by item *)

Record(i, outcome) ==
  /\ Note(AfterItemTransition(Here, i, outcome))
  /\ past' = [past EXCEPT ![cmd.at.step].res[i] = outcome]

Onwards == lap' = [lap EXCEPT !.at = "next", !.todo = @ \ {Item}, !.hard = 0]

\* The grouped STEP_ENTER: fresh, or at the attempt and under the key that was
\* interrupted when that was a later one.
NextItem ==
  /\ lap.at = "next" /\ lap.todo # {}
  /\ LET s == cmd.at.step
         retry == Agentic(s) /\ Here.attempt[Item] > 1
     IN IF retry
          THEN Note(AfterItemEnter(Here, Item, Here.attempt[Item], Here.key[Item], TRUE))
          ELSE \E key \in IF BodyKeys[s] = {} THEN {""} ELSE BodyKeys[s] :
                 Note(AfterItemEnter(Here, Item, 1, key, FALSE))
  /\ lap' = [lap EXCEPT !.at = IF Agentic(cmd.at.step) THEN "offer" ELSE "run"]
  /\ UNCHANGED <<runVars, collect, told, past>>

RunItem ==
  /\ lap.at = "run"
  /\ WorldChanges
  /\ lap' = [lap EXCEPT !.at = "judge"]
  /\ UNCHANGED <<rs, cmd, age, leaving, crashes, hist, each, collect, told, past>>

\* runForeachItem: no attempts, one outcome; a diagnostic of an item changes
\* nothing that Replay keeps.
ItemResolves ==
  /\ lap.at = "judge"
  /\ \E outcome \in {"success", "failure"} : Record(Item, outcome)
  /\ Onwards
  /\ UNCHANGED <<runVars, collect, told>>

\* A hard failure with a try left: the STEP_ENTER of the next try.
ItemTriesAgain ==
  /\ lap.at = "judge" /\ lap.hard + 1 < BodyTries[cmd.at.step]
  /\ Note(AfterItemEnter(Here, Item, 1, "", TRUE))
  /\ lap' = [lap EXCEPT !.at = "run", !.hard = @ + 1]
  /\ UNCHANGED <<runVars, collect, told, past>>

OfferItem ==
  /\ lap.at = "offer"
  /\ lap' = [lap EXCEPT !.at = "next", !.todo = @ \ {Item}, !.print = @ \cup {Item}]
  /\ UNCHANGED <<runVars, each, collect, told, past>>

ItemUnavailable ==
  /\ lap.at = "offer"
  /\ Record(Item, "failure")
  /\ Onwards
  /\ UNCHANGED <<runVars, collect, told>>

Dispatched(items) == {<<i, Here.attempt[i]>> : i \in items}
Tell(items) ==
  /\ told' = [told EXCEPT ![cmd.at.step] = @ \cup Dispatched(items)]
  /\ past' = [past EXCEPT ![cmd.at.step].asked = @ \cup Dispatched(items)]

\* Mutant: the command returns although nothing was dispatched.
ItemsOutParks ==
  /\ lap.at = "next" /\ lap.todo = {}
  /\ Tell(lap.print) /\ cmd' = Idle /\ lap' = NoLap
  /\ UNCHANGED <<rs, untouched, hist, each, collect>>

\* One DispatchParallel for all items, or the join where there is nothing to
\* dispatch.
ItemsOut ==
  /\ lap.at = "next" /\ lap.todo = {}
  /\ IF lap.print # {}
       THEN Tell(lap.print) /\ cmd' = Idle /\ lap' = NoLap
       ELSE lap' = [lap EXCEPT !.at = "join"] /\ UNCHANGED <<cmd, told, past>>
  /\ UNCHANGED <<rs, untouched, hist, each, collect>>

-----------------------------------------------------------------------------
(* pawl submit --item *)

\* Accepted for a pending item of the cursor's step, for the attempt it is at;
\* the session reports what it was asked for at some time, in any order.
SubmitItem(i) ==
  /\ cmd = Idle /\ rs.started /\ ~RunTerminal(rs)
  /\ Cursor(rs).step \in Loops
  /\ LET s == Cursor(rs).step
         e == each[s]
     IN /\ i \in e.pending
        /\ <<i, e.attempt[i]>> \in told[s]
        /\ lap' = [NoLap EXCEPT !.at = "report", !.n = e.n, !.todo = {i}]
        /\ past' = [past EXCEPT ![s].late = @ \/ <<i, e.attempt[i]>> \notin past[s].asked]
  /\ WorldChanges
  /\ cmd' = AtPC("fan", Cursor(rs))
  /\ UNCHANGED <<rs, age, leaving, crashes, hist, each, collect, told>>

\* afterItemResolved: the last item to land joins.
Landed(outcome) ==
  /\ Record(Item, outcome)
  /\ IF Here.pending \subseteq {Item}
       THEN lap' = [lap EXCEPT !.at = "join"] /\ UNCHANGED cmd
       ELSE cmd' = Idle /\ lap' = NoLap

ReportPasses ==
  /\ lap.at = "report"
  /\ Landed("success")
  /\ UNCHANGED <<rs, untouched, hist, collect, told>>

\* Mutant: a failure with a new text has the budget to itself.
ItemTryOfKey(e, i, key) == e.tries[i][key] + 1

\* The attempt after one that failed under `key`.
ItemTry(e, i, key) ==
  1 + IF e.tries[i][key] > e.attempt[i] THEN e.tries[i][key] ELSE e.attempt[i]

\* The item's own budget, which the foreach step's max_visits: caps as well.
ItemBudget(s) == IF BodyAttempts[s] < MaxVisits[s] THEN BodyAttempts[s] ELSE MaxVisits[s]

\* submitItem and retryItem: a failed report is retried under its key while the
\* budget lasts; the item stays pending.
ReportFails ==
  /\ lap.at = "report"
  /\ \E text \in Texts :
       LET s == cmd.at.step
           key == IF BodyKeys[s] = {} THEN text ELSE Here.key[Item]
           next == ItemTry(Here, Item, key)
       IN IF next <= ItemBudget(s)
            THEN /\ Note(AfterItemEnter(Here, Item, next, key, TRUE))
                 /\ lap' = [lap EXCEPT !.at = "redo"]
                 /\ past' = [past EXCEPT ![s].retries[Item] =
                               IF @ < BodyAttempts[s] THEN @ + 1 ELSE @]
                 /\ UNCHANGED cmd
            ELSE Landed("failure")
  /\ UNCHANGED <<rs, untouched, hist, collect, told>>

\* The item is dispatched again, alone.
Redispatch ==
  /\ lap.at = "redo"
  /\ Tell({Item}) /\ cmd' = Idle /\ lap' = NoLap
  /\ UNCHANGED <<rs, untouched, hist, each, collect>>

RedispatchUnavailable ==
  /\ lap.at = "redo"
  /\ Landed("failure")
  /\ UNCHANGED <<rs, untouched, hist, collect, told>>

-----------------------------------------------------------------------------
(* The join *)

\* joinForeach, up to the invariants: collect: is written, then the outcome is
\* resolved three ways.
JoinEach ==
  /\ lap.at = "join"
  /\ LET s == cmd.at.step
         good == {i \in 0..(lap.n - 1) : Here.outcome[i] = "success"}
     IN /\ collect' = [collect EXCEPT ![s] = [n |-> lap.n, good |-> good]]
        /\ cmd' = Resolved(cmd.at, IF good = 0..(lap.n - 1) THEN "success"
                                   ELSE IF good = {} THEN "failure" ELSE "partial", TRUE)
  /\ lap' = NoLap
  /\ UNCHANGED <<rs, untouched, hist, each, told, past>>

-----------------------------------------------------------------------------

CrashInLap == Crash /\ lap' = NoLap /\ UNCHANGED <<each, collect, told, past>>

\* Everything that is not the business of a foreach step.
Otherwise ==
  /\ \/ Start \/ (cmd.at.step \notin Loops /\ (EnterCapped \/ EnterStep))
     \/ InvariantBlocks \/ Transition \/ End \/ AbandonLooks \/ AbandonEnds
     \/ BodyStep \/ Submit \/ Over
  /\ UNCHANGED eachVars

LapStep == \/ CappedEach \/ EnterEach \/ RejoinEach \/ RejectList \/ ClearCollect
           \/ NextItem \/ RunItem \/ ItemResolves \/ ItemTriesAgain
           \/ OfferItem \/ ItemUnavailable \/ ItemsOut
           \/ ReportPasses \/ ReportFails \/ Redispatch \/ RedispatchUnavailable
           \/ JoinEach

ForeachNext == \/ Otherwise \/ ResumeAt \/ LapStep \/ CrashInLap
               \/ \E i \in Index : SubmitItem(i)

ForeachSpec == ForeachInit /\ [][ForeachNext]_foreachVars

\* Commands go on, and the session reports on something it was asked for, again
\* and again, and runs pawl run again when a command has died.
EachWorks ==
  /\ ForeachSpec
  /\ WF_foreachVars(LapStep \/ ((Start \/ LoopStep \/ BodyStep) /\ Otherwise) \/ ResumeAt)
  /\ SF_foreachVars(\E i \in Index : SubmitItem(i))

-----------------------------------------------------------------------------
(* Properties *)

Asks == SUBSET (Index \X Nat)

Laps ==
  [ at : {"off", "rejoin", "reject", "clear", "next", "run", "judge", "offer", "report",
          "redo", "join"},
    n : Int, todo : SUBSET Index, print : SUBSET Index, hard : Nat ]

ForeachTypeOK ==
  /\ TypeOK
  /\ each \in [Loops -> [frozen : BOOLEAN, n : Nat, pending : SUBSET Index,
                         outcome : [Index -> {"", "success", "failure"}],
                         attempt : [Index -> Nat], key : [Index -> ItemKeys],
                         tries : [Index -> [ItemKeys -> Nat]]]]
  /\ collect \in [Loops -> [n : Nat, good : SUBSET Index]]
  /\ lap \in Laps
  /\ told \in [Loops -> Asks]
  /\ past \in [Loops -> [list : Int, res : [Index -> {"", "success", "failure"}],
                         retries : [Index -> Nat], asked : Asks, late : BOOLEAN]]

\* The command is about to leave a foreach step.
LeavingEach == cmd.pc = "route" /\ cmd.gate /\ cmd.at.step \in Loops

\* What a step leaves behind is about the list of its latest entry and nothing
\* else: one entry per item, each item's own latest result, all of them reported,
\* and an outcome that says so; unless the session reported on a dispatch of an
\* earlier visit.
CollectsThisVisit ==
  LeavingEach /\ ~past[cmd.at.step].late =>
    LET c == collect[cmd.at.step]
        visit == past[cmd.at.step]
        all == 0..(visit.list - 1)
    IN IF visit.list \in 0..MaxItems[cmd.at.step]
         THEN /\ c.n = visit.list
              /\ \A i \in all : visit.res[i] = IF i \in c.good THEN "success" ELSE "failure"
              /\ cmd.outcome = IF c.good = all THEN "success"
                               ELSE IF c.good = {} THEN "failure" ELSE "partial"
         ELSE c = [n |-> 0, good |-> {}] /\ cmd.outcome \in {"failure", "exhausted"}

\* An item that has its outcome is not run, dispatched or asked for again in the
\* visit, whatever crashes and resumes there are.
ItemsRunOnce ==
  /\ \A s \in Loops : \A i \in each[s].pending : past[s].res[i] = ""
  /\ lap.at \in {"run", "judge", "offer", "report", "redo"} => past[cmd.at.step].res[Item] = ""

\* An item is retried fewer times than its attempts: and than the step's
\* max_visits:, whatever texts it fails with, and so the keys, and wherever
\* commands die: nextTryNumber (submit.go:366) goes on from the attempt that
\* failed.  format-spec.md:200 and :511 say otherwise, that a differing key starts
\* a fresh budget, for which reason max_visits: caps the retries too.
ItemRetriesWithinBudget ==
  \A s \in Loops : \A i \in Index : past[s].retries[i] < ItemBudget(s)

\* A foreach step that is in flight is left, or ends the run.
InEach == rs.inFlight /\ ~rs.ended /\ rs.lastEnter.step \in Loops
EachEnds == InEach ~> ~InEach

\* What resumeForeach says of itself: if the crash came before the step's own
\* STEP_ENTER, there is nothing to resume from and the step is entered afresh.
JoinsWhatItEntered == LeavingEach => rs.inFlight
=============================================================================
