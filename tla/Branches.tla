------------------------------ MODULE Branches ------------------------------
(***************************************************************************)
(* A parallel step with branches: (internal/engine/parallel.go, submit.go,  *)
(* and the grouped events of internal/journal/replay.go), beside the steps  *)
(* of Engine.  Every branch is entered in order; a deterministic one runs   *)
(* at once, an agentic one is dispatched and reported by pawl submit, and   *)
(* the group is joined when none is pending.  The cursor stays on the       *)
(* parallel step throughout.                                                *)
(***************************************************************************)
EXTENDS Engine, Sequences, FiniteSetsExt

CONSTANTS
  BranchesOf,  \* branches: of each step, in order; <<>> where it has none
  Agents       \* the branches that are agentic; the others are deterministic

Members(s) == Range(BranchesOf[s])
Branch == UNION {Members(s) : s \in Steps}

\* What the validator makes sure of: a branch is listed once, by one step, and
\* the cursor is never on it; success is one of the group's own outcomes.
ASSUME BranchesAssumption ==
  /\ \A s \in Steps : BranchesOf[s] \in Seq(Members(s))
  /\ \A s \in Steps : BranchesOf[s] # <<>> => Kind[s] = "parallel" /\ "success" \in Emits[s]
  /\ \A s \in Steps : \A i, j \in DOMAIN BranchesOf[s] :
       BranchesOf[s][i] = BranchesOf[s][j] => i = j
  /\ \A s, t \in Steps : s # t => Members(s) \cap Members(t) = {}
  /\ Branch \cap Steps = {} /\ Agents \subseteq Branch

VARIABLES
  br,    \* the grouped events, as Replay sees them
  fan,   \* how far the command that holds the lock is in the group
  told,  \* the branches the session was ever asked for by a DISPATCH
  past   \* history, read by properties only

groupVars == <<br, fan, told, past>>
branchVars == <<runVars, groupVars>>

\* `todo` holds positions in branches:, `enters` that each gets its STEP_ENTER,
\* `print` the dispatches collected so far.
NoFan == [at |-> "off", todo |-> {}, enters |-> FALSE, print |-> {}]

Group(s) == s \in Steps /\ BranchesOf[s] # <<>>
Position == Min(fan.todo)
Current == BranchesOf[cmd.at.step][Position]
Pending(s) == br.pending \cap Members(s)

\* `how` a branch has resolved since its group was last entered, the groups whose
\* latest entry was `torn` by a crash before all branches had their STEP_ENTER,
\* and whether a result was ever accepted for a run that was blocked (`astray`).
NoPast == [how |-> [b \in Branch |-> ""], torn |-> {}, astray |-> FALSE]

\* PendingBranches, BranchOutcome, and the groups with a Summary since they were
\* last entered.
BranchesInit ==
  /\ Init
  /\ br = [pending |-> {}, outcome |-> [b \in Branch |-> ""], summary |-> {}]
  /\ fan = NoFan /\ told = {} /\ past = NoPast

-----------------------------------------------------------------------------
(* Into the group *)

\* dispatchParallel: the step's own STEP_ENTER.  Replay keeps what it knows of
\* the branches of earlier visits.
EnterGroup ==
  /\ Group(cmd.at.step) /\ rs.resumedInFlight # cmd.at.step
  /\ EnterStep
  /\ br' = [br EXCEPT !.summary = @ \ {cmd.at.step}]
  /\ fan' = [NoFan EXCEPT !.at = "next", !.todo = DOMAIN BranchesOf[cmd.at.step],
                          !.enters = TRUE]
  /\ past' = [past EXCEPT !.how = [b \in Branch |-> IF b \in Members(cmd.at.step) THEN "" ELSE @[b]],
                          !.torn = @ \ {cmd.at.step}]
  /\ UNCHANGED told

\* Mutant: a crash resume goes through every branch again.
ResumeGroupAll ==
  /\ cmd.pc = "enter" /\ Group(cmd.at.step) /\ rs.resumedInFlight = cmd.at.step
  /\ cmd' = AtPC("fan", cmd.at)
  /\ fan' = [NoFan EXCEPT !.at = "next", !.todo = DOMAIN BranchesOf[cmd.at.step]]
  /\ UNCHANGED <<rs, holds, age, leaving, crashes, hist, br, told, past>>

\* Mutant: a crash resume takes the pending branches as asked for.
ResumeGroupWaits ==
  /\ cmd.pc = "enter" /\ Group(cmd.at.step) /\ rs.resumedInFlight = cmd.at.step
  /\ cmd' = Idle
  /\ UNCHANGED <<rs, holds, age, leaving, crashes, hist, groupVars>>

\* resumeParallel: a crash resume goes on with the branches that are pending,
\* without entering anything.
ResumeGroup ==
  /\ cmd.pc = "enter" /\ Group(cmd.at.step) /\ rs.resumedInFlight = cmd.at.step
  /\ cmd' = AtPC("fan", cmd.at)
  /\ fan' = [NoFan EXCEPT !.at = "next",
               !.todo = {i \in DOMAIN BranchesOf[cmd.at.step] :
                           BranchesOf[cmd.at.step][i] \in br.pending}]
  /\ UNCHANGED <<rs, holds, age, leaving, crashes, hist, br, told, past>>

\* The grouped STEP_ENTER, and what runOneBranch does with the branch.
NextBranch ==
  /\ fan.at = "next" /\ fan.todo # {}
  /\ br' = IF fan.enters THEN [br EXCEPT !.pending = @ \cup {Current}] ELSE br
  /\ fan' = [fan EXCEPT !.at = IF Current \in Agents THEN "offer" ELSE "run"]
  /\ UNCHANGED <<runVars, told, past>>

\* The grouped TRANSITION.  A grouped POSTCONDITION before it changes nothing
\* that Replay keeps, and ${last_error} least of all.
Joins(b, outcome) ==
  /\ br' = [br EXCEPT !.pending = @ \ {b}, !.outcome[b] = outcome]
  /\ past' = [past EXCEPT !.how[b] = outcome]

Done == fan' = [fan EXCEPT !.at = "next", !.todo = @ \ {Position}]

RunBranch ==
  /\ fan.at = "run"
  /\ WorldChanges
  /\ fan' = [fan EXCEPT !.at = "judge"]
  /\ UNCHANGED <<rs, cmd, age, leaving, crashes, hist, br, told, past>>

\* Mutant: a branch whose postcondition failed is left pending.
JudgeBranchKeepsPending ==
  /\ fan.at = "judge"
  /\ \/ Joins(Current, "success")
     \/ br' = [br EXCEPT !.outcome[Current] = "failure"] /\ UNCHANGED past
  /\ Done
  /\ UNCHANGED <<runVars, told>>

\* execBranchDeterministic: no attempts and no retry, one outcome.
JudgeBranch ==
  /\ fan.at = "judge"
  /\ \E outcome \in {"success", "failure"} : Joins(Current, outcome)
  /\ Done
  /\ UNCHANGED <<runVars, told>>

OfferBranch ==
  /\ fan.at = "offer"
  /\ fan' = [fan EXCEPT !.at = "next", !.todo = @ \ {Position}, !.print = @ \cup {Current}]
  /\ UNCHANGED <<runVars, br, told, past>>

BranchUnavailable ==
  /\ fan.at = "offer"
  /\ Joins(Current, "failure")
  /\ Done
  /\ UNCHANGED <<runVars, told>>

\* One DispatchParallel asks for all agentic branches; a group without any is
\* joined by the command that entered it.
FanOut ==
  /\ fan.at = "next" /\ fan.todo = {}
  /\ IF fan.print # {}
       THEN told' = told \cup fan.print /\ cmd' = Idle /\ fan' = NoFan
       ELSE fan' = [fan EXCEPT !.at = "join"] /\ UNCHANGED <<cmd, told>>
  /\ UNCHANGED <<rs, holds, age, leaving, crashes, hist, br, past>>

-----------------------------------------------------------------------------
(* pawl submit for a branch *)

\* Accepted for any branch of the cursor's step that is pending, whichever
\* attempt it claims; the session reports what it was asked for, in any order.
SubmitBranch(b) ==
  /\ cmd = Idle /\ rs.started /\ ~RunTerminal(rs)
  /\ Group(Cursor(rs).step) /\ b \in Pending(Cursor(rs).step) /\ b \in Agents \cap told
  /\ WorldChanges
  /\ cmd' = AtPC("fan", Cursor(rs))
  /\ fan' = [NoFan EXCEPT !.at = "report",
               !.todo = {i \in DOMAIN BranchesOf[Cursor(rs).step] :
                           BranchesOf[Cursor(rs).step][i] = b}]
  /\ UNCHANGED <<rs, age, leaving, crashes, hist, br, told, past>>

\* Mutant: the first branch that fails joins the group.
ReportBranchFailsFast ==
  /\ fan.at = "report"
  /\ \E outcome \in {"success", "failure"} :
       /\ Joins(Current, outcome)
       /\ IF Pending(cmd.at.step) = {Current} \/ outcome = "failure"
            THEN fan' = [fan EXCEPT !.at = "join"] /\ UNCHANGED cmd
            ELSE cmd' = Idle /\ fan' = NoFan
  /\ UNCHANGED <<rs, holds, age, leaving, crashes, hist, told>>

\* submitBranch: the branch is recorded, and the last one joins.
ReportBranch ==
  /\ fan.at = "report"
  /\ \E outcome \in {"success", "failure"} : Joins(Current, outcome)
  /\ IF Pending(cmd.at.step) = {Current}
       THEN fan' = [fan EXCEPT !.at = "join"] /\ UNCHANGED cmd
       ELSE cmd' = Idle /\ fan' = NoFan
  /\ UNCHANGED <<rs, holds, age, leaving, crashes, hist, told>>

-----------------------------------------------------------------------------
(* The join *)

\* A Summary is a diagnostic of the group: it sets or clears ${last_error} and
\* is not the verdict of a postcondition.
AfterSummary(r, ok) == [r EXCEPT !.lastError = IF ok THEN NoText ELSE Diagnostic]

AllSucceeded(s) == \A b \in Members(s) : br.outcome[b] = "success"

\* Mutant: a group that passes leaves the error of an earlier visit.
JoinKeepsError ==
  /\ fan.at = "join"
  /\ LET s == cmd.at.step
         ok == AllSucceeded(s)
         speaks == ~ok /\ s \notin br.summary
     IN /\ rs' = IF speaks THEN AfterSummary(rs, ok) ELSE rs
        /\ br' = IF speaks THEN [br EXCEPT !.summary = @ \cup {s}] ELSE br
        /\ cmd' = Resolved(cmd.at, IF ok THEN "success" ELSE "failure", TRUE)
  /\ fan' = NoFan
  /\ UNCHANGED <<untouched, hist, told, past>>

\* routeParallel, up to the invariants: a failure is summarised once per entry,
\* a success takes back an error that is still there.
Join ==
  /\ fan.at = "join"
  /\ LET s == cmd.at.step
         ok == AllSucceeded(s)
         speaks == IF ok THEN rs.lastError # NoText ELSE s \notin br.summary
     IN /\ rs' = IF speaks THEN AfterSummary(rs, ok) ELSE rs
        /\ br' = IF speaks THEN [br EXCEPT !.summary = @ \cup {s}] ELSE br
        /\ cmd' = Resolved(cmd.at, IF ok THEN "success" ELSE "failure", TRUE)
  /\ fan' = NoFan
  /\ UNCHANGED <<untouched, hist, told, past>>

-----------------------------------------------------------------------------

\* A branch of the entry under way has not had its STEP_ENTER yet.
Unentered == fan.enters /\ \E i \in fan.todo : fan.at = "next" \/ i # Position

CrashInGroup ==
  /\ Crash
  /\ fan' = NoFan
  /\ past' = IF fan.at # "off" /\ Unentered
             THEN [past EXCEPT !.torn = @ \cup {cmd.at.step}] ELSE past
  /\ UNCHANGED <<br, told>>

\* A result for a step of its own; a run that is blocked accepts it too.
SubmitStep ==
  /\ Submit
  /\ past' = [past EXCEPT !.astray = @ \/ RunBlocked(rs)]
  /\ UNCHANGED <<br, fan, told>>

\* Everything that is not the business of a group.
Elsewhere ==
  /\ \/ Start \/ Resume \/ EnterCapped \/ (~Group(cmd.at.step) /\ EnterStep)
     \/ InvariantBlocks \/ Transition \/ End \/ AbandonLooks \/ AbandonEnds
     \/ BodyStep \/ Over
  /\ UNCHANGED groupVars

FanStep == \/ EnterGroup \/ ResumeGroup \/ NextBranch \/ RunBranch \/ JudgeBranch
           \/ OfferBranch \/ BranchUnavailable \/ FanOut \/ ReportBranch \/ Join

BranchesNext == \/ Elsewhere \/ SubmitStep \/ FanStep \/ CrashInGroup
                \/ \E b \in Branch : SubmitBranch(b)

BranchesSpec == BranchesInit /\ [][BranchesNext]_branchVars

\* Commands go on, and the session reports what it is asked for and runs pawl
\* run again when a command has died.
GroupsWork ==
  /\ BranchesSpec
  /\ WF_branchVars(FanStep \/ ((Start \/ Resume \/ LoopStep \/ BodyStep) /\ Elsewhere))
  /\ \A b \in Branch : SF_branchVars(SubmitBranch(b))

-----------------------------------------------------------------------------
(* Properties *)

Fans == [at : {"off", "next", "run", "judge", "offer", "report", "join"},
         todo : SUBSET UNION {DOMAIN BranchesOf[s] : s \in Steps},
         enters : BOOLEAN, print : SUBSET Branch]

BranchesTypeOK ==
  /\ TypeOK
  /\ br \in [pending : SUBSET Branch, outcome : [Branch -> {"", "success", "failure"}],
             summary : SUBSET Steps]
  /\ fan \in Fans /\ told \subseteq Branch
  /\ past \in [how : [Branch -> {"", "success", "failure"}], torn : SUBSET Steps,
               astray : BOOLEAN]

\* The command is about to leave a group that was entered.
Leaving == cmd.pc = "route" /\ cmd.gate /\ Group(cmd.at.step)

\* A group's outcome is that of its branches in this visit: it succeeds when
\* every branch has succeeded since the group was entered and fails when one
\* has failed, all having reported; unless a crash came between the STEP_ENTERs
\* of its branches.
OutcomeOfBranches ==
  Leaving /\ cmd.at.step \notin past.torn =>
    /\ \A b \in Members(cmd.at.step) : past.how[b] # ""
    /\ (cmd.outcome = "success") <=> \A b \in Members(cmd.at.step) : past.how[b] = "success"

\* A branch that has reported is not run, dispatched or asked for again until
\* its group is entered again, whatever crashes and resumes there are.
ReportedIsDone ==
  /\ \A b \in br.pending : past.how[b] = ""
  /\ fan.at \in {"run", "judge", "offer", "report"} => past.how[Current] = ""

\* Invariants end a run at the join only, when no branch is still out: no
\* report arrives for a run that has blocked; unless the session once went on
\* with a blocked run by a submit.
NoneOutWhenBlocked == RunBlocked(rs) /\ ~past.astray => br.pending = {}

\* Whatever crashes between the two, a group that fails leaves with its summary
\* in ${last_error} and one that succeeds without any error, so that neither an
\* earlier visit nor a sibling shows through.
ErrorOfGroup == Leaving => (cmd.outcome = "success" <=> rs.lastError = NoText)

\* A group that is in flight is left, or ends the run.
InGroup == rs.inFlight /\ ~rs.ended /\ Group(rs.lastEnter.step)
GroupsEnd == InGroup ~> ~InGroup

\* What routeParallel says of itself: a group is resolved once every branch has
\* transitioned.
JoinsAfterAll == Leaving => \A b \in Members(cmd.at.step) : past.how[b] # ""
=============================================================================
