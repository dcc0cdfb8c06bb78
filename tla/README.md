# A verification project for pawl

`pawl` drives a workflow: a graph of steps that a shell command, a coding agent, a
poller or a person carries out. Each `pawl` command is a short-lived process. It takes
a lock on the run's directory, replays an append-only journal, does some work, appends
events as it goes, prints the next instruction and exits. All coordination - between
processes, across crashes, over hours of waiting - is in that journal and that lock,
and they are what this project models, checks with TLC and proves with TLAPS.

## The system

| part | state it keeps | operations | interacts with |
|---|---|---|---|
| run lock (`journal/lock.go`) | the file `lock`, with a pid | AcquireLock (with `--force`), Release | every command; other commands' removals |
| event log (`journal/log.go`) | `events.jsonl`, an open handle with the next seq | OpenLog (truncates a torn tail), Append, Close | the lock protects it; pollers and hooks read it without |
| replay (`journal/replay.go`) | none: a fold that yields the `RunState` | Replay | every command, before it decides anything |
| run loop (`engine/engine.go`, `outcome.go`, `invariants.go`) | a local cursor | Start, Resume, runFrom, checkCaps, beginAttempt, afterTransition | appends events; executes invariants' checks |
| deterministic steps (`engine/deterministic.go`) | hard-retry count, frozen `${last_error}` | body, `retry:`, postcondition, `attempts:` | run loop |
| agentic steps (`engine/agentic.go`, `submit.go`) | none between commands | DISPATCH; submit, retry | the session, which submits |
| wait steps (`engine/wait.go`, `poll.go`) | a poller's deadline and streak, in its memory | park; the poll loop; completeWait | pollers hold no lock until they report |
| human steps (`engine/human.go`) | the time of HUMAN_ASKED | ask, ask again, answer | a person, through submit |
| parallel, foreach (`engine/parallel.go`, `foreach.go`) | pending branches and items, their outcomes | fan out, submit one, join, resume | submit; run loop |
| abandon (`cli/abandon.go`) | a state replayed before the lock | RUN_END | any other command |
| enforcement (`journal/enforce.go`, `journal/live.go`, `cli/enforce.go`, `cli/hook.go`, `hook/`, `guard/`) | heartbeats, driver, live index, subagent markers | PreToolUse, Stop and SubagentStop hooks; stamping a driver; reconciling the index | every command, before and after the engine |
| validator (`spec/`) | none | Load, Validate | run refuses an invalid workflow |
| self-update (`selfupdate/`, `cli/update.go`) | the installed binary, a temporary file beside it | decide, download, verify, replace | other updates; the release site |
| plan and rendering (`journal/plan_legacy.go`, `render/`, `engine/values.go`) | none | digest, text substitution | run loop |

What is hard here: commands that race for the lock, take it from the dead and steal it
from the living; a process that dies between any two appends, and what the next one
makes of the journal; pollers that act on a replay that is long out of date; budgets
(`attempts:`, `retry:`, `max_visits:`, `max_steps:`) counted by a fold over events that
crashes repeat; groups whose members report in any order, around a crash that came
between their entries; deadlines that must not be restarted; answers that arrive late,
twice, or for a step the run has left; an index that is edited from a listing while the
runs it lists begin and end; and a binary replaced while it is in use.

## Modules

| module | what it is |
|---|---|
| `RunLock` | the lock protocol, one file-system call per step |
| `RunLog` | `events.jsonl` under `RunLock`: torn writes, recovery, sequence numbers |
| `Workflow` | the constants a workflow is, and outcome routing |
| `Journal` | replay: the `RunState` and one operator per kind of event |
| `RunLoop` | start, resume, entering and leaving steps, abandon, crashes |
| `Bodies` | deterministic bodies, agentic dispatch and submit, retries and attempts |
| `Engine` | the composition of these for deterministic and agentic steps; its properties |
| `Parked` | `Engine` with wait and human steps, pollers and time |
| `Branches` | `Engine` with parallel steps that have `branches:` |
| `Foreach` | `Engine` with parallel steps that have `foreach:` |
| `Walk` | abstract: what a run promises its author, without crashes, attempts or events |
| `Enforce` | heartbeats, drivers and the live index around the commands |
| `Hooks` | `Enforce` with the Stop and SubagentStop hooks of sessions |
| `Update` | `pawl update`, releases, downloads and the replacement of the binary |
| `RunLog_proofs`, `Hooks_proofs`, `Update_proofs` | theorems about `RunLock` and `RunLog`, `Enforce` and `Hooks`, `Update` |
| `Engine_proofs`, `Engine_walk` | theorems about `Engine`: types, caps, endings and gates; tries, attempts and the refinement of `Walk` |
| `Parked_proofs`, `Branches_proofs`, `Foreach_proofs` | theorems about `Parked`, `Branches`, `Foreach`, on top of `Engine_proofs` |
| `MCRunLock`, `MCRunLog`, `MCEngine`, `MCParked`, `MCBranches`, `MCForeach`, `MCHooks`, `MCUpdate` | the instances for TLC |

`RunLog` extends `RunLock`; `RunLoop` and what extends it take the mutual exclusion of the
lock for granted (where it fails is `RunLock`'s subject) and so keep one command, `cmd`,
in place of a lock. `Parked`, `Branches` and `Foreach` each extend `Engine`: their
next-state relations contain all of its actions, so a group or a wait is checked among
crashes, blocks, abandons and interventions. `Hooks` extends `Enforce`, which takes of a
run only where its journal leaves it. `Update` stands alone, as it does in the code.

### RunLock and RunLog

Each process runs one command. `pc` is where it stands in `AcquireLock` or `Release`;
`file` is the directory entry, a set with at most one element that records which
process created it (`by`) and the pid written into it (none, between the create and the
write). A process creates with O_EXCL (`Create`), writes its pid (`WritePid`) and syncs
(`SyncLock`), or finds a file, reads it (`ReadHolder`), judges the holder (`Judge`) and
removes the path (`TakeOver`), whatever it names by then. `stolen` is a history variable: somebody removed the file of
another process that was alive. The code's comment says takeover cannot leave two
holders. It can (run `MCRunLockMutex`); what holds is `ExclusiveUnlessStolen`.

`RunLog` puts the log under that lock. A process that believes it holds the lock opens
(read, then truncate what the read saw as torn), appends, closes. Records are their
sequence numbers. A failed write and a death in mid-write leave a torn tail.

### Journal, RunLoop, Bodies, Engine

The journal is only appended to and `Replay` is a fold, so the model keeps the fold's
result (`rs`) in place of the events: `AfterStepEnter(rs, ...)` is "append a STEP_ENTER
and replay". `asked` and `answered` stand for what `human.go` finds by scanning the
events. The fields of `rs` are those of `RunState` and the locals of `Replay` that
matter later (`lastEnter`, `left`, `inFlight`, `blockedStep`, ...).

`cmd` is the command that holds the lock: where it is between two appends, and the
engine's local cursor. While it is not `Idle`, no other command starts. Each action
appends at most one event, and `Crash` ends the command between any two.

| action | code |
|---|---|
| `Start`, `Resume` | `Engine.Start`, `Engine.Resume` up to the dispatch of the cursor's step |
| `EnterCapped`, `EnterStep` | checkCaps and beginAttempt in advanceDeterministic, dispatchAgentic, dispatchHuman, parkWait, dispatchParallel; the STEP_ENTER |
| `RunBody`, `HardFails`, `PrintsFailure`, `HardRetry` | runDeterministicAttempt and the retry loop around it |
| `Dispatch`, `ContextUnavailable` | dispatchInstruction |
| `Submit` | `Engine.submit` up to the postcondition |
| `Passes`, `Fails`, `FailsCapped`, `FailsFinally`, `Reenter` | what follows a postcondition, in advanceDeterministic and in submit |
| `InvariantBlocks`, `Transition`, `End` | preTransitionInvariantBlock, the TRANSITION of routeReserved, routeAgentic, routeHuman, completeWait, routeParallel and joinForeach, and afterTransition |
| `AbandonLooks`, `AbandonEnds` | cmdAbandon before and after it has the lock |
| `Crash` | the process dies, or an append fails and the command returns the error |

A body's work, a submitted result and a person's deeds are nondeterministic: an outcome
from `Emits`, a failure text from `Texts`, and whether the invariants hold afterwards.
The attempt key of a step without `attempt_key:` is the failure text itself (the code
hashes the text with its whitespace normalised); with a template it is one of the
values the template can render to.

`hist` is history: the ways into each step, the retries of the visit, the `${last_error}`
the attempt's first try saw, and `entered`, the cursor of the visit's latest STEP_ENTER,
which no RESUME touches. Only properties read it.

### Parked

`age` is how long ago a wait was entered and a question asked, in ticks, in place of the
timestamps of events. `polls` is what each `pawl poll` process is doing. A poller
computes its deadline once, re-reads the run at each iteration, decides, and only then
takes the lock and looks again (`PollCompletes`). `PollLeaves` stands for all its early
exits: the run has moved on or ended, or the lock was held when it wanted to report.

### Branches and Foreach

In both, the cursor stays on the parallel step and the events of its members are
grouped. `br` and `each` are what Replay makes of those (PendingBranches, BranchOutcome;
ForeachItems, PendingItems, ItemOutcome, ItemAttempt, ItemAttemptKey, ItemKeyAttempts).
`fan` and `lap` say how far the one command that holds the lock is with the members:
which are still to do, whether the current one is run, dispatched or reported, and what
the command has collected to print. `told` is what the session was ever asked for; it may
report any of it, at any time and in any order (`SubmitBranch`, `SubmitItem`), and the
code's own checks decide what is accepted. The last report joins (`Join`, `JoinEach`).
`ResumeGroup` and `RejoinEach` are resumeParallel and resumeForeach.

A branch has one outcome and no attempts. An item of a deterministic body has `retry:`;
one of an agentic body has attempts under keys, like a step but counted apart
(`ReportFails`). The list of a foreach step is its length, which may be no list, empty or
over `max_items:`; `collect` is what the join writes. `past` is read by properties only:
what the members of a step's latest visit reported, whether a crash tore the entry of a
group (`torn`), a report answered a dispatch of an earlier visit (`late`), or a result was
ever accepted for a run that was blocked (`astray`).

### Enforce and Hooks

Callers (sessions with hooks, terminals without) run side by side, each `pawl` process at
a `pc`. A command of a session follows its PreToolUse hook (`PreHook`), which writes two
heartbeats; heartbeats go stale on their own (`GoesStale`). `StartRun` and `ResumeRun` are
the gate (`Vouched` is freshHeartbeat with its fallback to the working copy's heartbeat),
`EngineTakes` to `EngineReturns` stand for the engine under the run's lock, and `Stamp`
writes `driver.json` - before the engine for a start, after it and without the lock for
the others, as in the code. A resume makes a blocked run live again, a submit goes on with
it as it is; `--force` on a lock that is held is `RunLock`'s, and left out here. Every
command ends in `SyncLiveIndex`, which is three reads
and edits apart: list the runs, list the links, then one removal or link at a time.

`Hooks` adds the Stop hook: the launcher's test of the index, the listing of the working
copy's runs, the sync, the decision of `DecideStop` and the removal of the markers it saw,
each a step of its own. `SubagentStop` leaves a marker, which expires. `lost` holds the
runs whose link a sync removed, from a listing made before they began, while they were
live; it is read by properties only, as is `since`, the markers since the last Stop.

### Update

Each process decides by the version of the build it runs as, downloads the archive, then
the checksums, verifies, and replaces the binary through a temporary file: create, write,
sync, chmod, rename, or clean up. Releases are uploaded again between the two
downloads, downloads arrive damaged, processes are killed at any step, and a power loss
takes the content that was not synced. The mode is set after the sync and nothing syncs
it; the model takes it that changes of modes and names reach the disk in their order
(`Survives`). `vouched` records what a checksums.txt ever named.

### Walk

`Engine` with deterministic steps implements `Walk`: under the mapping `W` a run is at a
place, in or out of a visit, has visited each step so often, and moves only by the edges
declared for outcomes its steps can have. A crash, a resume, a hard retry and an attempt
are stuttering steps. Run `MCEngineWalk` checks it, theorem `Walks` proves it. With
agentic steps it is not so: after a crash between a TRANSITION and the STEP_ENTER it
announced, a submit is accepted for a step that was never entered, and the run leaves a
step it has not visited.

## What the runs check

| run | bounds | shows |
|---|---|---|
| `MCRunLog` | 3 processes, 1 with `--force`, any may die; 3 records | `TypeOK`, `ExclusiveUnlessStolen`, `NoOrphanedLock`, `ReplayableUnlessStolen`, `CommittedSurvives` |
| `MCEngine` | an agentic and a deterministic step in a loop, 2 visits each, 3 steps, 2 attempts, 2 tries, 2 failure texts, an attempt key on one, 1 crash, invariants | `TypeOK`, `VisitsWithinMax`, `StepsWithinMax`, `CrashConsumesNoVisit`, `RetriesWithinBudget`, `TriesSeeOneError`, `CrashKeepsAttempt`, `GatedTransitions`, `FinalButForAbandon`, `RunsStop` |
| `MCEngineWalk` | both steps deterministic, capped they hand over to each other, 4 steps, 2 crashes | `IsWalk`, `CommandsReturn` |
| `MCParked` | a wait and a human step in a loop, 2 visits each, 3 steps, `retry:`, 1 poller, 1 crash | `ParkedTypeOK`, `DeadlinePinned`, `AnswerStands`, `WaitsEnd` |
| `MCBranches` | 1 deterministic branch between 2 agentic ones, 2 visits with an agentic step in between, 3 steps, invariants, 1 crash | `BranchesTypeOK`, `OutcomeOfBranches`, `ReportedIsDone`, `NoneOutWhenBlocked`, `ErrorOfGroup`, `GroupsEnd` |
| `MCForeach` | a deterministic body over 1 item, then an agentic one over up to 2 and 2 visits, 2 tries, 2 attempts, 2 failure texts, 1 crash | `ForeachTypeOK`, `CollectsThisVisit`, `ItemsRunOnce`, `ItemRetriesWithinBudget`, `EachEnds` |
| `MCHooks` | 1 session, 1 terminal, 1 subagent, 2 working copies, 1 run, 1 crash | `EnforceTypeOK`, `OffIsOff`, `KeptAtWork`, `CreditSpentOnce`, `IndexHeals` |
| `MCUpdate` | 2 updates, a release, the next and its pre-release, one archive uploaded twice | `AlwaysABinary`, `LeavesNoTmp`, `OnlyForward` |

Every run explores its whole state space. Three processes are a holder and two takers,
so that one can be slow between its judgement and its removal of the lock; three records are
one to lose, one to repeat and one behind them. Two steps in a loop with two visits give a
step left and re-entered,
a visit capped from both sides (`max_visits:` and `max_steps:`), and a catch edge back.
Two attempts and two tries give the first, the last and the one after; two failure texts
let a second failure have a new key. One crash, before which and after which anything may
happen, reaches each point of a command; `MCEngineWalk` takes two, so that one can hit the
recovery from another, and its steps route `exhausted` to each other, so that the cycle
which `GoesRound` describes is in the instance. Two agentic branches report in either order, with a
branch between them that runs at once; two visits let the outcomes of the first show
through in the second, and the step between them takes the run away from the group and
back, on blocked runs too. The session of `MCHooks` starts in one of two working copies and so
finds a run in the other only by the index; the terminal is whoever else acts on the run,
and any number of commands of each follow one another. Two updates are enough for one to
replace what the other has judged, and a second upload for an archive and a checksum that
do not belong together.

Bounds that are not the code's: `MaxCrashes`, `MaxRecords`, `MaxUploads`, `hist.arrivals`
(counted to one above `max_visits:`), `past.retries` of an item (to `attempts:`) and the
ages (to one tick above the timeout).

Where the code and what is said of it differ, a run finds a counterexample:

| run | the claim | what happens |
|---|---|---|
| `MCRunLockMutex` | lock.go:49, two callers cannot both hold the lock | one has created the file and not written its pid yet; the other reads it, judges a dead holder and unlinks the lock of a live command; both hold, and nobody has died |
| `MCEngineStranded` | running.md:203, a non-terminal run resumes | after RUN_START or a TRANSITION to a terminal the cursor is no step, and Resume fails |
| `MCBranchesTorn` | parallel.go:189, a group is resolved once every branch has transitioned | after a crash between the STEP_ENTERs of a group and its branches the resume sees nothing pending and joins |
| `MCForeachStale` | foreach.go:514, without a STEP_ENTER of its own the step is entered afresh | the last STEP_ENTER the journal has is that of an earlier visit: its list and outcomes are joined |

### What the exceptions in the properties mean

- `stolen` (`ExclusiveUnlessStolen`, `ReplayableUnlessStolen`, `CommittedSurvives`): a
  takeover, a `--force`, a failed write's cleanup or a `Release` removed the lock file of
  another live process. `NoOrphanedLock` needs no exception, but does not say whose file
  `Release` removes: it reads the pid and removes the path in two calls (lock.go:114).
- `past.torn` (`OutcomeOfBranches`): the crash of `MCBranchesTorn`.
- `past.astray` (`NoneOutWhenBlocked`): a submit for an ordinary step goes on with a blocked
  run (submit.go:59) without the RESUME at which Replay forgets the block, and may enter a
  group while Replay still takes the run for blocked (replay.go:515). `MCBranches` gets
  there by the step between its two visits.
- "This visit" in the properties of `Foreach` is the latest entry of the step with its
  list: the join of `MCForeachStale` is one more of an old entry, and consistent with it.
- `"timeout" \notin Emits` (`AnswerStands`): a human step may call one of its answers so.
- `past.late` (`CollectsThisVisit`): a result names an item and an attempt but no visit, so
  the report on a dispatch of an earlier visit is taken for this one's.
- `lost` (`KeptAtWork`): a sync listed the runs before this one began and removed its
  link after; until the next sync (`IndexHeals`) a Stop in another working copy misses it.
- `up[p].own = exe.of` (`OnlyForward`): an update compares with the build it runs as. When
  another has replaced the file meanwhile it may put an older build back, although
  docs/cli.md:344 says that it refuses to downgrade.
- `TriesSeeOneError` speaks of the latest first try. When a process dies after a first
  try failed hard and before the next one is journaled, the first try is run again and
  sees its own diagnostic (replay.go:285).
- `HasKey` (`CrashKeepsAttempt`): an entry without a key, of a step that declares
  `attempt_key:`. The template rendered to the empty string, or a result was submitted
  after a crash before the step was entered, and did not pass. An empty key is taken for
  no key yet: when the next crash is resumed it is rendered again, and the attempt taken
  from what is recorded under the result (engine.go:434). format-spec.md:196 says without
  exception that an attempt is "not advanced by a crash".
- The same re-entry, and a blocked run (`RetriesWithinBudget`): the first has left the
  attempt that `hist` counts from; and a submit for a blocked run may come after a
  TRANSITION that cleared the budget it would be counted in.
- `GoesRound` (`CommandsReturn`, `RunsStop`): capped steps that hand over to each other by
  `exhausted:` count nothing and go round for ever in one command (engine.go:370). Nothing
  but a kill ends that command. Every other cycle is stopped by the caps.
- `FinalButForAbandon`: abandon looks at the run before it takes the lock and not again
  after (abandon.go:126, 158), so that a run that ended in between gets a second RUN_END.

Seen while modelling, and not stated as properties:

- The caps are checked again before another attempt and the visit under way is counted
  (deterministic.go:362): on its last visit a step has one attempt and is routed
  `exhausted`, which format-spec.md:213 reserves for a step that would have been entered.
- What a failure with another text does to the budget. format-spec.md:200 says that "a
  different one starts a fresh budget", and so does replay.go:8; format-spec.md:511 speaks of
  a differing key that "could otherwise buy tries without end" and caps an item's tries at
  `max_visits:` for that reason. The code records attempts under the key, but numbers the
  next one from the attempt that failed (`nextTryNumber`, engine.go:462, submit.go:366), so
  that within a visit no text, and no key, buys more than `attempts:`. `RetriesWithinBudget`
  and `ItemRetriesWithinBudget` state what the code does, which is the reverse of what these
  lines say. Its own comment (engine.go:445) argues for it: what was spent stays spent.
- A poller computes its deadline when it starts and looks again only at the cursor
  (poll.go:115, completeWait), so one that was started in an earlier visit brings that
  visit's deadline and token to the present one.
- submit refuses only a run that is over, so a submit moves a BLOCKED run too
  (submit.go:59); after a block at a capped step an intervention routes `exhausted`
  without evaluating the invariants again.
- A result submitted twice can be taken for the next visit's when a crash leaves the run
  between a TRANSITION and the STEP_ENTER, since a submit names no visit.
- freshHeartbeat falls back to the working copy's last heartbeat (cli/enforce.go:84): a
  resume from a terminal can make a session the driver of a run it never touched.
- submit and poll look the heartbeat up again after the engine, and the driver is stamped
  after the lock is released, so that of two commands the earlier may stamp last.

## Fairness

Safety needs none. The liveness properties are checked under these:

- `CommandsRun`: weak fairness of the steps of a command under way. Each shell command the
  engine executes is killed at a wall-clock ceiling, so a process that does not die gets to
  its next event.
- `SessionWorks` (`RunsStop`), `GroupsWork` (`GroupsEnd`), `EachWorks` (`EachEnds`): also
  the session. The Stop hook does not let it go while a run it drives needs it, so it
  starts, resumes and, strongly, submits (a submit is disabled while another command has
  the lock): each step and branch that is out, and of the items any, again and again.
- `PollersWork` (`WaitsEnd`): weak fairness of time, of the command under way and of a
  poller's start, its leaving or timing out, and strong fairness of its report: a poller
  that leaves is started again - the session is told to - and gets the lock at some time
  when it needs it. Nothing is assumed of what the polled command prints.
- `HooksWork` (`IndexHeals`): processes that do not die go on, and pawl is used now and
  then in the working copy of a live run. A session or terminal is not assumed to do
  anything else.

No fairness is assumed of the lock: `AcquireLock` retries for ever, and with unboundedly
many competitors one may be overtaken for ever. Crashes are bounded, so none of these says
that a process never dies.

## Proofs

All theorems are for every value of the constants that the named assumptions of the
modules allow: any set of processes, any workflow, any set of failure texts, any number of
crashes, releases and updates. TLC evaluates the assumptions on every run.

| theorem | property |
|---|---|
| `LockTypeCorrect`, `LockExclusive`, `NothingOrphaned` | `LockTypeOK`, `ExclusiveUnlessStolen`, `NoOrphanedLock` |
| `JournalTyped`, `AlwaysReplayable`, `NothingTakenBack` | `TypeOK` of `RunLog`, `ReplayableUnlessStolen`, `CommittedSurvives` |
| `Types` | `TypeOK` of `Engine` |
| `VisitsBounded`, `StepsBounded`, `CrashesFree` | `VisitsWithinMax`, `StepsWithinMax`, `CrashConsumesNoVisit` |
| `Final`, `Gated` | `FinalButForAbandon`, `GatedTransitions` |
| `TriesAgree` | `TriesSeeOneError` |
| `RetriesBounded`, `AttemptKept` | `RetriesWithinBudget`, `CrashKeepsAttempt` |
| `Walks` (supposes `Machines`) | `IsWalk`: `Engine` implements `Walk` |
| `ParkedTypes`, `ParkedVisits` | `ParkedTypeOK`, `VisitsWithinMax` of `Parked` |
| `AnswersStand`, `DeadlinesPinned` | `AnswerStands`, `DeadlinePinned` |
| `BranchesTypes`, `BranchesVisits` | `BranchesTypeOK`, `VisitsWithinMax` of `Branches` |
| `OutcomesOfBranches`, `ReportedAreDone`, `NothingOutWhenBlocked`, `ErrorsOfGroups` | `OutcomeOfBranches`, `ReportedIsDone`, `NoneOutWhenBlocked`, `ErrorOfGroup` |
| `ForeachTypes`, `ForeachVisits` | `ForeachTypeOK`, `VisitsWithinMax` of `Foreach` |
| `Collects`, `ItemsOnce`, `ItemRetries` | `CollectsThisVisit`, `ItemsRunOnce`, `ItemRetriesWithinBudget` |
| `HooksTypes`, `OffStaysOff`, `KeptAtItsWork`, `CreditsAreSpent` | `EnforceTypeOK`, `OffIsOff`, `KeptAtWork`, `CreditSpentOnce` |
| `UpdateTypes`, `BinaryAlways`, `NoTmpLeft`, `Onward` | `UpdateTypeOK`, `AlwaysABinary`, `LeavesNoTmp`, `OnlyForward` |

`RunLog_proofs` has the lock first. Types alone are not enough for `ExclusiveUnlessStolen`: that nobody else
holds the lock follows from whose file is there. `LockIInv` says that as long as nothing
was stolen, every process from its create to its removal (`Owners`) created the one file
of the directory. `OwnershipStep` is the work: a step of one process leaves the files of
the others alone, or sets `stolen`. `NothingOrphaned` needs an invariant that survives
theft: `Claimed`, a lock file is that of a process which has yet to remove it and will
recognise it, or has died.

Then the journal. `LogInv` says what the handle of the one process that has the log open
knows of the file (`UpToDate`): the records it read are still there, and its number is
the next. It holds until a lock is stolen, by `LockIInv`: an append or a truncation is by
a holder, and there is one. After a theft the numbers may repeat and even go down, so
`JournalTyped` needs what `LogInv` no longer gives: that there is a highest one to count on
from. `Topped` says so of every part of the journal, since any part may be what a
truncation leaves.

`Engine_proofs` has one lemma per event, that replaying it yields a `RunState`, and
`TypeStep` with one step per action. `TypeOK` is not inductive: an action indexes by the
cursor's step, so `TInv` adds that a command under way is at a step. Then it has one lemma per event on the fields it changes, three on kinds of
steps (`Quiet`: only errors change; `Enters`; `RunEnds`), and proves `IInv` in `InvStep`.
Its parts, and why they are needed:

- `EntryInv`: a step in flight has not been left; a command about to enter while a step
  is in flight is at the step that the crash RESUME recorded; an outcome that is routed
  without evaluating the invariants is that of a step not entered. `Gated` follows.
- `VisitInv`: the caps are checked, and the visit counted, at the STEP_ENTER only. So
  wherever the next entry will be counted a visit must be due: in a command about to
  enter, and at the cursor of the journal that the command leaves if it dies. A crash
  resume of a step in flight is not counted and needs none. `VisitsBounded` and
  `CrashesFree` follow.
- `FinalInv`: no command is under way in a run that is over, and nothing precedes
  RUN_START. `Final` follows.

`StepsBounded` is about a sum. `SumFunction` is a fold, whose recursion is a function on
the subsets of its domain: that there is such a function (`SumExists`), and that one more
visit of one step is one more in the sum (`SumOneMore`), are proved by a smallest subset
that would contradict it, in place of an induction. That the workflow is finite is needed
here and nowhere else. `VisitsMove` does the rest: only an entry for which the caps were
checked is counted.

The last section is what the modules that add steps to `Engine` build on. `RunInv` is
`IInv` with what it does not say of kinds of steps (`KindInv`: which kind a command in
which place is at) and of the place (`WhereInv`: a command under way in a run that has not
ended is at the step in flight). `Beside` says, once for all of them, what any step of the
engine does to a set of parallel steps that are not its own: it enters none, and one that
is in flight stays so, with its error, until its own command leaves it, the run ends or is
blocked.

`Engine_walk`, first part. `SeenInv`: what the journal has frozen as the attempt's error is what its
latest first try saw, wherever a further try can come from - the command, the journal it
leaves when it dies, and the command that resumes it.

Second part. `AttemptInv`: the attempt in flight has a number and a key, and every
cursor - the command's and the journal's - is ahead of the retries the visit has had.
Both theorems hold of every workflow, with templates on whichever steps. For `AttemptKept`
it carries what the property compares: while a step is in flight, the journal's last entry
is still `hist.entered`, since each RESUME replays the cursor that Replay yields. What
follows an entry whose key is rendered again needs no case of its own there, as `hist`
counts anew from it.

Third part, the refinement. `PathInv` says that the command is in step with the
journal: it acts on the step the cursor is at, which it has entered or is about to enter or
to pass over, and the outcome it routes is one the step can have. Then each action is a
step of `Walk` under the mapping, or changes nothing the mapping can see. `Machines` says
that every step is deterministic; `Walk` above says why it must.

`Parked_proofs`. `StayInv`: a command that enters does not enter a wait in flight - the
crash resume left it parked - and asks only where no question is open, which is why no
deadline starts again (`DeadlinesPinned`); and on the way out by a timeout it is at a step
without an answer (`AnswersStand`), which the check of the answer before the deadline
establishes and no crash in between undoes, since the journal keeps the answer.

`Branches_proofs`. `FanInv`, about all groups at once, has the types and five parts.
`Shape`: where the command is with the branches, and that what is left to do are positions
of its group. `OutInv`: a branch that is pending has not resolved in this visit, one that
has did so with the outcome Replay keeps, and of the group at hand nothing is out that the
command does not know of, and nothing at all at the join. `CoverInv`: every branch of a
group in flight is out, resolved or still ahead, unless a crash tore the entry - with
`OutInv`, at the join all have resolved, which is `OutcomesOfBranches`. `VerdictInv`:
a group that has its summary has no branch out, so that a crash between the summary and
the TRANSITION comes back to the same verdict with the same error (`ErrorsOfGroups`).
`AstrayInv`: unless a submit went on with a blocked run, branches are out only of the
group in flight in a run that is not blocked (`NothingOutWhenBlocked`).

`Foreach_proofs`. `EachInv` has a part for each step and one for the command at work in
one. For the step: a frozen list is that of the latest entry and carries its results
(`Settled`), whatever was asked for is out or has its result (`Asked`), and each retry has
moved the attempt on (`Budget`). For the command: what is left to do has no result, and
everything is left, collected for the dispatch, or has its result (`Round`); a report is
about one item that is out (`Report`); a join has all results (`Ending`). `Collects` is
itself part of the invariant, as what is collected is not looked at again on the way out.

`Hooks_proofs` has one lemma per action and three on what a step leaves to those it is not
about: a step of a process without files (`ProcMoves`), of a command with its run
(`RunMoves`), of the hooks of a session (`HookMoves`). The invariant has three parts, none
inductive without the others. `ProcInv`: a sync wants a link only for an enforced run, and
a run that is being started has its link under way in the very process that started it,
from its listing to its edits. `RunInv`: hence from its first step on a run is enforced and
linked, or has lost its link, or is off (`Findable`), and whoever holds its lock is inside
the engine with it. `StopInv`: a marker that is still there is of a subagent since the last
Stop, or seen by a Stop that is about to remove it.

`Update_proofs`. The invariant follows the temporary file through its life: from which
step on it holds the verified archive, is complete, durable and executable, and until when
it is there; and carries the decision (`Forward`) from the step that takes it to the rename.

Only model-checked:

- liveness (`CommandsReturn`, `RunsStop`, `WaitsEnd`, `GroupsEnd`, `EachEnds`,
  `IndexHeals`), which needs ENABLED and fairness;
- nothing else of the passing runs' properties on the specification of the module that states
  them. `RetriesWithinBudget`, `CrashKeepsAttempt`, `TriesSeeOneError`, `StepsWithinMax` and the
  refinement are proved of `Engine`'s own specification; they are not carried over to
  `Parked`, `Branches` and `Foreach`, which add steps of other kinds.

The theorems about `Engine` rest on what the model takes for granted: one command at a
time, and a journal without gaps, which `RunLog_proofs` establishes as long
as no lock is stolen. `Enforce` takes and releases a run's lock in one step.

## Not modelled

- Guards (`guard/`, `hook/classify.go`): whether a tool call is refused is a function of the
  call and of the plan pinned at RUN_START, by patterns over a parsed shell line.
- The validator and the loading of workflows (`spec/`): syntactic rules over one file. What
  the engine may rely on is stated as assumptions of `Workflow`, `Branches`, `Foreach`.
- Plans and their digest, run directories, opaque runs of a newer format, the plugin's
  version check: serialisation, hashing and comparison of what does not change.
- Rendering, values, quoting, the shape of answers and of body output, instructions,
  listings, flags and exit codes: text, without state or order.
- Partly modelled: of replay, not the args and values of a run nor the reading of old
  formats; of abandon, not opaque runs; of the live index, not the pruning of links whose
  run directory is gone; of the command line, what is around the engine (`Enforce`) and
  nothing else.

Assumed away: the reuse of pids and file systems without O_EXCL or atomic rename.
