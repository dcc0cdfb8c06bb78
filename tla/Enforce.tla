------------------------------- MODULE Enforce -------------------------------
(***************************************************************************)
(* Which session drives a run, and which runs the hooks find:               *)
(* internal/cli/enforce.go, internal/journal/enforce.go and live.go, and    *)
(* what pawl run, submit, poll and abandon do around the engine.            *)
(*                                                                         *)
(* Sessions run pawl after their PreToolUse hook; a plain terminal has no   *)
(* hooks.  Callers run side by side, in any working copy.  Of a run this    *)
(* module keeps where its journal leaves it and the mode bound at its       *)
(* RUN_START; the lock is that of RunLock, taken and released in one step.  *)
(***************************************************************************)
EXTENDS Naturals, FiniteSets

CONSTANTS
  Sessions,    \* Claude Code sessions with pawl's hooks
  Terminals,   \* callers without them
  Roots,       \* working copies
  Runs,
  Cwd,         \* the start directory of each session: the cwd of its hooks
  MaxCrashes   \* bound of the model

Callers == Sessions \cup Terminals

ASSUME EnforceAssumption ==
  /\ Sessions \cap Terminals = {} /\ "" \notin Callers \cup Runs \cup Roots
  /\ Cwd \in [Sessions -> Roots]
  /\ MaxCrashes \in Nat

VARIABLES
  run,      \* where each journal leaves its run, whether it opted out, and its
            \* working copy
  lock,     \* who holds each run's lock
  driver,   \* driver.json
  links,    \* live/
  rootBeat, sessionBeat,  \* the heartbeats that are fresh
  proc,     \* what each caller's pawl process is doing
  crashes,
  lost      \* history, read by properties only: the links that were removed
            \* while their run was live

files == <<run, lock, driver, links>>
beats == <<rootBeat, sessionBeat>>
enforceVars == <<files, beats, proc, crashes, lost>>

\* "begun": RUN_START and nothing else; "auto": the engine is between steps or
\* in one of its own, or died there; "work": at an agentic or parallel step;
\* "parked": at a wait or human step.
Live(r) == run[r].at \notin {"none", "ended"}
Home(r) == run[r].home
Of(root) == {r \in Runs : Home(r) = root}

NoProc == [pc |-> "idle", cmd |-> "", root |-> "", run |-> "", who |-> "",
           slug |-> "", then |-> "", want |-> {}, drop |-> {}, add |-> {}]

EnforceInit ==
  /\ run = [r \in Runs |-> [at |-> "none", off |-> FALSE, home |-> ""]]
  /\ lock = [r \in Runs |-> ""] /\ driver = [r \in Runs |-> ""]
  /\ links = {} /\ sessionBeat = {} /\ rootBeat = [d \in Roots |-> ""]
  /\ proc = [c \in Callers |-> NoProc] /\ crashes = 0
  /\ lost = {}

At(c, pc) == proc[c].pc = pc
Goes(c, pc) == proc' = [proc EXCEPT ![c].pc = pc]

\* SyncLiveIndexSlug(slug), and then on to `then`.
Syncs(c, slug, then) ==
  proc' = [proc EXCEPT ![c].pc = "list", ![c].slug = slug, ![c].then = then]

\* cli.Run: whatever the command came to, its working copy's index is reconciled.
Finishes(c, root) ==
  proc' = [proc EXCEPT ![c] = [NoProc EXCEPT !.pc = "list", !.root = root, !.slug = root,
                                             !.then = "idle"]]

-----------------------------------------------------------------------------
(* Heartbeats *)

\* cmdHook "pre" for a pawl command: both heartbeats, then the index.
PreHook(s) ==
  /\ At(s, "idle")
  /\ rootBeat' = [rootBeat EXCEPT ![Cwd[s]] = s]
  /\ sessionBeat' = sessionBeat \cup {s}
  /\ Syncs(s, Cwd[s], "ready")
  /\ UNCHANGED <<files, crashes, lost>>

\* HeartbeatTTL passes: a session's own heartbeat is the younger one.
GoesStale ==
  /\ \/ \E d \in Roots : /\ rootBeat[d] # ""
                         /\ rootBeat' = [rootBeat EXCEPT ![d] = ""]
                         /\ UNCHANGED sessionBeat
     \/ \E s \in sessionBeat : /\ \A d \in Roots : rootBeat[d] # s
                               /\ sessionBeat' = sessionBeat \ {s}
                               /\ UNCHANGED rootBeat
  /\ UNCHANGED <<files, proc, crashes, lost>>

\* freshHeartbeat: the caller's own, or whichever session's pawl command was
\* last seen in this working copy.
Vouched(c, root) == IF c \in sessionBeat THEN c ELSE rootBeat[root]

-----------------------------------------------------------------------------
(* SyncLiveIndexSlug *)

\* Mutant: a run that is blocked is not linked.
WantedUnblocked(slug) ==
  {r \in Of(slug) : Live(r) /\ run[r].at # "blocked" /\ ~run[r].off}

Wanted(slug) == {r \in Of(slug) : Live(r) /\ ~run[r].off}

SyncLists(c) ==
  /\ At(c, "list")
  /\ proc' = [proc EXCEPT ![c].pc = "read", ![c].want = Wanted(proc[c].slug)]
  /\ UNCHANGED <<files, beats, crashes, lost>>

\* ReadDir: entries of other working copies are left alone.
SyncReads(c) ==
  /\ At(c, "read")
  /\ proc' = [proc EXCEPT ![c].pc = "edit", ![c].want = {},
                          ![c].drop = (links \cap Of(proc[c].slug)) \ proc[c].want,
                          ![c].add = proc[c].want \ links]
  /\ UNCHANGED <<files, beats, crashes, lost>>

\* One Remove or Symlink at a time, removals first.
SyncEdits(c) ==
  /\ At(c, "edit")
  /\ \/ \E r \in proc[c].drop :
          /\ links' = links \ {r}
          /\ proc' = [proc EXCEPT ![c].drop = @ \ {r}]
          /\ lost' = IF Live(r) THEN lost \cup {r} ELSE lost
     \/ \E r \in proc[c].add :
          /\ proc[c].drop = {}
          /\ links' = links \cup {r}
          /\ proc' = [proc EXCEPT ![c].add = @ \ {r}]
          /\ lost' = lost \ {r}
  /\ UNCHANGED <<run, lock, driver, beats, crashes>>

\* An abandon elsewhere goes on to the index of its own working copy.
SyncDone(c) ==
  /\ At(c, "edit") /\ proc[c].drop = {} /\ proc[c].add = {}
  /\ CASE proc[c].then = "idle" -> proc' = [proc EXCEPT ![c] = NoProc]
       [] proc[c].then = "home" -> Finishes(c, proc[c].root)
       [] OTHER -> proc' = [proc EXCEPT ![c].pc = proc[c].then, ![c].slug = "", ![c].then = ""]
  /\ UNCHANGED <<files, beats, crashes, lost>>

Sync(c) == SyncLists(c) \/ SyncReads(c) \/ SyncEdits(c) \/ SyncDone(c)

-----------------------------------------------------------------------------
(* pawl run, submit and poll *)

MayCommand(c) == IF c \in Sessions THEN At(c, "ready") ELSE At(c, "idle")

Command(c, cmd, root, r, who) ==
  proc' = [proc EXCEPT ![c] = [NoProc EXCEPT !.pc = cmd, !.cmd = cmd, !.root = root,
                                             !.run = r, !.who = who]]

\* checkEnforcement, then Engine.Start up to its RUN_START.
StartRun(c, root, r, optOut) ==
  /\ MayCommand(c) /\ run[r].at = "none"
  /\ optOut \/ Vouched(c, root) # ""
  /\ run' = [run EXCEPT ![r] = [at |-> "begun", off |-> optOut, home |-> root]]
  /\ lock' = [lock EXCEPT ![r] = c]
  /\ Command(c, "start", root, r, IF optOut THEN "" ELSE Vouched(c, root))
  /\ UNCHANGED <<driver, links, beats, crashes, lost>>

\* resolveRunToResume and resumeEnforcement.  An opt-out cannot turn a run off
\* that was started on, and one that was started off needs no heartbeat.
ResumeRun(c, r, optOut) ==
  /\ MayCommand(c) /\ Live(r)
  /\ optOut => run[r].off
  /\ Command(c, "resume", Home(r), r, IF run[r].off THEN "" ELSE Vouched(c, Home(r)))
  /\ UNCHANGED <<files, beats, crashes, lost>>

\* cmdSubmit and cmdPoll.
SubmitTo(c, r) ==
  /\ MayCommand(c) /\ run[r].at # "none"
  /\ Command(c, "submit", Home(r), r, "")
  /\ UNCHANGED <<files, beats, crashes, lost>>

\* A command that comes to nothing; the index is reconciled all the same.
Refused(c, root) ==
  /\ MayCommand(c)
  /\ Finishes(c, root)
  /\ UNCHANGED <<files, beats, crashes, lost>>

\* The lock is free, the run not over, and there is a cursor to go on from.  A
\* submit is taken wherever the cursor may be: what is refused for the step it
\* names is the error of EngineReturns.
Takes(r) == lock[r] = "" /\ Live(r) /\ run[r].at # "begun"

\* A blocked run is live again with its RESUME; a submit journals none.
EngineTakes(c) ==
  /\ At(c, "resume") \/ At(c, "submit")
  /\ LET r == proc[c].run
     IN IF Takes(r)
          THEN /\ lock' = [lock EXCEPT ![r] = c]
               /\ run' = [run EXCEPT ![r].at =
                             IF @ = "blocked" /\ proc[c].cmd = "resume" THEN "auto" ELSE @]
               /\ Goes(c, "engine")
          ELSE Finishes(c, proc[c].root) /\ UNCHANGED <<run, lock>>
  /\ UNCHANGED <<driver, links, beats, crashes, lost>>

\* Mutant: the lock file is left to whoever finds it stale.
ReleasesNot(r) == UNCHANGED lock

\* The deferred Release of every command of the engine.
Releases(r) == lock' = [lock EXCEPT ![r] = ""]

EngineMoves(c) ==
  /\ At(c, "engine") /\ run[proc[c].run].at \notin {"auto", "blocked"}
  /\ run' = [run EXCEPT ![proc[c].run].at = "auto"]
  /\ UNCHANGED <<lock, driver, links, beats, proc, crashes, lost>>

\* Where the journal is when the engine returns.
ComesTo(at) == {"blocked", "ended"} \cup (IF at = "blocked" THEN {} ELSE {"work", "parked"})

\* The engine returns an instruction; or, where the run is, an error.
EngineReturns(c) ==
  /\ At(c, "engine")
  /\ LET r == proc[c].run
     IN /\ Releases(r)
        /\ \/ /\ \E at \in ComesTo(run[r].at) : run' = [run EXCEPT ![r].at = at]
              /\ IF proc[c].cmd = "start" THEN Finishes(c, proc[c].root)
                                          ELSE Goes(c, "stamp")
           \/ Finishes(c, proc[c].root) /\ UNCHANGED run
  /\ UNCHANGED <<driver, links, beats, crashes, lost>>

\* Mutant: whoever has a heartbeat drives the run, enforced or not.
StampAnyway(r, who) == driver' = [driver EXCEPT ![r] = IF who = "" THEN @ ELSE who]

\* stampDriverAs: best-effort, and never for a run that opted out.
StampDriver(r, who) ==
  driver' = [driver EXCEPT ![r] = IF who = "" \/ run[r].off THEN @ ELSE who]

\* pawl run stamps the session it gated on, submit and poll look again.
Stamp(c) ==
  /\ At(c, "stamp") \/ At(c, "start")
  /\ StampDriver(proc[c].run,
       IF proc[c].cmd = "submit" THEN Vouched(c, proc[c].root) ELSE proc[c].who)
  /\ IF At(c, "start") THEN Syncs(c, proc[c].root, "engine") ELSE Finishes(c, proc[c].root)
  /\ UNCHANGED <<run, lock, links, beats, crashes, lost>>

-----------------------------------------------------------------------------
(* pawl abandon *)

\* runBeingDriven: its lock is held, or its driver, not the caller itself, has
\* a fresh heartbeat.
BeingDriven(c, r) == lock[r] # "" \/ driver[r] \in sessionBeat \ {c}

\* From another working copy a run is abandoned only if nobody is in it.
AbandonLooks(c, root, r) ==
  /\ MayCommand(c) /\ Live(r)
  /\ Home(r) # root => run[r].at = "blocked" \/ ~BeingDriven(c, r)
  /\ proc' = [proc EXCEPT ![c] = [NoProc EXCEPT !.pc = "abandon", !.root = root, !.run = r]]
  /\ UNCHANGED <<files, beats, crashes, lost>>

\* RUN_END under the lock, whatever the run has come to since.
AbandonEnds(c) ==
  /\ At(c, "abandon")
  /\ LET r == proc[c].run
     IN IF lock[r] = ""
          THEN /\ run' = [run EXCEPT ![r].at = "ended"]
               /\ IF Home(r) = proc[c].root THEN Finishes(c, Home(r)) ELSE Syncs(c, Home(r), "home")
          ELSE Finishes(c, proc[c].root) /\ UNCHANGED run
  /\ UNCHANGED <<lock, driver, links, beats, crashes, lost>>

-----------------------------------------------------------------------------

\* A command dies anywhere; the next taker finds its lock stale.
CommandDies(c) ==
  /\ crashes < MaxCrashes /\ crashes' = crashes + 1
  /\ proc[c].root # ""
  /\ proc' = [proc EXCEPT ![c] = NoProc]
  /\ lock' = [r \in Runs |-> IF lock[r] = c THEN "" ELSE lock[r]]
  /\ UNCHANGED <<run, driver, links, beats, lost>>

\* A PreToolUse hook that dies is no reason not to run the command.
PreHookDies(s) ==
  /\ crashes < MaxCrashes /\ crashes' = crashes + 1
  /\ proc[s].then = "ready"
  /\ proc' = [proc EXCEPT ![s] = [NoProc EXCEPT !.pc = "ready"]]
  /\ UNCHANGED <<files, beats, lost>>

CommandStep(c) == Sync(c) \/ EngineTakes(c) \/ EngineMoves(c) \/ EngineReturns(c)
                    \/ Stamp(c) \/ AbandonEnds(c)

Commands(c) == \/ \E root \in Roots, r \in Runs, optOut \in BOOLEAN : StartRun(c, root, r, optOut)
               \/ \E r \in Runs, optOut \in BOOLEAN : ResumeRun(c, r, optOut)
               \/ \E r \in Runs : SubmitTo(c, r)
               \/ \E root \in Roots : Refused(c, root)
               \/ \E root \in Roots, r \in Runs : AbandonLooks(c, root, r)
=============================================================================
