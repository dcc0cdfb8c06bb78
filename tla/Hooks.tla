-------------------------------- MODULE Hooks --------------------------------
(***************************************************************************)
(* The Stop and SubagentStop hooks over the runs of Enforce: bin/pawl-hook, *)
(* internal/cli/hook.go and internal/hook/decide.go.  A session that drives *)
(* a run awaiting its pawl submit is kept, once in a turn, unless it waits  *)
(* for something that will wake it.                                         *)
(***************************************************************************)
EXTENDS Enforce

CONSTANT Helpers  \* subagents of a session

VARIABLES
  turn,   \* where each session is in its turn
  stop,   \* what the Stop hook of each session knows
  marks,  \* subagent-stops/: the markers that are fresh
  since   \* history: the markers left since the session's last Stop

hookVars == <<turn, stop, marks, since>>
vars == <<enforceVars, hookVars>>

NoStop == [saw |-> {}, excused |-> FALSE, spent |-> {}, verdict |-> ""]

HooksInit ==
  /\ EnforceInit
  /\ turn = [s \in Sessions |-> "on"] /\ stop = [s \in Sessions |-> NoStop]
  /\ marks = [s \in Sessions |-> {}] /\ since = [s \in Sessions |-> {}]

\* What blocks a Stop of the session that drives it: BLOCKED runs and those at
\* a wait or human step do not.
Awaiting(r) == run[r].at = "work" /\ ~run[r].off
Awaits(r, s) == driver[r] = s /\ Awaiting(r)

\* Mutant: only the runs of the hook's own working copy.
DrivenHere(s) == {r \in stop[s].saw : driver[r] = s}

\* appendDrivenRuns and buildLiveRuns: of the runs the hook has listed in its
\* working copy, and those the index has, the ones this session drives.
Driven(s) == {r \in stop[s].saw : driver[r] = s} \cup {r \in links : Awaits(r, s)}

\* The launcher does not start pawl if the index is empty and the payload does
\* not mention it.
Wakes(mentions) == links # {} \/ mentions

-----------------------------------------------------------------------------
(* Stop *)

\* The payload may report background work or a scheduled wakeup.
StopHook(s, waits, mentions) ==
  /\ At(s, "idle") /\ turn[s] \in {"on", "held"}
  /\ LET excused == waits \/ turn[s] = "held"   \* stop_hook_active
     IN IF Wakes(mentions)
          THEN /\ Syncs(s, Cwd[s], "judge")
               /\ stop' = [stop EXCEPT ![s] =
                    [NoStop EXCEPT !.saw = {r \in Of(Cwd[s]) : Awaiting(r)}, !.excused = excused]]
               /\ turn' = [turn EXCEPT ![s] = "stopping"]
          ELSE /\ turn' = [turn EXCEPT ![s] = "off"]
               /\ UNCHANGED <<proc, stop>>
  /\ UNCHANGED <<files, beats, crashes, lost, marks, since>>

\* DecideStop.
Verdict(s) == IF stop[s].excused THEN "excused"
              ELSE IF Driven(s) = {} THEN "let"
              ELSE IF marks[s] # {} THEN "credited" ELSE "held"

StopJudges(s) ==
  /\ At(s, "judge")
  /\ Goes(s, "answer")
  /\ stop' = [stop EXCEPT ![s].verdict = Verdict(s), ![s].spent = marks[s], ![s].saw = {}]
  /\ since' = [since EXCEPT ![s] = {}]
  /\ UNCHANGED <<files, beats, crashes, lost, turn, marks>>

\* Mutant: a marker is consumed only by the Stop it excuses.
ConsumedIfNeeded(s) == IF stop[s].verdict = "credited" THEN stop[s].spent ELSE {}

\* All of the session's markers, whatever the decision.
Consumed(s) == stop[s].spent

StopAnswers(s) ==
  /\ At(s, "answer")
  /\ marks' = [marks EXCEPT ![s] = @ \ Consumed(s)]
  /\ turn' = [turn EXCEPT ![s] = IF stop[s].verdict = "held" THEN "held" ELSE "off"]
  /\ stop' = [stop EXCEPT ![s] = NoStop]
  /\ proc' = [proc EXCEPT ![s] = NoProc]
  /\ UNCHANGED <<files, beats, crashes, lost, since>>

\* A hook that dies says nothing, and the session stops.
StopDies(s) ==
  /\ crashes < MaxCrashes /\ crashes' = crashes + 1
  /\ turn[s] = "stopping"
  /\ turn' = [turn EXCEPT ![s] = "off"]
  /\ since' = [since EXCEPT ![s] = @ \cup stop[s].spent]
  /\ stop' = [stop EXCEPT ![s] = NoStop] /\ proc' = [proc EXCEPT ![s] = NoProc]
  /\ UNCHANGED <<files, beats, lost, marks>>

\* The session is woken, or prompted.
NextTurn(s) ==
  /\ turn[s] = "off"
  /\ turn' = [turn EXCEPT ![s] = "on"]
  /\ UNCHANGED <<enforceVars, stop, marks, since>>

-----------------------------------------------------------------------------
(* SubagentStop: a marker for a session that drives a run awaiting it; the    *)
(* hook of a subagent runs beside its session's commands, and is one step.    *)

SubagentStop(s, h) ==
  /\ links # {}
  /\ links' = (links \ Of(Cwd[s])) \cup Wanted(Cwd[s])
  /\ lost' = lost \ Wanted(Cwd[s])
  /\ IF \E r \in Of(Cwd[s]) \cup links' : Awaits(r, s)
       THEN /\ marks' = [marks EXCEPT ![s] = @ \cup {h}]
            /\ since' = [since EXCEPT ![s] = @ \cup {h}]
       ELSE UNCHANGED <<marks, since>>
  /\ UNCHANGED <<run, lock, driver, beats, proc, crashes, turn, stop>>

\* SubagentStopCreditTTL passes.
MarkExpires(s, h) ==
  /\ h \in marks[s]
  /\ marks' = [marks EXCEPT ![s] = @ \ {h}]
  /\ UNCHANGED <<enforceVars, turn, stop, since>>

-----------------------------------------------------------------------------

InTurn(s) == turn[s] \in {"on", "held"}

SessionStep(s) ==
  \/ StopJudges(s) \/ StopAnswers(s) \/ NextTurn(s)
  \/ \E waits, mentions \in BOOLEAN : StopHook(s, waits, mentions)
  \/ \E h \in Helpers : SubagentStop(s, h) \/ MarkExpires(s, h)

CallerStep(c) ==
  /\ CommandStep(c) \/ Commands(c) \/ (c \in Sessions /\ InTurn(c) /\ PreHook(c))
  /\ UNCHANGED hookVars

Dies == \/ \E s \in Sessions : StopDies(s) \/ (PreHookDies(s) /\ UNCHANGED hookVars)
        \/ \E c \in Callers : CommandDies(c) /\ UNCHANGED hookVars

HooksNext ==
  \/ \E c \in Callers : CallerStep(c)
  \/ \E s \in Sessions : SessionStep(s)
  \/ GoesStale /\ UNCHANGED hookVars
  \/ Dies

HooksSpec == HooksInit /\ [][HooksNext]_vars

\* Processes go on, and somebody goes on using pawl wherever a run is live.
HooksWork ==
  /\ HooksSpec
  /\ \A c \in Callers : WF_vars(CommandStep(c) /\ UNCHANGED hookVars)
  /\ \A s \in Sessions : WF_vars(StopJudges(s) \/ StopAnswers(s))
  /\ \A r \in Runs :
       SF_vars(\E c \in Callers : Live(r) /\ Refused(c, Home(r)) /\ UNCHANGED hookVars)

-----------------------------------------------------------------------------
(* Properties *)

Procs == [pc : {"idle", "ready", "start", "resume", "submit", "engine", "stamp", "abandon",
                "list", "read", "edit", "judge", "answer"},
          cmd : {"", "start", "resume", "submit"}, root : Roots \cup {""},
          run : Runs \cup {""}, who : Sessions \cup {""}, slug : Roots \cup {""},
          then : {"", "idle", "ready", "engine", "home", "judge"},
          want : SUBSET Runs, drop : SUBSET Runs, add : SUBSET Runs]

\* Every file and process is of its type; in particular the lock of a run is
\* held only by a command that is in the engine with it.
EnforceTypeOK ==
  /\ run \in [Runs -> [at : {"none", "begun", "auto", "work", "parked", "blocked", "ended"}, off : BOOLEAN,
                    home : Roots \cup {""}]]
  /\ lock \in [Runs -> Callers \cup {""}] /\ driver \in [Runs -> Sessions \cup {""}]
  /\ links \subseteq Runs /\ rootBeat \in [Roots -> Sessions \cup {""}] /\ sessionBeat \subseteq Sessions
  /\ proc \in [Callers -> Procs] /\ crashes \in 0..MaxCrashes
  /\ lost \subseteq Runs
  /\ turn \in [Sessions -> {"on", "stopping", "held", "off"}]
  /\ stop \in [Sessions -> [saw : SUBSET Runs, excused : BOOLEAN, spent : SUBSET Helpers,
                            verdict : {"", "let", "excused", "credited", "held"}]]
  /\ marks \in [Sessions -> SUBSET Helpers] /\ since \in [Sessions -> SUBSET Helpers]
  /\ \A r \in Runs : lock[r] # "" => proc[lock[r]].run = r

\* A run that was started without enforcement is never linked and never gets a
\* driver, whoever resumes or submits to it later with a fresh heartbeat.
OffIsOff == \A r \in Runs : run[r].off => r \notin links /\ driver[r] = ""

\* A session is let go without an excuse only if no run awaits it: one that
\* does is found, in whichever working copy it is, unless a listing made before
\* the run began took its link away.
KeptAtWork ==
  [][\A s \in Sessions, r \in Runs :
       /\ Awaits(r, s)
       /\ \/ turn[s] = "on" /\ turn'[s] = "off"
          \/ At(s, "judge") /\ stop'[s].verdict = "let"
       => r \in lost
    ]_vars

\* A marker excuses one Stop: each Stop that is excused by one has a subagent
\* of its own that finished since the Stop before.
CreditSpentOnce ==
  [][\A s \in Sessions :
       At(s, "judge") /\ stop'[s].verdict = "credited" => since[s] # {}]_vars

\* The index heals: where pawl is used, an enforced run gets its link back.
IndexHeals ==
  \A r \in Runs : (Live(r) /\ ~run[r].off /\ r \notin links) ~> (r \in links \/ ~Live(r))
=============================================================================
