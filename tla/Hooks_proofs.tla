---------------------------- MODULE Hooks_proofs ----------------------------
(***************************************************************************)
(* Proofs about Hooks: types, runs without enforcement, the Stop decision   *)
(* and its credits, for any number of sessions, terminals and runs.         *)
(***************************************************************************)
EXTENDS Hooks, TLAPS

\* The command has the lock of its run, from RUN_START or the engine's take on.
Inside(c) == proc[c].pc \in {"start", "engine"} \/ proc[c].then = "engine"

\* It has a run that has begun.
Acting(c) == Inside(c) \/ proc[c].pc \in {"resume", "submit", "stamp", "abandon"}

\* It is the Stop hook of a session.
Stopping(c) == proc[c].pc \in {"judge", "answer"} \/ proc[c].then = "judge"

\* The run has begun and is enforced; it has its link, or has lost it to a sync.
Known(r) == run[r].at # "none" /\ ~run[r].off
Findable(r) == run[r].off \/ r \in links \cup lost

\* What a process relies on.  The link of a run that is started is under way
\* with the process itself until its sync is done.
ProcInv(c) ==
  /\ proc[c].pc \in {"list", "read", "edit"} <=> proc[c].then # ""
  /\ proc[c].pc = "idle" => proc[c].root = ""
  /\ Stopping(c) => c \in Sessions /\ proc[c].root = "" /\ turn[c] = "stopping"
  /\ Acting(c) => /\ proc[c].run \in Runs /\ proc[c].root \in Roots
                  /\ run[proc[c].run].at # "none"
  /\ Inside(c) => lock[proc[c].run] = c /\ Live(proc[c].run)
  /\ \A r \in proc[c].want \cup proc[c].add : Known(r)
  /\ proc[c].pc = "start" => proc[c].root = Home(proc[c].run)
  /\ proc[c].then = "engine" => proc[c].slug = Home(proc[c].run)
  /\ proc[c].then = "engine" /\ proc[c].pc = "read" /\ ~run[proc[c].run].off
       => proc[c].run \in proc[c].want
  /\ proc[c].then = "engine" /\ proc[c].pc = "edit"
       => proc[c].run \in proc[c].add \/ Findable(proc[c].run)
  /\ proc[c].pc = "engine" => Findable(proc[c].run)

\* What holds of a run: only one that is enforced has a link or a driver, and
\* from its first step on such a run can be found.
RunInv(r) ==
  /\ run[r].at # "none" => Home(r) \in Roots
  /\ lock[r] # "" => Inside(lock[r]) /\ proc[lock[r]].run = r
  /\ r \in links \/ driver[r] # "" => Known(r)
  /\ Live(r) /\ run[r].at # "begun" => Findable(r)

\* A marker is of a subagent that finished since the last Stop, or is about to be
\* removed by the Stop that saw it; a session that is stopping has its hook.
StopInv(s) ==
  /\ marks[s] \subseteq since[s] \cup stop[s].spent
  /\ proc[s].pc # "answer" => stop[s].spent = {} /\ stop[s].verdict = ""
  /\ turn[s] = "stopping" => Stopping(s)

IInv == /\ EnforceTypeOK
        /\ \A c \in Callers : ProcInv(c)
        /\ \A r \in Runs : RunInv(r)
        /\ \A s \in Sessions : StopInv(s)

-----------------------------------------------------------------------------
(* What the operators do to a process *)

Thens == {"", "idle", "ready", "engine", "home", "judge"}
PCs == {"idle", "ready", "start", "resume", "submit", "engine", "stamp", "abandon",
        "list", "read", "edit", "judge", "answer"}

\* The type of a process, with its names of steps kept together.
LEMMA ProcsAre ==
  Procs = [pc : PCs, cmd : {"", "start", "resume", "submit"}, root : Roots \cup {""},
           run : Runs \cup {""}, who : Sessions \cup {""}, slug : Roots \cup {""},
           then : Thens, want : SUBSET Runs, drop : SUBSET Runs, add : SUBSET Runs]
BY DEF Procs, PCs, Thens

\* c turns into a process with these fields, and nobody else changes.
Turns(c, pc, root, r, slug, then) ==
  /\ proc' \in [Callers -> Procs]
  /\ \A d \in Callers \ {c} : proc'[d] = proc[d]
  /\ proc'[c].pc = pc /\ proc'[c].root = root /\ proc'[c].run = r
  /\ proc'[c].slug = slug /\ proc'[c].then = then

\* Nor do the runs it wants linked.
Wants(c, want, add) == proc'[c].want = want /\ proc'[c].add = add

\* An idle process is a process, and has nothing.
LEMMA NoProcType ==
  /\ NoProc \in Procs
  /\ NoProc.pc = "idle" /\ NoProc.root = "" /\ NoProc.run = "" /\ NoProc.slug = ""
  /\ NoProc.then = "" /\ NoProc.want = {} /\ NoProc.add = {}
BY DEF NoProc, Procs

\* A process that is replaced by another one.
LEMMA Replaced ==
  ASSUME proc \in [Callers -> Procs], NEW c \in Callers, NEW p \in Procs,
         proc' = [proc EXCEPT ![c] = p]
  PROVE  /\ Turns(c, p.pc, p.root, p.run, p.slug, p.then)
         /\ Wants(c, p.want, p.add)
BY DEF Turns, Wants

\* Goes changes only where the process is.
LEMMA GoesTo ==
  ASSUME proc \in [Callers -> Procs], NEW c \in Callers,
         NEW pc \in {"engine", "stamp", "answer"}, Goes(c, pc)
  PROVE  /\ Turns(c, pc, proc[c].root, proc[c].run, proc[c].slug, proc[c].then)
         /\ Wants(c, proc[c].want, proc[c].add)
<1> DEFINE q == proc[c]
           p == [q EXCEPT !.pc = pc]
<1>1. proc' = [proc EXCEPT ![c] = p]
  BY Zenon DEF Goes
<1>2. q \in Procs
  OBVIOUS
<1> HIDE DEF q
<1>3. p \in Procs
  <2> USE ProcsAre
  <2>1. pc \in PCs
    BY DEF PCs
  <2> QED
    BY <1>2, <2>1
<1>4. /\ p.pc = pc /\ p.root = q.root /\ p.run = q.run /\ p.slug = q.slug
      /\ p.then = q.then /\ p.want = q.want /\ p.add = q.add
  BY <1>2 DEF Procs
<1> HIDE DEF p
<1> QED
  BY <1>1, <1>3, <1>4, Replaced DEF q

\* A process that reconciles the index is a process.
LEMMA Synced ==
  ASSUME NEW q \in Procs, NEW slug \in Roots \cup {""}, NEW then \in Thens
  PROVE  [q EXCEPT !.pc = "list", !.slug = slug, !.then = then] \in Procs
<1> USE ProcsAre
<1>1. "list" \in PCs
  BY DEF PCs
<1> QED
  BY <1>1

\* Syncs keeps the command and the run of the process.
LEMMA SyncsTo ==
  ASSUME proc \in [Callers -> Procs], NEW c \in Callers,
         NEW slug \in Roots \cup {""}, NEW then \in Thens, Syncs(c, slug, then)
  PROVE  /\ Turns(c, "list", proc[c].root, proc[c].run, slug, then)
         /\ Wants(c, proc[c].want, proc[c].add)
<1> DEFINE q == proc[c]
           p == [q EXCEPT !.pc = "list", !.slug = slug, !.then = then]
<1>1. proc' = [proc EXCEPT ![c] = p]
  BY Zenon DEF Syncs
<1>2. q \in Procs
  OBVIOUS
<1> HIDE DEF q
<1>3. p \in Procs
  BY <1>2, Synced, Zenon
<1>4. /\ p.pc = "list" /\ p.root = q.root /\ p.run = q.run /\ p.slug = slug
      /\ p.then = then /\ p.want = q.want /\ p.add = q.add
  BY <1>2 DEF Procs
<1> HIDE DEF p
<1> QED
  BY <1>1, <1>3, <1>4, Replaced DEF q

\* Finishes leaves only the reconciliation.
LEMMA FinishesTo ==
  ASSUME proc \in [Callers -> Procs], NEW c \in Callers, NEW root \in Roots \cup {""},
         Finishes(c, root)
  PROVE  Turns(c, "list", root, "", root, "idle") /\ Wants(c, {}, {})
<1> DEFINE p == [NoProc EXCEPT !.pc = "list", !.root = root, !.slug = root, !.then = "idle"]
<1>1. p \in Procs
  BY NoProcType DEF Procs
<1>2. /\ p.pc = "list" /\ p.root = root /\ p.run = "" /\ p.slug = root
      /\ p.then = "idle" /\ p.want = {} /\ p.add = {}
  BY NoProcType DEF Procs
<1>3. proc' = [proc EXCEPT ![c] = p]
  BY DEF Finishes
<1> HIDE DEF p
<1> QED
  BY <1>1, <1>2, <1>3, Replaced

\* Command starts from an idle process.
LEMMA CommandTo ==
  ASSUME proc \in [Callers -> Procs], NEW c \in Callers, NEW cmd \in {"start", "resume", "submit"},
         NEW root \in Roots, NEW r \in Runs, NEW who \in Sessions \cup {""},
         Command(c, cmd, root, r, who)
  PROVE  Turns(c, cmd, root, r, "", "") /\ Wants(c, {}, {})
<1> DEFINE p == [NoProc EXCEPT !.pc = cmd, !.cmd = cmd, !.root = root, !.run = r, !.who = who]
<1>1. p \in Procs
  BY NoProcType DEF Procs
<1>2. /\ p.pc = cmd /\ p.root = root /\ p.run = r /\ p.slug = ""
      /\ p.then = "" /\ p.want = {} /\ p.add = {}
  BY NoProcType DEF Procs
<1>3. proc' = [proc EXCEPT ![c] = p]
  BY DEF Command
<1> HIDE DEF p
<1> QED
  BY <1>1, <1>2, <1>3, Replaced

\* A process that is done or dead is idle.
LEMMA QuitsTo ==
  ASSUME proc \in [Callers -> Procs], NEW c \in Callers, proc' = [proc EXCEPT ![c] = NoProc]
  PROVE  Turns(c, "idle", "", "", "", "") /\ Wants(c, {}, {})
BY NoProcType, Replaced

-----------------------------------------------------------------------------
(* What a step of one process leaves to the others *)

\* What any step may do to a run.
RunKept(r) ==
  run[r].at # "none" =>
    /\ run'[r].at # "none" /\ run'[r].off = run[r].off /\ run'[r].home = run[r].home
    /\ Findable(r) /\ Live(r) => Findable(r)'

\* What a process relies on is not taken from it by the steps of others.
LEMMA Bystander ==
  ASSUME IInv, NEW d \in Callers, proc'[d] = proc[d],
         Stopping(d) => turn'[d] = turn[d],
         \A r \in Runs : RunKept(r),
         \A r \in Runs : lock[r] = d => lock'[r] = d /\ Live(r)'
  PROVE  ProcInv(d)'
<1>1. ProcInv(d) /\ proc[d] \in Procs
  BY DEF IInv, EnforceTypeOK
<1>2. proc[d].want \subseteq Runs /\ proc[d].add \subseteq Runs
  BY <1>1 DEF Procs
<1>3. \A r \in proc'[d].want \cup proc'[d].add : Known(r)'
  BY <1>1, <1>2 DEF ProcInv, Known, RunKept
<1>4. Acting(d) => /\ proc[d].run \in Runs /\ proc[d].root \in Roots
                   /\ run[proc[d].run].at # "none" /\ RunKept(proc[d].run)
  BY <1>1 DEF ProcInv
<1>5. Inside(d) => Acting(d) /\ Live(proc[d].run) /\ lock'[proc[d].run] = d /\ Live(proc[d].run)'
  BY <1>1, <1>4 DEF ProcInv, Acting
<1>6. Acting(d)' <=> Acting(d)
  BY DEF Acting, Inside
<1>7. (Inside(d)' <=> Inside(d)) /\ (Stopping(d)' <=> Stopping(d))
  BY DEF Stopping, Inside
<1>8. Inside(d) => /\ Home(proc[d].run)' = Home(proc[d].run)
                   /\ run'[proc[d].run].off = run[proc[d].run].off
                   /\ Findable(proc[d].run) => Findable(proc[d].run)'
  BY <1>4, <1>5 DEF RunKept, Home
<1> QED
  BY <1>1, <1>3, <1>4, <1>5, <1>6, <1>7, <1>8 DEF ProcInv, RunKept, Inside, Home, Live, Findable

\* A step of a command keeps the invariant if it keeps its own part of it.
LEMMA CallerMoves ==
  ASSUME IInv, NEW c \in Callers, UNCHANGED hookVars,
         \A d \in Callers \ {c} : proc'[d] = proc[d],
         proc[c].pc # "answer", proc'[c].pc # "answer", Stopping(c) => Stopping(c)',
         \A r \in Runs : RunKept(r),
         \A d \in Callers \ {c} : \A r \in Runs : lock[r] = d => lock'[r] = d /\ Live(r)',
         EnforceTypeOK', ProcInv(c)', \A r \in Runs : RunInv(r)'
  PROVE  IInv'
<1>1. ASSUME NEW d \in Callers PROVE ProcInv(d)'
  <2>1. CASE d = c
    BY <2>1
  <2>2. CASE d # c
    <3>1. proc'[d] = proc[d] /\ turn' = turn
      BY <2>2 DEF hookVars
    <3> QED
      BY <2>2, <3>1, Bystander
  <2> QED
    BY <2>1, <2>2
<1>2. ASSUME NEW s \in Sessions PROVE StopInv(s)'
  <2>1. StopInv(s) /\ s \in Callers
    BY DEF IInv, Callers
  <2>2. proc'[s].pc # "answer" => proc[s].pc # "answer"
    BY <2>1
  <2>3. Stopping(s) => Stopping(s)'
    BY <2>1 DEF Stopping
  <2> QED
    BY <2>1, <2>2, <2>3 DEF StopInv, hookVars
<1> QED
  BY <1>1, <1>2 DEF IInv

Conditions == [at : {"none", "begun", "auto", "work", "parked", "blocked", "ended"},
               off : BOOLEAN, home : Roots \cup {""}]

\* The types, one by one.
LEMMA Typed ==
  ASSUME IInv
  PROVE  /\ run \in [Runs -> Conditions] /\ lock \in [Runs -> Callers \cup {""}]
         /\ driver \in [Runs -> Sessions \cup {""}] /\ links \subseteq Runs
         /\ rootBeat \in [Roots -> Sessions \cup {""}] /\ sessionBeat \subseteq Sessions
         /\ proc \in [Callers -> Procs] /\ crashes \in 0..MaxCrashes
         /\ lost \subseteq Runs
BY Zenon DEF IInv, EnforceTypeOK, Conditions

\* Who holds the lock of a run is in the engine with it.
LEMMA Held ==
  ASSUME IInv, NEW r \in Runs, lock[r] # ""
  PROVE  lock[r] \in Callers /\ Inside(lock[r]) /\ proc[lock[r]].run = r /\ Live(r)
<1>1. lock[r] \in Callers
  BY Typed
<1>2. Inside(lock[r]) /\ proc[lock[r]].run = r
  BY DEF IInv, RunInv
<1>3. ProcInv(lock[r])
  BY <1>1, Zenon DEF IInv
<1> QED
  BY <1>1, <1>2, <1>3 DEF ProcInv

\* A step that changes no file but the heartbeats.
LEMMA ProcMoves ==
  ASSUME IInv, NEW c \in Callers, UNCHANGED <<hookVars, files, lost>>,
         rootBeat' \in [Roots -> Sessions \cup {""}], sessionBeat' \subseteq Sessions,
         crashes' \in 0..MaxCrashes,
         proc' \in [Callers -> Procs], \A d \in Callers \ {c} : proc'[d] = proc[d],
         proc[c].pc # "answer", proc'[c].pc # "answer", Stopping(c) => Stopping(c)',
         Inside(c) => Inside(c)' /\ proc'[c].run = proc[c].run,
         ProcInv(c)'
  PROVE  IInv'
<1>1. /\ run' = run /\ lock' = lock /\ driver' = driver /\ links' = links /\ lost' = lost
      /\ turn' = turn /\ stop' = stop /\ marks' = marks /\ since' = since
  BY DEF files, hookVars
<1>2. \A r \in Runs : lock[r] # "" => lock[r] \in Callers /\ Inside(lock[r]) /\ proc[lock[r]].run = r /\ Live(r)
  BY Held
<1>3. ASSUME NEW r \in Runs, lock[r] # "" PROVE Inside(lock[r])' /\ proc'[lock[r]].run = r
  <2>1. CASE lock[r] = c
    BY <1>1, <1>2, <1>3, <2>1 DEF Inside
  <2>2. CASE lock[r] # c
    BY <1>1, <1>2, <1>3, <2>2 DEF Inside
  <2> QED
    BY <2>1, <2>2
<1>4. EnforceTypeOK'
  BY <1>1, <1>3 DEF IInv, EnforceTypeOK
<1>5. ASSUME NEW r \in Runs PROVE RunInv(r)' /\ RunKept(r)
  <2>1. RunInv(r)
    BY DEF IInv
  <2> QED
    BY <1>1, <1>3, <2>1 DEF RunInv, RunKept, Home, Known, Findable, Live, Inside
<1>6. \A d \in Callers \ {c} : \A r \in Runs : lock[r] = d => lock'[r] = d /\ Live(r)'
  <2>1. \A d \in Callers : d # ""
    BY EnforceAssumption
  <2>2. \A r \in Runs : Live(r)' <=> Live(r)
    BY <1>1 DEF Live
  <2> QED
    BY <1>1, <1>2, <2>1, <2>2
<1> QED
  BY <1>4, <1>5, <1>6, CallerMoves

-----------------------------------------------------------------------------
(* The reconciliation of the index *)

\* Listing the runs: a run that its own pawl run has begun is among them.
LEMMA SyncListsStep ==
  ASSUME IInv, NEW c \in Callers, SyncLists(c), UNCHANGED hookVars PROVE IInv'
<1> DEFINE q == proc[c]
           p == [q EXCEPT !.pc = "read", !.want = Wanted(q.slug)]
<1>1. proc' = [proc EXCEPT ![c] = p]
  BY Zenon DEF SyncLists
<1>2. q \in Procs /\ q.pc = "list" /\ Wanted(q.slug) \in SUBSET Runs
  BY Typed DEF SyncLists, At, Wanted, Of
<1> HIDE DEF q
<1>3. p \in Procs
  <2> USE ProcsAre
  <2>1. "read" \in PCs
    BY DEF PCs
  <2> QED
    BY <1>2, <2>1
<1>4. /\ p.pc = "read" /\ p.root = q.root /\ p.run = q.run /\ p.slug = q.slug
      /\ p.then = q.then /\ p.want = Wanted(q.slug) /\ p.add = q.add
  BY <1>2 DEF Procs
<1> HIDE DEF p
<1>5. /\ Turns(c, "read", proc[c].root, proc[c].run, proc[c].slug, proc[c].then)
      /\ Wants(c, Wanted(proc[c].slug), proc[c].add)
  BY <1>1, <1>3, <1>4, Replaced, Typed DEF q
<1>6. ProcInv(c) /\ proc[c].pc = "list" /\ proc[c].add \subseteq Runs
  BY <1>2 DEF IInv, q, Procs
<1>7. UNCHANGED <<files, lost, beats, crashes>>
  BY DEF SyncLists
<1>8. ProcInv(c)'
  <2>1. \A r \in Wanted(proc[c].slug) : Known(r) /\ Known(r)'
    BY <1>7 DEF Wanted, Of, Known, Live, files
  <2>2. \A r \in proc[c].add : Known(r)'
    BY <1>6, <1>7 DEF ProcInv, Known, files
  <2>3. proc[c].then = "engine" /\ ~run[proc[c].run].off => proc[c].run \in Wanted(proc[c].slug)
    BY <1>6 DEF ProcInv, Inside, Acting, Wanted, Of
  <2> QED
    BY <1>5, <1>6, <1>7, <2>1, <2>2, <2>3
       DEF ProcInv, Turns, Wants, Inside, Acting, Stopping, Findable, Live, Home, files, hookVars
<1> QED
  BY <1>5, <1>6, <1>7, <1>8, ProcMoves, Typed DEF Turns, Inside, Stopping, beats

\* Reading live/: a run that is wanted has its link or is to get it.
LEMMA SyncReadsStep ==
  ASSUME IInv, NEW c \in Callers, SyncReads(c), UNCHANGED hookVars PROVE IInv'
<1> DEFINE q == proc[c]
           p == [q EXCEPT !.pc = "edit", !.want = {},
                          !.drop = (links \cap Of(q.slug)) \ q.want,
                          !.add = q.want \ links]
<1>1. proc' = [proc EXCEPT ![c] = p]
  BY Zenon DEF SyncReads
<1>2. q \in Procs /\ q.pc = "read" /\ links \subseteq Runs
  BY Typed DEF SyncReads, At
<1> HIDE DEF q
<1>3. p \in Procs
  <2> USE ProcsAre
  <2>1. "edit" \in PCs
    BY DEF PCs
  <2>2. (links \cap Of(q.slug)) \ q.want \in SUBSET Runs /\ q.want \ links \in SUBSET Runs
    BY <1>2
  <2> QED
    BY <1>2, <2>1, <2>2
<1>4. /\ p.pc = "edit" /\ p.root = q.root /\ p.run = q.run /\ p.slug = q.slug
      /\ p.then = q.then /\ p.want = {} /\ p.add = q.want \ links
  BY <1>2 DEF Procs
<1> HIDE DEF p
<1>5. /\ Turns(c, "edit", proc[c].root, proc[c].run, proc[c].slug, proc[c].then)
      /\ Wants(c, {}, proc[c].want \ links)
  BY <1>1, <1>3, <1>4, Replaced, Typed DEF q
<1>6. ProcInv(c) /\ proc[c].pc = "read" /\ proc[c].want \subseteq Runs
  BY <1>2 DEF IInv, q, Procs
<1>7. UNCHANGED <<files, lost, beats, crashes>>
  BY DEF SyncReads
<1>8. ProcInv(c)'
  <2>1. \A r \in proc[c].want : Known(r)'
    BY <1>6, <1>7 DEF ProcInv, Known, files
  <2>2. proc[c].then = "engine" =>
          proc[c].run \in proc[c].want \ links \/ Findable(proc[c].run)
    BY <1>6 DEF ProcInv, Findable
  <2> QED
    BY <1>5, <1>6, <1>7, <2>1, <2>2
       DEF ProcInv, Turns, Wants, Inside, Acting, Stopping, Findable, Live, Home, files, hookVars
<1> QED
  BY <1>5, <1>6, <1>7, <1>8, ProcMoves, Typed DEF Turns, Inside, Stopping, beats

\* Going on from the reconciliation.
LEMMA SyncDoneStep ==
  ASSUME IInv, NEW c \in Callers, SyncDone(c), UNCHANGED hookVars PROVE IInv'
<1>1. /\ ProcInv(c) /\ proc[c].pc = "edit" /\ proc[c].add = {} /\ proc[c] \in Procs
      /\ proc \in [Callers -> Procs]
  BY Typed DEF IInv, SyncDone, At
<1>2. UNCHANGED <<files, lost, beats, crashes>>
  BY DEF SyncDone
<1>3. CASE proc[c].then = "idle"
  <2>1. Turns(c, "idle", "", "", "", "") /\ Wants(c, {}, {})
    BY <1>1, <1>3, QuitsTo DEF SyncDone
  <2>2. ProcInv(c)' /\ ~Inside(c) /\ ~Stopping(c)
    BY <1>1, <1>3, <2>1 DEF ProcInv, Turns, Wants, Inside, Acting, Stopping
  <2> QED
    BY <1>1, <1>2, <2>1, <2>2, ProcMoves, Typed DEF Turns, beats
<1>4. CASE proc[c].then = "home"
  <2>1. proc[c].root \in Roots \cup {""}
    BY <1>1 DEF Procs
  <2>2. Turns(c, "list", proc[c].root, "", proc[c].root, "idle") /\ Wants(c, {}, {})
    BY <1>1, <1>4, <2>1, FinishesTo DEF SyncDone
  <2>3. ProcInv(c)' /\ ~Inside(c) /\ ~Stopping(c)
    BY <1>1, <1>4, <2>2 DEF ProcInv, Turns, Wants, Inside, Acting, Stopping
  <2> QED
    BY <1>1, <1>2, <2>2, <2>3, ProcMoves, Typed DEF Turns, beats
<1>5. CASE proc[c].then \notin {"idle", "home"}
  <2> DEFINE q == proc[c]
             p == [q EXCEPT !.pc = q.then, !.slug = "", !.then = ""]
  <2>1. proc' = [proc EXCEPT ![c] = p]
    <3>1. proc' = [proc EXCEPT ![c].pc = proc[c].then, ![c].slug = "", ![c].then = ""]
      BY <1>5 DEF SyncDone
    <3> QED
      BY <3>1, Zenon
  <2>2. q \in Procs /\ q.then \in {"ready", "engine", "judge"}
    BY <1>1, <1>5 DEF ProcInv, Procs
  <2> HIDE DEF q
  <2>3. p \in Procs
    <3> USE ProcsAre
    <3>1. q.then \in PCs /\ "" \in Thens
      BY <2>2 DEF PCs, Thens
    <3> QED
      BY <2>2, <3>1
  <2>4. /\ p.pc = q.then /\ p.root = q.root /\ p.run = q.run /\ p.slug = ""
        /\ p.then = "" /\ p.want = q.want /\ p.add = q.add
    BY <2>2 DEF Procs
  <2> HIDE DEF p
  <2>5. /\ Turns(c, proc[c].then, proc[c].root, proc[c].run, "", "")
        /\ Wants(c, proc[c].want, proc[c].add)
    BY <2>1, <2>3, <2>4, Replaced, Typed DEF q
  <2>6. \A r \in proc[c].want : Known(r)'
    BY <1>1, <1>2 DEF ProcInv, Known, files
  <2>7. proc[c].then = "engine" => Findable(proc[c].run)
    BY <1>1 DEF ProcInv
  <2>8. ProcInv(c)'
    BY <1>1, <1>2, <2>2, <2>5, <2>6, <2>7
       DEF q, ProcInv, Turns, Wants, Inside, Acting, Stopping, Findable, Live, Home, files, hookVars
  <2>9. (Inside(c) => Inside(c)' /\ proc'[c].run = proc[c].run) /\ (Stopping(c) => Stopping(c)')
    BY <1>1, <2>5 DEF Turns, Inside, Stopping
  <2> QED
    BY <1>1, <1>2, <2>2, <2>5, <2>8, <2>9, ProcMoves, Typed DEF q, Turns, beats
<1> QED
  BY <1>3, <1>4, <1>5

\* One link is removed or made; one that is removed from a live run is lost.
LEMMA SyncEditsStep ==
  ASSUME IInv, NEW c \in Callers, SyncEdits(c), UNCHANGED hookVars PROVE IInv'
<1>1. /\ ProcInv(c) /\ proc[c].pc = "edit" /\ proc[c] \in Procs
      /\ proc \in [Callers -> Procs]
  BY Typed DEF IInv, SyncEdits, At
<1>2. UNCHANGED <<run, lock, driver, beats, crashes>>
  BY DEF SyncEdits
<1>3. PICK r \in proc[c].drop \cup proc[c].add :
        \/ /\ r \in proc[c].drop /\ links' = links \ {r}
           /\ proc' = [proc EXCEPT ![c].drop = @ \ {r}]
           /\ lost' = IF Live(r) THEN lost \cup {r} ELSE lost
        \/ /\ r \in proc[c].add /\ links' = links \cup {r}
           /\ proc' = [proc EXCEPT ![c].add = @ \ {r}]
           /\ lost' = lost \ {r}
  BY DEF SyncEdits
<1>4. r \in Runs /\ (r \in proc[c].add => Known(r))
  BY <1>1, <1>3 DEF Procs, ProcInv
<1>5. PICK add \in SUBSET proc[c].add :
        /\ Turns(c, "edit", proc[c].root, proc[c].run, proc[c].slug, proc[c].then)
        /\ Wants(c, proc[c].want, add)
        /\ \A x \in proc[c].add \ add : x = r /\ r \in proc[c].add /\ links' = links \cup {r}
  <2> DEFINE q == proc[c]
  <2>1. CASE links' = links \ {r} /\ proc' = [proc EXCEPT ![c].drop = @ \ {r}]
    <3> DEFINE p == [q EXCEPT !.drop = @ \ {r}]
    <3>1. proc' = [proc EXCEPT ![c] = p]
      BY <2>1
    <3>2. q \in Procs /\ q.pc = "edit"
      BY <1>1
    <3> HIDE DEF q
    <3>3. p \in Procs
      BY <3>2, ProcsAre
    <3>4. /\ p.pc = "edit" /\ p.root = q.root /\ p.run = q.run /\ p.slug = q.slug
          /\ p.then = q.then /\ p.want = q.want /\ p.add = q.add
      BY <3>2 DEF Procs
    <3> HIDE DEF p
    <3>5. /\ Turns(c, "edit", proc[c].root, proc[c].run, proc[c].slug, proc[c].then)
          /\ Wants(c, proc[c].want, proc[c].add)
      BY <3>1, <3>3, <3>4, Replaced, Typed DEF q
    <3> QED
      BY <3>5
  <2>2. CASE /\ r \in proc[c].add /\ links' = links \cup {r}
             /\ proc' = [proc EXCEPT ![c].add = @ \ {r}]
    <3> DEFINE p == [q EXCEPT !.add = @ \ {r}]
    <3>1. proc' = [proc EXCEPT ![c] = p]
      BY <2>2
    <3>2. q \in Procs /\ q.pc = "edit"
      BY <1>1
    <3> HIDE DEF q
    <3>3. p \in Procs
      BY <3>2, ProcsAre
    <3>4. /\ p.pc = "edit" /\ p.root = q.root /\ p.run = q.run /\ p.slug = q.slug
          /\ p.then = q.then /\ p.want = q.want /\ p.add = q.add \ {r}
      BY <3>2 DEF Procs
    <3> HIDE DEF p
    <3>5. /\ Turns(c, "edit", proc[c].root, proc[c].run, proc[c].slug, proc[c].then)
          /\ Wants(c, proc[c].want, proc[c].add \ {r})
      BY <3>1, <3>3, <3>4, Replaced, Typed DEF q
    <3> QED
      BY <2>2, <3>5
  <2> QED
    BY <1>3, <2>1, <2>2
<1>6. /\ links' \subseteq Runs /\ lost' \subseteq Runs
      /\ \A x \in Runs : /\ x \in links' => x \in links \/ Known(x)
                         /\ x \in links \cup lost /\ Live(x) => x \in links' \cup lost'
      /\ r \in proc[c].add /\ links' = links \cup {r} => r \in links' \cup lost'
  <2>1. lost \subseteq Runs /\ links \subseteq Runs
    BY Typed
  <2> QED
    BY <1>3, <1>4, <2>1
<1>7. ASSUME NEW x \in Runs PROVE RunKept(x) /\ (Live(x)' <=> Live(x)) /\ (Known(x)' <=> Known(x))
  BY <1>2, <1>6 DEF RunKept, Findable, Live, Known
<1>8. ProcInv(c)'
  <2>1. \A x \in proc[c].want \cup proc[c].add : x \in Runs /\ Known(x)'
    BY <1>1, <1>7 DEF ProcInv, Procs
  <2>2. proc[c].then = "engine" => proc[c].run \in Runs /\ Live(proc[c].run) /\ run[proc[c].run].at # "none"
    BY <1>1 DEF ProcInv, Inside, Acting
  <2>3. proc[c].then = "engine" => proc'[c].run \in proc'[c].add \/ Findable(proc[c].run)'
    BY <1>1, <1>2, <1>5, <1>6, <1>7, <2>2 DEF ProcInv, RunKept, Turns, Wants, Findable
  <2> QED
    BY <1>1, <1>2, <1>5, <2>1, <2>2, <2>3
       DEF ProcInv, Turns, Wants, Inside, Acting, Stopping, Findable, Live, Home, hookVars
<1>9. ASSUME NEW x \in Runs
      PROVE /\ RunInv(x)'
            /\ lock[x] # "" => proc'[lock[x]].run = x
  <2>1. RunInv(x) /\ (lock[x] # "" => lock[x] \in Callers /\ Inside(lock[x]) /\ proc[lock[x]].run = x)
    BY Held DEF IInv
  <2>2. lock[x] # "" => Inside(lock[x])' /\ proc'[lock[x]].run = x
    <3>1. CASE lock[x] = c
      BY <1>1, <1>2, <1>5, <2>1, <3>1 DEF Inside, Turns
    <3>2. CASE lock[x] # c
      BY <1>1, <1>2, <1>5, <2>1, <3>2 DEF Inside, Turns
    <3> QED
      BY <3>1, <3>2
  <2> QED
    BY <1>2, <1>6, <1>7, <2>1, <2>2 DEF RunInv, RunKept, Home, Known, Live, Findable
<1>10. EnforceTypeOK'
  BY <1>2, <1>5, <1>6, <1>9 DEF IInv, EnforceTypeOK, Turns, hookVars, beats
<1>11. \A d \in Callers \ {c} : \A x \in Runs : lock[x] = d => lock'[x] = d /\ Live(x)'
  <2>1. \A d \in Callers : d # ""
    BY EnforceAssumption
  <2> QED
    BY <1>2, <1>7, <2>1, Held
<1> QED
  BY <1>1, <1>5, <1>7, <1>8, <1>9, <1>10, <1>11, CallerMoves DEF Turns, Stopping

-----------------------------------------------------------------------------
(* Heartbeats, and the commands before they reach the engine *)

\* The PreToolUse hook.
LEMMA PreHookStep ==
  ASSUME IInv, NEW s \in Sessions, PreHook(s), UNCHANGED hookVars PROVE IInv'
<1>1. s \in Callers /\ Cwd[s] \in Roots
  BY EnforceAssumption DEF Callers
<1>2. /\ ProcInv(s) /\ proc[s].pc = "idle" /\ proc[s] \in Procs /\ Syncs(s, Cwd[s], "ready")
      /\ UNCHANGED <<files, crashes, lost>>
  BY <1>1, Typed DEF IInv, PreHook, At
<1>3. /\ Turns(s, "list", proc[s].root, proc[s].run, Cwd[s], "ready")
      /\ Wants(s, proc[s].want, proc[s].add)
  BY <1>1, <1>2, SyncsTo, Typed DEF Thens
<1>4. rootBeat' \in [Roots -> Sessions \cup {""}] /\ sessionBeat' \subseteq Sessions
  BY <1>1, Typed DEF PreHook
<1>5. \A r \in proc[s].want \cup proc[s].add : Known(r)'
  BY <1>2 DEF ProcInv, Known, files
<1>6. ProcInv(s)' /\ ~Inside(s) /\ ~Stopping(s)
  BY <1>2, <1>3, <1>5 DEF ProcInv, Turns, Wants, Inside, Acting, Stopping
<1> QED
  BY <1>1, <1>2, <1>3, <1>4, <1>6, ProcMoves, Typed DEF Turns

\* Only heartbeats change, or nothing at all.
LEMMA BeatsMove ==
  ASSUME IInv, UNCHANGED <<files, proc, crashes, lost, hookVars>>,
         rootBeat' \in [Roots -> Sessions \cup {""}], sessionBeat' \subseteq Sessions
  PROVE  IInv'
<1>1. EnforceTypeOK'
  BY DEF IInv, EnforceTypeOK, files, hookVars
<1>2. ASSUME NEW c \in Callers PROVE ProcInv(c)'
  <2>1. ProcInv(c)
    BY DEF IInv
  <2> QED
    BY <2>1 DEF ProcInv, Inside, Acting, Stopping, Known, Findable, Live, Home, files, hookVars
<1>3. ASSUME NEW r \in Runs PROVE RunInv(r)'
  <2>1. RunInv(r)
    BY DEF IInv
  <2> QED
    BY <2>1 DEF RunInv, Inside, Known, Findable, Live, Home, files
<1>4. ASSUME NEW s \in Sessions PROVE StopInv(s)'
  BY DEF IInv, StopInv, Stopping, hookVars
<1> QED
  BY <1>1, <1>2, <1>3, <1>4 DEF IInv

\* A heartbeat becomes stale.
LEMMA GoesStaleStep ==
  ASSUME IInv, GoesStale, UNCHANGED hookVars PROVE IInv'
<1>1. UNCHANGED <<files, proc, crashes, lost, hookVars>>
  BY DEF GoesStale
<1>2. rootBeat' \in [Roots -> Sessions \cup {""}] /\ sessionBeat' \subseteq Sessions
  BY Typed DEF GoesStale
<1> QED
  BY <1>1, <1>2, BeatsMove

\* A command that has yet to look at anything.
LEMMA Fresh ==
  ASSUME IInv, NEW c \in Callers, MayCommand(c)
  PROVE  /\ proc[c].pc \in {"idle", "ready"} /\ ~Inside(c) /\ ~Stopping(c) /\ ProcInv(c)
         /\ \A r \in Runs : lock[r] # c
<1>1. ProcInv(c) /\ proc[c].pc \in {"idle", "ready"}
  BY DEF IInv, MayCommand, At
<1>2. ~Inside(c) /\ ~Stopping(c)
  BY <1>1 DEF ProcInv, Inside, Stopping
<1>3. c # ""
  BY EnforceAssumption
<1> QED
  BY <1>1, <1>2, <1>3, Held

\* A fresh heartbeat is that of a session.
LEMMA VouchedType ==
  ASSUME IInv, NEW c \in Callers, NEW root \in Roots PROVE Vouched(c, root) \in Sessions \cup {""}
BY Typed DEF Vouched

\* pawl run on a run that has begun.
LEMMA ResumeRunStep ==
  ASSUME IInv, NEW c \in Callers, NEW r \in Runs, NEW optOut \in BOOLEAN,
         ResumeRun(c, r, optOut), UNCHANGED hookVars
  PROVE  IInv'
<1>1. MayCommand(c) /\ Live(r) /\ UNCHANGED <<files, beats, crashes, lost>>
  BY DEF ResumeRun
<1>2. Home(r) \in Roots /\ run[r].at # "none"
  BY <1>1 DEF IInv, RunInv, Live
<1>3. Turns(c, "resume", Home(r), r, "", "") /\ Wants(c, {}, {})
  BY <1>2, CommandTo, VouchedType, Typed DEF ResumeRun
<1>4. ProcInv(c)'
  BY <1>1, <1>2, <1>3 DEF ProcInv, Turns, Wants, Inside, Acting, Stopping, files
<1> QED
  BY <1>1, <1>3, <1>4, Fresh, ProcMoves, Typed DEF Turns, beats

\* pawl submit and poll before the engine.
LEMMA SubmitToStep ==
  ASSUME IInv, NEW c \in Callers, NEW r \in Runs, SubmitTo(c, r), UNCHANGED hookVars
  PROVE  IInv'
<1>1. MayCommand(c) /\ run[r].at # "none" /\ UNCHANGED <<files, beats, crashes, lost>>
  BY DEF SubmitTo
<1>2. Home(r) \in Roots
  BY <1>1 DEF IInv, RunInv
<1>3. Turns(c, "submit", Home(r), r, "", "") /\ Wants(c, {}, {})
  BY <1>2, CommandTo, Typed DEF SubmitTo
<1>4. ProcInv(c)'
  BY <1>1, <1>2, <1>3 DEF ProcInv, Turns, Wants, Inside, Acting, Stopping, files
<1> QED
  BY <1>1, <1>3, <1>4, Fresh, ProcMoves, Typed DEF Turns, beats

\* A command that finishes leaves everything to the reconciliation.
LEMMA FinishesStep ==
  ASSUME IInv, NEW c \in Callers, NEW root \in Roots, Finishes(c, root), ~Inside(c),
         ~Stopping(c), UNCHANGED <<files, beats, crashes, lost, hookVars>>
  PROVE  IInv'
<1>1. Turns(c, "list", root, "", root, "idle") /\ Wants(c, {}, {})
  BY FinishesTo, Typed
<1>2. ProcInv(c)'
  BY <1>1 DEF ProcInv, Turns, Wants, Inside, Acting, Stopping
<1> QED
  BY <1>1, <1>2, ProcMoves, Typed DEF Turns, Stopping, beats

\* pawl abandon before it takes the lock.
LEMMA AbandonLooksStep ==
  ASSUME IInv, NEW c \in Callers, NEW root \in Roots, NEW r \in Runs,
         AbandonLooks(c, root, r), UNCHANGED hookVars
  PROVE  IInv'
<1> DEFINE p == [NoProc EXCEPT !.pc = "abandon", !.root = root, !.run = r]
<1>1. MayCommand(c) /\ run[r].at # "none" /\ UNCHANGED <<files, beats, crashes, lost>>
  BY DEF AbandonLooks, Live
<1>2. proc' = [proc EXCEPT ![c] = p]
  BY DEF AbandonLooks
<1>3. p \in Procs
  <2> USE ProcsAre
  <2>1. "abandon" \in PCs
    BY DEF PCs
  <2> QED
    BY <2>1, NoProcType
<1>4. /\ p.pc = "abandon" /\ p.root = root /\ p.run = r /\ p.slug = ""
      /\ p.then = "" /\ p.want = {} /\ p.add = {}
  BY NoProcType DEF Procs
<1> HIDE DEF p
<1>5. Turns(c, "abandon", root, r, "", "") /\ Wants(c, {}, {})
  BY <1>2, <1>3, <1>4, Replaced, Typed
<1>6. ProcInv(c)'
  BY <1>1, <1>5 DEF ProcInv, Turns, Wants, Inside, Acting, Stopping, files
<1> QED
  BY <1>1, <1>5, <1>6, Fresh, ProcMoves, Typed DEF Turns, beats

\* Crashes are counted up to their bound.
LEMMA OneMoreCrash ==
  ASSUME IInv, crashes < MaxCrashes, crashes' = crashes + 1 PROVE crashes' \in 0..MaxCrashes
<1>1. crashes \in 0..MaxCrashes /\ MaxCrashes \in Nat
  BY Typed, EnforceAssumption
<1> QED
  BY <1>1

\* The PreToolUse hook dies.
LEMMA PreHookDiesStep ==
  ASSUME IInv, NEW s \in Sessions, PreHookDies(s), UNCHANGED hookVars PROVE IInv'
<1> DEFINE p == [NoProc EXCEPT !.pc = "ready"]
<1>1. /\ s \in Callers /\ ProcInv(s) /\ proc[s].then = "ready"
      /\ UNCHANGED <<files, beats, lost>> /\ crashes' \in 0..MaxCrashes
  BY OneMoreCrash DEF PreHookDies, Callers, IInv
<1>2. proc' = [proc EXCEPT ![s] = p]
  BY DEF PreHookDies
<1>3. p \in Procs
  <2> USE ProcsAre
  <2>1. "ready" \in PCs
    BY DEF PCs
  <2> QED
    BY <2>1, NoProcType
<1>4. /\ p.pc = "ready" /\ p.root = "" /\ p.run = "" /\ p.slug = ""
      /\ p.then = "" /\ p.want = {} /\ p.add = {}
  BY NoProcType DEF Procs
<1> HIDE DEF p
<1>5. Turns(s, "ready", "", "", "", "") /\ Wants(s, {}, {})
  BY <1>1, <1>2, <1>3, <1>4, Replaced, Typed
<1>6. ProcInv(s)' /\ ~Inside(s) /\ ~Stopping(s) /\ proc[s].pc # "answer"
  BY <1>1, <1>5 DEF ProcInv, Turns, Wants, Inside, Acting, Stopping
<1> QED
  BY <1>1, <1>5, <1>6, ProcMoves, Typed DEF Turns, beats

-----------------------------------------------------------------------------
(* The engine, the driver and pawl abandon *)

\* One command and its run change, and no link.
LEMMA RunMoves ==
  ASSUME IInv, NEW c \in Callers, NEW r \in Runs,
         UNCHANGED <<hookVars, beats, crashes, links>>, lost' = lost,
         proc' \in [Callers -> Procs], \A d \in Callers \ {c} : proc'[d] = proc[d],
         run' \in [Runs -> Conditions], lock' \in [Runs -> Callers \cup {""}],
         driver' \in [Runs -> Sessions \cup {""}],
         \A q \in Runs \ {r} : run'[q] = run[q] /\ lock'[q] = lock[q] /\ driver'[q] = driver[q],
         ~Stopping(c), proc'[c].pc # "answer",
         Inside(c) => proc[c].run = r,
         lock'[r] = c => Inside(c)' /\ proc'[c].run = r,
         lock'[r] \in {"", c} \/ lock'[r] = lock[r],
         lock[r] \notin {"", c} => lock'[r] = lock[r] /\ Live(r)',
         RunKept(r), run'[r].at # "none" => Home(r)' \in Roots,
         r \in links \/ driver'[r] # "" => Known(r)',
         Live(r)' /\ run'[r].at # "begun" => Findable(r)',
         ProcInv(c)'
  PROVE  IInv'
<1>0. \A d \in Callers : d # ""
  BY EnforceAssumption
<1>1. ASSUME NEW q \in Runs, NEW d \in Callers, lock'[q] = d
      PROVE Inside(d)' /\ proc'[d].run = q
  <2>1. CASE q = r /\ d = c
    BY <1>1, <2>1
  <2>2. CASE q # r /\ d = c
    <3>1. lock[q] = c
      BY <1>1, <2>2
    <3>2. Inside(c) /\ proc[c].run = q
      BY <1>0, <3>1, Held
    <3> QED
      BY <2>2, <3>2
  <2>3. CASE d # c
    <3>1. lock[q] = d /\ d # "" /\ proc'[d] = proc[d]
      BY <1>0, <1>1, <2>3
    <3>2. Inside(d) /\ proc[d].run = q
      BY <3>1, Held
    <3> QED
      BY <3>1, <3>2 DEF Inside
  <2> QED
    BY <2>1, <2>2, <2>3
<1>2. links' = links
  OBVIOUS
<1>3. ASSUME NEW q \in Runs, lock'[q] # "" PROVE Inside(lock[q])' /\ proc'[lock'[q]].run = q
  <2>1. lock'[q] \in Callers
    BY <1>3
  <2>2. \A d \in Callers : lock'[q] = d => Inside(d)' /\ proc'[d].run = q
    BY <1>1
  <2>3. PICK d \in Callers : lock'[q] = d
    BY <2>1
  <2>4. Inside(d)' /\ proc'[d].run = q
    BY <2>2, <2>3
  <2> QED
    BY <2>3, <2>4 DEF Inside
<1>4. EnforceTypeOK'
  BY <1>3, Zenon DEF IInv, EnforceTypeOK, Conditions, hookVars, beats
<1>5. ASSUME NEW q \in Runs PROVE RunKept(q) /\ RunInv(q)'
  <2>1. RunInv(q) /\ (lock'[q] # "" => Inside(lock[q])' /\ proc'[lock'[q]].run = q)
    BY <1>3 DEF IInv
  <2>2. CASE q = r
    <3>1. RunInv(r)'
      BY <1>2, <2>1, <2>2 DEF RunInv
    <3> QED
      BY <2>2, <3>1, Zenon
  <2>3. CASE q # r
    <3>1. run'[q] = run[q] /\ driver'[q] = driver[q]
      BY <2>3
    <3>2. /\ Known(q)' <=> Known(q)
          /\ Findable(q)' <=> Findable(q)
          /\ Live(q)' <=> Live(q)
          /\ Home(q)' = Home(q)
      BY <1>2, <3>1 DEF Known, Findable, Live, Home
    <3>3. RunKept(q)
      BY <3>1, <3>2 DEF RunKept, Home
    <3> QED
      BY <1>2, <2>1, <3>1, <3>2, <3>3 DEF RunInv
  <2> QED
    BY <2>2, <2>3
<1>6. ASSUME NEW d \in Callers \ {c}, NEW q \in Runs, lock[q] = d PROVE lock'[q] = d /\ Live(q)'
  <2>1. d # "" /\ Live(q)
    BY <1>0, <1>6, Held
  <2>2. CASE q = r
    BY <1>6, <2>1, <2>2
  <2>3. CASE q # r
    BY <1>6, <2>1, <2>3 DEF Live
  <2> QED
    BY <2>2, <2>3
<1> QED
  BY <1>4, <1>5, <1>6, CallerMoves DEF Stopping

\* RUN_START: the run has neither link nor driver yet.
LEMMA StartRunStep ==
  ASSUME IInv, NEW c \in Callers, NEW root \in Roots, NEW r \in Runs, NEW optOut \in BOOLEAN,
         StartRun(c, root, r, optOut), UNCHANGED hookVars
  PROVE  IInv'
<1>1. /\ MayCommand(c) /\ run[r].at = "none" /\ UNCHANGED <<driver, links, beats, crashes, lost>>
      /\ run' = [run EXCEPT ![r] = [at |-> "begun", off |-> optOut, home |-> root]]
      /\ lock' = [lock EXCEPT ![r] = c]
  BY DEF StartRun
<1>2. /\ run' \in [Runs -> Conditions] /\ lock' \in [Runs -> Callers \cup {""}]
      /\ run'[r] = [at |-> "begun", off |-> optOut, home |-> root] /\ lock'[r] = c
      /\ \A q \in Runs \ {r} : run'[q] = run[q] /\ lock'[q] = lock[q]
  BY <1>1, Typed DEF Conditions
<1>3. lock[r] = "" /\ r \notin links /\ driver[r] = ""
  <2>1. RunInv(r)
    BY DEF IInv
  <2> QED
    BY <1>1, <2>1, Held DEF RunInv, Known, Live
<1>4. Turns(c, "start", root, r, "", "") /\ Wants(c, {}, {})
  BY CommandTo, VouchedType, Typed DEF StartRun
<1>5. ProcInv(c)'
  <2>0. run'[r].at = "begun" /\ run'[r].home = root /\ lock'[r] = c
    <3> DEFINE b == [at |-> "begun", off |-> optOut, home |-> root]
    <3>1. b.at = "begun" /\ b.home = root
      OBVIOUS
    <3>2. run'[r] = b /\ lock'[r] = c
      BY <1>2, Zenon
    <3> HIDE DEF b
    <3> QED
      BY <3>1, <3>2
  <2>1. Home(r)' = root /\ Live(r)' /\ run'[r].at # "none" /\ lock'[r] = c
    BY <2>0 DEF Home, Live
  <2>2. /\ proc'[c].pc = "start" /\ proc'[c].root = root /\ proc'[c].run = r /\ proc'[c].then = ""
        /\ proc'[c].want = {} /\ proc'[c].add = {}
    BY <1>4 DEF Turns, Wants
  <2> QED
    BY <2>1, <2>2 DEF ProcInv, Inside, Acting, Stopping, Live, Home
<1>6. /\ RunKept(r) /\ Home(r)' \in Roots /\ (Inside(c)' /\ proc'[c].run = r)
      /\ run'[r].at = "begun"
  BY <1>1, <1>2, <1>4 DEF RunKept, Home, Inside, Turns
<1> QED
  BY <1>1, <1>2, <1>3, <1>4, <1>5, <1>6, Fresh, RunMoves, Typed DEF Turns

\* Where a run gets to; how it was started does not change.
Gets(r, at) ==
  /\ run' \in [Runs -> Conditions]
  /\ run'[r].at = at /\ run'[r].off = run[r].off /\ run'[r].home = run[r].home
  /\ \A q \in Runs \ {r} : run'[q] = run[q]

Places == {"none", "begun", "auto", "work", "parked", "blocked", "ended"}

\* A run that only gets elsewhere.
LEMMA GetsTo ==
  ASSUME IInv, NEW r \in Runs, NEW at \in Places, run' = [run EXCEPT ![r].at = at]
  PROVE  Gets(r, at)
<1>1. run \in [Runs -> Conditions]
  BY Typed
<1>2. [run[r] EXCEPT !.at = at] \in Conditions
  BY <1>1 DEF Conditions, Places
<1> QED
  BY <1>1, <1>2 DEF Gets, Conditions

\* A run that is where it was, or live, or at its end, is still what it was.
LEMMA GetsKeeps ==
  ASSUME IInv, NEW r \in Runs, NEW at \in Places \ {"none"}, Gets(r, at), run[r].at # "none",
         links' = links, lost' = lost
  PROVE  /\ RunKept(r) /\ Home(r)' = Home(r) /\ Home(r) \in Roots
         /\ Known(r)' <=> Known(r)
         /\ Findable(r)' <=> Findable(r)
<1>1. Home(r) \in Roots
  BY DEF IInv, RunInv
<1> QED
  BY <1>1 DEF Gets, RunKept, Home, Known, Findable

\* The engine takes a run on that it can find.
LEMMA EngineTakesStep ==
  ASSUME IInv, NEW c \in Callers, EngineTakes(c), UNCHANGED hookVars PROVE IInv'
<1>1. /\ ProcInv(c) /\ proc[c].pc \in {"resume", "submit"}
      /\ UNCHANGED <<driver, links, beats, crashes, lost>>
  BY DEF IInv, EngineTakes, At
<1>2. PICK r \in Runs : /\ r = proc[c].run /\ run[r].at # "none" /\ proc[c].root \in Roots
                       /\ ~Inside(c) /\ ~Stopping(c) /\ proc[c].then = ""
  BY <1>1 DEF ProcInv, Inside, Acting, Stopping
<1>3. CASE ~Takes(r)
  <2>1. Finishes(c, proc[c].root) /\ UNCHANGED <<run, lock>>
    BY <1>2, <1>3 DEF EngineTakes
  <2> QED
    BY <1>1, <1>2, <2>1, FinishesStep DEF files
<1>4. CASE Takes(r)
  <2> DEFINE at == IF run[r].at = "blocked" /\ proc[c].cmd = "resume" THEN "auto" ELSE run[r].at
  <2>1. /\ lock' = [lock EXCEPT ![r] = c] /\ run' = [run EXCEPT ![r].at = at]
        /\ Goes(c, "engine")
        /\ lock[r] = "" /\ Live(r) /\ run[r].at # "begun"
    BY <1>2, <1>4 DEF EngineTakes, Takes
  <2>2. at \in Places \ {"none", "begun", "ended"} /\ run[r].at \in Places
    BY <1>2, <2>1, Typed DEF Places, Conditions, Live
  <2>3. Findable(r)
    BY <1>2, <2>1 DEF IInv, RunInv
  <2>4. /\ Turns(c, "engine", proc[c].root, r, proc[c].slug, "")
        /\ Wants(c, proc[c].want, proc[c].add)
    BY <1>2, <2>1, GoesTo, Typed
  <2>5. lost' = lost
    BY <1>1
  <2> HIDE DEF at
  <2>6. Gets(r, at)
    BY <1>2, <2>1, <2>2, GetsTo
  <2>7. /\ RunKept(r) /\ Home(r)' \in Roots /\ (Known(r)' <=> Known(r)) /\ Findable(r)'
        /\ Live(r)' /\ run'[r].at # "none"
    BY <1>1, <1>2, <2>2, <2>3, <2>5, <2>6, GetsKeeps DEF Gets, Live
  <2>8. /\ lock' \in [Runs -> Callers \cup {""}] /\ lock'[r] = c
        /\ \A q \in Runs \ {r} : lock'[q] = lock[q]
    BY <1>2, <2>1, Typed
  <2>9. ProcInv(c)'
    <3>1. \A x \in proc[c].want \cup proc[c].add : Known(x)'
      <4>1. proc[c].want \subseteq Runs /\ proc[c].add \subseteq Runs
        BY Typed DEF Procs
      <4>2. \A x \in proc[c].want \cup proc[c].add : Known(x)
        BY <1>1 DEF ProcInv
      <4> QED
        BY <2>6, <2>7, <4>1, <4>2 DEF Known, Gets
    <3>2. /\ proc'[c].pc = "engine" /\ proc'[c].root = proc[c].root /\ proc'[c].run = r
          /\ proc'[c].then = "" /\ proc'[c].want = proc[c].want /\ proc'[c].add = proc[c].add
      BY <2>4 DEF Turns, Wants
    <3>3. run'[r].at # "none" /\ lock'[r] = c /\ Live(r)' /\ Findable(r)'
      BY <2>7, <2>8
    <3> QED
      BY <1>2, <3>1, <3>2, <3>3 DEF ProcInv, Inside, Acting, Stopping, Live, Findable
  <2>10. r \in links \/ driver[r] # "" => Known(r)
    BY <1>2 DEF IInv, RunInv
  <2>11. Inside(c)' /\ proc'[c].run = r /\ proc'[c].pc # "answer"
    BY <2>4 DEF Turns, Inside
  <2> QED
    BY <1>1, <1>2, <2>1, <2>4, <2>5, <2>6, <2>7, <2>8, <2>9, <2>10, <2>11, RunMoves, Typed DEF Turns, Gets
<1> QED
  BY <1>3, <1>4

\* The engine works on it.
LEMMA EngineMovesStep ==
  ASSUME IInv, NEW c \in Callers, EngineMoves(c), UNCHANGED hookVars PROVE IInv'
<1>0. /\ ProcInv(c) /\ proc[c].pc = "engine"
      /\ UNCHANGED <<lock, driver, links, beats, proc, crashes, lost>>
  BY DEF IInv, EngineMoves, At
<1>2. PICK r \in Runs : /\ r = proc[c].run /\ run[r].at # "none" /\ proc[c].root \in Roots
                       /\ Inside(c) /\ proc[c].then = "" /\ lock[r] = c /\ Findable(r)
                       /\ ~Stopping(c)
  BY <1>0 DEF ProcInv, Inside, Acting, Stopping
<1>1. /\ ProcInv(c) /\ proc[c].pc = "engine" /\ run' = [run EXCEPT ![r].at = "auto"]
      /\ UNCHANGED <<lock, driver, links, beats, proc, crashes, lost>>
  BY <1>0, <1>2 DEF EngineMoves
<1>3. lost' = lost
  BY <1>1
<1>4. Gets(r, "auto")
  BY <1>1, <1>2, GetsTo DEF Places
<1>5. /\ RunKept(r) /\ Home(r)' \in Roots /\ (Known(r)' <=> Known(r)) /\ Findable(r)'
      /\ Live(r)' /\ run'[r].at # "none"
  <2>1. "auto" \in Places \ {"none"}
    BY DEF Places
  <2>2. RunKept(r) /\ Home(r)' = Home(r) /\ Home(r) \in Roots /\ (Known(r)' <=> Known(r)) /\ Findable(r)'
    BY <1>1, <1>2, <1>3, <1>4, <2>1, GetsKeeps
  <2> QED
    BY <1>4, <2>2 DEF Gets, Live
<1>6. ProcInv(c)'
  <2>1. \A x \in proc[c].want \cup proc[c].add : Known(x)'
    <3>1. proc[c].want \subseteq Runs /\ proc[c].add \subseteq Runs
      BY Typed DEF Procs
    <3>2. \A x \in proc[c].want \cup proc[c].add : Known(x)
      BY <1>1 DEF ProcInv
    <3> QED
      BY <1>4, <1>5, <3>1, <3>2 DEF Known, Gets
  <2>2. proc'[c] = proc[c] /\ lock'[r] = c
    BY <1>1, <1>2
  <2>3. proc'[c].run = r
    BY <1>2, <2>2
  <2> QED
    BY <1>1, <1>2, <1>5, <2>1, <2>2, <2>3 DEF ProcInv, Inside, Acting, Stopping, Live, Findable
<1>7. r \in links \/ driver[r] # "" => Known(r)
  BY <1>2 DEF IInv, RunInv
<1>8. Inside(c)' /\ proc'[c].run = r /\ proc'[c].pc # "answer"
  BY <1>1, <1>2 DEF Inside
<1> QED
  BY <1>1, <1>2, <1>3, <1>4, <1>5, <1>6, <1>7, <1>8, RunMoves, Typed DEF Gets

\* The links a process has yet to make stay those of enforced runs.
LEMMA StillKnown ==
  ASSUME IInv, NEW c \in Callers, \A r \in Runs : RunKept(r)
  PROVE  \A x \in proc[c].want \cup proc[c].add : Known(x)'
<1>1. proc[c].want \subseteq Runs /\ proc[c].add \subseteq Runs
  BY Typed DEF Procs
<1>2. \A x \in proc[c].want \cup proc[c].add : Known(x)
  BY DEF IInv, ProcInv
<1> QED
  BY <1>1, <1>2 DEF RunKept, Known

\* A step that moves one run keeps the others.
LEMMA OthersKept ==
  ASSUME IInv, NEW r \in Runs, RunKept(r), links' = links, lost' = lost,
         \A q \in Runs \ {r} : run'[q] = run[q]
  PROVE  \A q \in Runs : RunKept(q)
<1>1. ASSUME NEW q \in Runs \ {r} PROVE RunKept(q)
  BY <1>1 DEF RunKept, Home, Findable, Live
<1> QED
  BY <1>1

\* The engine returns and the lock is released.
LEMMA EngineReturnsStep ==
  ASSUME IInv, NEW c \in Callers, EngineReturns(c), UNCHANGED hookVars PROVE IInv'
<1>1. ProcInv(c) /\ proc[c].pc = "engine" /\ UNCHANGED <<driver, links, beats, crashes, lost>>
  BY DEF IInv, EngineReturns, At
<1>2. PICK r \in Runs : /\ r = proc[c].run /\ run[r].at # "none" /\ proc[c].root \in Roots
                       /\ Inside(c) /\ proc[c].then = "" /\ lock[r] = c /\ Findable(r)
                       /\ ~Stopping(c)
  BY <1>1 DEF ProcInv, Inside, Acting, Stopping
<1>3. /\ lock' = [lock EXCEPT ![r] = ""]
      /\ \/ /\ \E at \in {"work", "parked", "blocked", "ended"} : run' = [run EXCEPT ![r].at = at]
            /\ Finishes(c, proc[c].root) \/ Goes(c, "stamp")
         \/ Finishes(c, proc[c].root) /\ UNCHANGED run
  BY <1>2 DEF EngineReturns, Releases, ComesTo
<1>4. lost' = lost
  BY <1>1
<1>5. PICK at \in Places \ {"none"} : Gets(r, at)
  <2>1. CASE UNCHANGED run
    <3>1. run[r].at \in Places \ {"none"} /\ Gets(r, run[r].at)
      BY <1>2, <2>1, Typed DEF Gets, Conditions, Places
    <3> QED
      BY <3>1
  <2>2. CASE \E at \in {"work", "parked", "blocked", "ended"} : run' = [run EXCEPT ![r].at = at]
    <3>1. PICK at \in {"work", "parked", "blocked", "ended"} : run' = [run EXCEPT ![r].at = at]
      BY <2>2
    <3>2. at \in Places \ {"none"}
      BY DEF Places
    <3> QED
      BY <3>1, <3>2, GetsTo
  <2> QED
    BY <1>3, <2>1, <2>2
<1>6. /\ RunKept(r) /\ Home(r)' \in Roots /\ (Known(r)' <=> Known(r)) /\ Findable(r)'
      /\ run'[r].at # "none"
  BY <1>1, <1>2, <1>4, <1>5, GetsKeeps DEF Gets
<1>7. \A x \in proc[c].want \cup proc[c].add : Known(x)'
  BY <1>1, <1>4, <1>5, <1>6, OthersKept, StillKnown DEF Gets
<1>8. ProcInv(c)' /\ proc'[c].pc # "answer" /\ proc' \in [Callers -> Procs]
        /\ \A d \in Callers \ {c} : proc'[d] = proc[d]
  <2>1. CASE Finishes(c, proc[c].root)
    <3>1. Turns(c, "list", proc[c].root, "", proc[c].root, "idle") /\ Wants(c, {}, {})
      BY <1>2, <2>1, FinishesTo, Typed
    <3>2. ProcInv(c)'
      BY <3>1 DEF ProcInv, Turns, Wants, Inside, Acting, Stopping
    <3> QED
      BY <3>1, <3>2 DEF Turns
  <2>2. CASE Goes(c, "stamp")
    <3>1. /\ Turns(c, "stamp", proc[c].root, proc[c].run, proc[c].slug, proc[c].then)
          /\ Wants(c, proc[c].want, proc[c].add)
      BY <2>2, GoesTo, Typed
    <3>2. /\ proc'[c].pc = "stamp" /\ proc'[c].root = proc[c].root /\ proc'[c].run = r
          /\ proc'[c].then = "" /\ proc'[c].want = proc[c].want /\ proc'[c].add = proc[c].add
      BY <1>2, <3>1 DEF Turns, Wants
    <3>3. ProcInv(c)'
      BY <1>2, <1>6, <1>7, <3>2 DEF ProcInv, Inside, Acting, Stopping
    <3> QED
      BY <3>1, <3>3 DEF Turns
  <2> QED
    BY <1>3, <2>1, <2>2
<1>9. /\ lock' \in [Runs -> Callers \cup {""}] /\ lock'[r] = ""
      /\ \A q \in Runs \ {r} : lock'[q] = lock[q]
  BY <1>3, Typed
<1>10. r \in links \/ driver[r] # "" => Known(r)
  BY DEF IInv, RunInv
<1>11. "" # c
  BY EnforceAssumption
<1> QED
  BY <1>1, <1>2, <1>4, <1>5, <1>6, <1>8, <1>9, <1>10, <1>11, RunMoves, Typed DEF Gets

\* stampDriverAs: only a run that is enforced gets a driver.
LEMMA StampStep ==
  ASSUME IInv, NEW c \in Callers, Stamp(c), UNCHANGED hookVars PROVE IInv'
<1>1. /\ ProcInv(c) /\ proc[c].pc \in {"stamp", "start"} /\ proc[c] \in Procs
      /\ UNCHANGED <<run, lock, links, beats, crashes, lost>>
  BY Typed DEF IInv, Stamp, At
<1>2. PICK r \in Runs : /\ r = proc[c].run /\ run[r].at # "none" /\ proc[c].root \in Roots
                       /\ proc[c].then = "" /\ ~Stopping(c)
  BY <1>1 DEF ProcInv, Inside, Acting, Stopping
<1>4. lost' = lost
  BY <1>1
<1>5. \A q \in Runs : RunKept(q)
  BY <1>1, <1>4 DEF RunKept, Home, Findable, Live
<1>6. \A x \in proc[c].want \cup proc[c].add : Known(x)'
  BY <1>5, StillKnown
<1>7. RunInv(r)
  BY DEF IInv
<1>8. /\ driver' \in [Runs -> Sessions \cup {""}]
      /\ \A q \in Runs \ {r} : driver'[q] = driver[q]
      /\ driver'[r] # "" => Known(r)
  <2>1. PICK who \in Sessions \cup {""} : StampDriver(r, who)
    <3>1. proc[c].who \in Sessions \cup {""}
      BY <1>1 DEF Procs
    <3> QED
      BY <1>2, <3>1, VouchedType DEF Stamp
  <2>2. driver \in [Runs -> Sessions \cup {""}]
    BY Typed
  <2>3. CASE who = "" \/ run[r].off
    <3>1. driver' = driver
      BY <2>1, <2>2, <2>3 DEF StampDriver
    <3> QED
      BY <1>7, <2>2, <3>1 DEF RunInv
  <2>4. CASE ~(who = "" \/ run[r].off)
    <3>1. driver' = [driver EXCEPT ![r] = who]
      BY <2>1, <2>4 DEF StampDriver
    <3> QED
      BY <1>2, <2>2, <2>4, <3>1 DEF Known
  <2> QED
    BY <2>3, <2>4
<1>9. /\ proc' \in [Callers -> Procs] /\ \A d \in Callers \ {c} : proc'[d] = proc[d]
      /\ ProcInv(c)' /\ proc'[c].pc # "answer"
      /\ lock[r] = c => Inside(c)' /\ proc'[c].run = r
  <2>1. CASE proc[c].pc = "start"
    <3>1. Turns(c, "list", proc[c].root, r, proc[c].root, "engine") /\ Wants(c, proc[c].want, proc[c].add)
      BY <1>2, <2>1, SyncsTo, Typed DEF Stamp, At, Thens
    <3>2. lock'[r] = c /\ Live(r)' /\ run'[r].at # "none" /\ proc[c].root = Home(r)'
      BY <1>1, <1>2, <2>1 DEF ProcInv, Inside, Acting, Home, Live
    <3>3. /\ proc'[c].pc = "list" /\ proc'[c].root = proc[c].root /\ proc'[c].run = r
          /\ proc'[c].slug = proc[c].root
          /\ proc'[c].then = "engine" /\ proc'[c].want = proc[c].want /\ proc'[c].add = proc[c].add
      BY <3>1 DEF Turns, Wants
    <3>4. ProcInv(c)' /\ Inside(c)'
      BY <1>2, <1>6, <3>2, <3>3 DEF ProcInv, Inside, Acting, Stopping, Live, Home
    <3> QED
      BY <3>1, <3>4 DEF Turns
  <2>2. CASE proc[c].pc = "stamp"
    <3>1. Turns(c, "list", proc[c].root, "", proc[c].root, "idle") /\ Wants(c, {}, {})
      BY <1>2, <2>2, FinishesTo, Typed DEF Stamp, At
    <3>2. ProcInv(c)'
      BY <3>1 DEF ProcInv, Turns, Wants, Inside, Acting, Stopping
    <3>3. lock[r] # c
      BY <1>2, <2>2, EnforceAssumption, Held DEF Inside
    <3> QED
      BY <3>1, <3>2, <3>3 DEF Turns
  <2> QED
    BY <1>1, <2>1, <2>2
<1>10. /\ RunKept(r) /\ (Live(r)' <=> Live(r)) /\ (Known(r)' <=> Known(r))
       /\ (Findable(r)' <=> Findable(r)) /\ Home(r)' = Home(r)
  BY <1>1, <1>4, <1>5 DEF Live, Known, Findable, Home
<1>11. /\ run'[r].at # "none" => Home(r)' \in Roots
       /\ r \in links \/ driver'[r] # "" => Known(r)'
       /\ Live(r)' /\ run'[r].at # "begun" => Findable(r)'
       /\ lock[r] \notin {"", c} => Live(r)'
  BY <1>1, <1>7, <1>8, <1>10, Held DEF RunInv
<1> QED
  BY <1>1, <1>2, <1>4, <1>8, <1>9, <1>10, <1>11, RunMoves, Typed

\* RUN_END by pawl abandon.
LEMMA AbandonEndsStep ==
  ASSUME IInv, NEW c \in Callers, AbandonEnds(c), UNCHANGED hookVars PROVE IInv'
<1>1. /\ ProcInv(c) /\ proc[c].pc = "abandon" /\ UNCHANGED <<lock, driver, links, beats, crashes, lost>>
  BY DEF IInv, AbandonEnds, At
<1>2. PICK r \in Runs : /\ r = proc[c].run /\ run[r].at # "none" /\ proc[c].root \in Roots
                       /\ ~Inside(c) /\ ~Stopping(c) /\ proc[c].then = ""
  BY <1>1 DEF ProcInv, Inside, Acting, Stopping
<1>3. CASE lock[r] # ""
  <2>1. Finishes(c, proc[c].root) /\ UNCHANGED run
    BY <1>2, <1>3 DEF AbandonEnds
  <2> QED
    BY <1>1, <1>2, <2>1, FinishesStep DEF files
<1>4. CASE lock[r] = ""
  <2>1. /\ run' = [run EXCEPT ![r].at = "ended"]
        /\ Finishes(c, Home(r)) \/ Syncs(c, Home(r), "home")
    BY <1>2, <1>4 DEF AbandonEnds
  <2>2. lost' = lost
    BY <1>1
  <2>3. "ended" \in Places \ {"none"}
    BY DEF Places
  <2>4. Gets(r, "ended")
    BY <2>1, <2>3, GetsTo
  <2>5. /\ RunKept(r) /\ Home(r)' \in Roots /\ Home(r) \in Roots /\ (Known(r)' <=> Known(r))
        /\ ~Live(r)'
    BY <1>1, <1>2, <2>2, <2>3, <2>4, GetsKeeps DEF Gets, Live
  <2>6. \A x \in proc[c].want \cup proc[c].add : Known(x)'
    BY <1>1, <2>2, <2>4, <2>5, OthersKept, StillKnown DEF Gets
  <2>7. /\ proc' \in [Callers -> Procs] /\ \A d \in Callers \ {c} : proc'[d] = proc[d]
        /\ ProcInv(c)' /\ proc'[c].pc # "answer"
    <3>1. CASE Finishes(c, Home(r))
      <4>1. Turns(c, "list", Home(r), "", Home(r), "idle") /\ Wants(c, {}, {})
        BY <2>5, <3>1, FinishesTo, Typed
      <4>2. ProcInv(c)'
        BY <4>1 DEF ProcInv, Turns, Wants, Inside, Acting, Stopping
      <4> QED
        BY <4>1, <4>2 DEF Turns
    <3>2. CASE Syncs(c, Home(r), "home")
      <4>1. Turns(c, "list", proc[c].root, r, Home(r), "home") /\ Wants(c, proc[c].want, proc[c].add)
        BY <1>2, <2>5, <3>2, SyncsTo, Typed DEF Thens
      <4>2. ProcInv(c)'
        BY <2>6, <4>1 DEF ProcInv, Turns, Wants, Inside, Acting, Stopping
      <4> QED
        BY <4>1, <4>2 DEF Turns
    <3> QED
      BY <2>1, <3>1, <3>2
  <2>8. r \in links \/ driver[r] # "" => Known(r)
    BY DEF IInv, RunInv
  <2>9. "" # c
    BY EnforceAssumption
  <2> QED
    BY <1>1, <1>2, <1>4, <2>2, <2>4, <2>5, <2>7, <2>8, <2>9, RunMoves, Typed DEF Gets
<1> QED
  BY <1>3, <1>4

\* A command that comes to nothing.
LEMMA RefusedStep ==
  ASSUME IInv, NEW c \in Callers, NEW root \in Roots, Refused(c, root), UNCHANGED hookVars PROVE IInv'
BY Fresh, FinishesStep DEF Refused

\* A command dies, and its lock is stale.
LEMMA CommandDiesStep ==
  ASSUME IInv, NEW c \in Callers, CommandDies(c), UNCHANGED hookVars PROVE IInv'
<1>1. /\ UNCHANGED <<run, driver, links, beats, lost>> /\ proc[c].root # ""
      /\ proc' = [proc EXCEPT ![c] = NoProc] /\ crashes' \in 0..MaxCrashes
      /\ lock' = [r \in Runs |-> IF lock[r] = c THEN "" ELSE lock[r]]
  BY OneMoreCrash DEF CommandDies
<1>2. Turns(c, "idle", "", "", "", "") /\ Wants(c, {}, {})
  BY <1>1, QuitsTo, Typed
<1>3. ProcInv(c)'
  BY <1>2 DEF ProcInv, Turns, Wants, Inside, Acting, Stopping
<1>4. proc[c].pc # "answer" /\ ~Stopping(c)
  BY <1>1 DEF IInv, ProcInv, Stopping
<1>5. \A r \in Runs : RunKept(r) /\ (Live(r)' <=> Live(r)) /\ (Known(r)' <=> Known(r))
                       /\ (Findable(r)' <=> Findable(r)) /\ Home(r)' = Home(r)
  BY <1>1 DEF RunKept, Live, Known, Findable, Home
<1>6. \A r \in Runs : lock'[r] # "" => /\ lock'[r] = lock[r] /\ lock[r] # c /\ lock[r] \in Callers
                                        /\ Inside(lock[r]) /\ proc[lock[r]].run = r
  BY <1>1, Held
<1>7. ASSUME NEW r \in Runs, lock'[r] # "" PROVE Inside(lock[r])' /\ proc'[lock'[r]].run = r
  <2>1. PICK d \in Callers \ {c} : lock'[r] = d /\ Inside(d) /\ proc[d].run = r
    BY <1>6, <1>7
  <2>2. proc'[d] = proc[d]
    BY <1>2 DEF Turns
  <2> QED
    BY <2>1, <2>2 DEF Inside
<1>8. lock' \in [Runs -> Callers \cup {""}]
  BY <1>1, Typed
<1>9. EnforceTypeOK'
  BY <1>1, <1>2, <1>7, <1>8, Zenon DEF IInv, EnforceTypeOK, Turns, hookVars, beats
<1>10. ASSUME NEW r \in Runs PROVE RunInv(r)'
  <2>1. RunInv(r)
    BY DEF IInv
  <2> QED
    BY <1>1, <1>5, <1>7, <2>1 DEF RunInv
<1>11. \A d \in Callers \ {c} : \A r \in Runs : lock[r] = d => lock'[r] = d /\ Live(r)'
  BY <1>1, <1>5, EnforceAssumption, Held
<1> QED
  BY <1>2, <1>3, <1>4, <1>5, <1>9, <1>10, <1>11, CallerMoves DEF Turns

-----------------------------------------------------------------------------
(* The Stop and SubagentStop hooks *)

Stops == [saw : SUBSET Runs, excused : BOOLEAN, spent : SUBSET Helpers,
          verdict : {"", "let", "excused", "credited", "held"}]

HookTypes ==
  /\ turn \in [Sessions -> {"on", "stopping", "held", "off"}]
  /\ stop \in [Sessions -> Stops]
  /\ marks \in [Sessions -> SUBSET Helpers] /\ since \in [Sessions -> SUBSET Helpers]

\* The types of what the hooks keep.
LEMMA HookTyped ==
  ASSUME IInv PROVE HookTypes
BY Zenon DEF IInv, EnforceTypeOK, HookTypes, Stops

\* A step of the hooks of one session.
LEMMA HookMoves ==
  ASSUME IInv, NEW s \in Sessions, UNCHANGED <<run, lock, driver, beats>>,
         links' \subseteq Runs, \A r \in links' \ links : Known(r),
         lost' \subseteq Runs, crashes' \in 0..MaxCrashes,
         proc' \in [Callers -> Procs], \A d \in Callers \ {s} : proc'[d] = proc[d],
         HookTypes',
         \A x \in Sessions \ {s} : /\ turn'[x] = turn[x] /\ stop'[x] = stop[x]
                                   /\ marks'[x] = marks[x] /\ since'[x] = since[x],
         Inside(s) => Inside(s)' /\ proc'[s].run = proc[s].run,
         \A r \in Runs : RunKept(r),
         ProcInv(s)', StopInv(s)'
  PROVE  IInv'
<1>1. ASSUME NEW r \in Runs, lock[r] # "" PROVE Inside(lock[r])' /\ proc'[lock[r]].run = r
  <2>1. PICK d \in Callers : lock[r] = d /\ Inside(d) /\ proc[d].run = r
    BY <1>1, Held
  <2>2. Inside(d)' /\ proc'[d].run = r
    BY <2>1 DEF Inside
  <2> QED
    BY <2>1, <2>2 DEF Inside
<1>2. run' = run /\ lock' = lock /\ driver' = driver
  OBVIOUS
<1>3. EnforceTypeOK'
  <2>1. \A r \in Runs : lock'[r] # "" => proc'[lock'[r]].run = r
    BY <1>1, <1>2
  <2>2. /\ run' \in [Runs -> Conditions] /\ lock' \in [Runs -> Callers \cup {""}]
        /\ driver' \in [Runs -> Sessions \cup {""}]
        /\ rootBeat' \in [Roots -> Sessions \cup {""}] /\ sessionBeat' \subseteq Sessions
    BY <1>2, Typed DEF beats
  <2> QED
    BY <2>1, <2>2, Zenon DEF EnforceTypeOK, HookTypes, Stops, Conditions
<1>4. ASSUME NEW r \in Runs PROVE RunInv(r)'
  <2>1. RunInv(r) /\ RunKept(r)
    BY DEF IInv
  <2>2. (Live(r)' <=> Live(r)) /\ (Known(r)' <=> Known(r)) /\ Home(r)' = Home(r)
    BY DEF Live, Known, Home
  <2>3. r \in links' => r \in links \/ Known(r)
    OBVIOUS
  <2>4. Live(r) /\ run[r].at # "begun" => Findable(r)'
    BY <2>1 DEF RunInv, RunKept, Live
  <2>5. lock'[r] # "" => Inside(lock[r])' /\ proc'[lock'[r]].run = r
    BY <1>1, <1>2
  <2> QED
    BY <1>2, <2>1, <2>2, <2>3, <2>4, <2>5 DEF RunInv
<1>5. ASSUME NEW d \in Callers PROVE ProcInv(d)'
  <2>1. CASE d = s
    BY <2>1
  <2>2. CASE d # s
    <3>1. Stopping(d) => turn'[d] = turn[d]
      BY <2>2 DEF IInv, ProcInv
    <3>2. \A r \in Runs : lock[r] = d => lock'[r] = d /\ Live(r)'
      <4>1. ASSUME NEW r \in Runs, lock[r] = d PROVE Live(r)
        BY <4>1, EnforceAssumption, Held
      <4> QED
        BY <1>2, <4>1 DEF Live
    <3>3. proc'[d] = proc[d]
      BY <2>2
    <3> QED
      BY <3>1, <3>2, <3>3, Bystander
  <2> QED
    BY <2>1, <2>2
<1>6. ASSUME NEW x \in Sessions PROVE StopInv(x)'
  <2>1. CASE x = s
    BY <2>1
  <2>2. CASE x # s
    <3>1. /\ turn'[x] = turn[x] /\ stop'[x] = stop[x] /\ marks'[x] = marks[x]
          /\ since'[x] = since[x] /\ proc'[x] = proc[x] /\ StopInv(x)
      BY <2>2 DEF IInv, Callers
    <3> QED
      BY <3>1 DEF StopInv, Stopping
  <2> QED
    BY <2>1, <2>2
<1> QED
  BY <1>3, <1>4, <1>5, <1>6 DEF IInv

\* A step that moves neither runs nor links.
LEMMA Unmoved ==
  ASSUME IInv, UNCHANGED run, lost' = lost, links' = links
  PROVE  \A r \in Runs : RunKept(r)
BY DEF RunKept, Findable, Live

\* The Stop hook starts.
LEMMA StopHookStep ==
  ASSUME IInv, NEW s \in Sessions, NEW waits \in BOOLEAN, NEW mentions \in BOOLEAN,
         StopHook(s, waits, mentions)
  PROVE  IInv'
<1>1. /\ s \in Callers /\ ProcInv(s) /\ StopInv(s) /\ proc[s].pc = "idle" /\ turn[s] \in {"on", "held"}
      /\ UNCHANGED <<files, beats, crashes, lost, marks, since>> /\ Cwd[s] \in Roots
      /\ proc[s].then = "" /\ proc[s].root = "" /\ ~Inside(s)
  BY EnforceAssumption DEF IInv, StopHook, At, Callers, ProcInv, Inside
<1>2. HookTypes /\ lost \subseteq Runs /\ stop[s].spent = {}
      /\ stop[s].verdict = ""
  BY <1>1, HookTyped, Typed DEF StopInv
<1>3. CASE Wakes(mentions)
  <2> DEFINE excused == waits \/ turn[s] = "held"
             saw == {r \in Of(Cwd[s]) : Awaiting(r)}
             n == [NoStop EXCEPT !.saw = saw, !.excused = excused]
  <2>1. /\ Syncs(s, Cwd[s], "judge") /\ stop' = [stop EXCEPT ![s] = n]
        /\ turn' = [turn EXCEPT ![s] = "stopping"]
    BY <1>3, Zenon DEF StopHook
  <2>2. saw \in SUBSET Runs /\ excused \in BOOLEAN
    BY DEF Of
  <2> HIDE DEF saw, excused
  <2>3. n \in Stops /\ n.spent = {} /\ n.verdict = ""
    BY <2>2 DEF Stops, NoStop
  <2> HIDE DEF n
  <2>4. /\ HookTypes' /\ turn'[s] = "stopping" /\ stop'[s].spent = {} /\ stop'[s].verdict = ""
        /\ \A x \in Sessions \ {s} : turn'[x] = turn[x] /\ stop'[x] = stop[x]
    BY <1>1, <1>2, <2>1, <2>3 DEF HookTypes
  <2>5. lost' = lost
    BY <1>1
  <2>6. Turns(s, "list", "", proc[s].run, Cwd[s], "judge") /\ Wants(s, proc[s].want, proc[s].add)
    BY <1>1, <2>1, SyncsTo, Typed DEF Thens
  <2>7. \A r \in Runs : RunKept(r)
    BY <1>1, <2>5, Unmoved DEF files
  <2>8. \A x \in proc[s].want \cup proc[s].add : Known(x)'
    BY <1>1, <2>7, StillKnown
  <2>9. ProcInv(s)' /\ StopInv(s)'
    BY <1>1, <1>2, <2>4, <2>6, <2>8 DEF ProcInv, StopInv, Turns, Wants, Inside, Acting, Stopping
  <2> QED
    BY <1>1, <2>4, <2>5, <2>6, <2>7, <2>9, HookMoves, Typed DEF Turns, files
<1>4. CASE ~Wakes(mentions)
  <2>1. turn' = [turn EXCEPT ![s] = "off"] /\ UNCHANGED <<proc, stop>>
    BY <1>4, Zenon DEF StopHook
  <2>2. /\ HookTypes' /\ turn'[s] = "off" /\ \A x \in Sessions \ {s} : turn'[x] = turn[x]
    BY <1>1, <1>2, <2>1 DEF HookTypes
  <2>3. \A r \in Runs : RunKept(r)
    BY <1>1, <2>1, Unmoved DEF files
  <2>4. \A x \in proc[s].want \cup proc[s].add : Known(x)'
    BY <1>1, <2>3, StillKnown
  <2>5. ProcInv(s)' /\ StopInv(s)'
    BY <1>1, <2>1, <2>2, <2>4 DEF ProcInv, StopInv, Inside, Acting, Stopping
  <2> QED
    BY <1>1, <1>2, <2>1, <2>2, <2>3, <2>5, HookMoves, Typed DEF files
<1> QED
  BY <1>3, <1>4

\* DecideStop: the markers it has seen are about to be removed.
LEMMA StopJudgesStep ==
  ASSUME IInv, NEW s \in Sessions, StopJudges(s) PROVE IInv'
<1>1. /\ s \in Callers /\ ProcInv(s) /\ proc[s].pc = "judge" /\ Goes(s, "answer")
      /\ stop' = [stop EXCEPT ![s].verdict = Verdict(s), ![s].spent = marks[s], ![s].saw = {}]
      /\ since' = [since EXCEPT ![s] = {}]
      /\ UNCHANGED <<files, beats, crashes, lost, turn, marks>>
  BY DEF IInv, StopJudges, At, Callers
<1>2. /\ proc[s].then = "" /\ proc[s].root = "" /\ turn[s] = "stopping" /\ ~Inside(s)
      /\ proc[s].want \cup proc[s].add \subseteq {x \in proc[s].want \cup proc[s].add : Known(x)}
  BY <1>1 DEF ProcInv, Stopping, Inside
<1>3. HookTypes
  BY HookTyped
<1>4. /\ HookTypes' /\ stop'[s].spent = marks[s] /\ since'[s] = {}
      /\ \A x \in Sessions \ {s} : stop'[x] = stop[x] /\ since'[x] = since[x]
  <2> DEFINE q == stop[s]
             n == [q EXCEPT !.verdict = Verdict(s), !.spent = marks[s], !.saw = {}]
  <2>1. stop' = [stop EXCEPT ![s] = n]
    BY <1>1, Zenon
  <2>2. q \in Stops /\ Verdict(s) \in {"let", "excused", "credited", "held"} /\ marks[s] \subseteq Helpers
    BY <1>3 DEF HookTypes, Verdict
  <2> HIDE DEF q
  <2>3. n \in Stops /\ n.spent = marks[s]
    BY <2>2 DEF Stops
  <2> HIDE DEF n
  <2>4. /\ stop' \in [Sessions -> Stops] /\ stop'[s] = n
        /\ \A x \in Sessions \ {s} : stop'[x] = stop[x]
    BY <1>3, <2>1, <2>3 DEF HookTypes
  <2>5. /\ since' \in [Sessions -> SUBSET Helpers] /\ since'[s] = {}
        /\ \A x \in Sessions \ {s} : since'[x] = since[x]
    BY <1>1, <1>3 DEF HookTypes
  <2> QED
    BY <1>1, <1>3, <2>3, <2>4, <2>5 DEF HookTypes
<1>5. Turns(s, "answer", "", proc[s].run, proc[s].slug, "") /\ Wants(s, proc[s].want, proc[s].add)
  BY <1>1, <1>2, GoesTo, Typed
<1>6. \A r \in Runs : RunKept(r)
  BY <1>1, Unmoved DEF files
<1>7. \A x \in proc[s].want \cup proc[s].add : Known(x)'
  BY <1>1, <1>6, StillKnown
<1>8. ProcInv(s)' /\ StopInv(s)'
  BY <1>1, <1>2, <1>4, <1>5, <1>7 DEF ProcInv, StopInv, Turns, Wants, Inside, Acting, Stopping
<1> QED
  BY <1>1, <1>2, <1>4, <1>5, <1>6, <1>8, HookMoves, Typed DEF Turns, files

\* The Stop hook answers, or dies.
LEMMA StopEndsStep ==
  ASSUME IInv, NEW s \in Sessions, StopAnswers(s) \/ StopDies(s) PROVE IInv'
<1>1. /\ s \in Callers /\ StopInv(s) /\ proc' = [proc EXCEPT ![s] = NoProc]
      /\ stop' = [stop EXCEPT ![s] = NoStop] /\ UNCHANGED <<files, beats, lost>>
  BY DEF IInv, StopAnswers, StopDies, Callers
<1>2. HookTypes /\ NoStop \in Stops /\ NoStop.spent = {} /\ NoStop.verdict = "" /\ lost \subseteq Runs
  BY HookTyped, Typed DEF Stops, NoStop
<1>3. /\ turn' \in [Sessions -> {"on", "stopping", "held", "off"}] /\ turn'[s] # "stopping"
      /\ \A x \in Sessions \ {s} : turn'[x] = turn[x]
  <2>1. PICK t \in {"held", "off"} : turn' = [turn EXCEPT ![s] = t]
    BY DEF StopAnswers, StopDies
  <2> QED
    BY <1>2, <2>1 DEF HookTypes
<1>4. crashes' \in 0..MaxCrashes
  <2>1. CASE StopAnswers(s)
    BY <2>1, Typed DEF StopAnswers
  <2>2. CASE StopDies(s)
    BY <2>2, OneMoreCrash DEF StopDies
  <2> QED
    BY <2>1, <2>2
<1>5. /\ marks' \in [Sessions -> SUBSET Helpers] /\ since' \in [Sessions -> SUBSET Helpers]
      /\ marks'[s] \subseteq since'[s]
      /\ \A x \in Sessions \ {s} : marks'[x] = marks[x] /\ since'[x] = since[x]
  <2>1. marks[s] \subseteq since[s] \cup stop[s].spent /\ stop[s].spent \subseteq Helpers
    BY <1>1, <1>2 DEF StopInv, HookTypes, Stops
  <2>2. CASE StopAnswers(s)
    <3>1. marks' = [marks EXCEPT ![s] = @ \ stop[s].spent] /\ since' = since
      BY <2>2 DEF StopAnswers, Consumed
    <3> QED
      BY <1>2, <2>1, <3>1 DEF HookTypes
  <2>3. CASE StopDies(s)
    <3>1. marks' = marks /\ since' = [since EXCEPT ![s] = @ \cup stop[s].spent]
      BY <2>3 DEF StopDies
    <3> QED
      BY <1>2, <2>1, <3>1 DEF HookTypes
  <2> QED
    BY <2>2, <2>3
<1>6. HookTypes' /\ stop'[s].spent = {} /\ stop'[s].verdict = ""
      /\ \A x \in Sessions \ {s} : stop'[x] = stop[x]
  BY <1>1, <1>2, <1>3, <1>5 DEF HookTypes
<1>7. ~Inside(s)
  <2>1. ProcInv(s) /\ Stopping(s)
    BY <1>1 DEF IInv, StopAnswers, StopDies, At, Stopping, StopInv
  <2> QED
    BY <2>1 DEF ProcInv, Inside, Stopping
<1>8. Turns(s, "idle", "", "", "", "") /\ Wants(s, {}, {})
  BY <1>1, QuitsTo, Typed
<1>9. lost' = lost
  BY <1>1, <1>2
<1>10. \A r \in Runs : RunKept(r)
  BY <1>1, <1>9, Unmoved DEF files
<1>11. ProcInv(s)' /\ StopInv(s)'
  BY <1>3, <1>5, <1>6, <1>8 DEF ProcInv, StopInv, Turns, Wants, Inside, Acting, Stopping
<1>12. /\ UNCHANGED <<run, lock, driver, beats>> /\ links' = links /\ links \subseteq Runs
       /\ lost \subseteq Runs
       /\ proc' \in [Callers -> Procs] /\ \A d \in Callers \ {s} : proc'[d] = proc[d]
       /\ \A x \in Sessions \ {s} : /\ turn'[x] = turn[x] /\ stop'[x] = stop[x]
                                   /\ marks'[x] = marks[x] /\ since'[x] = since[x]
  BY <1>1, <1>3, <1>5, <1>6, <1>8, Typed DEF Turns, files
<1> QED
  BY <1>4, <1>6, <1>7, <1>9, <1>10, <1>11, <1>12, HookMoves

\* The session's process goes on where it was.
LEMMA ProcKept ==
  ASSUME IInv, NEW s \in Sessions, UNCHANGED <<run, lock, proc>>, Stopping(s) => turn'[s] = turn[s],
         \A r \in Runs : RunKept(r)
  PROVE  ProcInv(s)'
<1>1. s \in Callers
  BY DEF Callers
<1>2. ASSUME NEW r \in Runs, lock[r] = s PROVE lock'[r] = s /\ Live(r)'
  BY <1>1, <1>2, EnforceAssumption, Held DEF Live
<1> QED
  BY <1>1, <1>2, Bystander

\* The session is woken.
LEMMA NextTurnStep ==
  ASSUME IInv, NEW s \in Sessions, NextTurn(s) PROVE IInv'
<1>1. /\ s \in Callers /\ StopInv(s) /\ turn[s] = "off" /\ turn' = [turn EXCEPT ![s] = "on"]
      /\ UNCHANGED <<files, beats, proc, crashes, lost, stop, marks, since>>
  BY DEF IInv, NextTurn, enforceVars, Callers
<1>2. HookTypes
  BY HookTyped
<1>3. HookTypes' /\ turn'[s] = "on" /\ \A x \in Sessions \ {s} : turn'[x] = turn[x]
  BY <1>1, <1>2 DEF HookTypes
<1>4. \A r \in Runs : RunKept(r)
  BY <1>1, Unmoved DEF files
<1>5. ~Stopping(s)
  BY <1>1 DEF IInv, ProcInv
<1>6. ProcInv(s)' /\ StopInv(s)'
  BY <1>1, <1>3, <1>4, <1>5, ProcKept DEF files, StopInv
<1> QED
  BY <1>1, <1>3, <1>4, <1>6, HookMoves, Typed DEF Inside, files

\* A marker becomes too old.
LEMMA MarkExpiresStep ==
  ASSUME IInv, NEW s \in Sessions, NEW h \in Helpers, MarkExpires(s, h) PROVE IInv'
<1>1. /\ s \in Callers /\ StopInv(s) /\ marks' = [marks EXCEPT ![s] = @ \ {h}]
      /\ UNCHANGED <<files, beats, proc, crashes, lost, turn, stop, since>>
  BY DEF IInv, MarkExpires, enforceVars, Callers
<1>2. HookTypes
  BY HookTyped
<1>3. HookTypes' /\ marks'[s] \subseteq marks[s] /\ \A x \in Sessions \ {s} : marks'[x] = marks[x]
  BY <1>1, <1>2 DEF HookTypes
<1>4. \A r \in Runs : RunKept(r)
  BY <1>1, Unmoved DEF files
<1>5. ProcInv(s)' /\ StopInv(s)'
  BY <1>1, <1>3, <1>4, ProcKept DEF files, StopInv, Stopping
<1> QED
  BY <1>1, <1>3, <1>4, <1>5, HookMoves, Typed DEF Inside, files

\* The SubagentStop hook, which reconciles the index of its working copy.
LEMMA SubagentStopStep ==
  ASSUME IInv, NEW s \in Sessions, NEW h \in Helpers, SubagentStop(s, h) PROVE IInv'
<1> DEFINE here == Of(Cwd[s])
           wanted == Wanted(Cwd[s])
<1>1. /\ s \in Callers /\ StopInv(s) /\ links' = (links \ here) \cup wanted
      /\ lost' = lost \ wanted
      /\ UNCHANGED <<run, lock, driver, beats, proc, crashes, turn, stop>>
      /\ \/ /\ marks' = [marks EXCEPT ![s] = @ \cup {h}]
            /\ since' = [since EXCEPT ![s] = @ \cup {h}]
         \/ UNCHANGED <<marks, since>>
  BY Zenon DEF IInv, SubagentStop, Callers
<1>2. /\ wanted \subseteq Runs /\ \A r \in wanted : Known(r)
      /\ \A r \in here : Live(r) => r \in wanted \/ run[r].off
  BY DEF Wanted, Of, Known, Live
<1> HIDE DEF here, wanted
<1>3. HookTypes /\ lost \subseteq Runs /\ links \subseteq Runs
  BY HookTyped, Typed
<1>4. /\ HookTypes' /\ marks'[s] \subseteq since'[s] \cup stop[s].spent
      /\ \A x \in Sessions \ {s} : marks'[x] = marks[x] /\ since'[x] = since[x]
  <2>1. marks[s] \subseteq since[s] \cup stop[s].spent
    BY <1>1 DEF StopInv
  <2> QED
    BY <1>1, <1>3, <2>1 DEF HookTypes
<1>5. /\ lost' \subseteq Runs /\ lost' = lost \ wanted
      /\ links' \subseteq Runs /\ \A r \in links' \ links : Known(r)
  BY <1>1, <1>2, <1>3
<1>6. \A r \in Runs : RunKept(r)
  <2>1. ASSUME NEW r \in Runs, Findable(r), Live(r) PROVE Findable(r)'
    BY <1>1, <1>2, <1>5, <2>1 DEF Findable
  <2> QED
    BY <1>1, <2>1 DEF RunKept
<1>7. ProcInv(s)' /\ StopInv(s)'
  BY <1>1, <1>4, <1>6, ProcKept DEF StopInv, Stopping
<1> QED
  BY <1>1, <1>4, <1>5, <1>6, <1>7, HookMoves, Typed DEF Inside

-----------------------------------------------------------------------------
(* The theorems *)

\* Nothing has begun.
LEMMA InitInv ==
  ASSUME HooksInit PROVE IInv
<1>1. /\ run = [r \in Runs |-> [at |-> "none", off |-> FALSE, home |-> ""]]
      /\ lock = [r \in Runs |-> ""] /\ driver = [r \in Runs |-> ""]
      /\ links = {} /\ sessionBeat = {} /\ rootBeat = [d \in Roots |-> ""]
      /\ proc = [c \in Callers |-> NoProc] /\ crashes = 0 /\ lost = {}
      /\ turn = [s \in Sessions |-> "on"] /\ stop = [s \in Sessions |-> NoStop]
      /\ marks = [s \in Sessions |-> {}] /\ since = [s \in Sessions |-> {}]
  BY DEF HooksInit, EnforceInit
<1>2. NoStop \in Stops /\ NoStop.spent = {} /\ NoStop.verdict = ""
  BY DEF Stops, NoStop
<1>3. EnforceTypeOK
  <2>1. run \in [Runs -> Conditions]
    BY <1>1 DEF Conditions
  <2>2. proc \in [Callers -> Procs]
    BY <1>1, NoProcType
  <2>3. HookTypes
    BY <1>1, <1>2 DEF HookTypes
  <2>4. crashes \in 0..MaxCrashes
    <3>1. MaxCrashes \in Nat
      BY EnforceAssumption
    <3>2. crashes = 0
      BY <1>1, Zenon
    <3> QED
      BY <3>1, <3>2
  <2>5. /\ lock \in [Runs -> Callers \cup {""}] /\ driver \in [Runs -> Sessions \cup {""}]
        /\ rootBeat \in [Roots -> Sessions \cup {""}]
        /\ links \subseteq Runs /\ sessionBeat \subseteq Sessions /\ lost \subseteq Runs
        /\ \A r \in Runs : lock[r] = ""
    BY <1>1
  <2> QED
    BY <2>1, <2>2, <2>3, <2>4, <2>5, Zenon DEF EnforceTypeOK, HookTypes, Stops, Conditions
<1>4. ASSUME NEW c \in Callers PROVE ProcInv(c)
  <2>1. /\ proc[c].pc = "idle" /\ proc[c].root = "" /\ proc[c].then = ""
        /\ proc[c].want = {} /\ proc[c].add = {}
    BY <1>1, NoProcType
  <2> QED
    BY <2>1 DEF ProcInv, Inside, Acting, Stopping
<1>5. ASSUME NEW r \in Runs PROVE RunInv(r)
  <2>1. run[r].at = "none" /\ lock[r] = "" /\ driver[r] = "" /\ links = {}
    BY <1>1
  <2> QED
    BY <2>1 DEF RunInv, Live
<1>6. ASSUME NEW s \in Sessions PROVE StopInv(s)
  <2>1. marks[s] = {} /\ stop[s].spent = {} /\ stop[s].verdict = "" /\ turn[s] = "on"
    BY <1>1, <1>2
  <2> QED
    BY <2>1 DEF StopInv
<1> QED
  BY <1>3, <1>4, <1>5, <1>6 DEF IInv

\* Every step keeps the invariant.
LEMMA StepInv ==
  ASSUME IInv, [HooksNext]_vars PROVE IInv'
<1>1. ASSUME NEW c \in Callers, CallerStep(c) PROVE IInv'
  <2>1. UNCHANGED hookVars
    BY <1>1 DEF CallerStep
  <2>2. CASE CommandStep(c)
    BY <2>1, <2>2, SyncListsStep, SyncReadsStep, SyncEditsStep, SyncDoneStep, EngineTakesStep,
       EngineMovesStep, EngineReturnsStep, StampStep, AbandonEndsStep DEF CommandStep, Sync
  <2>3. CASE Commands(c)
    BY <2>1, <2>3, StartRunStep, ResumeRunStep, SubmitToStep, RefusedStep, AbandonLooksStep
       DEF Commands
  <2>4. CASE c \in Sessions /\ PreHook(c)
    BY <2>1, <2>4, PreHookStep
  <2> QED
    BY <1>1, <2>2, <2>3, <2>4 DEF CallerStep
<1>2. ASSUME NEW s \in Sessions, SessionStep(s) PROVE IInv'
  BY <1>2, StopHookStep, StopJudgesStep, StopEndsStep, NextTurnStep, MarkExpiresStep,
     SubagentStopStep DEF SessionStep
<1>3. ASSUME Dies PROVE IInv'
  BY <1>3, StopEndsStep, PreHookDiesStep, CommandDiesStep DEF Dies
<1>4. CASE UNCHANGED vars
  <2>1. UNCHANGED <<files, beats, proc, crashes, lost, hookVars>>
    BY <1>4 DEF vars, enforceVars
  <2> QED
    BY <2>1, BeatsMove, Typed DEF beats
<1> QED
  BY <1>1, <1>2, <1>3, <1>4, GoesStaleStep DEF HooksNext

\* The invariant, always.
LEMMA Inv ==
  HooksSpec => []IInv
BY InitInv, StepInv, PTL DEF HooksSpec

\* Every file and process keeps its type, and a run's lock is held only by a
\* command in the engine with it: internal/cli/enforce.go, internal/journal/live.go.
THEOREM HooksTypes == HooksSpec => []EnforceTypeOK
<1>1. IInv => EnforceTypeOK
  BY DEF IInv
<1> QED
  BY <1>1, Inv, PTL

\* Whoever resumes or submits to a run that was started without enforcement, it
\* gets no link and no driver: stampDriverAs and SyncLiveIndexSlug.
THEOREM OffStaysOff == HooksSpec => []OffIsOff
<1>1. IInv => OffIsOff
  BY DEF IInv, RunInv, Known, OffIsOff
<1> QED
  BY <1>1, Inv, PTL

\* What a step may do to the Stop of one session.
LEMMA StopSteps ==
  ASSUME IInv, [HooksNext]_vars, NEW s \in Sessions
  PROVE  \/ turn'[s] = turn[s] /\ stop'[s] = stop[s]
         \/ \E waits, mentions \in BOOLEAN : StopHook(s, waits, mentions)
         \/ StopJudges(s) \/ StopAnswers(s) \/ StopDies(s) \/ NextTurn(s)
<1>1. HookTypes
  BY HookTyped
<1>2. ASSUME UNCHANGED hookVars PROVE turn'[s] = turn[s] /\ stop'[s] = stop[s]
  BY <1>2 DEF hookVars
<1>3. ASSUME NEW x \in Sessions \ {s}, SessionStep(x) \/ StopDies(x)
      PROVE  turn'[s] = turn[s] /\ stop'[s] = stop[s]
  <2>1. CASE \E waits, mentions \in BOOLEAN : StopHook(x, waits, mentions)
    BY <1>1, <2>1 DEF StopHook, HookTypes
  <2>2. CASE StopJudges(x) \/ StopAnswers(x) \/ StopDies(x) \/ NextTurn(x)
    BY <1>1, <2>2 DEF StopJudges, StopAnswers, StopDies, NextTurn, HookTypes
  <2>3. CASE \E h \in Helpers : SubagentStop(x, h) \/ MarkExpires(x, h)
    BY <2>3 DEF SubagentStop, MarkExpires
  <2> QED
    BY <1>3, <2>1, <2>2, <2>3 DEF SessionStep
<1>4. ASSUME NEW h \in Helpers, SubagentStop(s, h) \/ MarkExpires(s, h)
      PROVE  turn'[s] = turn[s] /\ stop'[s] = stop[s]
  BY <1>4 DEF SubagentStop, MarkExpires
<1>5. CASE UNCHANGED vars
  BY <1>2, <1>5 DEF vars
<1>6. CASE \E c \in Callers : CallerStep(c)
  BY <1>2, <1>6 DEF CallerStep
<1>7. CASE \E x \in Sessions : SessionStep(x)
  BY <1>3, <1>4, <1>7 DEF SessionStep
<1>8. CASE GoesStale /\ UNCHANGED hookVars
  BY <1>2, <1>8
<1>9. CASE Dies
  BY <1>2, <1>3, <1>9 DEF Dies
<1> QED
  BY <1>5, <1>6, <1>7, <1>8, <1>9 DEF HooksNext

\* A decision is made by the Stop hook of the session, from what there is.
LEMMA Judged ==
  ASSUME IInv, [HooksNext]_vars, NEW s \in Sessions, At(s, "judge"), stop'[s].verdict # ""
  PROVE  StopJudges(s) /\ stop'[s].verdict = Verdict(s)
<1>1. /\ proc[s].pc = "judge" /\ stop[s].verdict = "" /\ turn[s] = "stopping" /\ HookTypes
      /\ NoStop.verdict = ""
  BY HookTyped DEF IInv, StopInv, ProcInv, Stopping, Callers, At, NoStop
<1>2. ~StopAnswers(s) /\ ~(\E waits, mentions \in BOOLEAN : StopHook(s, waits, mentions))
  BY <1>1 DEF StopAnswers, StopHook, At
<1>3. ~StopDies(s)
  BY <1>1 DEF StopDies, HookTypes
<1>4. StopJudges(s)
  BY <1>1, <1>2, <1>3, StopSteps DEF NextTurn
<1>5. stop' = [stop EXCEPT ![s].verdict = Verdict(s), ![s].spent = marks[s], ![s].saw = {}]
  BY <1>4 DEF StopJudges
<1>6. stop'[s].verdict = Verdict(s)
  BY <1>1, <1>5 DEF HookTypes, Stops
<1> QED
  BY <1>4, <1>6

\* One decision: a run that awaits the session is found or lost its link.
LEMMA KeptStep ==
  ASSUME IInv, [HooksNext]_vars, NEW s \in Sessions, NEW r \in Runs, Awaits(r, s),
         \/ turn[s] = "on" /\ turn'[s] = "off"
         \/ At(s, "judge") /\ stop'[s].verdict = "let"
  PROVE  r \in lost
<1>1. r \in links \cup lost
  <2>1. RunInv(r)
    BY DEF IInv
  <2> QED
    BY <2>1 DEF RunInv, Awaits, Awaiting, Live, Findable
<1>2. CASE turn[s] = "on" /\ turn'[s] = "off"
  <2>1. ProcInv(s) /\ HookTypes
    BY HookTyped DEF IInv, Callers
  <2>2. ~StopAnswers(s) /\ ~StopDies(s) /\ ~StopJudges(s) /\ ~NextTurn(s)
    BY <1>2, <2>1 DEF ProcInv, Stopping, StopAnswers, StopDies, StopJudges, NextTurn, At
  <2>3. PICK waits, mentions \in BOOLEAN : StopHook(s, waits, mentions)
    BY <1>2, <2>2, StopSteps
  <2>4. ~Wakes(mentions)
    <3>1. ASSUME Wakes(mentions) PROVE turn' = [turn EXCEPT ![s] = "stopping"]
      BY <2>3, <3>1, Zenon DEF StopHook
    <3> QED
      BY <1>2, <2>1, <3>1 DEF HookTypes
  <2> QED
    BY <1>1, <2>4 DEF Wakes
<1>3. CASE At(s, "judge") /\ stop'[s].verdict = "let"
  <2>1. Verdict(s) = "let"
    BY <1>3, Judged
  <2>2. Driven(s) = {}
    BY <2>1 DEF Verdict
  <2> QED
    BY <1>1, <2>2 DEF Driven
<1> QED
  BY <1>2, <1>3

\* A Stop lets a session go only if no run awaits it that a listing has not made
\* invisible, whichever working copy the run is in and whoever acts beside it:
\* bin/pawl-hook, cmdHook and DecideStop with the index that the others reconcile.
THEOREM KeptAtItsWork == HooksSpec => KeptAtWork
<1> DEFINE Kept == \A s \in Sessions, r \in Runs :
                     /\ Awaits(r, s)
                     /\ \/ turn[s] = "on" /\ turn'[s] = "off"
                        \/ At(s, "judge") /\ stop'[s].verdict = "let"
                     => r \in lost
<1>1. IInv /\ [HooksNext]_vars => Kept
  BY KeptStep
<1>2. IInv /\ [HooksNext]_vars => [Kept]_vars
  BY <1>1
<1> QED
  BY <1>2, Inv, PTL DEF HooksSpec, KeptAtWork

\* Whatever markers come and go, each Stop that is excused by one has a subagent of
\* its own that finished since the Stop before: DecideStop and its consumption.
THEOREM CreditsAreSpent == HooksSpec => CreditSpentOnce
<1> DEFINE Spent == \A s \in Sessions :
                      At(s, "judge") /\ stop'[s].verdict = "credited" => since[s] # {}
<1>1. ASSUME IInv, [HooksNext]_vars, NEW s \in Sessions, At(s, "judge"), stop'[s].verdict = "credited"
      PROVE  since[s] # {}
  <2>1. Verdict(s) = "credited"
    BY <1>1, Judged
  <2>2. marks[s] # {}
    BY <2>1 DEF Verdict
  <2>3. marks[s] \subseteq since[s]
    BY <1>1 DEF IInv, StopInv, At
  <2> QED
    BY <2>2, <2>3
<1>2. IInv /\ [HooksNext]_vars => [Spent]_vars
  BY <1>1
<1> QED
  BY <1>2, Inv, PTL DEF HooksSpec, CreditSpentOnce

=============================================================================
