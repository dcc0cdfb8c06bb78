------------------------------ MODULE RunLock ------------------------------
(***************************************************************************)
(* The run lock of internal/journal/lock.go, one file-system call per      *)
(* step.  Every pawl command is a process: it acquires the lock file of    *)
(* the run directory, works, and releases it.  A process is identified by  *)
(* its pid and runs one command; a pid that has exited or crashed is dead  *)
(* (pid reuse is not modelled).                                            *)
(***************************************************************************)
EXTENDS Naturals, FiniteSets

CONSTANTS Procs,     \* the pids that may run a command on the run directory
          Forcing,   \* those whose command was given --force
          NoPid      \* what a lock file without a parseable pid contains

ASSUME ProcsAssumption == Forcing \subseteq Procs /\ NoPid \notin Procs

VARIABLES
  pc,      \* where each process stands in AcquireLock or Release
  file,    \* the lock file: a set with at most one directory entry
  seen,    \* the pid each process last read from the lock file
  stolen   \* history: somebody unlinked the file of another live process

lockVars == <<pc, file, seen, stolen>>

\* A directory entry: the process that created the inode (nobody creates
\* two), and the pid written into it.
Entries == [by : Procs, pid : Procs \cup {NoPid}]

Labels == {"create", "read", "judge", "unlink", "write", "sync", "held",
           "release", "remove", "refused", "failed", "exited", "dead"}

\* The processes a signal 0 no longer reaches.
Gone == {"refused", "failed", "exited", "dead"}

\* pidAlive: a lock file without a pid has no live holder.
Alive(pid) == pid \in Procs /\ pc[pid] \notin Gone

LockTypeOK ==
  /\ pc \in [Procs -> Labels]
  /\ file \in SUBSET Entries
  /\ \A f, g \in file : f = g
  /\ seen \in [Procs -> Procs \cup {NoPid}]
  /\ stolen \in BOOLEAN

LockInit ==
  /\ pc = [p \in Procs |-> "create"]
  /\ file = {}
  /\ seen = [p \in Procs |-> NoPid]
  /\ stolen = FALSE

Goto(p, label) == pc' = [pc EXCEPT ![p] = label]

\* os.Remove of the path, whatever file it names by now.
Unlink(p) ==
  /\ file' = {}
  /\ stolen' = (stolen \/ \E f \in file : f.by # p /\ Alive(f.by))

-----------------------------------------------------------------------------
(* AcquireLock *)

\* Mutant: without O_EXCL the file is created again over another's.
CreateTruncates(p) ==
  /\ pc[p] = "create"
  /\ file' = {[by |-> p, pid |-> NoPid]} /\ Goto(p, "write")
  /\ UNCHANGED <<seen, stolen>>

\* os.OpenFile with O_CREATE|O_EXCL.
Create(p) ==
  /\ pc[p] = "create"
  /\ IF file = {}
       THEN file' = {[by |-> p, pid |-> NoPid]} /\ Goto(p, "write")
       ELSE Goto(p, "read") /\ UNCHANGED file
  /\ UNCHANGED <<seen, stolen>>

\* The pid goes into the inode p created, which may have been unlinked since.
WritePid(p) ==
  /\ pc[p] = "write"
  /\ file' = {IF f.by = p THEN [f EXCEPT !.pid = p] ELSE f : f \in file}
  /\ Goto(p, "sync")
  /\ UNCHANGED <<seen, stolen>>

\* The file is synced and closed, and the lock is p's.
SyncLock(p) ==
  /\ pc[p] = "sync"
  /\ Goto(p, "held")
  /\ UNCHANGED <<file, seen, stolen>>

\* Writing, syncing or closing fails: the deferred cleanup unlinks the path.
WriteFails(p) ==
  /\ pc[p] \in {"write", "sync"}
  /\ Unlink(p)
  /\ Goto(p, "failed")
  /\ UNCHANGED seen

\* LockHolder's read; the lock may have vanished, and then Acquire retries.
ReadHolder(p) ==
  /\ pc[p] = "read"
  /\ \/ file = {} /\ Goto(p, "create") /\ UNCHANGED seen
     \/ \E f \in file : seen' = [seen EXCEPT ![p] = f.pid] /\ Goto(p, "judge")
  /\ UNCHANGED <<file, stolen>>

\* pidAlive, and the decision to refuse or to take the lock.
Judge(p) ==
  /\ pc[p] = "judge"
  /\ Goto(p, IF Alive(seen[p]) /\ p \notin Forcing THEN "refused" ELSE "unlink")
  /\ UNCHANGED <<file, seen, stolen>>

TakeOver(p) ==
  /\ pc[p] = "unlink"
  /\ Unlink(p)
  /\ Goto(p, "create")
  /\ UNCHANGED seen

-----------------------------------------------------------------------------
(* Release, and the death of a process at any point *)

Finish(p) ==
  /\ pc[p] = "held"
  /\ Goto(p, "release")
  /\ UNCHANGED <<file, seen, stolen>>

\* Mutant: the comparison with the own pid is the wrong way round.
ReleaseReadInverted(p) ==
  /\ pc[p] = "release"
  /\ Goto(p, IF \E f \in file : f.pid = p THEN "exited" ELSE "remove")
  /\ UNCHANGED <<file, seen, stolen>>

\* Release reads the file and leaves it alone unless it names p.
ReleaseRead(p) ==
  /\ pc[p] = "release"
  /\ Goto(p, IF \E f \in file : f.pid = p THEN "remove" ELSE "exited")
  /\ UNCHANGED <<file, seen, stolen>>

ReleaseRemove(p) ==
  /\ pc[p] = "remove"
  /\ Unlink(p)
  /\ Goto(p, "exited")
  /\ UNCHANGED seen

Crash(p) ==
  /\ pc[p] \notin Gone
  /\ Goto(p, "dead")
  /\ UNCHANGED <<file, seen, stolen>>

-----------------------------------------------------------------------------

Acquire(p) == \/ Create(p) \/ WritePid(p) \/ SyncLock(p) \/ WriteFails(p)
              \/ ReadHolder(p) \/ Judge(p) \/ TakeOver(p)

Release(p) == ReleaseRead(p) \/ ReleaseRemove(p)

Step(p) == Acquire(p) \/ Finish(p) \/ Release(p)

LockDone == \A p \in Procs : pc[p] \in Gone

LockNext == (\E p \in Procs : Step(p) \/ Crash(p)) \/ (LockDone /\ UNCHANGED lockVars)

LockSpec == LockInit /\ [][LockNext]_lockVars

-----------------------------------------------------------------------------
(* Properties *)

\* The processes that act on the run believing they hold its lock.
Holders == {p \in Procs : pc[p] \in {"held", "release", "remove"}}

\* What the comment on AcquireLock claims: its race "cannot leave two callers
\* both believing they hold the lock".
MutualExclusion == \A p, q \in Holders : p = q

\* What the protocol does guarantee: two processes hold the lock only after
\* somebody unlinked the lock file of another process that was still alive.
ExclusiveUnlessStolen == ~stolen => MutualExclusion

\* Nobody leaves a lock behind: once every command has returned, however the
\* steals and releases interleaved, the file is gone unless a process died.
NoOrphanedLock ==
  (LockDone /\ \A p \in Procs : pc[p] # "dead") => file = {}

=============================================================================
