--------------------------- MODULE RunLog_proofs ---------------------------
(***************************************************************************)
(* Proofs about RunLock and RunLog.  First the lock, for any set of        *)
(* processes: its types, and that two processes hold it only after the lock *)
(* file of a live process was unlinked by another one.  Then events.jsonl  *)
(* under it, for any number of records: unless a lock was stolen the journal *)
(* can be replayed, no record that was written is ever taken back, and     *)
(* every record is one the log may hold.                                   *)
(***************************************************************************)
EXTENDS RunLog, SequenceTheorems, TLAPS

\* The processes whose lock file nobody else may remove.
Owners == {p \in Procs : pc[p] \in {"write", "sync", "held", "release", "remove"}}

\* The strengthening: as long as nothing was stolen, whoever owns the lock
\* created the one file that is there, so no two processes own it.
LockIInv ==
  /\ LockTypeOK
  /\ ~stolen => \A p \in Owners : \E f \in file : f.by = p

\* Every process of the lock stays within the types of its variables.
LEMMA LockTypeInvariant == LockInit /\ [][LockNext]_lockVars => []LockTypeOK
<1>1. LockInit => LockTypeOK
  BY ProcsAssumption DEF LockInit, LockTypeOK, Labels, Entries
<1>2. LockTypeOK /\ [LockNext]_lockVars => LockTypeOK'
  <2> SUFFICES ASSUME LockTypeOK, [LockNext]_lockVars
               PROVE  LockTypeOK'
    OBVIOUS
  <2> USE ProcsAssumption DEF LockTypeOK, Labels, Goto
  <2>1. ASSUME NEW p \in Procs, Create(p)
        PROVE  LockTypeOK'
    BY <2>1 DEF Create, Entries
  <2>2. ASSUME NEW p \in Procs, WritePid(p)
        PROVE  LockTypeOK'
    <3>1. file' \in SUBSET Entries
      BY <2>2 DEF WritePid, Entries
    <3>2. \A f, g \in file' : f = g
      BY <2>2 DEF WritePid
    <3> QED
      BY <2>2, <3>1, <3>2 DEF WritePid
  <2>3. ASSUME NEW p \in Procs, WriteFails(p)
        PROVE  LockTypeOK'
    BY <2>3 DEF WriteFails, Unlink
  <2>4. ASSUME NEW p \in Procs, ReadHolder(p)
        PROVE  LockTypeOK'
    BY <2>4 DEF ReadHolder, Entries
  <2>5. ASSUME NEW p \in Procs, Judge(p)
        PROVE  LockTypeOK'
    BY <2>5 DEF Judge
  <2>6. ASSUME NEW p \in Procs, TakeOver(p)
        PROVE  LockTypeOK'
    BY <2>6 DEF TakeOver, Unlink
  <2>7. ASSUME NEW p \in Procs, SyncLock(p) \/ Finish(p) \/ Release(p)
        PROVE  LockTypeOK'
    BY <2>7 DEF SyncLock, Finish, Release, ReleaseRead, ReleaseRemove, Unlink
  <2>8. ASSUME NEW p \in Procs, Crash(p)
        PROVE  LockTypeOK'
    BY <2>8 DEF Crash
  <2>9. CASE UNCHANGED lockVars
    BY <2>9 DEF lockVars
  <2> QED
    BY <2>1, <2>2, <2>3, <2>4, <2>5, <2>6, <2>7, <2>8, <2>9 DEF LockNext, Step, Acquire
<1> QED
  BY <1>1, <1>2, PTL

\* One step of any process keeps every owner's file in place, or is a theft.
LEMMA OwnershipStep ==
  ASSUME LockIInv, LockTypeOK', [LockNext]_lockVars
  PROVE  LockIInv'
<1> SUFFICES ASSUME ~stolen', NEW q \in Owners'
             PROVE  \E f \in file' : f.by = q
  BY DEF LockIInv
<1> USE DEF LockIInv, LockTypeOK, Owners, Goto
<1>1. ASSUME NEW p \in Procs, Create(p)
      PROVE  \E f \in file' : f.by = q
  <2>1. CASE q = p
    <3>1. file' = {[by |-> p, pid |-> NoPid]}
      BY <1>1, <2>1 DEF Create
    <3> QED
      BY <2>1, <3>1
  <2>2. CASE q # p
    <3>1. ~stolen /\ q \in Owners
      BY <1>1, <2>2 DEF Create
    <3>2. PICK f \in file : f.by = q
      BY <3>1
    <3>3. file' = file
      BY <1>1, <3>2 DEF Create
    <3> QED
      BY <3>2, <3>3
  <2> QED
    BY <2>1, <2>2
<1>2. ASSUME NEW p \in Procs, WritePid(p)
      PROVE  \E f \in file' : f.by = q
  <2>1. PICK f \in file : f.by = q
    BY <1>2 DEF WritePid
  <2> DEFINE g == IF f.by = p THEN [f EXCEPT !.pid = p] ELSE f
  <2>2. g \in file' /\ g.by = q
    BY <1>2, <2>1 DEF WritePid, Entries
  <2> QED
    BY <2>2
<1>3. ASSUME NEW p \in Procs, WriteFails(p) \/ ReleaseRemove(p) \/ TakeOver(p)
      PROVE  \E f \in file' : f.by = q
  <2>1. Unlink(p) /\ q # p /\ pc'[q] = pc[q]
    BY <1>3 DEF WriteFails, ReleaseRemove, TakeOver
  <2>2. ~stolen /\ q \in Owners /\ Alive(q)
    BY <2>1 DEF Unlink, Alive, Gone
  <2>3. PICK f \in file : f.by = q
    BY <2>2
  <2> QED
    BY <2>1, <2>2, <2>3 DEF Unlink
<1>4. ASSUME NEW p \in Procs,
             SyncLock(p) \/ ReadHolder(p) \/ Judge(p) \/ Finish(p) \/ ReleaseRead(p) \/ Crash(p)
      PROVE  \E f \in file' : f.by = q
  <2>1. UNCHANGED <<file, stolen>> /\ q \in Owners
    BY <1>4 DEF SyncLock, ReadHolder, Judge, Finish, ReleaseRead, Crash
  <2> QED
    BY <2>1
<1>5. CASE UNCHANGED lockVars
  BY <1>5 DEF lockVars
<1> QED
  BY <1>1, <1>2, <1>3, <1>4, <1>5 DEF LockNext, Step, Acquire, Release

\* The strengthened invariant holds in every behaviour of the lock.
LEMMA LockInductive == LockInit /\ [][LockNext]_lockVars => []LockIInv
<1>1. LockInit => LockIInv
  BY ProcsAssumption DEF LockInit, LockIInv, LockTypeOK, Owners, Labels, Entries
<1>2. LockIInv /\ LockTypeOK' /\ [LockNext]_lockVars => LockIInv'
  BY OwnershipStep
<1> QED
  BY <1>1, <1>2, LockTypeInvariant, PTL

\* The strengthened invariant implies the property.
LEMMA OwnersExclude == LockIInv => ExclusiveUnlessStolen
<1> SUFFICES ASSUME LockIInv, ~stolen, NEW p \in Holders, NEW q \in Holders
             PROVE  p = q
  BY DEF ExclusiveUnlessStolen, MutualExclusion
<1>1. p \in Owners /\ q \in Owners
  BY DEF Holders, Owners
<1>2. PICK f \in file : f.by = p
  BY <1>1 DEF LockIInv
<1>3. PICK g \in file : g.by = q
  BY <1>1 DEF LockIInv
<1> QED
  BY <1>2, <1>3 DEF LockIInv, LockTypeOK

\* A lock file is that of a process which has yet to remove it, or has died;
\* once the pid is written, Release will recognise it.
Claimed ==
  \A f \in file : /\ pc[f.by] \in {"write", "sync", "held", "release", "remove", "dead"}
                  /\ pc[f.by] \in {"sync", "held", "release"} => f.pid = f.by

\* Nobody else's step makes a file lose its owner.
LEMMA ClaimedStep ==
  ASSUME LockTypeOK, Claimed, [LockNext]_lockVars
  PROVE  Claimed'
<1> SUFFICES ASSUME NEW f \in file'
             PROVE  /\ pc'[f.by] \in {"write", "sync", "held", "release", "remove", "dead"}
                    /\ pc'[f.by] \in {"sync", "held", "release"} => f.pid = f.by
  BY DEF Claimed
<1> USE DEF Claimed, LockTypeOK, Entries, Goto
<1>1. ASSUME NEW p \in Procs, Create(p)
      PROVE  Claimed'
  BY <1>1 DEF Create
<1>2. ASSUME NEW p \in Procs, WritePid(p)
      PROVE  Claimed'
  <2>1. PICK g \in file : f = IF g.by = p THEN [g EXCEPT !.pid = p] ELSE g
    BY <1>2 DEF WritePid
  <2>2. CASE g.by = p
    <3>1. f.by = p /\ f.pid = p /\ pc'[p] = "sync"
      BY <1>2, <2>1, <2>2 DEF WritePid
    <3>2. \A h \in file' : h = f
      BY <1>2 DEF WritePid
    <3> QED BY <3>1, <3>2
  <2>3. CASE g.by # p
    <3>1. f = g /\ pc'[f.by] = pc[f.by]
      BY <1>2, <2>1, <2>3 DEF WritePid
    <3>2. \A h \in file' : h = f
      BY <1>2 DEF WritePid
    <3> QED BY <3>1, <3>2
  <2> QED BY <2>2, <2>3
<1>3. ASSUME NEW p \in Procs, WriteFails(p) \/ ReleaseRemove(p) \/ TakeOver(p)
      PROVE  Claimed'
  BY <1>3 DEF WriteFails, ReleaseRemove, TakeOver, Unlink
<1>4. ASSUME NEW p \in Procs, ReadHolder(p) \/ Judge(p)
      PROVE  Claimed'
  BY <1>4 DEF ReadHolder, Judge
<1>5. ASSUME NEW p \in Procs, SyncLock(p) \/ Finish(p) \/ ReleaseRead(p) \/ Crash(p)
      PROVE  Claimed'
  BY <1>5 DEF SyncLock, Finish, ReleaseRead, Crash, Gone
<1>6. CASE UNCHANGED lockVars
  BY <1>6 DEF lockVars
<1> QED
  BY <1>1, <1>2, <1>3, <1>4, <1>5, <1>6 DEF LockNext, Step, Acquire, Release

\* AcquireLock and Release: type correctness for any number of commands.
THEOREM LockTypeCorrect == LockSpec => []LockTypeOK
BY LockTypeInvariant, PTL DEF LockSpec

\* AcquireLock and Release: however many commands race for the lock of a run,
\* with or without --force, crashing anywhere, two of them hold it only after
\* the lock file of a live process was unlinked by another process.
THEOREM LockExclusive == LockSpec => []ExclusiveUnlessStolen
<1>1. LockSpec => []LockIInv
  BY LockInductive, PTL DEF LockSpec
<1> QED
  BY <1>1, OwnersExclude, PTL

\* Release and the cleanups: when every command has returned and none has died,
\* no lock file is left, whoever removed whose.
THEOREM NothingOrphaned == LockSpec => []NoOrphanedLock
<1>1. LockInit => Claimed
  BY DEF LockInit, Claimed
<1>2. LockTypeOK /\ Claimed /\ [LockNext]_lockVars => Claimed'
  BY ClaimedStep
<1>3. LockTypeOK /\ Claimed => NoOrphanedLock
  BY DEF LockTypeOK, Claimed, NoOrphanedLock, LockDone, Gone, Entries
<1> QED
  BY <1>1, <1>2, <1>3, LockTypeInvariant, PTL DEF LockSpec

-----------------------------------------------------------------------------
(* The journal *)


\* Only the process that holds the lock has the log open.
HandleInv ==
  /\ handle \in [Procs -> Handles]
  /\ \A p \in Procs : handle[p].st # "closed" => pc[p] = "held"

\* What a handle knows is still true of the file.
UpToDate(h, recs, tail) ==
  /\ h.st = "read" => h.upto = Len(recs) /\ h.sawTorn = tail /\ h.seq = Len(recs)
  /\ h.st = "open" => tail = FALSE /\ h.seq = Len(recs)

LogInv ==
  /\ records \in Seq(Nat) /\ torn \in BOOLEAN /\ corrupt = FALSE
  /\ \A i \in 1..Len(records) : records[i] = i - 1
  /\ HandleInv
  /\ \A p \in Procs : UpToDate(handle[p], records, torn)

\* The strengthening: all of it holds until a lock is stolen.
LogIInv == ~stolen => LogInv

-----------------------------------------------------------------------------

\* The journal is always behind the lock, whose protocol it does not disturb.
LEMMA BehindTheLock == [Next]_vars => [LockNext]_lockVars
  BY DEF Next, vars, LockNext, LockStep, Dies, LogStep, OpenRead, OpenTruncate,
         AppendRecord, AppendFails, AppendDies, LockDone

\* So what is proved of the lock holds of it behind the journal.
LEMMA LockHolds == Spec => []LockIInv
<1>1. Init => LockInit
  BY DEF Init
<1> QED BY <1>1, BehindTheLock, LockInductive, PTL DEF Spec

\* What was stolen stays so.
LEMMA StolenStays ==
  ASSUME LockIInv, [Next]_vars, stolen PROVE stolen'
<1>1. [LockNext]_lockVars
  BY BehindTheLock
<1>2. stolen = TRUE
  BY DEF LockIInv, LockTypeOK
<1> QED BY <1>1, <1>2 DEF LockNext, lockVars, Step, Acquire, Release, Create, WritePid, SyncLock, WriteFails,
           ReadHolder, Judge, TakeOver, Finish, ReleaseRead, ReleaseRemove, Crash, Unlink

\* In a journal that can be replayed the next number is that of its length.
LEMMA NextSeqIsLength ==
  ASSUME LogInv PROVE NextSeq = Len(records)
<1>1. CASE records = <<>>
  BY <1>1 DEF NextSeq
<1>2. CASE records # <<>>
  <2> DEFINE n == Len(records) - 1
  <2>1. n \in Nat /\ records \in Seq(Nat) /\ DOMAIN records = 1..Len(records)
    BY <1>2 DEF LogInv
  <2>2. \A k \in Range(records) : k \in Nat /\ k <= n
    BY <2>1 DEF LogInv, Range
  <2>3. n \in Range(records)
    BY <2>1 DEF LogInv, Range
  <2>4. n = CHOOSE m \in Range(records) : \A k \in Range(records) : k <= m
    BY <2>1, <2>2, <2>3
  <2>5. Len(records) = 1 + n
    BY <2>1
  <2> HIDE DEF n
  <2>6. NextSeq = 1 + n
    BY <1>2, <2>4, Zenon DEF NextSeq
  <2> QED BY <2>5, <2>6
<1> QED BY <1>1, <1>2

\* Nobody else has the log open.
LEMMA OneHandle ==
  ASSUME LockIInv, LogInv, ~stolen, NEW p \in Procs, pc[p] = "held", NEW q \in Procs, q # p
  PROVE  handle[q].st = "closed"
  BY OwnersExclude DEF ExclusiveUnlessStolen, MutualExclusion, Holders, LogInv, HandleInv

\* The steps on the log, and those of the lock that leave it alone, keep the
\* invariant and take no record back.
LEMMA LogActionStep ==
  ASSUME LockIInv, LogInv, ~stolen, NEW p \in Procs, LogStep(p)
  PROVE  LogInv' /\ IsPrefix(records, records')
<1> USE DEF LogInv, HandleInv
<1>1. /\ records \in Seq(Nat) /\ Len(records) \in Nat /\ pc[p] = "held" /\ handle[p].st # "failed"
      /\ IsPrefix(records, records)
  BY LenProperties DEF LogStep, OpenRead, OpenTruncate, AppendRecord, AppendFails, AppendDies,
                       IsPrefix
<1>2. ASSUME NEW q \in Procs, q # p PROVE handle[q].st = "closed"
  BY <1>1, <1>2, OneHandle
\* It is enough to look at the handle of the process.
<1>3. ASSUME NEW h \in Handles, handle' = [handle EXCEPT ![p] = h],
             UpToDate(h, records', torn'),
             pc' = pc \/ (h.st = "closed" /\ pc' = [pc EXCEPT ![p] = "dead"])
      PROVE  HandleInv' /\ \A q \in Procs : UpToDate(handle'[q], records', torn')
  <2>1. ASSUME NEW q \in Procs
        PROVE  /\ handle'[q].st # "closed" => pc'[q] = "held"
               /\ UpToDate(handle'[q], records', torn')
    <3>1. CASE q = p
      <4>1. handle'[q] = h
        BY <1>3, <3>1
      <4> QED BY <1>1, <1>3, <3>1, <4>1
    <3>2. CASE q # p
      <4>1. handle'[q] = handle[q] /\ handle[q].st = "closed"
        BY <1>2, <1>3, <3>2
      <4> QED BY <4>1 DEF UpToDate
    <3> QED BY <3>1, <3>2
  <2>2. handle' \in [Procs -> Handles]
    BY <1>3
  <2> QED BY <2>1, <2>2
<1>4. CASE OpenRead(p)
  <2> DEFINE h == [st |-> "read", upto |-> Len(records), sawTorn |-> torn, seq |-> NextSeq]
  <2>1. handle' = [handle EXCEPT ![p] = h] /\ UNCHANGED <<records, torn, corrupt>> /\ pc' = pc
    BY <1>4 DEF OpenRead, lockVars
  <2>2. NextSeq = Len(records)
    BY NextSeqIsLength
  <2>3. h \in Handles /\ UpToDate(h, records', torn')
    BY <1>1, <2>1, <2>2 DEF UpToDate, Handles
  <2> HIDE DEF h
  <2>4. HandleInv' /\ \A q \in Procs : UpToDate(handle'[q], records', torn')
    BY <1>3, <2>1, <2>3
  <2> QED BY <1>1, <2>1, <2>4
<1>5. CASE OpenTruncate(p)
  <2> DEFINE h == [handle[p] EXCEPT !.st = "open"]
  <2>1. handle' = [handle EXCEPT ![p] = h] /\ corrupt' = corrupt /\ pc' = pc
    BY <1>5 DEF OpenTruncate, lockVars
  <2>2. /\ handle[p] \in Handles /\ handle[p].upto = Len(records)
        /\ handle[p].sawTorn = torn /\ handle[p].seq = Len(records)
    BY <1>5 DEF OpenTruncate, UpToDate
  <2>3. records' = records /\ torn' = FALSE
    <3>1. SubSeq(records, 1, Len(records)) = records
      BY <1>1, SubSeqFull
    <3>2. CASE torn = TRUE
      <4>1. /\ records' = SubSeq(records, 1, IF Len(records) < Len(records)
                                             THEN Len(records) ELSE Len(records))
            /\ torn' = (Len(records) < Len(records))
        BY <1>5, <2>2, <3>2, Zenon DEF OpenTruncate
      <4>2. (Len(records) < Len(records)) = FALSE
        BY <1>1
      <4>3. torn' = FALSE
        BY <4>1, <4>2, Zenon
      <4> QED BY <3>1, <4>1, <4>2, <4>3, Zenon
    <3>3. CASE torn = FALSE
      BY <1>5, <2>2, <3>3 DEF OpenTruncate
    <3> QED BY <3>2, <3>3
  <2>4. h \in Handles /\ UpToDate(h, records', torn')
    BY <2>2, <2>3 DEF UpToDate, Handles
  <2> HIDE DEF h
  <2>5. HandleInv' /\ \A q \in Procs : UpToDate(handle'[q], records', torn')
    BY <1>3, <2>1, <2>4
  <2> QED BY <1>1, <2>1, <2>3, <2>5
<1>6. CASE AppendRecord(p)
  <2> DEFINE h == [handle[p] EXCEPT !.seq = @ + 1]
  <2>1. handle' = [handle EXCEPT ![p] = h] /\ torn' = FALSE /\ pc' = pc
    BY <1>6 DEF AppendRecord, lockVars
  <2>2. handle[p] \in Handles /\ torn = FALSE /\ handle[p].seq = Len(records)
        /\ handle[p].st = "open"
    BY <1>6 DEF AppendRecord, UpToDate
  <2>3. records' = Append(records, Len(records)) /\ corrupt' = corrupt
    BY <1>6, <2>2 DEF AppendRecord
  <2>4. /\ records' \in Seq(Nat) /\ Len(records') = Len(records) + 1
        /\ \A i \in 1..Len(records') : records'[i] = i - 1
        /\ IsPrefix(records, records')
    <3>1. /\ records' \in Seq(Nat) /\ Len(records') = Len(records) + 1
          /\ \A i \in 1..Len(records) : records'[i] = records[i]
          /\ records'[Len(records) + 1] = Len(records)
      BY <1>1, <2>3, AppendProperties
    <3>2. SubSeq(records, 1, Len(records)) = SubSeq(records', 1, Len(records))
      BY <1>1, <3>1, SubSeqProperties
    <3>3. \A i \in 1..Len(records') : records'[i] = i - 1
      <4> SUFFICES ASSUME NEW i \in 1..Len(records') PROVE records'[i] = i - 1
        OBVIOUS
      <4>1. i \in 1..Len(records) \/ i = Len(records) + 1
        BY <1>1, <3>1
      <4>2. CASE i \in 1..Len(records)
        BY <3>1, <4>2
      <4>3. CASE i = Len(records) + 1
        BY <1>1, <3>1, <4>3
      <4> QED BY <4>1, <4>2, <4>3
    <3>4. IsPrefix(records, records')
      BY <1>1, <3>1, <3>2 DEF IsPrefix
    <3> QED BY <3>1, <3>3, <3>4
  <2>5. h \in Handles /\ UpToDate(h, records', torn')
    <3>1. handle[p].seq + 1 = Len(records') /\ handle[p].seq + 1 \in Nat
      BY <1>1, <2>2, <2>4
    <3>2. h \in Handles /\ h.seq = Len(records') /\ h.st = "open"
      BY <2>2, <3>1 DEF Handles
    <3> QED BY <2>1, <3>2 DEF UpToDate
  <2> HIDE DEF h
  <2>6. HandleInv' /\ \A q \in Procs : UpToDate(handle'[q], records', torn')
    BY <1>3, <2>1, <2>5
  <2> QED BY <2>1, <2>3, <2>4, <2>6
<1>7. CASE AppendFails(p)
  <2> DEFINE h == [handle[p] EXCEPT !.st = "failed"]
  <2>1. /\ handle' = [handle EXCEPT ![p] = h] /\ torn' = TRUE /\ UNCHANGED <<records, corrupt>>
        /\ pc' = pc
    BY <1>7 DEF AppendFails, lockVars
  <2>2. h \in Handles /\ UpToDate(h, records', torn')
    BY DEF UpToDate, Handles
  <2> HIDE DEF h
  <2>3. HandleInv' /\ \A q \in Procs : UpToDate(handle'[q], records', torn')
    BY <1>3, <2>1, <2>2
  <2> QED BY <1>1, <2>1, <2>3
<1>8. CASE AppendDies(p)
  <2>1. /\ handle' = [handle EXCEPT ![p] = Closed] /\ torn' = TRUE /\ UNCHANGED <<records, corrupt>>
        /\ pc' = [pc EXCEPT ![p] = "dead"]
    BY <1>8 DEF AppendDies, Close, Crash, Goto
  <2>2. Closed \in Handles /\ UpToDate(Closed, records', torn') /\ Closed.st = "closed"
    BY DEF UpToDate, Handles, Closed
  <2>3. HandleInv' /\ \A q \in Procs : UpToDate(handle'[q], records', torn')
    BY <1>3, <2>1, <2>2
  <2> QED BY <1>1, <2>1, <2>3
<1> QED BY <1>4, <1>5, <1>6, <1>7, <1>8 DEF LogStep

\* A step of the lock closes the log of the process before that lets it go.
LEMMA LockActionStep ==
  ASSUME LockIInv, LogInv, ~stolen, NEW p \in Procs, LockStep(p) \/ Dies(p)
  PROVE  LogInv' /\ records' = records
<1> USE DEF LogInv, HandleInv
<1>1. UNCHANGED <<records, torn, corrupt>>
  BY DEF LockStep, Dies, LetsGo
<1>2. handle' = [handle EXCEPT ![p] = IF pc[p] = "held" THEN Closed ELSE @]
  BY DEF LockStep, Dies, LetsGo, Close
<1>3. ASSUME NEW q \in Procs, q # p PROVE pc'[q] = pc[q]
  BY <1>3 DEF LockIInv, LockTypeOK, LockStep, Dies, Step, Acquire, Release, Create, WritePid, SyncLock,
              WriteFails, ReadHolder, Judge, TakeOver, Finish, ReleaseRead, ReleaseRemove, Crash,
              Goto
<1>4. Closed \in Handles /\ Closed.st = "closed" /\ UpToDate(Closed, records, torn)
  BY DEF Closed, Handles, UpToDate
<1>5. ASSUME NEW q \in Procs
      PROVE  /\ handle'[q].st # "closed" => pc'[q] = "held"
             /\ handle'[q] \in Handles /\ UpToDate(handle'[q], records, torn)
  <2>1. CASE q = p
    <3>1. CASE pc[p] = "held"
      <4>1. handle'[q] = Closed
        BY <1>2, <2>1, <3>1
      <4> QED BY <1>4, <4>1
    <3>2. CASE pc[p] # "held"
      <4>1. handle'[q] = handle[q] /\ handle[q].st = "closed"
        BY <1>2, <2>1, <3>2
      <4> QED BY <4>1
    <3> QED BY <3>1, <3>2
  <2>2. CASE q # p
    <3>1. handle'[q] = handle[q] /\ pc'[q] = pc[q]
      BY <1>2, <1>3, <2>2
    <3> QED BY <3>1
  <2> QED BY <2>1, <2>2
<1>6. handle' \in [Procs -> Handles]
  BY <1>2, <1>5
<1> QED BY <1>1, <1>5, <1>6

\* One step of the log or of the lock keeps the invariant.
LEMMA LogActions ==
  ASSUME LockIInv, LogIInv, [Next]_vars
  PROVE  LogIInv' /\ (stolen \/ IsPrefix(records, records'))
<1> SUFFICES ASSUME ~stolen PROVE LogInv' /\ IsPrefix(records, records')
  BY StolenStays DEF LogIInv
<1>1. LogInv
  BY DEF LogIInv
<1>2. IsPrefix(records, records)
  BY <1>1, LenProperties DEF LogInv, IsPrefix
<1>3. CASE UNCHANGED vars
  BY <1>1, <1>2, <1>3 DEF vars, lockVars, logVars, LogInv, HandleInv
<1> QED BY <1>1, <1>2, <1>3, LogActionStep, LockActionStep DEF Next

\* The invariant holds always.
LEMMA LogInductive == Spec => []LogIInv
<1>1. Init => LogIInv
  <2> SUFFICES ASSUME Init PROVE LogInv
    BY DEF LogIInv
  <2>1. Closed \in Handles /\ UpToDate(Closed, records, torn) /\ Closed.st = "closed"
    BY DEF Closed, Handles, UpToDate
  <2>2. <<>> \in Seq(Nat) /\ Len(<<>>) = 0
    BY EmptySeq
  <2>3. HandleInv /\ \A p \in Procs : UpToDate(handle[p], records, torn)
    BY <2>1 DEF Init, HandleInv
  <2>4. 1..0 = {}
    OBVIOUS
  <2> QED BY <2>2, <2>3, <2>4, Zenon DEF Init, LogInv
<1> QED BY <1>1, LockHolds, LogActions, PTL DEF Spec

-----------------------------------------------------------------------------

\* Unless a lock is stolen, replay accepts the journal, whatever crashes, torn
\* writes and failed appends there were.
THEOREM AlwaysReplayable == Spec => []ReplayableUnlessStolen
<1>1. LogIInv => ReplayableUnlessStolen
  BY DEF LogIInv, LogInv, ReplayableUnlessStolen, Replayable
<1> QED BY <1>1, LogInductive, PTL

\* Unless a lock is stolen, no record of the journal is ever taken back.
THEOREM NothingTakenBack == Spec => CommittedSurvives
<1>1. LockIInv /\ LogIInv /\ [Next]_vars => [stolen \/ IsPrefix(records, records')]_vars
  BY LogActions
<1> QED BY <1>1, LockHolds, LogInductive, PTL DEF Spec, CommittedSurvives
-----------------------------------------------------------------------------

\* The highest number of records that two processes wrote side by side is not
\* their length, and has to be found in every part of the journal that a
\* truncation may leave.
Topped(s) == \A k \in 1..Len(s) : \E i \in 1..k : \A j \in 1..k : s[j] <= s[i]

\* The strengthening of the types of the journal, with or without a theft: the
\* next number can always be read off it.
JournalTypes ==
  /\ records \in Seq(Nat) /\ Topped(records)
  /\ torn \in BOOLEAN /\ corrupt \in BOOLEAN
  /\ handle \in [Procs -> Handles]

\* A record behind the others leaves each part of the journal its highest one.
LEMMA ToppedByAppend ==
  ASSUME NEW s \in Seq(Nat), Topped(s), NEW n \in Nat
  PROVE  Topped(Append(s, n))
<1> DEFINE t == Append(s, n)
<1>1. /\ Len(s) \in Nat /\ t \in Seq(Nat) /\ Len(t) = Len(s) + 1
      /\ \A i \in 1..Len(s) : t[i] = s[i] /\ s[i] \in Nat
      /\ t[Len(s) + 1] = n
  BY LenProperties, AppendProperties
<1> HIDE DEF t
<1>2. ASSUME NEW k \in 1..Len(t)
      PROVE  \E i \in 1..k : \A j \in 1..k : t[j] <= t[i]
  <2>1. CASE k \in 1..Len(s)
    <3>1. PICK i \in 1..k : \A j \in 1..k : s[j] <= s[i]
      BY <2>1 DEF Topped
    <3>2. \A j \in 1..k : t[j] = s[j]
      BY <1>1, <2>1
    <3> QED BY <3>1, <3>2
  <2>2. CASE k = Len(s) + 1 /\ Len(s) = 0
    <3>1. 1 \in 1..k /\ \A j \in 1..k : j = 1
      BY <2>2
    <3> QED BY <1>1, <2>2, <3>1
  <2>3. CASE k = Len(s) + 1 /\ Len(s) # 0
    <3> DEFINE l == Len(s)
    <3>0. l \in 1..Len(s)
      BY <1>1, <2>3
    <3>1. PICK i \in 1..l : \A j \in 1..l : s[j] <= s[i]
      BY <3>0 DEF Topped
    <3>2. i \in 1..k /\ k \in 1..k /\ t[i] = s[i] /\ s[i] \in Nat /\ t[k] = n
      BY <1>1, <2>3
    <3> DEFINE top == IF n <= s[i] THEN i ELSE k
    <3>3. ASSUME NEW j \in 1..k PROVE t[j] <= t[top]
      <4>1. CASE j \in 1..Len(s)
        <5>1. t[j] = s[j] /\ s[j] \in Nat /\ s[j] <= s[i]
          BY <1>1, <3>1, <4>1
        <5> QED BY <3>2, <5>1
      <4>2. CASE j = k
        BY <3>2, <4>2
      <4>3. j \in 1..Len(s) \/ j = k
        BY <1>1, <2>3
      <4> QED BY <4>1, <4>2, <4>3
    <3>4. top \in 1..k
      BY <3>2
    <3> HIDE DEF top
    <3> QED BY <3>3, <3>4
  <2> QED BY <1>1, <2>1, <2>2, <2>3
<1> QED BY <1>2 DEF Topped, t

\* A part of the journal keeps what holds of each part.
LEMMA ToppedByTruncation ==
  ASSUME NEW s \in Seq(Nat), Topped(s), NEW n \in 0..Len(s)
  PROVE  SubSeq(s, 1, n) \in Seq(Nat) /\ Topped(SubSeq(s, 1, n))
<1> DEFINE t == SubSeq(s, 1, n)
<1>1. Len(s) \in Nat /\ n \in Int /\ 1 \in Int /\ \A i \in 1..n : s[i] \in Nat
  BY LenProperties
<1>2. /\ t \in Seq(Nat) /\ Len(t) = (IF 1 <= n THEN n - 1 + 1 ELSE 0)
      /\ \A i \in 1..n - 1 + 1 : t[i] = s[1 + i - 1]
  BY <1>1, SubSeqProperties
<1>3. Len(t) = n /\ \A i \in 1..n : t[i] = s[i]
  BY <1>1, <1>2
<1> HIDE DEF t
<1>4. ASSUME NEW k \in 1..Len(t)
      PROVE  \E i \in 1..k : \A j \in 1..k : t[j] <= t[i]
  <2>0. k \in 1..Len(s) /\ k <= n
    BY <1>1, <1>3
  <2>1. PICK i \in 1..k : \A j \in 1..k : s[j] <= s[i]
    BY <2>0 DEF Topped
  <2>2. \A j \in 1..k : t[j] = s[j]
    BY <1>1, <1>3, <2>0
  <2> QED BY <2>1, <2>2
<1> QED BY <1>2, <1>4 DEF Topped, t

\* The number after the highest one is a number.
LEMMA NextSeqIsNat ==
  ASSUME JournalTypes PROVE NextSeq \in Nat
<1>1. CASE records = <<>>
  BY <1>1 DEF NextSeq
<1>2. CASE records # <<>>
  <2>1. Len(records) \in 1..Len(records) /\ DOMAIN records = 1..Len(records)
        /\ \A i \in 1..Len(records) : records[i] \in Nat
    BY <1>2, LenProperties, EmptySeq DEF JournalTypes
  <2>2. PICK i \in 1..Len(records) : \A j \in 1..Len(records) : records[j] <= records[i]
    BY <2>1 DEF JournalTypes, Topped
  <2>3. Range(records) \subseteq Nat /\ records[i] \in Range(records)
        /\ \A n \in Range(records) : n <= records[i]
    BY <2>1, <2>2 DEF Range
  <2> DEFINE m == CHOOSE m \in Range(records) : \A n \in Range(records) : n <= m
  <2>4. m \in Nat
    BY <2>3
  <2> HIDE DEF m
  <2>5. NextSeq = 1 + m
    BY <1>2, Zenon DEF NextSeq, m
  <2> QED BY <2>4, <2>5
<1> QED BY <1>1, <1>2

\* The steps on the log keep the types of the journal.
LEMMA LogStepTypes ==
  ASSUME JournalTypes, NEW p \in Procs, LogStep(p)
  PROVE  JournalTypes'
<1>1. records \in Seq(Nat) /\ Topped(records) /\ Len(records) \in Nat
      /\ torn \in BOOLEAN /\ corrupt \in BOOLEAN
      /\ handle \in [Procs -> Handles] /\ handle[p] \in Handles
  BY LenProperties DEF JournalTypes
\* It is enough to look at the handle of the process and at the records.
<1>2. ASSUME NEW h \in Handles, handle' = [handle EXCEPT ![p] = h],
             records' \in Seq(Nat) /\ Topped(records'),
             torn' \in BOOLEAN, corrupt' \in BOOLEAN
      PROVE  JournalTypes'
  <2>1. handle' \in [Procs -> Handles]
    BY <1>1, <1>2
  <2> QED BY <1>2, <2>1 DEF JournalTypes
<1>3. CASE OpenRead(p)
  <2> DEFINE h == IF corrupt THEN [Closed EXCEPT !.st = "failed"]
                  ELSE [st |-> "read", upto |-> Len(records), sawTorn |-> torn, seq |-> NextSeq]
  <2>1. h \in Handles
    BY <1>1, NextSeqIsNat DEF Handles, Closed
  <2>2. handle' = [handle EXCEPT ![p] = h] /\ UNCHANGED <<records, torn, corrupt>>
    BY <1>3 DEF OpenRead
  <2> HIDE DEF h
  <2> QED BY <1>1, <1>2, <2>1, <2>2
<1>4. CASE OpenTruncate(p)
  <2> DEFINE h == [handle[p] EXCEPT !.st = "open"]
             n == IF handle[p].upto < Len(records) THEN handle[p].upto ELSE Len(records)
  <2>0. handle[p].upto \in Nat /\ h \in Handles
    BY <1>1 DEF Handles
  <2>1. h \in Handles /\ n \in 0..Len(records)
    BY <1>1, <2>0
  <2>2. handle' = [handle EXCEPT ![p] = h] /\ UNCHANGED corrupt
    BY <1>4 DEF OpenTruncate
  <2>3. \/ records' = SubSeq(records, 1, n) /\ torn' = (Len(records) < handle[p].upto)
        \/ UNCHANGED <<records, torn>>
    BY <1>4 DEF OpenTruncate
  <2> HIDE DEF h, n
  <2>4. SubSeq(records, 1, n) \in Seq(Nat) /\ Topped(SubSeq(records, 1, n))
    BY <1>1, <2>1, ToppedByTruncation
  <2>5. records' \in Seq(Nat) /\ Topped(records')
    BY <1>1, <2>3, <2>4
  <2>6. torn' \in BOOLEAN
    <3>1. (Len(records) < handle[p].upto) \in BOOLEAN
      BY <1>1, <2>0
    <3> QED BY <1>1, <2>3, <3>1, Zenon
  <2> QED BY <1>1, <1>2, <2>1, <2>2, <2>5, <2>6
<1>5. CASE AppendRecord(p)
  <2> DEFINE h == [handle[p] EXCEPT !.seq = @ + 1]
  <2>1. h \in Handles /\ handle[p].seq \in Nat
    BY <1>1 DEF Handles
  <2>2. handle' = [handle EXCEPT ![p] = h] /\ torn' = FALSE
    BY <1>5 DEF AppendRecord
  <2>3. /\ corrupt' \in BOOLEAN
        /\ records' = records \/ records' = Append(records, handle[p].seq)
    BY <1>1, <1>5 DEF AppendRecord
  <2>4. Append(records, handle[p].seq) \in Seq(Nat)
    BY <1>1, <2>1, AppendProperties
  <2>5. Topped(Append(records, handle[p].seq))
    BY <1>1, <2>1, ToppedByAppend
  <2>6. records' \in Seq(Nat) /\ Topped(records')
    BY <1>1, <2>3, <2>4, <2>5
  <2> HIDE DEF h
  <2> QED BY <1>2, <2>1, <2>2, <2>3, <2>6
<1>6. CASE AppendFails(p)
  <2> DEFINE h == [handle[p] EXCEPT !.st = "failed"]
  <2>1. h \in Handles
    BY <1>1 DEF Handles
  <2>2. handle' = [handle EXCEPT ![p] = h] /\ torn' = TRUE /\ UNCHANGED <<records, corrupt>>
    BY <1>6 DEF AppendFails
  <2> HIDE DEF h
  <2> QED BY <1>1, <1>2, <2>1, <2>2
<1>7. CASE AppendDies(p)
  <2>1. Closed \in Handles
    BY DEF Closed, Handles
  <2>2. handle' = [handle EXCEPT ![p] = Closed] /\ torn' = TRUE /\ UNCHANGED <<records, corrupt>>
    BY <1>7 DEF AppendDies, Close
  <2> QED BY <1>1, <1>2, <2>1, <2>2
<1> QED BY <1>3, <1>4, <1>5, <1>6, <1>7 DEF LogStep

\* The lock and the journal behind it stay within the types of their variables,
\* also when processes write side by side.
THEOREM JournalTyped == Spec => []TypeOK
<1>1. Init => JournalTypes
  <2>1. Closed \in Handles
    BY DEF Closed, Handles
  <2>2. <<>> \in Seq(Nat) /\ Len(<<>>) = 0
    BY EmptySeq
  <2>3. 1..0 = {}
    OBVIOUS
  <2> QED BY <2>1, <2>2, <2>3 DEF Init, JournalTypes, Topped
<1>2. JournalTypes /\ [Next]_vars => JournalTypes'
  <2> SUFFICES ASSUME JournalTypes, [Next]_vars PROVE JournalTypes'
    OBVIOUS
  <2>1. CASE UNCHANGED vars
    BY <2>1 DEF vars, logVars, JournalTypes, Topped
  <2>2. ASSUME NEW p \in Procs, LockStep(p) \/ Dies(p) PROVE JournalTypes'
    <3>1. Closed \in Handles
      BY DEF Closed, Handles
    <3>2. UNCHANGED <<records, torn, corrupt>>
          /\ (handle' = [handle EXCEPT ![p] = Closed] \/ handle' = handle)
      BY <2>2 DEF LockStep, Dies, LetsGo, Close
    <3> QED BY <3>1, <3>2 DEF JournalTypes, Topped
  <2> QED BY <2>1, <2>2, LogStepTypes DEF Next
<1>3. LockIInv /\ JournalTypes => TypeOK
  BY DEF LockIInv, JournalTypes, TypeOK
<1> QED BY <1>1, <1>2, <1>3, LockHolds, PTL DEF Spec

=============================================================================
