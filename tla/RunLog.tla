------------------------------ MODULE RunLog ------------------------------
(***************************************************************************)
(* events.jsonl under the run lock: internal/journal/log.go composed with  *)
(* RunLock.  A process that believes it holds the lock opens the log (read *)
(* everything, truncate a torn tail), appends records with the sequence    *)
(* numbers its own handle counts, and releases the lock.  A crash, or a    *)
(* failed write, may leave the last record torn.                           *)
(***************************************************************************)
EXTENDS RunLock, Sequences, SequencesExt

CONSTANT MaxRecords    \* bound: no append beyond this many records

ASSUME MaxRecordsAssumption == MaxRecords \in Nat

VARIABLES
  records,   \* the sequence numbers of the newline-terminated records
  torn,      \* unterminated bytes follow the last record
  corrupt,   \* some newline-terminated line does not parse
  handle     \* per process, its Log: how far OpenLog got, and the next seq

logVars == <<records, torn, corrupt, handle>>
vars == <<lockVars, logVars>>

\* A Log that is not open; `upto` and `sawTorn` are what OpenLog's read saw.
Closed == [st |-> "closed", upto |-> 0, sawTorn |-> FALSE, seq |-> 0]

Handles == [st : {"closed", "read", "open", "failed"}, upto : Nat,
            sawTorn : BOOLEAN, seq : Nat]

TypeOK ==
  /\ LockTypeOK
  /\ records \in Seq(Nat)
  /\ torn \in BOOLEAN /\ corrupt \in BOOLEAN
  /\ handle \in [Procs -> Handles]

Init == LockInit /\ records = <<>> /\ torn = FALSE /\ corrupt = FALSE
        /\ handle = [p \in Procs |-> Closed]

\* Mutant: the highest number is used again.
NextSeqReused == IF records = <<>> THEN 0
                 ELSE CHOOSE m \in Range(records) : \A n \in Range(records) : n <= m

\* The sequence number after the highest one recorded.
NextSeq == IF records = <<>> THEN 0
           ELSE 1 + CHOOSE m \in Range(records) : \A n \in Range(records) : n <= m

-----------------------------------------------------------------------------
(* OpenLog *)

\* Mutant: the valid length leaves out the last record before a torn tail.
OpenReadShort(p) ==
  /\ pc[p] = "held" /\ handle[p].st = "closed"
  /\ handle' = [handle EXCEPT ![p] =
       IF corrupt THEN [Closed EXCEPT !.st = "failed"]
       ELSE [st |-> "read", upto |-> Len(records) - 1, sawTorn |-> torn, seq |-> NextSeq]]
  /\ UNCHANGED <<lockVars, records, torn, corrupt>>

OpenRead(p) ==
  /\ pc[p] = "held" /\ handle[p].st = "closed"
  /\ handle' = [handle EXCEPT ![p] =
       IF corrupt THEN [Closed EXCEPT !.st = "failed"]
       ELSE [st |-> "read", upto |-> Len(records), sawTorn |-> torn, seq |-> NextSeq]]
  /\ UNCHANGED <<lockVars, records, torn, corrupt>>

\* Mutant: the last complete record goes with the torn tail.
OpenTruncateMore(p) ==
  /\ pc[p] = "held" /\ handle[p].st = "read"
  /\ IF handle[p].sawTorn /\ records # <<>>
       THEN records' = Front(records) /\ torn' = FALSE
       ELSE UNCHANGED <<records, torn>>
  /\ handle' = [handle EXCEPT ![p].st = "open"]
  /\ UNCHANGED <<lockVars, corrupt>>

\* os.Truncate to the valid length that was read; a file that has shrunk
\* since is extended with bytes that form no line.
OpenTruncate(p) ==
  /\ pc[p] = "held" /\ handle[p].st = "read"
  /\ IF handle[p].sawTorn
       THEN /\ records' = SubSeq(records, 1, IF handle[p].upto < Len(records)
                                             THEN handle[p].upto ELSE Len(records))
            /\ torn' = (Len(records) < handle[p].upto)
       ELSE UNCHANGED <<records, torn>>
  /\ handle' = [handle EXCEPT ![p].st = "open"]
  /\ UNCHANGED <<lockVars, corrupt>>

-----------------------------------------------------------------------------
(* Append *)

\* log.Close, or the end of the process that held the handle.
Close(p) == handle' = [handle EXCEPT ![p] = Closed]

\* The record reaches the end of the file in one write; behind a torn tail it
\* completes a line that cannot be parsed.
AppendRecord(p) ==
  /\ pc[p] = "held" /\ handle[p].st = "open"
  /\ Len(records) < MaxRecords
  /\ IF torn THEN corrupt' = TRUE /\ UNCHANGED records
             ELSE records' = Append(records, handle[p].seq) /\ UNCHANGED corrupt
  /\ torn' = FALSE
  /\ handle' = [handle EXCEPT ![p].seq = @ + 1]
  /\ UNCHANGED lockVars

\* The write fails half way.  Every caller returns the error, so this handle
\* is not appended to again.
AppendFails(p) ==
  /\ pc[p] = "held" /\ handle[p].st = "open"
  /\ torn' = TRUE
  /\ handle' = [handle EXCEPT ![p].st = "failed"]
  /\ UNCHANGED <<lockVars, records, corrupt>>

\* The process dies half way through the write.
AppendDies(p) ==
  /\ pc[p] = "held" /\ handle[p].st = "open"
  /\ Crash(p)
  /\ torn' = TRUE
  /\ Close(p)
  /\ UNCHANGED <<records, corrupt>>

-----------------------------------------------------------------------------

\* The log is closed before the lock is released, or goes with the process.
LetsGo(p) ==
  /\ IF pc[p] = "held" THEN Close(p) ELSE UNCHANGED handle
  /\ UNCHANGED <<records, torn, corrupt>>

LockStep(p) == Step(p) /\ LetsGo(p)

Dies(p) == Crash(p) /\ LetsGo(p)

LogStep(p) == \/ OpenRead(p) \/ OpenTruncate(p)
              \/ AppendRecord(p) \/ AppendFails(p) \/ AppendDies(p)

Next == \/ \E p \in Procs : LockStep(p) \/ Dies(p) \/ LogStep(p)
        \/ LockDone /\ UNCHANGED vars

Spec == Init /\ [][Next]_vars

-----------------------------------------------------------------------------
(* Properties *)

\* Replay accepts the journal: every record parses and each sequence number
\* is the exact successor of the one before it.
Replayable == ~corrupt /\ \A i \in 1..Len(records) : records[i] = i - 1

\* Crashes, torn writes and failed appends never make a run unreadable: only
\* a lock taken from a live process can.
ReplayableUnlessStolen == ~stolen => Replayable

\* Recovery never takes a committed record back: the truncation of a torn
\* tail drops that tail and nothing else, as long as no lock was stolen.
CommittedSurvives == [][stolen \/ IsPrefix(records, records')]_vars

=============================================================================
