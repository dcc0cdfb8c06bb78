--------------------------- MODULE Update_proofs ---------------------------
(***************************************************************************)
(* Proofs about pawl update, for any number of updates at once and any set  *)
(* of releases.  The inductive invariant follows a temporary file from its  *)
(* creation to the renaming: what is in it was named by a checksums.txt     *)
(* before the file was made, it is complete from the write on, and synced   *)
(* and executable before it can take the place of the binary.               *)
(***************************************************************************)
EXTENDS Update, TLAPS

Commands ==
  [pc : {"idle", "dead"} \cup Working \cup Returned, own : Versions, pin : Versions,
   force : BOOLEAN, target : Versions, upload : Uploads, intact : BOOLEAN, mode : BOOLEAN]

\* What the command is about to install may replace the build that it runs as.
Forward(u) == u.force \/ (u.own # Dev /\ (u.pin # Dev \/ Newer(u.target, u.own)))

\* One command, its temporary files and what was vouched for.
CommandInv(u, files, v) ==
  /\ u.pc \in {"archive", "sums", "create", "write", "sync", "chmod", "rename"} => u.target \in Releases
  /\ u.pc \in {"create", "write", "sync", "chmod", "rename"}
       => u.intact = TRUE /\ <<u.target, u.upload>> \in v
  /\ u.pc \in {"write", "sync", "chmod"} => u.mode = TRUE
  /\ u.pc \notin {"write", "sync", "chmod", "rename", "clean", "dead"} => files = {}
  /\ u.pc \in {"write", "sync", "chmod", "rename"}
       => \A f \in files : f.of = u.target /\ f.upload = u.upload
  /\ u.pc \in {"sync", "chmod", "rename"} => \A f \in files : f.whole = TRUE
  /\ u.pc \in {"chmod", "rename"} => \A f \in files : f.durable = TRUE
  /\ u.pc = "rename" => \A f \in files : f.runs = TRUE
  /\ u.pc = "resolve" => u.force \/ u.own # Dev
  /\ u.pc \in {"archive", "sums", "create", "write", "sync", "chmod", "rename"} => Forward(u)

BinaryInv ==
  /\ exe.whole = TRUE /\ exe.durable = TRUE /\ exe.runs = TRUE
  /\ <<exe.of, exe.upload>> \in vouched

SumsInv == \A r \in Releases : site.sums[r] # 0 => <<r, site.sums[r]>> \in vouched

IInv == /\ UpdateTypeOK /\ BinaryInv /\ SumsInv
        /\ \A p \in Updaters : CommandInv(up[p], tmp[p], vouched)

-----------------------------------------------------------------------------

\* A build without a version is not a release.
LEMMA DevIsNoRelease == Dev \notin Releases
  BY ReleasesAssumption, SMT DEF Dev

\* The type invariant, variable by variable.
LEMMA TypesOfUp == UpdateTypeOK <=>
  /\ exe \in Files /\ managed \in BOOLEAN
  /\ up \in [Updaters -> Commands]
  /\ tmp \in [Updaters -> SUBSET Files]
  /\ site \in [latest : Versions, archive : [Releases -> Uploads],
               sums : [Releases -> Uploads]]
  /\ vouched \subseteq Versions \X Uploads
  BY DEF UpdateTypeOK, Commands

\* A command that has not begun is a command.
LEMMA IdleType == Idle \in Commands
  BY SMT DEF Commands, Idle, Versions, Uploads

\* A command that goes on, or is over, is still a command.
LEMMA AtType ==
  ASSUME NEW u \in Commands, NEW label \in {"dead"} \cup Working \cup Returned
  PROVE  /\ At(u, label) \in Commands
         /\ At(u, label).pc = label
         /\ label \in Working =>
              /\ At(u, label).target = u.target /\ At(u, label).upload = u.upload
              /\ At(u, label).intact = u.intact /\ At(u, label).mode = u.mode
              /\ At(u, label).own = u.own /\ At(u, label).pin = u.pin
              /\ At(u, label).force = u.force
<1>1. CASE label \in Working
  BY <1>1, SMT DEF At, Commands
<1>2. CASE label \notin Working
  BY <1>2, IdleType, SMT DEF At, Commands
<1> QED BY <1>1, <1>2

\* What holds of a command at the end of it.
LEMMA Ended ==
  ASSUME NEW u \in Commands, NEW label \in {"dead", "clean"} \cup Returned, NEW v,
         NEW files \in SUBSET Files, label \in Returned => files = {}
  PROVE  CommandInv(At(u, label), files, v)
<1>1. At(u, label).pc = label
  BY AtType DEF Working
<1> QED BY <1>1, SMT DEF CommandInv, Returned

\* A step of one command, which leaves the site and the other commands alone.
LEMMA OneCommand ==
  ASSUME IInv, NEW p \in Updaters, NEW u \in Commands, NEW files \in SUBSET Files,
         up' = [up EXCEPT ![p] = u], tmp' = [tmp EXCEPT ![p] = files],
         exe' \in Files, BinaryInv', UNCHANGED <<managed, site, vouched>>,
         CommandInv(u, files, vouched)
  PROVE  IInv'
<1>1. UpdateTypeOK'
  BY TypesOfUp DEF IInv, UpdateTypeOK, Commands
<1>2. SumsInv'
  BY DEF IInv, SumsInv
<1>3. ASSUME NEW q \in Updaters PROVE CommandInv(up'[q], tmp'[q], vouched')
  <2>1. up \in [Updaters -> Commands] /\ tmp \in [Updaters -> SUBSET Files]
    BY TypesOfUp DEF IInv
  <2>2. CASE q = p
    <3>1. up'[q] = u /\ tmp'[q] = files
      BY <2>1, <2>2
    <3> QED BY <3>1
  <2>3. CASE q # p
    <3>1. up'[q] = up[q] /\ tmp'[q] = tmp[q]
      BY <2>1, <2>3
    <3> QED BY <3>1 DEF IInv
  <2> QED BY <2>2, <2>3
<1> QED BY <1>1, <1>2, <1>3 DEF IInv

-----------------------------------------------------------------------------
(* The steps of a command *)

\* A release that is not the build, nor older than it, is newer.
LEMMA NewerOrOlder ==
  ASSUME NEW a \in Versions, NEW b \in Versions, a # b, ~Newer(b, a)
  PROVE  Newer(a, b)
<1>1. a \in [core : Nat, rc : Nat] /\ b \in [core : Nat, rc : Nat]
  BY ReleasesAssumption, SMT DEF Versions, Dev
<1>2. a = [core |-> a.core, rc |-> a.rc] /\ b = [core |-> b.core, rc |-> b.rc]
  BY <1>1
<1>3. a.core # b.core \/ a.rc # b.rc
  BY <1>2
<1> QED BY <1>1, <1>3, SMT DEF Newer

\* A step that only moves a command, with its file: to a place with no more to hold.
LEMMA MoveStep ==
  ASSUME IInv, NEW p \in Updaters, NEW u \in Commands,
         up' = [up EXCEPT ![p] = u], Elsewhere(p), CommandInv(u, tmp[p], vouched)
  PROVE  IInv'
<1>1. tmp[p] \in SUBSET Files /\ tmp' = [tmp EXCEPT ![p] = tmp[p]]
  BY TypesOfUp DEF IInv, Elsewhere
<1>2. exe' \in Files /\ BinaryInv' /\ UNCHANGED <<managed, site, vouched>>
  BY TypesOfUp DEF IInv, BinaryInv, Elsewhere
<1> QED BY <1>1, <1>2, OneCommand

\* A command begins with the build it runs as.
LEMMA InvokeStep == ASSUME IInv, NEW p \in Updaters, Invoke(p) PROVE IInv'
<1> PICK pin \in Versions, force \in BOOLEAN :
      up' = [up EXCEPT ![p] =
               At([Idle EXCEPT !.own = exe.of, !.pin = pin, !.force = force],
                  IF managed \/ (exe.of = Dev /\ ~force) THEN "refused" ELSE "resolve")]
  BY DEF Invoke
<1> DEFINE c == [Idle EXCEPT !.own = exe.of, !.pin = pin, !.force = force]
           label == IF managed \/ (exe.of = Dev /\ ~force) THEN "refused" ELSE "resolve"
<1>1. exe.of \in Versions
  BY TypesOfUp DEF IInv, Files
<1>2. c \in Commands /\ c.own = exe.of /\ c.force = force
  BY <1>1, IdleType DEF Commands, Idle
<1>3. label \in {"refused", "resolve"} /\ (label = "resolve" => force \/ exe.of # Dev)
  OBVIOUS
<1>4. tmp[p] = {}
  BY DEF IInv, CommandInv, Invoke
<1> HIDE DEF c, label
<1>5. /\ At(c, label) \in Commands /\ At(c, label).pc = label
      /\ label = "resolve" => At(c, label).own = c.own /\ At(c, label).force = c.force
  BY <1>2, <1>3, AtType DEF Working, Returned
<1>6. CommandInv(At(c, label), {}, vouched)
  BY <1>2, <1>3, <1>5 DEF CommandInv
<1>7. up' = [up EXCEPT ![p] = At(c, label)]
  BY DEF c, label
<1>8. CommandInv(At(c, label), tmp[p], vouched)
  BY <1>4, <1>6
<1> QED BY <1>5, <1>7, <1>8, MoveStep DEF Invoke

\* A command that fails, or dies, keeps the invariant.
LEMMA OverStep ==
  ASSUME IInv, NEW p \in Updaters, NEW label \in {"dead", "failed"},
         Goto(p, label), Elsewhere(p), label = "failed" => tmp[p] = {}
  PROVE  IInv'
<1>1. up[p] \in Commands /\ tmp[p] \in SUBSET Files
  BY TypesOfUp DEF IInv
<1>2. At(up[p], label) \in Commands
  BY <1>1, AtType DEF Returned
<1>3. up' = [up EXCEPT ![p] = At(up[p], label)]
  BY DEF Goto
<1>4. CommandInv(At(up[p], label), tmp[p], vouched)
  BY <1>1, Ended DEF Returned
<1> QED BY <1>2, <1>3, <1>4, MoveStep

\* The manifest that is read names a release.
LEMMA ResolveStep == ASSUME IInv, NEW p \in Updaters, Resolve(p) PROVE IInv'
<1> DEFINE target == Target(up[p])
           c == [up[p] EXCEPT !.target = target]
           label == IF NothingToDo(up[p], target) THEN "done" ELSE "archive"
<1>1. up[p] \in Commands /\ tmp[p] \in SUBSET Files /\ site.latest \in Versions
  BY TypesOfUp DEF IInv
<1>2. tmp[p] = {} /\ (up[p].force \/ up[p].own # Dev)
  BY DEF IInv, CommandInv, Resolve
<1>3. CASE Goto(p, "failed") /\ Elsewhere(p)
  BY <1>2, <1>3, OverStep
<1>4. CASE target # Dev /\ up' = [up EXCEPT ![p] = At(c, label)] /\ Elsewhere(p)
  <2>1. target \in Releases /\ target \in Versions
    BY <1>1, <1>4 DEF Target, Commands, Versions
  <2>2. /\ c \in Commands /\ c.target = target /\ c.own = up[p].own
        /\ c.pin = up[p].pin /\ c.force = up[p].force
    BY <1>1, <2>1 DEF Commands
  <2>3. label \in {"done", "archive"} /\ (label = "archive" => ~NothingToDo(up[p], target))
    OBVIOUS
  <2>4. label = "archive" => Forward(c)
    <3> SUFFICES ASSUME label = "archive", ~c.force PROVE Forward(c)
      BY DEF Forward
    <3>1. c.own # Dev /\ target # c.own /\ (c.pin # Dev \/ ~Newer(c.own, target))
      BY <1>2, <2>2, <2>3 DEF NothingToDo
    <3>2. c.own \in Versions
      BY <2>2 DEF Commands
    <3> QED BY <2>1, <2>2, <3>1, <3>2, NewerOrOlder DEF Forward
  <2>5. up' = [up EXCEPT ![p] = At(c, label)]
    BY <1>4
  <2> HIDE DEF c, label
  <2>6. /\ At(c, label) \in Commands /\ At(c, label).pc = label
        /\ label = "archive" => /\ At(c, label).target = c.target /\ At(c, label).own = c.own
                                /\ At(c, label).pin = c.pin /\ At(c, label).force = c.force
    BY <2>2, <2>3, AtType DEF Working, Returned
  <2>7. CommandInv(At(c, label), tmp[p], vouched)
    BY <1>2, <2>1, <2>2, <2>3, <2>4, <2>6 DEF CommandInv, Forward
  <2> QED BY <1>4, <2>5, <2>6, <2>7, MoveStep
<1>5. (target # Dev /\ up' = [up EXCEPT ![p] = At(c, label)]) \/ Goto(p, "failed")
  BY DEF Resolve
<1> QED BY <1>3, <1>4, <1>5 DEF Resolve

\* The archive that is read is one the site has, or had.
LEMMA FetchArchiveStep == ASSUME IInv, NEW p \in Updaters, FetchArchive(p) PROVE IInv'
<1>1. up[p] \in Commands /\ up \in [Updaters -> Commands]
  BY TypesOfUp DEF IInv
<1>2. tmp[p] = {} /\ up[p].target \in Releases /\ Forward(up[p])
  BY DEF IInv, CommandInv, FetchArchive
<1>3. CASE Goto(p, "failed") /\ Elsewhere(p)
  BY <1>2, <1>3, OverStep
<1>4. ASSUME Elsewhere(p), NEW intact \in BOOLEAN,
             up' = [up EXCEPT ![p].upload = site.archive[up[p].target],
                              ![p].intact = intact, ![p].pc = "sums"]
      PROVE  IInv'
  <2> DEFINE upload == site.archive[up[p].target]
             c == [up[p] EXCEPT !.upload = upload, !.intact = intact, !.pc = "sums"]
  <2>1. upload \in Uploads
    BY <1>2, TypesOfUp DEF IInv
  <2>2. up' = [up EXCEPT ![p] = c]
    BY <1>1, <1>4
  <2> HIDE DEF upload
  <2>3. /\ c \in Commands /\ c.pc = "sums" /\ c.target = up[p].target
        /\ c.own = up[p].own /\ c.pin = up[p].pin /\ c.force = up[p].force
    BY <1>1, <2>1 DEF Commands, Working
  <2> HIDE DEF c
  <2>4. CommandInv(c, tmp[p], vouched)
    BY <1>2, <2>3 DEF CommandInv, Forward
  <2> QED BY <1>4, <2>2, <2>3, <2>4, MoveStep
<1> QED BY <1>3, <1>4 DEF FetchArchive

\* What is verified is what the release was made of.
LEMMA VerifyStep == ASSUME IInv, NEW p \in Updaters, Verify(p) PROVE IInv'
<1>1. up[p] \in Commands
  BY TypesOfUp DEF IInv
<1>2. tmp[p] = {} /\ up[p].target \in Releases /\ Forward(up[p])
  BY DEF IInv, CommandInv, Verify
<1>3. CASE Goto(p, "failed") /\ Elsewhere(p)
  BY <1>2, <1>3, OverStep
<1>4. CASE Verified(up[p]) /\ Goto(p, "create") /\ Elsewhere(p)
  <2> DEFINE c == At(up[p], "create")
  <2>1. /\ c \in Commands /\ c.pc = "create" /\ c.target = up[p].target
        /\ c.upload = up[p].upload /\ c.intact = up[p].intact
        /\ c.own = up[p].own /\ c.pin = up[p].pin /\ c.force = up[p].force
    BY <1>1, AtType DEF Working
  <2>2. up[p].intact = TRUE /\ <<up[p].target, up[p].upload>> \in vouched
    BY <1>1, <1>2, <1>4 DEF Verified, IInv, SumsInv, Commands
  <2>3. up' = [up EXCEPT ![p] = c]
    BY <1>4 DEF Goto
  <2> HIDE DEF c
  <2>4. CommandInv(c, tmp[p], vouched)
    BY <1>2, <2>1, <2>2 DEF CommandInv, Forward
  <2> QED BY <1>4, <2>1, <2>3, <2>4, MoveStep
<1> QED BY <1>3, <1>4 DEF Verify


\* The temporary file is new.
LEMMA CreateTmpStep == ASSUME IInv, NEW p \in Updaters, CreateTmp(p) PROVE IInv'
<1> DEFINE f == [of |-> up[p].target, upload |-> up[p].upload, whole |-> FALSE,
                 durable |-> FALSE, runs |-> FALSE]
           m == [up[p] EXCEPT !.mode = exe.runs]
           c == At(m, "write")
<1>1. up[p] \in Commands /\ exe \in Files
  BY TypesOfUp DEF IInv
<1>2. /\ tmp[p] = {} /\ up[p].target \in Releases /\ Forward(up[p])
      /\ up[p].intact = TRUE /\ <<up[p].target, up[p].upload>> \in vouched
  BY DEF IInv, CommandInv, CreateTmp
<1>3. CASE Goto(p, "failed") /\ Elsewhere(p)
  BY <1>2, <1>3, OverStep
<1>4. CASE /\ tmp' = [tmp EXCEPT ![p] = {f}] /\ up' = [up EXCEPT ![p] = c]
           /\ UNCHANGED <<exe, managed, site, vouched>>
  <2>1. f \in Files /\ f.of = up[p].target /\ f.upload = up[p].upload
    BY <1>1 DEF Files, Commands
  <2>2. exe.runs = TRUE /\ exe.runs \in BOOLEAN
    BY <1>1 DEF IInv, BinaryInv, Files
  <2>3. /\ m \in Commands /\ m.mode = TRUE /\ m.target = up[p].target
        /\ m.upload = up[p].upload /\ m.intact = up[p].intact
        /\ m.own = up[p].own /\ m.pin = up[p].pin /\ m.force = up[p].force
    BY <1>1, <2>2 DEF Commands
  <2> HIDE DEF f, m
  <2>4. /\ c \in Commands /\ c.pc = "write" /\ c.mode = TRUE /\ c.target = up[p].target
        /\ c.upload = up[p].upload /\ c.intact = up[p].intact
        /\ c.own = up[p].own /\ c.pin = up[p].pin /\ c.force = up[p].force
    BY <2>3, AtType DEF Working
  <2> HIDE DEF c
  <2>5. CommandInv(c, {f}, vouched)
    BY <1>2, <2>1, <2>4 DEF CommandInv, Forward
  <2>6. exe' \in Files /\ BinaryInv' /\ {f} \in SUBSET Files
    BY <1>1, <1>4, <2>1 DEF IInv, BinaryInv
  <2> QED BY <1>4, <2>4, <2>5, <2>6, OneCommand
<1> QED BY <1>3, <1>4 DEF CreateTmp, Elsewhere

\* What the command that replaces the binary keeps from each step to the next.
LEMMA GoesOn ==
  ASSUME NEW u \in Commands, NEW label \in Working
  PROVE  /\ At(u, label) \in Commands /\ At(u, label).pc = label
         /\ At(u, label).target = u.target /\ At(u, label).upload = u.upload
         /\ At(u, label).intact = u.intact /\ At(u, label).mode = u.mode
         /\ Forward(u) => Forward(At(u, label))
  BY AtType, SMT DEF Forward, Working, Returned

\* What is written to it is what was verified.
LEMMA WriteTmpStep == ASSUME IInv, NEW p \in Updaters, WriteTmp(p) PROVE IInv'
<1> DEFINE files == {[f EXCEPT !.whole = up[p].intact] : f \in tmp[p]}
           c == At(up[p], "sync")
<1>1. up[p] \in Commands /\ tmp[p] \in SUBSET Files /\ exe \in Files
  BY TypesOfUp DEF IInv
<1>2. /\ up[p].target \in Releases /\ Forward(up[p]) /\ up[p].intact = TRUE /\ up[p].mode = TRUE
      /\ <<up[p].target, up[p].upload>> \in vouched
      /\ \A f \in tmp[p] : f.of = up[p].target /\ f.upload = up[p].upload
  BY DEF IInv, CommandInv, WriteTmp
<1>3. /\ files \in SUBSET Files
      /\ \A f \in files : f.whole = TRUE /\ f.of = up[p].target /\ f.upload = up[p].upload
  <2>1. ASSUME NEW f \in tmp[p], NEW g, g = [f EXCEPT !.whole = up[p].intact]
        PROVE  /\ g \in Files /\ g.whole = TRUE
               /\ g.of = up[p].target /\ g.upload = up[p].upload
    <3>1. f \in Files /\ up[p].intact \in BOOLEAN
      BY <1>1, <1>2
    <3> QED BY <1>2, <2>1, <3>1 DEF Files
  <2>2. \A g \in files : \E f \in tmp[p] : g = [f EXCEPT !.whole = up[p].intact]
    OBVIOUS
  <2> HIDE DEF files
  <2> QED BY <2>1, <2>2
<1>4. up' = [up EXCEPT ![p] = c] /\ tmp' = [tmp EXCEPT ![p] = files]
  BY DEF WriteTmp, Replacing, Goto
<1>5. /\ c \in Commands /\ c.pc = "sync" /\ c.target = up[p].target /\ c.mode = TRUE
      /\ c.upload = up[p].upload /\ c.intact = TRUE /\ Forward(c)
  BY <1>1, <1>2, GoesOn DEF Working
<1>6. exe' \in Files /\ BinaryInv' /\ UNCHANGED <<managed, site, vouched>>
  BY <1>1 DEF WriteTmp, Replacing, IInv, BinaryInv
<1> HIDE DEF files, c
<1>7. CommandInv(c, files, vouched)
  BY <1>2, <1>3, <1>5 DEF CommandInv
<1> QED BY <1>3, <1>4, <1>5, <1>6, <1>7, OneCommand

\* Once it is synced it outlives a power loss.
LEMMA SyncTmpStep == ASSUME IInv, NEW p \in Updaters, SyncTmp(p) PROVE IInv'
<1> DEFINE files == {[f EXCEPT !.durable = TRUE] : f \in tmp[p]}
           c == At(up[p], "chmod")
<1>1. up[p] \in Commands /\ tmp[p] \in SUBSET Files /\ exe \in Files
  BY TypesOfUp DEF IInv
<1>2. /\ up[p].target \in Releases /\ Forward(up[p]) /\ up[p].intact = TRUE /\ up[p].mode = TRUE
      /\ <<up[p].target, up[p].upload>> \in vouched
      /\ \A f \in tmp[p] : f.of = up[p].target /\ f.upload = up[p].upload /\ f.whole = TRUE
  BY DEF IInv, CommandInv, SyncTmp
<1>3. /\ files \in SUBSET Files
      /\ \A f \in files : /\ f.of = up[p].target /\ f.upload = up[p].upload
                           /\ f.whole = TRUE /\ f.durable = TRUE
  <2>1. ASSUME NEW f \in tmp[p], NEW g, g = [f EXCEPT !.durable = TRUE]
        PROVE  /\ g \in Files /\ g.of = up[p].target /\ g.upload = up[p].upload
               /\ g.whole = TRUE /\ g.durable = TRUE
    <3>1. f \in Files
      BY <1>1
    <3> QED BY <1>2, <2>1, <3>1 DEF Files
  <2>2. \A g \in files : \E f \in tmp[p] : g = [f EXCEPT !.durable = TRUE]
    OBVIOUS
  <2> HIDE DEF files
  <2> QED BY <2>1, <2>2
<1>4. up' = [up EXCEPT ![p] = c] /\ tmp' = [tmp EXCEPT ![p] = files]
  BY DEF SyncTmp, Replacing, Goto
<1>5. /\ c \in Commands /\ c.pc = "chmod" /\ c.target = up[p].target /\ c.mode = TRUE
      /\ c.upload = up[p].upload /\ c.intact = TRUE /\ Forward(c)
  BY <1>1, <1>2, GoesOn DEF Working
<1>6. exe' \in Files /\ BinaryInv' /\ UNCHANGED <<managed, site, vouched>>
  BY <1>1 DEF SyncTmp, Replacing, IInv, BinaryInv
<1> HIDE DEF files, c
<1>7. CommandInv(c, files, vouched)
  BY <1>2, <1>3, <1>5 DEF CommandInv
<1> QED BY <1>3, <1>4, <1>5, <1>6, <1>7, OneCommand

\* It gets the mode of the binary, which somebody could execute.
LEMMA ChmodTmpStep == ASSUME IInv, NEW p \in Updaters, ChmodTmp(p) PROVE IInv'
<1> DEFINE files == {[f EXCEPT !.runs = up[p].mode] : f \in tmp[p]}
           c == At(up[p], "rename")
<1>1. up[p] \in Commands /\ tmp[p] \in SUBSET Files /\ exe \in Files
  BY TypesOfUp DEF IInv
<1>2. /\ up[p].target \in Releases /\ Forward(up[p]) /\ up[p].intact = TRUE /\ up[p].mode = TRUE
      /\ <<up[p].target, up[p].upload>> \in vouched
      /\ \A f \in tmp[p] : /\ f.of = up[p].target /\ f.upload = up[p].upload
                            /\ f.whole = TRUE /\ f.durable = TRUE
  BY DEF IInv, CommandInv, ChmodTmp
<1>3. /\ files \in SUBSET Files
      /\ \A f \in files : /\ f.of = up[p].target /\ f.upload = up[p].upload
                           /\ f.whole = TRUE /\ f.durable = TRUE /\ f.runs = TRUE
  <2>1. ASSUME NEW f \in tmp[p], NEW g, g = [f EXCEPT !.runs = up[p].mode]
        PROVE  /\ g \in Files /\ g.of = up[p].target /\ g.upload = up[p].upload
               /\ g.whole = TRUE /\ g.durable = TRUE /\ g.runs = TRUE
    <3>1. f \in Files /\ up[p].mode \in BOOLEAN
      BY <1>1, <1>2
    <3> QED BY <1>2, <2>1, <3>1 DEF Files
  <2>2. \A g \in files : \E f \in tmp[p] : g = [f EXCEPT !.runs = up[p].mode]
    OBVIOUS
  <2> HIDE DEF files
  <2> QED BY <2>1, <2>2
<1>4. up' = [up EXCEPT ![p] = c] /\ tmp' = [tmp EXCEPT ![p] = files]
  BY DEF ChmodTmp, Replacing, Goto
<1>5. /\ c \in Commands /\ c.pc = "rename" /\ c.target = up[p].target
      /\ c.upload = up[p].upload /\ c.intact = TRUE /\ Forward(c)
  BY <1>1, <1>2, GoesOn DEF Working
<1>6. exe' \in Files /\ BinaryInv' /\ UNCHANGED <<managed, site, vouched>>
  BY <1>1 DEF ChmodTmp, Replacing, IInv, BinaryInv
<1> HIDE DEF files, c
<1>7. CommandInv(c, files, vouched)
  BY <1>2, <1>3, <1>5 DEF CommandInv
<1> QED BY <1>3, <1>4, <1>5, <1>6, <1>7, OneCommand

\* The file that takes the place of the binary is one that nobody can find fault with.
LEMMA RenameStep == ASSUME IInv, NEW p \in Updaters, Rename(p) PROVE IInv'
<1> DEFINE c == At(up[p], "done")
<1>1. up[p] \in Commands /\ tmp[p] \in SUBSET Files
  BY TypesOfUp DEF IInv
<1>2. /\ <<up[p].target, up[p].upload>> \in vouched
      /\ \A f \in tmp[p] : /\ f.of = up[p].target /\ f.upload = up[p].upload
                            /\ f.whole = TRUE /\ f.durable = TRUE /\ f.runs = TRUE
  BY DEF IInv, CommandInv, Rename
<1>3. exe' \in Files /\ BinaryInv'
  BY <1>1, <1>2 DEF Rename, Replacing, BinaryInv
<1>4. up' = [up EXCEPT ![p] = c] /\ tmp' = [tmp EXCEPT ![p] = {}]
  BY DEF Rename, Replacing, Goto
<1>5. c \in Commands /\ CommandInv(c, {}, vouched)
  BY <1>1, AtType, Ended DEF Returned
<1>6. UNCHANGED <<managed, site, vouched>> /\ {} \in SUBSET Files
  BY DEF Rename, Replacing
<1> HIDE DEF c
<1> QED BY <1>3, <1>4, <1>5, <1>6, OneCommand

\* A command that fails has its file to remove.
LEMMA FailsStep == ASSUME IInv, NEW p \in Updaters, Fails(p) PROVE IInv'
<1>1. up[p] \in Commands /\ tmp[p] \in SUBSET Files
  BY TypesOfUp DEF IInv
<1>2. up' = [up EXCEPT ![p] = At(up[p], "clean")] /\ Elsewhere(p)
  BY DEF Fails, Replacing, Goto, Elsewhere
<1>3. At(up[p], "clean") \in Commands
  BY <1>1, GoesOn DEF Working
<1>4. CommandInv(At(up[p], "clean"), tmp[p], vouched)
  BY <1>1, Ended DEF Returned
<1> QED BY <1>2, <1>3, <1>4, MoveStep

\* A command that removes its file leaves none.
LEMMA CleanUpStep == ASSUME IInv, NEW p \in Updaters, CleanUp(p) PROVE IInv'
<1> DEFINE c == At(up[p], "failed")
<1>1. up[p] \in Commands /\ exe \in Files
  BY TypesOfUp DEF IInv
<1>2. up' = [up EXCEPT ![p] = c] /\ tmp' = [tmp EXCEPT ![p] = {}]
  BY DEF CleanUp, Replacing, Goto
<1>3. c \in Commands /\ CommandInv(c, {}, vouched)
  BY <1>1, AtType, Ended DEF Returned
<1>4. exe' \in Files /\ BinaryInv' /\ UNCHANGED <<managed, site, vouched>> /\ {} \in SUBSET Files
  BY <1>1 DEF CleanUp, Replacing, IInv, BinaryInv
<1> HIDE DEF c
<1> QED BY <1>2, <1>3, <1>4, OneCommand


-----------------------------------------------------------------------------
(* The other steps *)

\* A command that is killed may leave its file.
LEMMA KilledStep == ASSUME IInv, NEW p \in Updaters, Killed(p) PROVE IInv'
  BY OverStep DEF Killed

\* What is uploaded meanwhile takes nothing back that was vouched for.
LEMMA SiteKeeps == ASSUME IInv, SiteStep PROVE IInv'
<1>1. /\ site.archive \in [Releases -> Uploads] /\ site.sums \in [Releases -> Uploads]
      /\ site.latest \in Versions /\ vouched \subseteq Versions \X Uploads
  BY TypesOfUp DEF IInv
<1>2. UNCHANGED <<exe, managed, up, tmp>>
  BY DEF SiteStep, Upload, UploadSums, MarkLatest
<1>3. /\ vouched \subseteq vouched' /\ vouched' \subseteq Versions \X Uploads /\ SumsInv'
      /\ site' \in [latest : Versions, archive : [Releases -> Uploads],
                    sums : [Releases -> Uploads]]
  <2> PICK r \in Releases : Upload(r) \/ UploadSums(r) \/ MarkLatest(r)
    BY DEF SiteStep
  <2>0. site \in [latest : Versions, archive : [Releases -> Uploads],
                  sums : [Releases -> Uploads]]
    BY TypesOfUp DEF IInv
  <2>1. CASE Upload(r)
    <3> DEFINE a == [site.archive EXCEPT ![r] = @ + 1]
    <3>1. a \in [Releases -> Uploads]
      BY <1>1 DEF Uploads
    <3>2. site' = [site EXCEPT !.archive = a]
      BY <2>0, <2>1 DEF Upload
    <3> HIDE DEF a
    <3>3. site'.sums = site.sums /\ vouched' = vouched
      BY <2>0, <2>1, <3>2 DEF Upload
    <3> QED BY <1>1, <2>0, <3>1, <3>2, <3>3 DEF IInv, SumsInv
  <2>2. CASE UploadSums(r)
    <3> DEFINE s == [site.sums EXCEPT ![r] = site.archive[r]]
    <3>1. s \in [Releases -> Uploads] /\ site.archive[r] \in Uploads
      BY <1>1
    <3>2. site' = [site EXCEPT !.sums = s]
      BY <2>0, <2>2 DEF UploadSums
    <3>3. \A q \in Releases : s[q] # 0 => <<q, s[q]>> \in vouched'
      BY <1>1, <2>2 DEF UploadSums, IInv, SumsInv
    <3>4. vouched \subseteq vouched' /\ vouched' \subseteq Versions \X Uploads
      BY <1>1, <2>2, <3>1 DEF UploadSums, Versions
    <3> HIDE DEF s
    <3>5. site'.sums = s
      BY <2>0, <3>2
    <3> QED BY <2>0, <3>1, <3>2, <3>3, <3>4, <3>5 DEF SumsInv
  <2>3. CASE MarkLatest(r)
    <3>1. site' = [site EXCEPT !.latest = r] /\ r \in Versions /\ vouched' = vouched
      BY <2>3 DEF MarkLatest, Versions
    <3>2. site'.sums = site.sums
      BY <2>0, <3>1
    <3> QED BY <1>1, <2>0, <3>1, <3>2 DEF IInv, SumsInv
  <2> QED BY <2>1, <2>2, <2>3
<1>4. UpdateTypeOK' /\ BinaryInv'
  BY <1>2, <1>3, TypesOfUp DEF IInv, UpdateTypeOK, BinaryInv
<1>5. ASSUME NEW p \in Updaters PROVE CommandInv(up'[p], tmp'[p], vouched')
  <2>1. CommandInv(up[p], tmp[p], vouched)
    BY DEF IInv
  <2>2. CommandInv(up[p], tmp[p], vouched')
    BY <1>3, <2>1 DEF CommandInv
  <2> QED BY <1>2, <2>2
<1> QED BY <1>3, <1>4, <1>5 DEF IInv

\* The binary was on the disk before it was renamed into its place.
LEMMA PowerLossStep == ASSUME IInv, PowerLoss PROVE IInv'
<1>1. /\ up \in [Updaters -> Commands] /\ tmp \in [Updaters -> SUBSET Files] /\ exe \in Files
      /\ exe.durable = TRUE
  BY TypesOfUp DEF IInv, BinaryInv
<1>2. exe' = exe /\ UNCHANGED <<managed, site, vouched>>
  BY <1>1 DEF PowerLoss, Survives
<1>3. ASSUME NEW f \in Files PROVE Survives(f) \in Files
  BY <1>3 DEF Survives, Files
<1>4. ASSUME NEW p \in Updaters
      PROVE  /\ up'[p] \in Commands /\ tmp'[p] \in SUBSET Files
             /\ CommandInv(up'[p], tmp'[p], vouched)
  <2>1. up[p] \in Commands /\ tmp[p] \in SUBSET Files
    BY <1>1
  <2>2. /\ tmp'[p] = {Survives(f) : f \in tmp[p]}
        /\ up'[p] = IF up[p].pc \in Working THEN At(up[p], "dead") ELSE up[p]
    BY DEF PowerLoss
  <2>3. tmp'[p] \in SUBSET Files
    BY <1>3, <2>1, <2>2
  <2>4. CASE up[p].pc \in Working
    <3>1. At(up[p], "dead") \in Commands
      BY <2>1, AtType DEF Returned
    <3>2. CommandInv(At(up[p], "dead"), tmp'[p], vouched)
      BY <2>1, <2>3, Ended DEF Returned
    <3> QED BY <2>2, <2>3, <2>4, <3>1, <3>2
  <2>5. CASE up[p].pc \notin Working
    <3>1. up'[p] = up[p] /\ CommandInv(up[p], tmp[p], vouched)
      BY <2>2, <2>5 DEF IInv
    <3>2. tmp[p] = {} => tmp'[p] = {}
      BY <2>2
    <3>3. CommandInv(up[p], tmp'[p], vouched)
      BY <2>5, <3>1, <3>2 DEF CommandInv, Working
    <3> QED BY <2>1, <2>3, <3>1, <3>3
  <2> QED BY <2>4, <2>5
<1>5. UpdateTypeOK'
  <2>1. up' \in [Updaters -> Commands] /\ tmp' \in [Updaters -> SUBSET Files]
    BY <1>4 DEF PowerLoss
  <2> QED BY <1>2, <2>1, TypesOfUp DEF IInv, UpdateTypeOK, Commands
<1>6. BinaryInv' /\ SumsInv'
  BY <1>2 DEF IInv, BinaryInv, SumsInv
<1> QED BY <1>2, <1>4, <1>5, <1>6 DEF IInv

-----------------------------------------------------------------------------

\* The invariant holds at first.
LEMMA InitInv == Init => IInv
<1> SUFFICES ASSUME Init PROVE IInv
  OBVIOUS
<1>1. PICK v \in Versions : exe = Installed(v)
  BY DEF Init
<1>2. exe \in Files /\ BinaryInv /\ vouched \subseteq Versions \X Uploads
  BY <1>1 DEF Init, Installed, Files, BinaryInv, Uploads
<1>3. SumsInv
  BY DEF Init, SumsInv
<1>4. /\ up \in [Updaters -> Commands] /\ tmp \in [Updaters -> SUBSET Files]
      /\ \A p \in Updaters : CommandInv(up[p], tmp[p], vouched)
  BY IdleType DEF Init, CommandInv, Idle
<1>5. site \in [latest : Versions, archive : [Releases -> Uploads], sums : [Releases -> Uploads]]
  BY DEF Init, Versions, Uploads
<1>6. managed \in BOOLEAN
  BY DEF Init
<1> QED BY <1>2, <1>3, <1>4, <1>5, <1>6, TypesOfUp DEF IInv

\* Every step keeps it.
LEMMA Step == IInv /\ [Next]_vars => IInv'
<1> SUFFICES ASSUME IInv, [Next]_vars PROVE IInv'
  OBVIOUS
<1>1. CASE UNCHANGED vars
  BY <1>1 DEF vars, IInv, UpdateTypeOK, BinaryInv, SumsInv
<1>2. CASE SiteStep
  BY <1>2, SiteKeeps
<1>3. CASE PowerLoss
  BY <1>3, PowerLossStep
<1>4. ASSUME NEW p \in Updaters, Killed(p) PROVE IInv'
  BY <1>4, KilledStep
<1>5. ASSUME NEW p \in Updaters, UpdateStep(p) PROVE IInv'
  BY <1>5, InvokeStep, ResolveStep, FetchArchiveStep, VerifyStep, CreateTmpStep, WriteTmpStep,
     SyncTmpStep, ChmodTmpStep, RenameStep, FailsStep, CleanUpStep DEF UpdateStep
<1> QED BY <1>1, <1>2, <1>3, <1>4, <1>5 DEF Next, Over

\* The invariant holds of every behaviour of the specification.
THEOREM Inductive == Spec => []IInv
  BY InitInv, Step, PTL DEF Spec

\* Every state is of its type.
THEOREM UpdateTypes == Spec => []UpdateTypeOK
<1>1. IInv => UpdateTypeOK
  BY DEF IInv
<1> QED BY <1>1, Inductive, PTL

\* However many updates replace the binary at once, whatever is uploaded and
\* whenever a process or the machine stops, a complete, executable and verified
\* binary is at the path.
THEOREM BinaryAlways == Spec => []AlwaysABinary
<1>1. IInv => AlwaysABinary
  BY DEF IInv, BinaryInv, AlwaysABinary
<1> QED BY <1>1, Inductive, PTL

\* No update returns, however it ends, before its temporary file is gone.
THEOREM NoTmpLeft == Spec => []LeavesNoTmp
<1>1. IInv => LeavesNoTmp
  BY DEF IInv, CommandInv, LeavesNoTmp, Returned
<1> QED BY <1>1, Inductive, PTL

\* Unless forced or pinned, no update puts an older build in the place of the
\* one that it runs as.
THEOREM Onward == Spec => OnlyForward
<1> DEFINE A == \A p \in Updaters :
       up[p].pc = "rename" /\ up'[p].pc = "done" /\ up[p].own = exe.of /\ ~up[p].force
         => exe.of # Dev /\ (up[p].pin # Dev \/ Newer(exe'.of, exe.of))
<1>1. IInv /\ [Next]_vars => [A]_vars
  <2> SUFFICES ASSUME IInv, Next, NEW p \in Updaters, up[p].pc = "rename", up'[p].pc = "done",
                      up[p].own = exe.of, ~up[p].force
               PROVE  exe.of # Dev /\ (up[p].pin # Dev \/ Newer(exe'.of, exe.of))
    OBVIOUS
  <2>1. Forward(up[p]) /\ \A f \in tmp[p] : f.of = up[p].target
    BY DEF IInv, CommandInv
  <2>2. Rename(p)
    <3>1. up \in [Updaters -> Commands]
      BY TypesOfUp DEF IInv
    <3>2. ASSUME NEW q \in Updaters, UpdateStep(q) \/ Killed(q) PROVE Rename(p)
      <4>1. q = p
        BY <3>1, <3>2 DEF UpdateStep, Killed, Invoke, Resolve, FetchArchive, Verify, CreateTmp,
           WriteTmp, SyncTmp, ChmodTmp, Rename, Fails, CleanUp, Replacing, Goto
      <4>2. ~Fails(p) /\ ~Killed(p)
        BY <3>1, AtType DEF Fails, Killed, Replacing, Goto, Working, Returned
      <4> QED BY <3>2, <4>1, <4>2 DEF UpdateStep, Invoke, Resolve, FetchArchive, Verify,
                 CreateTmp, WriteTmp, SyncTmp, ChmodTmp, CleanUp
    <3>3. up' # up
      OBVIOUS
    <3>4. ~PowerLoss
      BY <3>1, AtType DEF PowerLoss, Working
    <3> QED BY <3>2, <3>3, <3>4 DEF Next, Over, vars, SiteStep, Upload, UploadSums, MarkLatest
  <2>3. exe'.of = up[p].target
    BY <2>1, <2>2 DEF Rename
  <2> QED BY <2>1, <2>3 DEF Forward
<1>2. Spec => [][A]_vars
  BY <1>1, Inductive, PTL DEF Spec
<1> QED BY <1>2 DEF OnlyForward


=============================================================================
