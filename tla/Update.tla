------------------------------- MODULE Update -------------------------------
(***************************************************************************)
(* pawl update: internal/cli/update.go and internal/selfupdate.  Several    *)
(* updates may run at once, releases are published meanwhile, downloads     *)
(* fail or arrive damaged, and a process or the machine may stop between    *)
(* any two steps of the replacement of the binary.                          *)
(***************************************************************************)
EXTENDS Naturals, FiniteSets

CONSTANTS Updaters,     \* the processes that run pawl update, each of them once
          Releases,     \* the versions there may be: [core |-> 1.., rc |-> 0..]
          MaxUploads    \* bound: how often the archive of each release is uploaded

ASSUME ReleasesAssumption ==
  /\ Releases \subseteq [core : Nat \ {0}, rc : Nat]
  /\ MaxUploads \in [Releases -> Nat]

\* A build whose version does not parse; where a version is expected, none.
Dev == [core |-> 0, rc |-> 0]

VARIABLES
  exe,       \* the file at the path of the binary
  managed,   \* that path is inside the plugin
  up,        \* each pawl update: where it stands and what it has read
  tmp,       \* per process, its temporary file in the directory: none or one
  site,      \* the releases on GitHub
  vouched    \* history: every <<release, upload>> that a checksums.txt named

vars == <<exe, managed, up, tmp, site, vouched>>

Versions == Releases \cup {Dev}
Uploads == Nat

\* A file: the build in it, whether it is complete, on the disk, executable.
Files == [of : Versions, upload : Uploads, whole : BOOLEAN,
          durable : BOOLEAN, runs : BOOLEAN]

Installed(v) == [of |-> v, upload |-> 0, whole |-> TRUE, durable |-> TRUE, runs |-> TRUE]

Idle == [pc |-> "idle", own |-> Dev, pin |-> Dev, force |-> FALSE, target |-> Dev,
         upload |-> 0, intact |-> FALSE, mode |-> FALSE]

\* The updates that have returned, and those that are under way.
Returned == {"done", "refused", "failed"}
Working == {"resolve", "archive", "sums", "create", "write", "sync", "chmod", "rename", "clean"}

UpdateTypeOK ==
  /\ exe \in Files /\ managed \in BOOLEAN
  /\ up \in [Updaters -> [pc : {"idle", "dead"} \cup Working \cup Returned,
                          own : Versions, pin : Versions, force : BOOLEAN,
                          target : Versions, upload : Uploads, intact : BOOLEAN,
                          mode : BOOLEAN]]
  /\ tmp \in [Updaters -> SUBSET Files]
  /\ site \in [latest : Versions, archive : [Releases -> Uploads],
               sums : [Releases -> Uploads]]
  /\ vouched \subseteq Versions \X Uploads

Init ==
  /\ exe \in {Installed(v) : v \in Versions} /\ managed \in BOOLEAN
  /\ up = [p \in Updaters |-> Idle] /\ tmp = [p \in Updaters |-> {}]
  /\ site = [latest |-> Dev, archive |-> [r \in Releases |-> 0],
             sums |-> [r \in Releases |-> 0]]
  /\ vouched = {<<exe.of, 0>>}

\* A command that is over remembers nothing.
At(u, label) == IF label \in Working THEN [u EXCEPT !.pc = label] ELSE [Idle EXCEPT !.pc = label]

Goto(p, label) == up' = [up EXCEPT ![p] = At(@, label)]
Elsewhere(p) == UNCHANGED <<exe, managed, tmp, site, vouched>>

-----------------------------------------------------------------------------
(* The release site *)

\* An archive is uploaded, again if need be; then checksums.txt names it.
Upload(r) ==
  /\ site.archive[r] < MaxUploads[r]
  /\ site' = [site EXCEPT !.archive[r] = @ + 1]
  /\ UNCHANGED <<exe, managed, up, tmp, vouched>>

UploadSums(r) ==
  /\ site.archive[r] # site.sums[r]
  /\ site' = [site EXCEPT !.sums[r] = site.archive[r]]
  /\ vouched' = vouched \cup {<<r, site.archive[r]>>}
  /\ UNCHANGED <<exe, managed, up, tmp>>

-----------------------------------------------------------------------------
(* Deciding *)

\* A pre-release is older than its release; two compare by their numbers.
Newer(a, b) ==
  \/ a.core > b.core
  \/ a.core = b.core /\ a.rc # b.rc /\ (a.rc = 0 \/ (b.rc # 0 /\ a.rc > b.rc))

\* The latest release is the newest complete one that is not a pre-release.
MarkLatest(r) ==
  /\ r.rc = 0 /\ site.sums[r] # 0 /\ Newer(r, site.latest)
  /\ site' = [site EXCEPT !.latest = r]
  /\ UNCHANGED <<exe, managed, up, tmp, vouched>>

\* The command starts as the build that is installed, with the flags given.
\* The plugin's binary is refused in every mode, a source build without --force.
Invoke(p) ==
  /\ up[p].pc = "idle" /\ exe.whole /\ exe.runs
  /\ \E pin \in Versions, force \in BOOLEAN :
       up' = [up EXCEPT ![p] =
                At([Idle EXCEPT !.own = exe.of, !.pin = pin, !.force = force],
                   IF managed \/ (exe.of = Dev /\ ~force) THEN "refused" ELSE "resolve")]
  /\ Elsewhere(p)

\* Mutant: only the very same version is left alone.
NothingToDoOnlyIfSame(u, target) == ~u.force /\ u.own # Dev /\ target = u.own

\* Already there, or newer than what is to be had; a pin may go back.
NothingToDo(u, target) ==
  /\ ~u.force /\ u.own # Dev
  /\ target = u.own \/ (u.pin = Dev /\ Newer(u.own, target))

\* The pinned release, or what the site calls the latest by now.
Target(u) == IF u.pin # Dev THEN u.pin ELSE site.latest

Resolve(p) ==
  LET target == Target(up[p])
  IN /\ up[p].pc = "resolve"
     /\ \/ /\ target # Dev
           /\ up' = [up EXCEPT ![p] =
                        At([@ EXCEPT !.target = target],
                           IF NothingToDo(@, target) THEN "done" ELSE "archive")]
        \/ Goto(p, "failed")
     /\ Elsewhere(p)

-----------------------------------------------------------------------------
(* Apply: download and verify *)

\* The archive as it is now, perhaps damaged on its way, or an error.
FetchArchive(p) ==
  LET upload == site.archive[up[p].target]
  IN /\ up[p].pc = "archive"
     /\ \/ /\ upload # 0
           /\ \E intact \in BOOLEAN :
                up' = [up EXCEPT ![p].upload = upload, ![p].intact = intact,
                                 ![p].pc = "sums"]
        \/ Goto(p, "failed")
     /\ Elsewhere(p)

\* Mutant: without a line for the archive there is nothing to compare with.
VerifiedUnlessNamed(u) == site.sums[u.target] # 0 => u.intact /\ u.upload = site.sums[u.target]

\* The checksum now published for the archive is that of what was downloaded.
Verified(u) == site.sums[u.target] # 0 /\ u.intact /\ u.upload = site.sums[u.target]

\* checksums.txt is fetched, the archive compared and the binary extracted.
Verify(p) ==
  /\ up[p].pc = "sums"
  /\ \/ Verified(up[p]) /\ Goto(p, "create")
     \/ Goto(p, "failed")
  /\ Elsewhere(p)

-----------------------------------------------------------------------------
(* AtomicReplace *)

Replacing(p, label) == Goto(p, label) /\ UNCHANGED <<managed, site, vouched>>

\* Mutant: the error of the renaming is returned without the removal.
FailsLeavingTmp(p) ==
  /\ up[p].pc \in {"write", "sync", "chmod", "rename"}
  /\ Replacing(p, IF up[p].pc = "rename" THEN "failed" ELSE "clean") /\ UNCHANGED <<exe, tmp>>

\* Any error after the temporary file is made goes through its removal.
Fails(p) ==
  /\ up[p].pc \in {"write", "sync", "chmod", "rename"}
  /\ Replacing(p, "clean") /\ UNCHANGED <<exe, tmp>>

CleanUp(p) ==
  /\ up[p].pc = "clean"
  /\ tmp' = [tmp EXCEPT ![p] = {}]
  /\ Replacing(p, "failed") /\ UNCHANGED exe

\* The mode of the binary is read; then an empty file that nobody may execute
\* is made, if the directory can be written.
CreateTmp(p) ==
  /\ up[p].pc = "create"
  /\ \/ /\ tmp' = [tmp EXCEPT ![p] =
                     {[of |-> up[p].target, upload |-> up[p].upload, whole |-> FALSE,
                       durable |-> FALSE, runs |-> FALSE]}]
        /\ up' = [up EXCEPT ![p] = At([@ EXCEPT !.mode = exe.runs], "write")]
     \/ Goto(p, "failed") /\ UNCHANGED tmp
  /\ UNCHANGED <<exe, managed, site, vouched>>

WriteTmp(p) ==
  /\ up[p].pc = "write"
  /\ tmp' = [tmp EXCEPT ![p] = {[f EXCEPT !.whole = up[p].intact] : f \in @}]
  /\ Replacing(p, "sync") /\ UNCHANGED exe

\* The content is synced to the disk, and the file closed.
SyncTmp(p) ==
  /\ up[p].pc = "sync"
  /\ tmp' = [tmp EXCEPT ![p] = {[f EXCEPT !.durable = TRUE] : f \in @}]
  /\ Replacing(p, "chmod") /\ UNCHANGED exe

\* The file is given the mode that was read.
ChmodTmp(p) ==
  /\ up[p].pc = "chmod"
  /\ tmp' = [tmp EXCEPT ![p] = {[f EXCEPT !.runs = up[p].mode] : f \in @}]
  /\ Replacing(p, "rename") /\ UNCHANGED exe

\* Over whatever binary is at the path by now.
Rename(p) ==
  /\ up[p].pc = "rename"
  /\ exe' \in tmp[p]
  /\ tmp' = [tmp EXCEPT ![p] = {}]
  /\ Replacing(p, "done")

-----------------------------------------------------------------------------
(* Crashes *)

Killed(p) ==
  /\ up[p].pc \in Working
  /\ Goto(p, "dead") /\ Elsewhere(p)

\* The machine stops: every process is gone, and so is the content that was not
\* synced.  Modes and names are taken to reach the disk in the order in which
\* they were changed: nothing syncs the chmod, and a file system that kept a
\* rename and lost the chmod before it would leave a binary that does not run.
Survives(f) == IF f.durable THEN f ELSE [f EXCEPT !.whole = FALSE]

PowerLoss ==
  /\ \E p \in Updaters : up[p].pc \in Working
  /\ exe' = Survives(exe)
  /\ tmp' = [p \in Updaters |-> {Survives(f) : f \in tmp[p]}]
  /\ up' = [p \in Updaters |-> IF up[p].pc \in Working THEN At(up[p], "dead") ELSE up[p]]
  /\ UNCHANGED <<managed, site, vouched>>

-----------------------------------------------------------------------------

UpdateStep(p) ==
  \/ Invoke(p) \/ Resolve(p) \/ FetchArchive(p) \/ Verify(p)
  \/ CreateTmp(p) \/ WriteTmp(p) \/ SyncTmp(p) \/ ChmodTmp(p) \/ Rename(p) \/ Fails(p) \/ CleanUp(p)

SiteStep == \E r \in Releases : Upload(r) \/ UploadSums(r) \/ MarkLatest(r)

Over == (\A p \in Updaters : up[p].pc \in Returned \cup {"dead"}) /\ UNCHANGED vars

Next == SiteStep \/ PowerLoss \/ Over \/ \E p \in Updaters : UpdateStep(p) \/ Killed(p)

Spec == Init /\ [][Next]_vars

-----------------------------------------------------------------------------
(* What holds *)

\* Whoever starts pawl finds a complete and executable binary, and one that a
\* checksums.txt named (or the first): however many updates replace it at once,
\* whatever is uploaded between their downloads, and after a power loss.
AlwaysABinary == exe.whole /\ exe.runs /\ <<exe.of, exe.upload>> \in vouched

\* An update that returns, with whatever error, leaves no temporary file.
LeavesNoTmp == \A p \in Updaters : up[p].pc \in Returned => tmp[p] = {}

\* Without --force a source build is not replaced, and without --version no
\* build by an older one, as long as the file is still the build that runs.
\* Two updates at once may go back: each compares with the build it runs as.
OnlyForward ==
  [][\A p \in Updaters :
       up[p].pc = "rename" /\ up'[p].pc = "done" /\ up[p].own = exe.of /\ ~up[p].force
         => exe.of # Dev /\ (up[p].pin # Dev \/ Newer(exe'.of, exe.of))]_vars

=============================================================================
