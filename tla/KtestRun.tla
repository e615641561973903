------------------------------ MODULE KtestRun ------------------------------
(***************************************************************************)
(* `cargo kbuild ktest` end to end (run in crates/cargo-kbuild/src/        *)
(* ktest.rs): build, work directory, overlay, ISO, firmware variables, VM, *)
(* log, verdict and cleanup, by several runs that share a file system and  *)
(* may fail or be killed at any step, their VM outliving them.             *)
(*                                                                         *)
(* What build(), the image cache and the console do inside is the matter   *)
(* of BuildPipeline, ImageCache and KtestConsole; a build that succeeds is *)
(* taken here to yield a module of the job's crate and machine.  Files are *)
(* inodes, as in ImageCache: a VM and a log reader keep what they opened.  *)
(* Every run is a process of its own and runs once, so an inode is known   *)
(* by its name and the run that made it.                                   *)
(***************************************************************************)
CONSTANTS
  Runs,        \* the ktest processes
  Jobs,        \* what they are asked for
  None,
  Overlap,     \* may two runs that share a name be at work at once?
  RemoveFails  \* may removing a file or directory fail, or stop half way?

Machine == {"amd64", "arm64"}

\* A job names a crate, a machine, the target directory, where --out puts the
\* module (a directory and a file stem) and whether --keep is given.
ASSUME RunAssumption ==
  /\ \A j \in Jobs : j.machine \in Machine /\ j.keep \in BOOLEAN
  /\ Overlap \in BOOLEAN /\ RemoveFails \in BOOLEAN
  /\ None \notin Jobs

\* A module is known by the run whose build made it, from what source ever.
Module == [crate : {j.crate : j \in Jobs}, machine : Machine, by : Runs]

-----------------------------------------------------------------------------
(* Names.                                                                  *)

\* Mutant: the work directory is the target directory's, whatever the module.
SharedWorkDir(j) == <<j.target, "module">>
\* target_dir/ktest-work/<module_name>; the module's name is its file's stem.
WorkDir(j)   == <<j.target, j.stem>>
Out(j)       == <<"ko", <<j.dir, j.stem>>>>
Overlay(j)   == <<"overlay", WorkDir(j)>>
Source(j)    == <<"source", WorkDir(j)>>
Iso(j)       == <<"iso", WorkDir(j)>>
Log(j)       == <<"log", WorkDir(j)>>
Vars         == <<"vars", <<"tmp", "tmp">>>>   \* in the temporary directory
Scratch(j)   == {Overlay(j), Source(j), Iso(j)}
WorkFiles(j) == Scratch(j) \cup {Log(j)}

Names  == {Vars} \cup {Out(j) : j \in Jobs} \cup UNION {WorkFiles(j) : j \in Jobs}
Inodes == Names \X Runs

ASSUME NoneAssumption == None \notin Inodes \cup Module

\* What qemu is told to open.
Drives(j) == {Overlay(j), Iso(j)} \cup {n \in {Vars} : j.machine = "arm64"}
Disposable(i) == i[1][1] \in {"overlay", "vars"}

\* Two jobs that may run side by side: other modules, or other directories for
\* both the build and --out; and one variable store serves one arm64 run.
Apart(j, k) == /\ j.stem # k.stem \/ (j.target # k.target /\ j.dir # k.dir)
               /\ ~(j.machine = "arm64" /\ k.machine = "arm64")

-----------------------------------------------------------------------------
VARIABLES
  dir,       \* name -> inode
  holds,     \* inode -> the whole module in it, None if it holds no such thing
  dirty,     \* inodes a guest has written: a used overlay or variable store,
             \* a log with a panic in it
  pc, job,   \* where each run is, and what it was asked for
  own,       \* the module its build made
  result,    \* what boot_and_test has come to, "ok" or "err"
  verdict,   \* what run returned; "none" while it runs
  qemu, vm,  \* its VM, and the inodes that has open
  log,       \* the inode its reader thread writes
  tested,    \* the module its guest loaded and unloaded
  panicked   \* did its guest panic?

files == <<dir, holds, dirty>>
guest == <<qemu, vm, tested, panicked>>
vars  == <<files, pc, job, own, result, verdict, guest, log>>

PC == {"idle", "build", "copy", "image", "work", "overlay", "source", "iso", "firmware",
       "spawn", "log", "test", "check", "cleanup", "done", "dead"}

TypeOK ==
  /\ dir \in [Names -> Inodes \cup {None}]
  /\ holds \in [Inodes -> Module \cup {None}] /\ dirty \subseteq Inodes
  /\ pc \in [Runs -> PC] /\ job \in [Runs -> Jobs \cup {None}]
  /\ own \in [Runs -> Module \cup {None}]
  /\ result \in [Runs -> {"ok", "err"}] /\ verdict \in [Runs -> {"none", "pass", "fail"}]
  /\ qemu \in [Runs -> {"none", "starting", "up", "gone"}]
  /\ vm \in [Runs -> SUBSET Inodes] /\ log \in [Runs -> Inodes \cup {None}]
  /\ tested \in [Runs -> Module \cup {None}] /\ panicked \in [Runs -> BOOLEAN]

Init ==
  /\ dir = [n \in Names |-> None] /\ holds = [i \in Inodes |-> None] /\ dirty = {}
  /\ pc = [r \in Runs |-> "idle"] /\ job = [r \in Runs |-> None]
  /\ own = [r \in Runs |-> None] /\ result = [r \in Runs |-> "ok"]
  /\ verdict = [r \in Runs |-> "none"]
  /\ qemu = [r \in Runs |-> "none"] /\ vm = [r \in Runs |-> {}]
  /\ log = [r \in Runs |-> None]
  /\ tested = [r \in Runs |-> None] /\ panicked = [r \in Runs |-> FALSE]

-----------------------------------------------------------------------------
(* File system.                                                            *)

\* Where an open for writing leads: the file that is there, or a new one.
Target(r, n) == IF dir[n] = None THEN <<n, r>> ELSE dir[n]

\* Open for writing: truncated if it exists; content is what is written then.
Create(r, n, content) ==
  /\ dir' = [dir EXCEPT ![n] = Target(r, n)]
  /\ holds' = [holds EXCEPT ![Target(r, n)] = content]
  /\ dirty' = dirty \ {Target(r, n)}

\* A removal whose error is ignored.
Remove(names) ==
  /\ \E left \in IF RemoveFails THEN SUBSET names ELSE {{}} :
       dir' = [n \in Names |-> IF n \in names \ left THEN None ELSE dir[n]]
  /\ UNCHANGED <<holds, dirty>>

-----------------------------------------------------------------------------
(* A run.                                                                  *)

Active(r) == pc[r] \notin {"idle", "done", "dead"}
VmUp(r)   == qemu[r] \in {"starting", "up"}

Goto(r, from, to) == pc[r] = from /\ pc' = [pc EXCEPT ![r] = to]

Start(r, j) ==
  /\ Goto(r, "idle", "build")
  /\ Overlap \/ \A q \in Runs : Active(q) \/ VmUp(q) => Apart(j, job[q])
  /\ job' = [job EXCEPT ![r] = j]
  /\ UNCHANGED <<files, own, result, verdict, guest, log>>

\* build() up to its last step, fs::copy, which first truncates the target.
Build(r) ==
  /\ Goto(r, "build", "copy")
  /\ own' = [own EXCEPT ![r] = [crate |-> job[r].crate, machine |-> job[r].machine,
                                by |-> r]]
  /\ Create(r, Out(job[r]), None)
  /\ UNCHANGED <<job, result, verdict, guest, log>>

CopyOut(r) ==
  /\ Goto(r, "copy", "image")
  /\ holds' = [holds EXCEPT ![dir[Out(job[r])]] = own[r]]
  /\ UNCHANGED <<dir, dirty, job, own, result, verdict, guest, log>>

\* The module's path is resolved, and the cache yields a base image.
Image(r) ==
  /\ Goto(r, "image", "work")
  /\ UNCHANGED <<files, job, own, result, verdict, guest, log>>

ClearWork(r) ==
  /\ Goto(r, "work", "overlay")
  /\ Remove(WorkFiles(job[r]))
  /\ UNCHANGED <<job, own, result, verdict, guest, log>>

\* Mutant: an overlay that is there is used again.
KeepOverlay(r) ==
  /\ Goto(r, "overlay", "source")
  /\ IF dir[Overlay(job[r])] = None THEN Create(r, Overlay(job[r]), None)
     ELSE UNCHANGED files
  /\ UNCHANGED <<job, own, result, verdict, guest, log>>
\* qemu-img create.
CreateOverlay(r) ==
  /\ Goto(r, "overlay", "source")
  /\ Create(r, Overlay(job[r]), None)
  /\ UNCHANGED <<job, own, result, verdict, guest, log>>

\* The module is read by its path, long after build() returned that.
CopyModule(r) ==
  /\ Goto(r, "source", "iso")
  /\ dir[Out(job[r])] # None
  /\ Create(r, Source(job[r]), holds[dir[Out(job[r])]])
  /\ UNCHANGED <<job, own, result, verdict, guest, log>>

AfterIso(r) == IF job[r].machine = "arm64" THEN "firmware" ELSE "spawn"

\* Mutant: an ISO that is there is used again.
KeepIso(r) ==
  /\ Goto(r, "iso", AfterIso(r))
  /\ dir[Source(job[r])] # None
  /\ IF dir[Iso(job[r])] = None
     THEN Create(r, Iso(job[r]), holds[dir[Source(job[r])]])
     ELSE UNCHANGED files
  /\ UNCHANGED <<job, own, result, verdict, guest, log>>
\* build_iso: the old image is removed, or, where that fails, overwritten.
BuildIso(r) ==
  /\ Goto(r, "iso", AfterIso(r))
  /\ dir[Source(job[r])] # None
  /\ LET i == <<Iso(job[r]), r>>
         m == holds[dir[Source(job[r])]]
     IN  \/ /\ dir' = [dir EXCEPT ![Iso(job[r])] = i]
            /\ holds' = [holds EXCEPT ![i] = m]
            /\ UNCHANGED dirty
         \/ RemoveFails /\ Create(r, Iso(job[r]), m)
  /\ UNCHANGED <<job, own, result, verdict, guest, log>>

\* aarch64_firmware: File::create and set_len make a blank variable store.
Firmware(r) ==
  /\ Goto(r, "firmware", "spawn")
  /\ Create(r, Vars, None)
  /\ UNCHANGED <<job, own, result, verdict, guest, log>>

SpawnQemu(r) ==
  /\ Goto(r, "spawn", "log")
  /\ qemu' = [qemu EXCEPT ![r] = "starting"]
  /\ UNCHANGED <<files, job, own, result, verdict, vm, tested, panicked, log>>

\* Console::spawn creates console.log.
OpenLog(r) ==
  /\ Goto(r, "log", "test")
  /\ Create(r, Log(job[r]), None)
  /\ log' = [log EXCEPT ![r] = Target(r, Log(job[r]))]
  /\ UNCHANGED <<job, own, result, verdict, guest>>

\* The VM is gone and the reader has drained its output into the log.
Join(r) ==
  /\ Goto(r, "test", "check")
  /\ qemu[r] = "gone"
  /\ dirty' = dirty \cup {i \in {log[r]} : panicked[r]}
  /\ \/ tested[r] # None /\ UNCHANGED result
     \/ result' = [result EXCEPT ![r] = "err"]
  /\ UNCHANGED <<dir, holds, job, own, verdict, guest, log>>

\* The log is read by its path; one that cannot be read is the empty text.
Check(r) ==
  /\ Goto(r, "check", "cleanup")
  /\ result' = [result EXCEPT ![r] = IF dir[Log(job[r])] \in dirty THEN "err" ELSE @]
  /\ UNCHANGED <<files, job, own, verdict, guest, log>>

\* Mutant: what boot_and_test came to is returned as it is.
ReturnRaw(r, res) == verdict' = [verdict EXCEPT ![r] = res]
Return(r, res) ==
  verdict' = [verdict EXCEPT ![r] = IF res = "ok" THEN "pass" ELSE "fail"]

\* Mutant: the whole work directory goes, the log with it.
CleanupAll(r) ==
  /\ Goto(r, "cleanup", "done")
  /\ IF job[r].keep THEN UNCHANGED files ELSE Remove(WorkFiles(job[r]))
  /\ Return(r, result[r])
  /\ UNCHANGED <<job, own, result, guest, log>>
\* Without --keep the overlay, the ISO and its source go; the log stays.
Cleanup(r) ==
  /\ Goto(r, "cleanup", "done")
  /\ IF job[r].keep THEN UNCHANGED files ELSE Remove(Scratch(job[r]))
  /\ Return(r, result[r])
  /\ UNCHANGED <<job, own, result, guest, log>>

\* An error before boot_and_test leaves run at once, the files as they are.
FailEarly(r) ==
  /\ pc[r] \in {"build", "copy", "image", "work", "overlay", "source", "iso"}
  /\ pc' = [pc EXCEPT ![r] = "done"]
  /\ Return(r, "err")
  /\ UNCHANGED <<files, job, own, result, guest, log>>

\* boot_and_test returns an error before the script: no firmware, no qemu, or
\* no log, in which case qemu is left running.
FailBoot(r) ==
  /\ pc[r] \in {"firmware", "spawn", "log"}
  /\ pc' = [pc EXCEPT ![r] = "cleanup"]
  /\ result' = [result EXCEPT ![r] = "err"]
  /\ UNCHANGED <<files, job, own, verdict, guest, log>>

\* ktest is killed; its VM may outlive it.
Kill(r) ==
  /\ Active(r) /\ pc' = [pc EXCEPT ![r] = "dead"]
  /\ UNCHANGED <<files, job, own, result, verdict, guest, log>>

-----------------------------------------------------------------------------
(* qemu and the guest (external).                                          *)

\* qemu opens its drives by name; one that is missing ends it.
QemuOpens(r) ==
  /\ qemu[r] = "starting" /\ \A n \in Drives(job[r]) : dir[n] # None
  /\ qemu' = [qemu EXCEPT ![r] = "up"]
  /\ vm' = [vm EXCEPT ![r] = {dir[n] : n \in Drives(job[r])}]
  /\ UNCHANGED <<files, pc, job, own, result, verdict, tested, panicked, log>>

QemuExits(r) ==
  /\ VmUp(r)
  /\ qemu' = [qemu EXCEPT ![r] = "gone"] /\ vm' = [vm EXCEPT ![r] = {}]
  /\ UNCHANGED <<files, pc, job, own, result, verdict, tested, panicked, log>>

GuestWrites(r) ==
  /\ dirty' = dirty \cup {i \in vm[r] : Disposable(i)}
  /\ UNCHANGED <<dir, holds, pc, job, own, result, verdict, guest, log>>

\* All five commands succeed on the module found on the CD.
GuestTests(r) ==
  /\ pc[r] = "test" /\ tested[r] = None /\ ~panicked[r]
  /\ \E i \in vm[r] :
       /\ i[1][1] = "iso" /\ holds[i] # None /\ holds[i].machine = job[r].machine
       /\ tested' = [tested EXCEPT ![r] = holds[i]]
  /\ UNCHANGED <<files, pc, job, own, result, verdict, qemu, vm, panicked, log>>

GuestPanics(r) ==
  /\ qemu[r] = "up" /\ panicked' = [panicked EXCEPT ![r] = TRUE]
  /\ UNCHANGED <<files, pc, job, own, result, verdict, qemu, vm, tested, log>>

Step(r) ==
  \/ \E j \in Jobs : Start(r, j)
  \/ Build(r) \/ CopyOut(r) \/ Image(r) \/ ClearWork(r) \/ CreateOverlay(r)
  \/ CopyModule(r) \/ BuildIso(r) \/ Firmware(r) \/ SpawnQemu(r) \/ OpenLog(r)
  \/ Join(r) \/ Check(r) \/ Cleanup(r) \/ FailEarly(r) \/ FailBoot(r) \/ Kill(r)

VmStep(r) ==
  QemuOpens(r) \/ QemuExits(r) \/ GuestWrites(r) \/ GuestTests(r) \/ GuestPanics(r)

Next == \E r \in Runs : Step(r) \/ VmStep(r)

Spec == Init /\ [][Next]_vars

-----------------------------------------------------------------------------
(* Properties.                                                             *)

\* "builds the module ... and then boots it inside a real FreeBSD VM ... to
\* prove it actually `kldload`s" (ktest.rs:1-3): a pass is about the module
\* this very run built, not one an earlier or another run left in a file of
\* the same name, and not a part of one.
PassTestedOwnModule ==
  \A r \in Runs : verdict[r] = "pass" => tested[r] = own[r]

\* A guest's disks are those of this run: a "disposable qcow2 overlay" (ktest.rs:
\* 7-8) and a "blank writable vars pflash" (ktest.rs:692-694) no guest has
\* written before, although earlier runs may have left theirs behind.
FreshDisks ==
  [][\A r \in Runs : qemu[r] = "starting" /\ qemu'[r] = "up" =>
       \A i \in vm'[r] : i \notin dirty]_vars

\* While a VM is up no run replaces the module on its CD or truncates its
\* overlay or variable store (README.md: "Every run boots a disposable qcow2
\* overlay ... and hands the module to the guest").
VmFilesStay ==
  [][\A r \in Runs : qemu[r] = "up" /\ qemu'[r] = "up" =>
       \A i \in vm[r] : holds'[i] = holds[i] /\ (i \in dirty => i \in dirty')]_vars

\* "ktest FAILED; full console log: <path>" (ktest.rs:205-208): once there was a
\* console, what stands at that path is the log of this run's VM.
FailureNamesOwnLog ==
  [][\A r \in Runs : verdict[r] = "none" /\ verdict'[r] = "fail" /\ log[r] # None =>
       dir'[Log(job[r])] = log[r]]_vars

\* Each run keeps the contract of KtestContract with respect to its own module
\* and its own guest, whatever the others do: the five commands count as
\* completed when they were carried out on the module this run built.
Contract(r) == INSTANCE KtestContract
  WITH NSteps <- 1,
       completed <- {k \in {1} : tested[r] # None /\ tested[r] = own[r]},
       panicked <- panicked[r], verdict <- verdict[r]
ContractsBegin == \A r \in Runs : Contract(r)!Init
ContractsStep  == \A r \in Runs : [Contract(r)!Next]_(Contract(r)!cvars)
EachRunKeepsContract == ContractsBegin /\ [][ContractsStep]_vars
=============================================================================
