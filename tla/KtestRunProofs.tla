--------------------------- MODULE KtestRunProofs ---------------------------
(***************************************************************************)
(* Theorems about KtestRun, for any number of runs and any set of jobs.    *)
(***************************************************************************)
EXTENDS KtestRun, Naturals, TLAPS

-----------------------------------------------------------------------------
(* Names.                                                                  *)

\* The names a job's run may create, write or remove.
Mine(j) == WorkFiles(j) \cup {Out(j)} \cup {n \in {Vars} : j.machine = "arm64"}

\* A job's names are names, and no two of them are one.
LEMMA JobNames ==
  ASSUME NEW j \in Jobs
  PROVE  /\ Mine(j) \subseteq Names /\ Drives(j) \subseteq Mine(j)
         /\ Scratch(j) \subseteq WorkFiles(j) /\ WorkFiles(j) \subseteq Mine(j)
         /\ {Overlay(j), Source(j), Iso(j), Log(j), Out(j)} \subseteq Mine(j)
         /\ Overlay(j) \notin {Source(j), Iso(j), Log(j), Out(j), Vars}
         /\ Source(j) \notin {Iso(j), Log(j), Out(j), Vars}
         /\ Iso(j) \notin {Log(j), Out(j), Vars}
         /\ Log(j) \notin {Out(j), Vars} \cup Scratch(j) /\ Out(j) # Vars
         /\ Out(j) \notin WorkFiles(j) /\ Log(j) \notin Drives(j)
         /\ Vars \in Names
  BY DEF Mine, Names, Drives, Scratch, WorkFiles, Overlay, Source, Iso, Log, Out, Vars

\* What kind of file the names stand for.
LEMMA Kinds ==
  ASSUME NEW j \in Jobs, NEW n \in Drives(j)
  PROVE  /\ n[1] \in {"overlay", "iso", "vars"}
         /\ n[1] = "iso" => n = Iso(j)
         /\ n = Iso(j) => n[1] = "iso"
         /\ Log(j)[1] = "log"
  BY DEF Drives, Overlay, Iso, Vars, Log

\* Jobs that may run side by side share no name.
LEMMA ApartNames ==
  ASSUME NEW j \in Jobs, NEW k \in Jobs, Apart(j, k)
  PROVE  Mine(j) \cap Mine(k) = {} /\ Apart(k, j)
  BY DEF Apart, Mine, WorkFiles, Scratch, Overlay, Source, Iso, Log, Out, Vars, WorkDir

LEMMA JobFields ==
  ASSUME NEW j \in Jobs
  PROVE  j # None /\ j.machine \in Machine /\ j.keep \in BOOLEAN
         /\ \A r \in Runs : [crate |-> j.crate, machine |-> j.machine, by |-> r] \in Module
  BY RunAssumption DEF Module

-----------------------------------------------------------------------------
(* The file system.                                                        *)

\* A name leads to an inode made for that name.
DirNames == \A n \in Names : dir[n] # None => dir[n][1] = n

FileTypes ==
  /\ dir \in [Names -> Inodes \cup {None}]
  /\ holds \in [Inodes -> Module \cup {None}] /\ dirty \subseteq Inodes

\* What creating a file does to it, and that it does nothing to the others.
LEMMA Created ==
  ASSUME FileTypes, DirNames, NEW r \in Runs, NEW n \in Names,
         NEW content \in Module \cup {None}, Create(r, n, content)
  PROVE  /\ FileTypes' /\ DirNames' /\ Target(r, n) \in Inodes /\ Target(r, n)[1] = n
         /\ dir'[n] = Target(r, n) /\ dir'[n] # None
         /\ holds'[dir'[n]] = content /\ dir'[n] \notin dirty'
         /\ \A m \in Names : m # n => dir'[m] = dir[m]
         /\ \A i \in Inodes : i[1] # n =>
              holds'[i] = holds[i] /\ (i \in dirty' <=> i \in dirty)
  <1>1. Target(r, n) \in Inodes /\ Target(r, n)[1] = n /\ Target(r, n) # None
    BY NoneAssumption DEF Target, Inodes, FileTypes, DirNames
  <1>2. /\ dir' = [dir EXCEPT ![n] = Target(r, n)]
        /\ holds' = [holds EXCEPT ![Target(r, n)] = content]
        /\ dirty' = dirty \ {Target(r, n)}
    BY DEF Create
  <1> HIDE DEF Target
  <1>3. FileTypes'
    BY <1>1, <1>2 DEF FileTypes
  <1>4. DirNames'
    BY <1>1, <1>2 DEF FileTypes, DirNames
  <1> QED
    BY <1>1, <1>2, <1>3, <1>4 DEF FileTypes

\* What removing files does.
LEMMA Removed ==
  ASSUME FileTypes, DirNames, NEW names \in SUBSET Names, Remove(names)
  PROVE  /\ FileTypes' /\ DirNames' /\ holds' = holds /\ dirty' = dirty
         /\ \A m \in Names : dir'[m] \in {dir[m], None}
         /\ \A m \in Names \ names : dir'[m] = dir[m]
  BY DEF Remove, FileTypes, DirNames

-----------------------------------------------------------------------------
(* Types.                                                                  *)

Early == {"build", "copy", "image", "work", "overlay", "source", "iso", "firmware", "spawn"}

\* What is true of a run's own variables, whatever the others do.
Local(r) ==
  /\ pc[r] = "idle" => qemu[r] = "none" /\ verdict[r] = "none"
  /\ pc[r] # "idle" => job[r] \in Jobs
  /\ pc[r] \in Early => qemu[r] = "none"
  /\ pc[r] = "firmware" => job[r].machine = "arm64"
  /\ qemu[r] = "none" => tested[r] = None /\ ~panicked[r]
  /\ qemu[r] # "up" => vm[r] = {}
  /\ \A i \in vm[r] : i[1] \in Drives(job[r])
  /\ pc[r] \in Early \cup {"idle", "log"} => log[r] = None
  /\ pc[r] \in {"test", "check"} => log[r] # None
  /\ log[r] # None => log[r][1] = Log(job[r])
  /\ pc[r] = "check" => qemu[r] = "gone" /\ (result[r] = "ok" => tested[r] # None)
  /\ pc[r] = "cleanup" /\ result[r] = "ok" => qemu[r] = "gone" /\ tested[r] # None
  /\ verdict[r] # "none" => pc[r] = "done"
  /\ verdict[r] = "pass" => qemu[r] = "gone" /\ tested[r] # None

Types == TypeOK /\ DirNames /\ \A r \in Runs : Local(r)

LEMMA InitTypes == Init => Types
  BY RunAssumption DEF Init, Types, TypeOK, DirNames, Local, PC, Early

\* A step of one run leaves the variables of the others alone.
LEMMA OthersLocal ==
  ASSUME Types, NEW r \in Runs, NEW q \in Runs, Step(q) \/ VmStep(q), r # q
  PROVE  /\ pc'[r] = pc[r] /\ job'[r] = job[r] /\ own'[r] = own[r]
         /\ result'[r] = result[r] /\ verdict'[r] = verdict[r]
         /\ qemu'[r] = qemu[r] /\ vm'[r] = vm[r] /\ log'[r] = log[r]
         /\ tested'[r] = tested[r] /\ panicked'[r] = panicked[r]
  <1> USE DEF Types, TypeOK, guest, Goto
  <1>1. CASE Step(q)
    BY <1>1 DEF Step, Start, Build, CopyOut, Image, ClearWork, CreateOverlay, CopyModule,
       BuildIso, Firmware, SpawnQemu, OpenLog, Join, Check, Cleanup, FailEarly, FailBoot,
       Kill, Return
  <1>2. CASE VmStep(q)
    BY <1>2 DEF VmStep, QemuOpens, QemuExits, GuestWrites, GuestTests, GuestPanics
  <1> QED
    BY <1>1, <1>2

\* What a run does to files it does to its own names.
Touches(j) ==
  /\ \A n \in Names \ Mine(j) : dir'[n] = dir[n]
  /\ \A i \in Inodes : i[1] \notin Mine(j) =>
       holds'[i] = holds[i] /\ (i \in dirty' <=> i \in dirty)

LEMMA CreateTouches ==
  ASSUME FileTypes, DirNames, NEW r \in Runs, NEW j \in Jobs, NEW n \in Mine(j),
         NEW content \in Module \cup {None}, Create(r, n, content)
  PROVE  FileTypes' /\ DirNames' /\ Touches(j)
  <1>1. n \in Names
    BY JobNames
  <1>2. /\ FileTypes' /\ DirNames'
        /\ \A m \in Names : m # n => dir'[m] = dir[m]
        /\ \A i \in Inodes : i[1] # n =>
             holds'[i] = holds[i] /\ (i \in dirty' <=> i \in dirty)
    BY <1>1, Created
  <1> QED
    BY <1>2 DEF Touches

LEMMA RemoveTouches ==
  ASSUME FileTypes, DirNames, NEW j \in Jobs, NEW names \in SUBSET Mine(j), Remove(names)
  PROVE  FileTypes' /\ DirNames' /\ Touches(j)
  <1>1. names \in SUBSET Names
    BY JobNames
  <1>2. /\ FileTypes' /\ DirNames' /\ holds' = holds /\ dirty' = dirty
        /\ \A m \in Names \ names : dir'[m] = dir[m]
    BY <1>1, Removed
  <1> QED
    BY <1>2 DEF Touches

\* An ISO made anew, or over the old one.
LEMMA IsoBuilt ==
  ASSUME Types, NEW r \in Runs, BuildIso(r)
  PROVE  /\ job[r] \in Jobs /\ FileTypes' /\ DirNames'
         /\ dir[Source(job[r])] # None
         /\ dir'[Iso(job[r])] # None /\ dir'[Iso(job[r])] \in Inodes
         /\ holds'[dir'[Iso(job[r])]] = holds[dir[Source(job[r])]]
         /\ \A m \in Names : m # Iso(job[r]) => dir'[m] = dir[m]
         /\ \A i \in Inodes : i[1] # Iso(job[r]) =>
              holds'[i] = holds[i] /\ (i \in dirty' <=> i \in dirty)
  <1> DEFINE j == job[r]
             i == <<Iso(j), r>>
             m == holds[dir[Source(j)]]
  <1>1. j \in Jobs /\ FileTypes /\ DirNames
    BY DEF BuildIso, Goto, Types, TypeOK, FileTypes, Local
  <1>2. Iso(j) \in Names /\ Source(j) \in Names /\ dir[Source(j)] # None
    BY <1>1, JobNames DEF BuildIso
  <1>3. m \in Module \cup {None} /\ i \in Inodes /\ i # None /\ i[1] = Iso(j)
    BY <1>1, <1>2, NoneAssumption DEF FileTypes, Inodes
  <1>4. CASE /\ dir' = [dir EXCEPT ![Iso(j)] = i]
             /\ holds' = [holds EXCEPT ![i] = m]
             /\ UNCHANGED dirty
    <2> HIDE DEF i, m
    <2>1. FileTypes' /\ DirNames'
      BY <1>1, <1>2, <1>3, <1>4 DEF FileTypes, DirNames
    <2> QED
      BY <1>1, <1>2, <1>3, <1>4, <2>1 DEF FileTypes, m
  <1>5. CASE Create(r, Iso(j), m)
    BY <1>1, <1>2, <1>3, <1>5, Created DEF FileTypes
  <1> QED
    BY <1>4, <1>5 DEF BuildIso

LEMMA FileStep ==
  ASSUME Types, NEW q \in Runs, Step(q) \/ VmStep(q)
  PROVE  /\ FileTypes' /\ DirNames'
         /\ job[q] \in Jobs => Touches(job[q])
         /\ job[q] \notin Jobs => UNCHANGED files
  <1> DEFINE j == job[q]
  <1>1. FileTypes /\ DirNames /\ Local(q)
    BY DEF Types, TypeOK, FileTypes
  <1>2. CASE UNCHANGED files
    BY <1>1, <1>2 DEF files, FileTypes, DirNames, Touches
  <1>3. SUFFICES ASSUME ~UNCHANGED files
                 PROVE  j \in Jobs /\ FileTypes' /\ DirNames' /\ Touches(j)
    BY <1>2
  <1>4. CASE Build(q)
    BY <1>1, <1>4, JobNames, CreateTouches DEF Build, Goto, Local
  <1>5. CASE CopyOut(q)
    <2>1. j \in Jobs /\ Out(j) \in Names /\ Out(j) \in Mine(j) /\ own[q] \in Module \cup {None}
      BY <1>1, <1>5, JobNames DEF CopyOut, Goto, Local, Types, TypeOK
    <2>2. /\ holds' = [holds EXCEPT ![dir[Out(j)]] = own[q]]
          /\ dir' = dir /\ dirty' = dirty
      BY <1>5 DEF CopyOut
    <2>3. CASE dir[Out(j)] = None
      BY <1>1, <2>1, <2>2, <2>3, NoneAssumption DEF FileTypes, DirNames, Touches
    <2>4. CASE dir[Out(j)] # None
      BY <1>1, <2>1, <2>2, <2>4 DEF FileTypes, DirNames, Touches
    <2> QED
      BY <2>3, <2>4
  <1>6. CASE ClearWork(q)
    BY <1>1, <1>6, JobNames, RemoveTouches DEF ClearWork, Goto, Local
  <1>7. CASE CreateOverlay(q)
    BY <1>1, <1>7, JobNames, CreateTouches DEF CreateOverlay, Goto, Local
  <1>8. CASE CopyModule(q)
    <2>1. j \in Jobs /\ Out(j) \in Names /\ Source(j) \in Mine(j)
      BY <1>1, <1>8, JobNames DEF CopyModule, Goto, Local
    <2>2. holds[dir[Out(j)]] \in Module \cup {None}
      BY <1>1, <1>8, <2>1 DEF CopyModule, FileTypes
    <2> QED
      BY <1>1, <1>8, <2>1, <2>2, CreateTouches DEF CopyModule
  <1>9. CASE BuildIso(q)
    <2>1. j \in Jobs /\ Iso(j) \in Mine(j)
      BY <1>9, IsoBuilt, JobNames
    <2> QED
      BY <1>9, <2>1, IsoBuilt DEF Touches
  <1>10. CASE Firmware(q)
    <2>1. j \in Jobs /\ Vars \in Mine(j)
      BY <1>1, <1>10 DEF Firmware, Goto, Local, Early, Mine
    <2> QED
      BY <1>1, <1>10, <2>1, CreateTouches DEF Firmware
  <1>11. CASE OpenLog(q)
    BY <1>1, <1>11, JobNames, CreateTouches DEF OpenLog, Goto, Local
  <1>12. CASE Join(q)
    <2>1. j \in Jobs /\ log[q] \in Inodes /\ log[q][1] \in Mine(j)
      BY <1>1, <1>12, JobNames DEF Join, Goto, Local, Types, TypeOK
    <2> QED
      BY <1>1, <1>12, <2>1 DEF Join, FileTypes, DirNames, Touches
  <1>13. CASE Cleanup(q)
    BY <1>1, <1>3, <1>13, JobNames, RemoveTouches DEF Cleanup, Goto, Local
  <1>14. CASE GuestWrites(q)
    <2>1. vm[q] # {} /\ vm[q] \subseteq Inodes
      BY <1>3, <1>14 DEF GuestWrites, files, Types, TypeOK
    <2>2. j \in Jobs /\ \A i \in vm[q] : i[1] \in Mine(j)
      BY <1>1, <2>1, JobNames DEF Local
    <2> QED
      BY <1>1, <1>14, <2>1, <2>2 DEF GuestWrites, FileTypes, DirNames, Touches
  <1> QED
    BY <1>3, <1>4, <1>5, <1>6, <1>7, <1>8, <1>9, <1>10, <1>11, <1>12, <1>13, <1>14
       DEF Step, VmStep, Start, Image, SpawnQemu, Check, FailEarly, FailBoot, Kill,
           QemuOpens, QemuExits, GuestTests, GuestPanics, guest

LEMMA TypesInductive == Types /\ [Next]_vars => Types'
  <1> SUFFICES ASSUME Types, [Next]_vars PROVE Types'
    OBVIOUS
  <1>1. ASSUME NEW q \in Runs, Step(q) \/ VmStep(q) PROVE Types'
    <2>1. FileTypes' /\ DirNames'
      BY <1>1, FileStep
    <2>2. ASSUME NEW r \in Runs, r # q PROVE Local(r)'
      BY <1>1, <2>2, OthersLocal DEF Types, Local
    <2> DEFINE Typed == /\ pc \in [Runs -> PC] /\ job \in [Runs -> Jobs \cup {None}]
                        /\ own \in [Runs -> Module \cup {None}]
                        /\ result \in [Runs -> {"ok", "err"}]
                        /\ verdict \in [Runs -> {"none", "pass", "fail"}]
                        /\ qemu \in [Runs -> {"none", "starting", "up", "gone"}]
                        /\ vm \in [Runs -> SUBSET Inodes]
                        /\ log \in [Runs -> Inodes \cup {None}]
                        /\ tested \in [Runs -> Module \cup {None}]
                        /\ panicked \in [Runs -> BOOLEAN]
    <2>3. Typed /\ Local(q) /\ FileTypes /\ DirNames
      BY DEF Types, TypeOK, FileTypes
    <2> SUFFICES Typed' /\ Local(q)'
      BY <2>1, <2>2 DEF Types, TypeOK, FileTypes
    <2> USE DEF Goto, guest, PC, Local, Early
    <2>4. CASE \E j \in Jobs : Start(q, j)
      BY <2>3, <2>4, RunAssumption DEF Start
    <2>5. CASE Build(q)
      BY <2>3, <2>5, JobFields DEF Build
    <2>6. CASE CopyOut(q)
      BY <2>3, <2>6 DEF CopyOut
    <2>7. CASE Image(q)
      BY <2>3, <2>7 DEF Image
    <2>8. CASE ClearWork(q)
      BY <2>3, <2>8 DEF ClearWork
    <2>9. CASE CreateOverlay(q)
      BY <2>3, <2>9 DEF CreateOverlay
    <2>10. CASE CopyModule(q)
      BY <2>3, <2>10 DEF CopyModule
    <2>11. CASE BuildIso(q)
      BY <2>3, <2>11 DEF BuildIso, AfterIso
    <2>12. CASE Firmware(q)
      BY <2>3, <2>12 DEF Firmware
    <2>13. CASE SpawnQemu(q)
      BY <2>3, <2>13 DEF SpawnQemu
    <2>14. CASE OpenLog(q)
      <3>1. job[q] \in Jobs /\ Log(job[q]) \in Names
        BY <2>3, <2>14, JobNames DEF OpenLog
      <3>2. Target(q, Log(job[q])) \in Inodes /\ Target(q, Log(job[q]))[1] = Log(job[q])
        BY <2>3, <2>14, <3>1, Created DEF OpenLog
      <3>3. Target(q, Log(job[q])) # None
        BY <3>2, NoneAssumption
      <3> HIDE DEF Target
      <3> QED
        BY <2>3, <2>14, <3>1, <3>2, <3>3 DEF OpenLog
    <2>15. CASE Join(q)
      BY <2>3, <2>15 DEF Join
    <2>16. CASE Check(q)
      BY <2>3, <2>16 DEF Check
    <2>17. CASE Cleanup(q)
      BY <2>3, <2>17 DEF Cleanup, Return
    <2>18. CASE FailEarly(q)
      BY <2>3, <2>18 DEF FailEarly, Return
    <2>19. CASE FailBoot(q)
      BY <2>3, <2>19 DEF FailBoot
    <2>20. CASE Kill(q)
      BY <2>3, <2>20 DEF Kill, Active
    <2>21. CASE QemuOpens(q)
      <3>1. job[q] \in Jobs /\ Drives(job[q]) \subseteq Names
        BY <2>3, <2>21, JobNames DEF QemuOpens
      <3>2. \A n \in Drives(job[q]) : dir[n] \in Inodes /\ dir[n][1] = n
        BY <2>3, <2>21, <3>1 DEF QemuOpens, FileTypes, DirNames
      <3> QED
        BY <2>3, <2>21, <3>1, <3>2 DEF QemuOpens
    <2>22. CASE QemuExits(q)
      BY <2>3, <2>22 DEF QemuExits, VmUp
    <2>23. CASE GuestWrites(q)
      BY <2>3, <2>23 DEF GuestWrites
    <2>24. CASE GuestTests(q)
      <3>1. PICK i \in vm[q] : holds[i] # None /\ tested' = [tested EXCEPT ![q] = holds[i]]
        BY <2>24 DEF GuestTests
      <3>2. holds[i] \in Module
        BY <2>3, <3>1 DEF FileTypes
      <3> QED
        BY <2>3, <2>24, <3>1, <3>2, NoneAssumption DEF GuestTests
    <2>25. CASE GuestPanics(q)
      BY <2>3, <2>25 DEF GuestPanics
    <2> QED
      BY <1>1, <2>4, <2>5, <2>6, <2>7, <2>8, <2>9, <2>10, <2>11, <2>12, <2>13, <2>14, <2>15,
         <2>16, <2>17, <2>18, <2>19, <2>20, <2>21, <2>22, <2>23, <2>24, <2>25
         DEF Step, VmStep
  <1>2. CASE UNCHANGED vars
    BY <1>2 DEF vars, files, guest, Types, TypeOK, DirNames, Local
  <1> QED
    BY <1>1, <1>2 DEF Next

\* The type invariant, for runs that overlap too.
THEOREM TypeCorrect == Spec => []TypeOK
  <1>1. Types => TypeOK
    BY DEF Types
  <1> QED
    BY <1>1, InitTypes, TypesInductive, PTL DEF Spec

-----------------------------------------------------------------------------
(* Runs that keep apart.                                                   *)

Busy(r) == Active(r) \/ VmUp(r)

\* Runs that are at work, or whose VM still is, have jobs that may go together.
Separate == \A r, q \in Runs : r # q /\ Busy(r) /\ Busy(q) => Apart(job[r], job[q])

\* No guest writes to a CD.
CleanCds == \A i \in dirty : i[1][1] # "iso"

\* What a run can rely on: how its module travels from the build to the guest,
\* that the disks it prepared are as it left them, and where its log is.
Owned(r) ==
  /\ tested[r] # None => tested[r] = own[r]
  /\ pc[r] = "copy" => dir[Out(job[r])] # None
  /\ pc[r] \in {"image", "work", "overlay", "source"} => holds[dir[Out(job[r])]] = own[r]
  /\ pc[r] = "iso" /\ dir[Source(job[r])] # None => holds[dir[Source(job[r])]] = own[r]
  /\ (pc[r] \in {"firmware", "spawn"} \/ VmUp(r)) /\ dir[Iso(job[r])] # None =>
       holds[dir[Iso(job[r])]] = own[r]
  /\ \A i \in vm[r] : i[1] = Iso(job[r]) => holds[i] = own[r]
  /\ pc[r] \in {"source", "iso", "firmware", "spawn"} \/ qemu[r] = "starting" =>
       dir[Overlay(job[r])] \notin dirty
  /\ (pc[r] = "spawn" \/ qemu[r] = "starting") /\ job[r].machine = "arm64" =>
       dir[Vars] \notin dirty
  /\ pc[r] \in {"test", "check", "cleanup"} /\ log[r] # None => dir[Log(job[r])] = log[r]
  /\ pc[r] = "check" /\ panicked[r] => log[r] \in dirty
  /\ pc[r] = "cleanup" /\ result[r] = "ok" => ~panicked[r]

\* The copy of the module needs its file to be there.
HasModule(r) ==
  pc[r] \in {"image", "work", "overlay", "source"} => dir[Out(job[r])] # None

Inv == Types /\ Separate /\ CleanCds /\ \A r \in Runs : Owned(r) /\ HasModule(r)

LEMMA InitInv == Init => Inv
  <1> SUFFICES ASSUME Init PROVE Inv
    OBVIOUS
  <1>1. Types /\ CleanCds
    BY InitTypes DEF Init, CleanCds
  <1>2. \A r \in Runs : Owned(r) /\ HasModule(r) /\ ~Busy(r)
    BY DEF Init, Owned, HasModule, Busy, Active, VmUp
  <1> QED
    BY <1>1, <1>2 DEF Inv, Separate

\* Who is not at work can only start.
LEMMA Idle ==
  ASSUME Types, NEW q \in Runs, Step(q) \/ VmStep(q), ~Busy(q)
  PROVE  UNCHANGED files
  <1>1. Local(q)
    BY DEF Types
  <1>2. CASE Step(q)
    BY <1>1, <1>2 DEF Step, Start, Build, CopyOut, Image, ClearWork, CreateOverlay, CopyModule,
       BuildIso, Firmware, SpawnQemu, OpenLog, Join, Check, Cleanup, FailEarly, FailBoot,
       Kill, Goto, Busy, Active
  <1>3. CASE VmStep(q)
    <2>1. qemu[q] \notin {"starting", "up"} /\ vm[q] = {}
      BY <1>1 DEF Busy, VmUp, Local
    <2> QED
      BY <1>3, <2>1
         DEF VmStep, QemuOpens, QemuExits, GuestWrites, GuestTests, GuestPanics, VmUp, files
  <1> QED
    BY <1>2, <1>3

LEMMA BusyJob ==
  ASSUME Types, NEW r \in Runs, Busy(r)
  PROVE  job[r] \in Jobs
  BY DEF Types, Local, Busy, Active, VmUp

\* The files of a run at work are not touched by the others.
LEMMA Undisturbed ==
  ASSUME Inv, NEW r \in Runs, NEW q \in Runs, r # q, Busy(r), Step(q) \/ VmStep(q)
  PROVE  /\ \A n \in Mine(job[r]) : dir'[n] = dir[n]
         /\ \A i \in Inodes : i[1] \in Mine(job[r]) =>
              holds'[i] = holds[i] /\ (i \in dirty' <=> i \in dirty)
  <1>1. Types /\ Separate
    BY DEF Inv
  <1>2. CASE UNCHANGED files
    BY <1>2 DEF files
  <1>3. CASE ~UNCHANGED files
    <2>1. Busy(q)
      BY <1>1, <1>3, Idle
    <2>2. job[r] \in Jobs /\ job[q] \in Jobs /\ Apart(job[r], job[q])
      BY <1>1, <2>1, BusyJob DEF Separate
    <2>3. Mine(job[r]) \cap Mine(job[q]) = {} /\ Mine(job[r]) \subseteq Names
      BY <2>2, ApartNames, JobNames
    <2>4. Touches(job[q])
      BY <1>1, <2>2, FileStep
    <2> QED
      BY <2>3, <2>4 DEF Touches
  <1> QED
    BY <1>2, <1>3

LEMMA OthersOwned ==
  ASSUME Inv, NEW r \in Runs, NEW q \in Runs, r # q, Step(q) \/ VmStep(q)
  PROVE  Owned(r)' /\ HasModule(r)'
  <1>1. Types /\ Owned(r) /\ HasModule(r) /\ Local(r) /\ FileTypes /\ DirNames
    BY DEF Inv, Types, TypeOK, FileTypes
  <1>2. /\ pc'[r] = pc[r] /\ job'[r] = job[r] /\ own'[r] = own[r]
        /\ result'[r] = result[r] /\ verdict'[r] = verdict[r]
        /\ qemu'[r] = qemu[r] /\ vm'[r] = vm[r] /\ log'[r] = log[r]
        /\ tested'[r] = tested[r] /\ panicked'[r] = panicked[r]
    BY <1>1, OthersLocal
  <1>3. CASE ~Busy(r)
    <2>1. pc[r] \in {"idle", "done", "dead"} /\ qemu[r] \notin {"starting", "up"} /\ vm[r] = {}
      BY <1>1, <1>3 DEF Busy, Active, VmUp, Local
    <2> QED
      BY <1>1, <1>2, <2>1 DEF Owned, HasModule, VmUp
  <1>4. CASE Busy(r)
    <2> DEFINE j == job[r]
    <2>1. j \in Jobs /\ {Out(j), Source(j), Iso(j), Overlay(j), Log(j)} \subseteq Mine(j)
          /\ Mine(j) \subseteq Names /\ (j.machine = "arm64" => Vars \in Mine(j))
      BY <1>1, <1>4, BusyJob, JobNames DEF Mine
    <2>2. \A n \in Mine(j) : dir'[n] = dir[n]
      BY <1>4, Undisturbed
    <2>3. \A i \in Inodes : i[1] \in Mine(j) =>
            holds'[i] = holds[i] /\ (i \in dirty' <=> i \in dirty)
      BY <1>4, Undisturbed
    <2>4. dirty' \subseteq Inodes /\ None \notin dirty'
      BY <1>1, FileStep, NoneAssumption DEF FileTypes
    <2>5. \A n \in Mine(j) : dir[n] # None =>
            /\ dir[n] \in Inodes /\ holds'[dir[n]] = holds[dir[n]]
            /\ (dir[n] \in dirty' <=> dir[n] \in dirty)
      BY <1>1, <2>1, <2>3 DEF FileTypes, DirNames
    <2>6. \A i \in vm[r] : i[1] \in Mine(j) /\ holds'[i] = holds[i]
      BY <1>1, <2>1, <2>3, JobNames DEF Local, Types, TypeOK
    <2>7. log[r] # None => (log[r] \in dirty' <=> log[r] \in dirty)
      BY <1>1, <2>1, <2>3 DEF Local, Types, TypeOK
    <2>8. HasModule(r)'
      BY <1>1, <1>2, <2>1, <2>2 DEF HasModule
    <2>9. Owned(r)'
      BY <1>1, <1>2, <2>1, <2>2, <2>4, <2>5, <2>6, <2>7 DEF Owned, HasModule, VmUp, Local
    <2> QED
      BY <2>8, <2>9
  <1> QED
    BY <1>3, <1>4

LEMMA SeparateKept ==
  ASSUME ~Overlap, Inv, NEW q \in Runs, Step(q) \/ VmStep(q)
  PROVE  Separate'
  <1> SUFFICES ASSUME NEW r \in Runs, NEW s \in Runs, r # s, Busy(r)', Busy(s)'
               PROVE  Apart(job[r], job[s])'
    BY DEF Separate
  <1>1. Types /\ Separate /\ Local(q)
    BY DEF Inv, Types
  <1>2. CASE \E j \in Jobs : Start(q, j)
    <2>1. PICK j \in Jobs : Start(q, j)
      BY <1>2
    <2>2. /\ job'[q] = j /\ \A x \in Runs : x # q => job'[x] = job[x] /\ (Busy(x)' <=> Busy(x))
          /\ \A x \in Runs : Busy(x) => Apart(j, job[x])
      BY <1>1, <2>1 DEF Start, Goto, guest, Busy, Active, VmUp, Types, TypeOK
    <2>3. CASE r = q
      BY <2>2, <2>3 DEF Apart
    <2>4. CASE s = q
      <3>1. Busy(r) /\ job[r] \in Jobs /\ Apart(j, job[r])
        BY <1>1, <2>2, <2>4, BusyJob
      <3>2. Apart(job[r], j)
        BY <3>1, ApartNames
      <3> QED
        BY <2>2, <2>4, <3>2 DEF Apart
    <2>5. CASE r # q /\ s # q
      BY <1>1, <2>2, <2>5 DEF Separate, Apart
    <2> QED
      BY <2>3, <2>4, <2>5
  <1>3. CASE ~\E j \in Jobs : Start(q, j)
    <2>1. job' = job
      BY <1>3 DEF Step, Start, Build, CopyOut, Image, ClearWork, CreateOverlay, CopyModule,
         BuildIso, Firmware, SpawnQemu, OpenLog, Join, Check, Cleanup, FailEarly, FailBoot,
         Kill, VmStep, QemuOpens, QemuExits, GuestWrites, GuestTests, GuestPanics
    <2>2. ASSUME NEW x \in Runs, Busy(x)' PROVE Busy(x)
      <3>1. CASE x # q
        BY <1>1, <2>2, <3>1, OthersLocal DEF Busy, Active, VmUp
      <3>2. CASE x = q
        BY <1>1, <1>3, <2>2, <3>2
           DEF Step, Build, CopyOut, Image, ClearWork, CreateOverlay, CopyModule,
             BuildIso, Firmware, SpawnQemu, OpenLog, Join, Check, Cleanup, FailEarly,
             FailBoot, Kill, VmStep, QemuOpens, QemuExits, GuestWrites, GuestTests,
             GuestPanics, Goto, guest, Busy, Active, VmUp, Types, TypeOK
      <3> QED
        BY <3>1, <3>2
    <2> QED
      BY <1>1, <2>1, <2>2 DEF Separate, Apart
  <1> QED
    BY <1>2, <1>3

LEMMA CleanKept ==
  ASSUME Inv, NEW q \in Runs, Step(q) \/ VmStep(q)
  PROVE  CleanCds'
  <1>1. Types /\ CleanCds /\ Local(q)
    BY DEF Inv, Types
  <1>2. CASE Join(q)
    <2>1. log[q][1][1] = "log"
      BY <1>1, <1>2, Kinds DEF Join, Goto, Local, Log
    <2> QED
      BY <1>1, <1>2, <2>1 DEF Join, CleanCds
  <1>3. CASE GuestWrites(q)
    BY <1>1, <1>3 DEF GuestWrites, Disposable, CleanCds
  <1>4. CASE dirty' \subseteq dirty
    BY <1>1, <1>4 DEF CleanCds
  <1> QED
    BY <1>2, <1>3, <1>4
       DEF Step, VmStep, Start, Build, CopyOut, Image, ClearWork, CreateOverlay, CopyModule,
         BuildIso, Firmware, SpawnQemu, OpenLog, Check, Cleanup, FailEarly, FailBoot,
         Kill, QemuOpens, QemuExits, GuestTests, GuestPanics, Create, Remove, files

LEMMA OwnSteps ==
  ASSUME Inv, NEW r \in Runs, Step(r) \/ VmStep(r)
  PROVE  Owned(r)' /\ HasModule(r)'
  <1> DEFINE j == job[r]
  <1>1. /\ Types /\ Owned(r) /\ HasModule(r) /\ Local(r) /\ FileTypes /\ DirNames
        /\ CleanCds /\ None \notin dirty
    BY NoneAssumption DEF Inv, Types, TypeOK, FileTypes
  <1>2. FileTypes' /\ DirNames' /\ None \notin dirty'
    BY <1>1, FileStep, NoneAssumption DEF FileTypes
  <1>3. j \in Jobs =>
          /\ {Out(j), Source(j), Iso(j), Overlay(j), Log(j), Vars} \subseteq Names
          /\ Overlay(j) \notin {Source(j), Iso(j), Log(j), Out(j), Vars}
          /\ Source(j) \notin {Iso(j), Log(j), Out(j), Vars}
          /\ Iso(j) \notin {Log(j), Out(j), Vars}
          /\ Log(j) \notin {Out(j), Vars} \cup Scratch(j) /\ Out(j) # Vars
          /\ Out(j) \notin WorkFiles(j) /\ Scratch(j) \subseteq Names /\ WorkFiles(j) \subseteq Names
    BY JobNames
  <1>t. /\ pc \in [Runs -> PC] /\ job \in [Runs -> Jobs \cup {None}]
        /\ own \in [Runs -> Module \cup {None}] /\ result \in [Runs -> {"ok", "err"}]
        /\ qemu \in [Runs -> {"none", "starting", "up", "gone"}]
        /\ vm \in [Runs -> SUBSET Inodes] /\ log \in [Runs -> Inodes \cup {None}]
        /\ tested \in [Runs -> Module \cup {None}] /\ panicked \in [Runs -> BOOLEAN]
    BY <1>1 DEF Types, TypeOK
  <1> USE DEF Goto, guest, VmUp, Early
  <1>4. CASE \E k \in Jobs : Start(r, k)
    BY <1>1, <1>t, <1>4 DEF Start, files, Owned, HasModule, Local
  <1>5. CASE Build(r)
    <2>1. dir'[Out(j)] # None /\ pc'[r] = "copy" /\ qemu'[r] = "none" /\ vm'[r] = {}
          /\ tested'[r] = None /\ job' = job
      BY <1>1, <1>3, <1>t, <1>5, Created DEF Build, Local
    <2> QED
      BY <2>1 DEF Owned, HasModule
  <1>6. CASE CopyOut(r)
    <2>1. /\ j \in Jobs /\ dir[Out(j)] \in Inodes /\ dir' = dir
          /\ holds' = [holds EXCEPT ![dir[Out(j)]] = own[r]]
      BY <1>1, <1>3, <1>6 DEF CopyOut, Local, Owned, FileTypes
    <2>2. holds'[dir'[Out(j)]] = own[r] /\ dir'[Out(j)] # None
      BY <1>1, <1>6, <2>1 DEF FileTypes, CopyOut, Owned
    <2>3. /\ pc'[r] = "image" /\ qemu'[r] = "none" /\ vm'[r] = {} /\ tested'[r] = None
          /\ job' = job /\ own' = own
      BY <1>1, <1>t, <1>6 DEF CopyOut, Local
    <2> QED
      BY <2>2, <2>3 DEF Owned, HasModule
  <1>7. CASE Image(r)
    BY <1>1, <1>t, <1>7 DEF Image, files, Owned, HasModule, Local
  <1>8. CASE ClearWork(r)
    <2>1. dir'[Out(j)] = dir[Out(j)] /\ holds' = holds
      BY <1>1, <1>3, <1>8, Removed DEF ClearWork, Local
    <2>2. /\ pc'[r] = "overlay" /\ qemu'[r] = "none" /\ vm'[r] = {} /\ tested'[r] = None
          /\ job' = job /\ own' = own
      BY <1>1, <1>t, <1>8 DEF ClearWork, Local
    <2> QED
      BY <1>1, <1>8, <2>1, <2>2 DEF ClearWork, Owned, HasModule
  <1>9. CASE CreateOverlay(r)
    <2>1. /\ dir'[Overlay(j)] \notin dirty' /\ dir'[Out(j)] = dir[Out(j)]
          /\ \A i \in Inodes : i[1] # Overlay(j) => holds'[i] = holds[i]
      BY <1>1, <1>3, <1>9, Created DEF CreateOverlay, Local
    <2>2. dir[Out(j)] \in Inodes /\ dir[Out(j)][1] = Out(j)
      BY <1>1, <1>3, <1>9 DEF CreateOverlay, HasModule, Local, FileTypes, DirNames
    <2>3. /\ pc'[r] = "source" /\ qemu'[r] = "none" /\ vm'[r] = {} /\ tested'[r] = None
          /\ job' = job /\ own' = own
      BY <1>1, <1>t, <1>9 DEF CreateOverlay, Local
    <2> QED
      BY <1>1, <1>3, <1>9, <2>1, <2>2, <2>3 DEF CreateOverlay, Owned, HasModule, Local
  <1>10. CASE CopyModule(r)
    <2>1. j \in Jobs /\ holds[dir[Out(j)]] = own[r] /\ holds[dir[Out(j)]] \in Module \cup {None}
      BY <1>1, <1>3, <1>t, <1>10 DEF CopyModule, Local, Owned
    <2>2. /\ holds'[dir'[Source(j)]] = own[r] /\ dir'[Overlay(j)] = dir[Overlay(j)]
          /\ \A i \in Inodes : i[1] # Source(j) => (i \in dirty' <=> i \in dirty)
      BY <1>1, <1>3, <1>10, <2>1, Created DEF CopyModule
    <2>3. dir'[Overlay(j)] \notin dirty'
      BY <1>1, <1>2, <1>3, <1>10, <2>1, <2>2 DEF CopyModule, Owned, FileTypes, DirNames
    <2>4. /\ pc'[r] = "iso" /\ qemu'[r] = "none" /\ vm'[r] = {} /\ tested'[r] = None
          /\ job' = job /\ own' = own
      BY <1>1, <1>t, <1>10 DEF CopyModule, Local
    <2> QED
      BY <2>2, <2>3, <2>4 DEF Owned, HasModule
  <1>11. CASE BuildIso(r)
    <2>1. /\ j \in Jobs /\ holds'[dir'[Iso(j)]] = own[r] /\ dir'[Overlay(j)] = dir[Overlay(j)]
          /\ \A i \in Inodes : i[1] # Iso(j) => (i \in dirty' <=> i \in dirty)
      BY <1>1, <1>3, <1>11, IsoBuilt DEF BuildIso, Owned
    <2>2. dir'[Overlay(j)] \notin dirty'
      BY <1>1, <1>2, <1>3, <1>11, <2>1 DEF BuildIso, Owned, FileTypes, DirNames
    <2>3. /\ pc'[r] = AfterIso(r) /\ qemu'[r] = "none" /\ vm'[r] = {} /\ tested'[r] = None
          /\ job' = job /\ own' = own
      BY <1>1, <1>t, <1>11 DEF BuildIso, Local
    <2> QED
      BY <2>1, <2>2, <2>3 DEF Owned, HasModule, AfterIso
  <1>12. CASE Firmware(r)
    <2>1. /\ j \in Jobs /\ dir'[Vars] \notin dirty' /\ dir'[Overlay(j)] = dir[Overlay(j)]
          /\ dir'[Iso(j)] = dir[Iso(j)]
          /\ \A i \in Inodes : i[1] # Vars => holds'[i] = holds[i] /\ (i \in dirty' <=> i \in dirty)
      BY <1>1, <1>3, <1>12, Created DEF Firmware, Local
    <2>2. dir'[Overlay(j)] \notin dirty'
      BY <1>1, <1>2, <1>3, <1>12, <2>1 DEF Firmware, Owned, FileTypes, DirNames
    <2>3. dir'[Iso(j)] # None => holds'[dir'[Iso(j)]] = own[r]
      BY <1>1, <1>3, <1>12, <2>1 DEF Firmware, Owned, FileTypes, DirNames
    <2>4. /\ pc'[r] = "spawn" /\ qemu'[r] = "none" /\ vm'[r] = {} /\ tested'[r] = None
          /\ job' = job /\ own' = own
      BY <1>1, <1>t, <1>12 DEF Firmware, Local
    <2> QED
      BY <2>1, <2>2, <2>3, <2>4 DEF Owned, HasModule
  <1>13. CASE SpawnQemu(r)
    BY <1>1, <1>t, <1>13 DEF SpawnQemu, files, Owned, HasModule, Local
  <1>14. CASE OpenLog(r)
    <2>1. /\ j \in Jobs /\ dir'[Log(j)] = Target(r, Log(j))
          /\ \A m \in Names : m # Log(j) => dir'[m] = dir[m]
          /\ \A i \in Inodes : i[1] # Log(j) => holds'[i] = holds[i] /\ (i \in dirty' <=> i \in dirty)
      BY <1>1, <1>3, <1>14, Created DEF OpenLog, Local
    <2>2. log'[r] = dir'[Log(j)]
      BY <1>t, <1>14, <2>1 DEF OpenLog
    <2>3. /\ pc'[r] = "test" /\ qemu' = qemu /\ vm' = vm /\ tested' = tested
          /\ job' = job /\ own' = own /\ panicked' = panicked
      BY <1>t, <1>14 DEF OpenLog
    <2>4. /\ dir'[Iso(j)] = dir[Iso(j)] /\ dir'[Overlay(j)] = dir[Overlay(j)] /\ dir'[Vars] = dir[Vars]
          /\ \A n \in {Iso(j), Overlay(j), Vars} : dir[n] # None =>
               holds'[dir[n]] = holds[dir[n]] /\ (dir[n] \in dirty' <=> dir[n] \in dirty)
      BY <1>1, <1>3, <2>1 DEF FileTypes, DirNames
    <2>5. \A i \in vm[r] : holds'[i] = holds[i]
      BY <1>1, <1>t, <1>3, <2>1, JobNames DEF Local
    <2> HIDE DEF Goto
    <2> QED
      BY <1>1, <1>2, <2>1, <2>2, <2>3, <2>4, <2>5 DEF Owned, HasModule
  <1>15. CASE Join(r)
    <2>1. /\ j \in Jobs /\ log[r] # None /\ log[r][1] = Log(j) /\ qemu[r] = "gone" /\ vm[r] = {}
      BY <1>1, <1>15 DEF Join, Local
    <2>2. /\ pc'[r] = "check" /\ dir' = dir /\ holds' = holds /\ UNCHANGED <<job, own, guest, log>>
          /\ dirty' = dirty \cup {i \in {log[r]} : panicked[r]}
      BY <1>t, <1>15 DEF Join
    <2> QED
      BY <1>1, <1>15, <2>1, <2>2 DEF Owned, HasModule, Join
  <1>16. CASE Check(r)
    <2>1. /\ pc'[r] = "cleanup" /\ UNCHANGED <<files, job, own, guest, log>>
          /\ qemu[r] = "gone" /\ vm[r] = {}
      BY <1>1, <1>t, <1>16 DEF Check, Local
    <2>2. dir[Log(j)] = log[r] /\ (panicked[r] => log[r] \in dirty)
      BY <1>1, <1>16 DEF Check, Owned, Local
    <2>3. result'[r] = "ok" => ~panicked[r]
      BY <1>t, <1>16, <2>2 DEF Check
    <2> QED
      BY <1>1, <2>1, <2>2, <2>3 DEF Owned, HasModule, files
  <1>17. CASE Cleanup(r)
    <2>1. /\ j \in Jobs /\ holds' = holds /\ dirty' = dirty
          /\ \A n \in {Iso(j), Overlay(j), Vars} : dir'[n] \in {dir[n], None}
      <3>1. CASE UNCHANGED files
        BY <1>1, <1>17, <3>1 DEF Cleanup, Local, files
      <3>2. CASE Remove(Scratch(j))
        BY <1>1, <1>3, <1>17, <3>2, Removed DEF Cleanup, Local
      <3> QED
        BY <1>17, <3>1, <3>2 DEF Cleanup
    <2>2. pc'[r] = "done" /\ UNCHANGED <<job, own, guest, log>>
      BY <1>t, <1>17 DEF Cleanup
    <2> QED
      BY <1>1, <1>2, <1>17, <2>1, <2>2 DEF Owned, HasModule
  <1>18. CASE FailEarly(r)
    BY <1>1, <1>t, <1>18 DEF FailEarly, files, Owned, HasModule, Local
  <1>19. CASE FailBoot(r)
    BY <1>1, <1>t, <1>19 DEF FailBoot, files, Owned, HasModule, Local
  <1>20. CASE Kill(r)
    BY <1>1, <1>t, <1>20 DEF Kill, files, Owned, HasModule, Local
  <1>21. CASE QemuOpens(r)
    <2>1. j \in Jobs
      BY <1>1, <1>21 DEF QemuOpens, Local
    <2>2. /\ pc' = pc /\ UNCHANGED <<files, job, own, result, log, tested, panicked>>
          /\ qemu'[r] = "up" /\ qemu[r] = "starting" /\ vm'[r] = {dir[n] : n \in Drives(j)}
      BY <1>t, <1>21 DEF QemuOpens
    <2>3. \A i \in vm'[r] : i[1] = Iso(j) => holds[i] = own[r]
      <3>1. ASSUME NEW n \in Drives(j), dir[n][1] = Iso(j) PROVE holds[dir[n]] = own[r]
        <4>1. dir[n] # None /\ n \in Names
          BY <1>21, <2>1, JobNames DEF QemuOpens
        <4>2. n = Iso(j)
          BY <1>1, <3>1, <4>1 DEF DirNames
        <4> QED
          BY <1>1, <2>2, <4>1, <4>2 DEF Owned
      <3> QED
        BY <2>2, <3>1
    <2> QED
      BY <1>1, <2>2, <2>3 DEF Owned, HasModule, files
  <1>22. CASE QemuExits(r)
    BY <1>1, <1>t, <1>22 DEF QemuExits, files, Owned, HasModule, Local
  <1>23. CASE GuestWrites(r)
    <2>1. vm[r] = {} => dirty' = dirty
      BY <1>23 DEF GuestWrites
    <2>2. /\ UNCHANGED <<dir, holds, pc, job, own, result, verdict, guest, log>>
          /\ dirty \subseteq dirty'
      BY <1>23 DEF GuestWrites
    <2>3. vm[r] # {} => qemu[r] = "up" /\ pc[r] \notin Early
      BY <1>1 DEF Local
    <2> QED
      BY <1>1, <2>1, <2>2, <2>3 DEF Owned, HasModule
  <1>24. CASE GuestTests(r)
    <2>1. PICK i \in vm[r] : i[1][1] = "iso" /\ tested' = [tested EXCEPT ![r] = holds[i]]
      BY <1>24 DEF GuestTests
    <2>2. j \in Jobs /\ i[1] = Iso(j)
      BY <1>1, <1>24, <2>1, Kinds DEF GuestTests, Local
    <2>3. tested'[r] = own[r]
      BY <1>1, <1>t, <2>1, <2>2 DEF Owned
    <2> QED
      BY <1>1, <1>24, <2>3 DEF GuestTests, files, Owned, HasModule
  <1>25. CASE GuestPanics(r)
    BY <1>1, <1>t, <1>25 DEF GuestPanics, files, Owned, HasModule, Local
  <1> QED
    BY <1>4, <1>5, <1>6, <1>7, <1>8, <1>9, <1>10, <1>11, <1>12, <1>13, <1>14, <1>15,
       <1>16, <1>17, <1>18, <1>19, <1>20, <1>21, <1>22, <1>23, <1>24, <1>25 DEF Step, VmStep

LEMMA InvInductive ==
  ASSUME ~Overlap
  PROVE  Inv /\ [Next]_vars => Inv'
  <1> SUFFICES ASSUME Inv, [Next]_vars PROVE Inv'
    OBVIOUS
  <1>1. Types'
    BY TypesInductive DEF Inv
  <1>2. ASSUME NEW q \in Runs, Step(q) \/ VmStep(q) PROVE Inv'
    <2>1. ASSUME NEW r \in Runs PROVE Owned(r)' /\ HasModule(r)'
      BY <1>2, OthersOwned, OwnSteps
    <2> QED
      BY <1>1, <1>2, <2>1, SeparateKept, CleanKept DEF Inv
  <1>3. CASE UNCHANGED vars
    BY <1>1, <1>3 DEF vars, files, guest, Inv, Separate, CleanCds, Owned, HasModule, Busy,
       Active, VmUp, Apart
  <1> QED
    BY <1>2, <1>3 DEF Next

-----------------------------------------------------------------------------
(* What runs that keep apart achieve.                                      *)

\* A pass is about the module the run itself built.
THEOREM PassIsAboutOwnModule ==
  ASSUME ~Overlap
  PROVE  Spec => []PassTestedOwnModule
  <1>1. Inv => PassTestedOwnModule
    BY DEF Inv, Types, Local, Owned, PassTestedOwnModule
  <1> QED
    BY <1>1, InitInv, InvInductive, PTL DEF Spec

\* No guest starts on a disk another guest has written.
THEOREM DisksAreFresh ==
  ASSUME ~Overlap
  PROVE  Spec => FreshDisks
  <1>1. ASSUME Inv, [Next]_vars, NEW r \in Runs, qemu[r] = "starting", qemu'[r] = "up",
               NEW i \in vm'[r]
        PROVE  i \notin dirty
    <2>1. Types /\ Owned(r) /\ Local(r) /\ DirNames /\ CleanCds
      BY <1>1 DEF Inv, Types
    <2>2. QemuOpens(r)
      <3>1. PICK q \in Runs : Step(q) \/ VmStep(q)
        BY <1>1 DEF Next, vars, guest
      <3>2. q = r
        BY <1>1, <2>1, <3>1, OthersLocal
      <3> QED
        BY <1>1, <2>1, <3>1, <3>2
           DEF Step, Start, Build, CopyOut, Image, ClearWork, CreateOverlay, CopyModule,
             BuildIso, Firmware, SpawnQemu, OpenLog, Join, Check, Cleanup, FailEarly,
             FailBoot, Kill, VmStep, QemuExits, GuestWrites, GuestTests, GuestPanics, guest,
             Types, TypeOK
    <2>3. job[r] \in Jobs
      BY <1>1, <2>1 DEF Local
    <2>4. PICK n \in Drives(job[r]) : i = dir[n]
      BY <1>1, <2>1, <2>2 DEF QemuOpens, Types, TypeOK
    <2>5. n \in Names /\ dir[n] # None
      BY <2>2, <2>3, <2>4, JobNames DEF QemuOpens
    <2>6. CASE n = Iso(job[r])
      BY <2>1, <2>3, <2>4, <2>5, <2>6, Kinds DEF DirNames, CleanCds
    <2>7. CASE n = Overlay(job[r])
      BY <1>1, <2>1, <2>4, <2>7 DEF Owned
    <2>8. CASE n = Vars /\ job[r].machine = "arm64"
      BY <1>1, <2>1, <2>4, <2>8 DEF Owned
    <2> QED
      BY <2>4, <2>6, <2>7, <2>8 DEF Drives
  <1>2. Inv /\ [Next]_vars =>
          [\A r \in Runs : qemu[r] = "starting" /\ qemu'[r] = "up" =>
             \A i \in vm'[r] : i \notin dirty]_vars
    BY <1>1
  <1> QED
    BY <1>2, InitInv, InvInductive, PTL DEF Spec, FreshDisks

\* No run replaces or truncates a file a VM that is up has open.
THEOREM VmFilesAreSafe ==
  ASSUME ~Overlap
  PROVE  Spec => VmFilesStay
  <1>1. ASSUME Inv, [Next]_vars, NEW r \in Runs, qemu[r] = "up", qemu'[r] = "up",
               NEW i \in vm[r]
        PROVE  holds'[i] = holds[i] /\ (i \in dirty => i \in dirty')
    <2>1. Types /\ Local(r) /\ FileTypes /\ DirNames
      BY <1>1 DEF Inv, Types, TypeOK, FileTypes
    <2>2. job[r] \in Jobs /\ i \in Inodes /\ i[1] \in Mine(job[r]) /\ i[1] # Log(job[r])
      BY <1>1, <2>1, JobNames DEF Types, TypeOK, Local
    <2>3. CASE UNCHANGED files
      BY <2>3 DEF files
    <2>4. ASSUME NEW q \in Runs, Step(q) \/ VmStep(q), q # r
          PROVE  holds'[i] = holds[i] /\ (i \in dirty => i \in dirty')
      BY <1>1, <2>2, <2>4, Undisturbed DEF Busy, VmUp
    <2>5. CASE Step(r)
      <3>1. CASE OpenLog(r)
        BY <2>1, <2>2, <3>1, JobNames, Created DEF OpenLog
      <3>2. CASE Cleanup(r)
        BY <2>1, <2>2, <2>3, <3>2, JobNames, Removed DEF Cleanup
      <3> QED
        BY <1>1, <2>1, <2>3, <2>5, <3>1, <3>2
           DEF Step, Start, Build, CopyOut, Image, ClearWork, CreateOverlay, CopyModule,
             BuildIso, Firmware, SpawnQemu, Join, Check, FailEarly, FailBoot, Kill, Goto,
             Local, Early
    <2>6. CASE VmStep(r)
      BY <2>3, <2>6 DEF VmStep, QemuOpens, QemuExits, GuestWrites, GuestTests, GuestPanics
    <2> QED
      BY <1>1, <2>3, <2>4, <2>5, <2>6 DEF Next, vars
  <1>2. Inv /\ [Next]_vars =>
          [\A r \in Runs : qemu[r] = "up" /\ qemu'[r] = "up" =>
             \A i \in vm[r] : holds'[i] = holds[i] /\ (i \in dirty => i \in dirty')]_vars
    BY <1>1
  <1> QED
    BY <1>2, InitInv, InvInductive, PTL DEF Spec, VmFilesStay

\* A failed run that had a console names the log of its own VM.
THEOREM FailureNamesLog ==
  ASSUME ~Overlap
  PROVE  Spec => FailureNamesOwnLog
  <1>1. ASSUME Inv, [Next]_vars, NEW r \in Runs, verdict[r] = "none", verdict'[r] = "fail",
               log[r] # None
        PROVE  dir'[Log(job[r])] = log[r]
    <2>1. Types /\ Owned(r) /\ Local(r) /\ FileTypes /\ DirNames
      BY <1>1 DEF Inv, Types, TypeOK, FileTypes
    <2>2. PICK q \in Runs : Step(q) \/ VmStep(q)
      BY <1>1 DEF Next, vars
    <2>3. q = r
      BY <1>1, <2>1, <2>2, OthersLocal
    <2>4. Cleanup(r)
      BY <1>1, <2>1, <2>2, <2>3
         DEF Step, Start, Build, CopyOut, Image, ClearWork, CreateOverlay, CopyModule,
           BuildIso, Firmware, SpawnQemu, OpenLog, Join, Check, FailEarly,
           FailBoot, Kill, VmStep, QemuOpens, QemuExits, GuestWrites, GuestTests,
           GuestPanics, Local, Early
    <2>5. dir[Log(job[r])] = log[r] /\ job[r] \in Jobs
      BY <1>1, <2>1, <2>4 DEF Cleanup, Goto, Owned, Local
    <2>6. Log(job[r]) \in Names \ Scratch(job[r]) /\ Scratch(job[r]) \in SUBSET Names
      BY <2>5, JobNames
    <2> QED
      BY <2>1, <2>4, <2>5, <2>6, Removed DEF Cleanup, files
  <1>2. Inv /\ [Next]_vars =>
          [\A r \in Runs : verdict[r] = "none" /\ verdict'[r] = "fail" /\ log[r] # None =>
             dir'[Log(job[r])] = log[r]]_vars
    BY <1>1
  <1> QED
    BY <1>2, InitInv, InvInductive, PTL DEF Spec, FailureNamesOwnLog

\* A step of a run, its VM or another run is a step of the run's contract or
\* leaves it alone.
LEMMA ContractStep ==
  ASSUME Inv, [Next]_vars, NEW r \in Runs
  PROVE  [Contract(r)!Next]_(Contract(r)!cvars)
  <1> DEFINE done == {k \in {1} : tested[r] # None /\ tested[r] = own[r]}
  <1>1. Types /\ Owned(r) /\ Local(r)
    BY DEF Inv, Types
  <1>2. CASE UNCHANGED <<tested[r], own[r], panicked[r], verdict[r]>>
    BY <1>2 DEF Contract!cvars
  <1>3. SUFFICES ASSUME ~UNCHANGED <<tested[r], own[r], panicked[r], verdict[r]>>
                 PROVE  Contract(r)!Next \/ UNCHANGED Contract(r)!cvars
    BY <1>2
  <1>4. PICK q \in Runs : Step(q) \/ VmStep(q)
    BY <1>3 DEF Next, vars, guest
  <1>5. q = r
    BY <1>1, <1>3, <1>4, OthersLocal
  <1>6. CASE Build(r)
    <2>1. tested[r] = None /\ tested' = tested /\ panicked' = panicked /\ verdict' = verdict
      BY <1>1, <1>6 DEF Build, Goto, Local, Early, guest
    <2> QED
      BY <2>1 DEF Contract!cvars
  <1>7. CASE Cleanup(r)
    <2>1. /\ UNCHANGED <<tested, own, panicked>> /\ verdict[r] = "none"
          /\ verdict'[r] = IF result[r] = "ok" THEN "pass" ELSE "fail"
      BY <1>1, <1>7 DEF Cleanup, Goto, Return, guest, Local, Types, TypeOK
    <2>2. CASE result[r] = "ok"
      <3>1. tested[r] # None /\ tested[r] = own[r] /\ ~panicked[r] /\ 1 .. 1 = {1}
        BY <1>1, <1>7, <2>2 DEF Cleanup, Goto, Local, Owned
      <3>2. Contract(r)!Pass
        BY <2>1, <2>2, <3>1 DEF Contract!Pass
      <3> QED
        BY <3>2 DEF Contract!Next
    <2>3. CASE result[r] # "ok"
      <3>1. Contract(r)!Fail
        BY <2>1, <2>3 DEF Contract!Fail
      <3> QED
        BY <3>1 DEF Contract!Next
    <2> QED
      BY <2>2, <2>3
  <1>8. CASE FailEarly(r)
    <2>1. UNCHANGED <<tested, own, panicked>> /\ verdict[r] = "none" /\ verdict'[r] = "fail"
      BY <1>1, <1>8 DEF FailEarly, Return, guest, Local, Types, TypeOK
    <2>2. Contract(r)!Fail
      BY <2>1 DEF Contract!Fail
    <2> QED
      BY <2>2 DEF Contract!Next
  <1>9. CASE GuestTests(r)
    <2>1. UNCHANGED <<own, panicked, verdict>> /\ verdict[r] = "none" /\ tested[r] = None
      BY <1>1, <1>9 DEF GuestTests, Local, Types, TypeOK
    <2>2. tested'[r] # None /\ tested'[r] = own'[r]
      <3>1. PICK i \in vm[r] : /\ i[1][1] = "iso" /\ holds[i] # None
                               /\ tested' = [tested EXCEPT ![r] = holds[i]]
        BY <1>9 DEF GuestTests
      <3>2. job[r] \in Jobs /\ i[1] = Iso(job[r])
        BY <1>1, <1>9, <3>1, Kinds DEF GuestTests, Local
      <3> QED
        BY <1>1, <2>1, <3>1, <3>2 DEF Owned, Types, TypeOK
    <2>3. Contract(r)!Complete(1)
      BY <2>1, <2>2 DEF Contract!Complete
    <2> QED
      BY <2>3 DEF Contract!Next
  <1>10. CASE GuestPanics(r)
    <2>1. UNCHANGED <<tested, own, verdict>> /\ verdict[r] # "pass" /\ panicked'[r] = TRUE
      BY <1>1, <1>10 DEF GuestPanics, Local, Types, TypeOK
    <2>2. Contract(r)!Panic
      BY <2>1 DEF Contract!Panic
    <2> QED
      BY <2>2 DEF Contract!Next
  <1> QED
    BY <1>3, <1>4, <1>5, <1>6, <1>7, <1>8, <1>9, <1>10
       DEF Step, VmStep, Start, CopyOut, Image, ClearWork, CreateOverlay, CopyModule,
         BuildIso, Firmware, SpawnQemu, OpenLog, Join, Check, FailBoot, Kill, QemuOpens,
         QemuExits, GuestWrites, guest

\* Each run implements the contract of a verdict with its own module and guest.
THEOREM RunsKeepContract ==
  ASSUME ~Overlap
  PROVE  Spec => EachRunKeepsContract
  <1>1. ASSUME Init, NEW r \in Runs
        PROVE  Contract(r)!Init
    <2>1. tested[r] = None /\ panicked[r] = FALSE /\ verdict[r] = "none"
      BY <1>1 DEF Init
    <2>2. {k \in {1} : tested[r] # None /\ tested[r] = own[r]} = {}
      BY <2>1
    <2> QED
      BY <2>1, <2>2 DEF Contract!Init
  <1>2. Init => ContractsBegin
    BY <1>1 DEF ContractsBegin
  <1>3. Inv /\ [Next]_vars => [ContractsStep]_vars
    BY ContractStep DEF ContractsStep
  <1> QED
    BY <1>2, <1>3, InitInv, InvInductive, PTL DEF Spec, EachRunKeepsContract
=============================================================================
