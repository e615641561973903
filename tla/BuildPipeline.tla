--------------------------- MODULE BuildPipeline ---------------------------
(***************************************************************************)
(* `cargo kbuild build` (crates/cargo-kbuild/src/build.rs): builds of the  *)
(* crates of a workspace, run one after the other or at once, over one     *)
(* --target-dir.                                                           *)
(*                                                                         *)
(* Files hold what they were made from.  Three things outlive a build: what *)
(* cargo caches, the bindings of fbsd-sys (its build.rs), which all crates *)
(* share, and the static library of each crate, target and profile; the    *)
(* work directory kbuild-work/<crate>, whose name says neither machine nor *)
(* profile; and the --out file.                                            *)
(***************************************************************************)
EXTENDS Naturals

CONSTANTS
  Builders,     \* the cargo-kbuild processes, each of which builds once
  Crates,       \* the crates of the workspace
  Jobs,         \* what they are asked for: records as in Job below
  Trees,        \* FreeBSD source trees, by --sysdir path
  MaxVersion,   \* versions of the workspace and of each tree.  Bounds the model.
  Features,     \* what --features after -- may select
  Names,        \* file names of object files
  Members,      \* the names rustc gives the objects of a job and a source version
  None,
  Overlap,      \* may two builds of one crate run at once?
  Moving,       \* the trees that may be updated in place (git pull, git checkout)
  ClearFails    \* may remove_dir_all leave some of the old work directory behind?

Machine  == {"amd64", "arm64"}
Profile  == {"release", "debug"}
Versions == 1 .. MaxVersion
\* profile is what the flags say, built what the extra cargo arguments make of it.
Job == [crate : Crates, machine : Machine, profile : Profile, built : Profile,
        features : Features, tree : Trees, exports : {"NO", "LIST", "YES"}]

ASSUME BuildAssumption ==
  /\ Jobs \subseteq Job
  /\ MaxVersion \in Nat \ {0}
  /\ Members \in [Jobs \X Versions -> (SUBSET Names) \ {{}}]
  /\ Overlap \in BOOLEAN /\ Moving \subseteq Trees /\ ClearFails \in BOOLEAN

Bindings == [tree : Trees, headers : Versions]
\* What an object file was compiled from.
Origin == [crate : Crates, machine : Machine, profile : Profile, features : Features,
           source : Versions, tree : Trees, headers : Versions]
Object == [name : Names, from : Origin]
\* A linked module, and which of its symbols are still global.
Linked == [objects : SUBSET Object, global : {"all", "listed", "needed"}]
ArmLinked == {l \in Linked : \A o \in l.objects : o.from.machine = "arm64"}
\* A module as it was copied, or the beginning of it.
Copied == [module : Linked, whole : BOOLEAN]

ASSUME NoneAssumption == None \notin Job /\ None \notin Linked /\ None \notin Copied

VARIABLES
  source, tree,   \* the version of the workspace, and of each tree, now
  bindings,       \* cargo's OUT_DIR of fbsd-sys, per machine and profile
  staticlib,      \* lib<crate>.a, per crate, machine and profile: its members
  objs,           \* the .o files in the work directory of each crate
  kld, ko,        \* <crate>.kld and <crate>.ko there
  pc, job,        \* where each build is, and what it builds
  want,           \* the source and the headers its cargo build found
  listed,         \* the .o files it found in the work directory
  out             \* what its --out file holds

cache == <<bindings, staticlib>>
work  == <<objs, kld, ko>>
world == <<source, tree>>
vars  == <<world, cache, work, pc, job, want, listed, out>>

PC == {"idle", "cargo", "check", "clear", "extract", "list", "link", "symbols",
       "shared", "strip", "copy", "copying", "done", "failed"}

TypeOK ==
  /\ source \in Versions /\ tree \in [Trees -> Versions]
  /\ bindings \in [Machine \X Profile -> Bindings \cup {None}]
  /\ staticlib \in [Crates \X Machine \X Profile -> SUBSET Object]
  /\ objs \in [Crates -> SUBSET Object]
  /\ kld \in [Crates -> Linked \cup {None}] /\ ko \in [Crates -> ArmLinked \cup {None}]
  /\ pc \in [Builders -> PC]
  /\ job \in [Builders -> Jobs \cup {None}]
  /\ want \in [Builders -> [source : Versions, headers : Versions] \cup {None}]
  /\ listed \in [Builders -> SUBSET Names]
  /\ out \in [Builders -> Copied \cup {None}]

Init ==
  /\ source = 1 /\ tree = [t \in Trees |-> 1]
  /\ bindings = [mp \in Machine \X Profile |-> None]
  /\ staticlib = [l \in Crates \X Machine \X Profile |-> {}]
  /\ objs = [c \in Crates |-> {}]
  /\ kld = [c \in Crates |-> None] /\ ko = [c \in Crates |-> None]
  /\ pc = [b \in Builders |-> "idle"]
  /\ job = [b \in Builders |-> None]
  /\ want = [b \in Builders |-> None]
  /\ listed = [b \in Builders |-> {}]
  /\ out = [b \in Builders |-> None]

-----------------------------------------------------------------------------
Active(b) == pc[b] \notin {"idle", "done", "failed"}

Goto(b, from, to) == pc[b] = from /\ pc' = [pc EXCEPT ![b] = to]

Crate(b)   == job[b].crate
\* Mutant: one work directory for the whole target directory.
OneWorkDir(b) == CHOOSE c \in Crates : TRUE
\* kbuild-work/<crate>.
WorkDir(b) == Crate(b)
Unit(b)    == <<job[b].machine, job[b].built>>   \* what cargo compiles for
\* Where staticlib is expected.
Library(b) == <<Crate(b), job[b].machine, job[b].profile>>

Start(b, j) ==
  /\ Goto(b, "idle", "cargo")
  /\ Overlap \/ \A c \in Builders : Active(c) => Crate(c) # j.crate
  /\ job' = [job EXCEPT ![b] = j]
  /\ UNCHANGED <<world, cache, work, want, listed, out>>

\* Mutant: the build script does not name FBSD_SYSDIR to cargo.
AnyBindings(u, t) ==
  IF bindings[u] # None THEN bindings[u] ELSE [tree |-> t, headers |-> tree[t]]
\* fbsd-sys/build.rs runs again when FBSD_SYSDIR (or FBSD_MACHINE) differs from
\* the last run, and for no other reason.
BindingsFor(u, t) ==
  IF bindings[u] # None /\ bindings[u].tree = t THEN bindings[u]
  ELSE [tree |-> t, headers |-> tree[t]]

\* The objects of a job, compiled from source s and with bindings h.  Their names
\* come and go with the source, the profile and the features.
Objects(j, s, h) ==
  {[name |-> n, from |-> [crate |-> j.crate, machine |-> j.machine, profile |-> j.built,
                          features |-> j.features, source |-> s, tree |-> h.tree,
                          headers |-> h.headers]] : n \in Members[j, s]}

\* Mutant: cargo is not asked when the library is there.
CargoOnce(b) ==
  /\ Goto(b, "cargo", "check")
  /\ LET u == Unit(b)
         h == BindingsFor(u, job[b].tree)
     IN  /\ bindings' = [bindings EXCEPT ![u] = h]
         /\ staticlib' = [staticlib EXCEPT ![<<Crate(b), u[1], u[2]>>] =
              IF @ # {} THEN @ ELSE Objects(job[b], source, h)]
         /\ want' = [want EXCEPT ![b] = [source |-> source,
                                         headers |-> tree[job[b].tree]]]
  /\ UNCHANGED <<world, work, job, listed, out>>
\* cargo build, under cargo's own lock on the target directory: the library is
\* made from the current source and the bindings it has or makes.
Cargo(b) ==
  /\ Goto(b, "cargo", "check")
  /\ LET u == Unit(b)
         h == BindingsFor(u, job[b].tree)
     IN  /\ bindings' = [bindings EXCEPT ![u] = h]
         /\ staticlib' = [staticlib EXCEPT ![<<Crate(b), u[1], u[2]>>] =
              Objects(job[b], source, h)]
         /\ want' = [want EXCEPT ![b] = [source |-> source,
                                         headers |-> tree[job[b].tree]]]
  /\ UNCHANGED <<world, work, job, listed, out>>

CheckLibrary(b) ==
  /\ Goto(b, "check", "clear")
  /\ staticlib[Library(b)] # {}
  /\ UNCHANGED <<world, cache, work, job, want, listed, out>>

\* What remove_dir_all may have left of a work directory when it stops half way.
Removing(c) ==
  /\ \E rest \in SUBSET objs[c] : objs' = [objs EXCEPT ![c] = rest]
  /\ kld' \in {kld, [kld EXCEPT ![c] = None]}
  /\ ko' \in {ko, [ko EXCEPT ![c] = None]}
\* And when it is done.
Removed(c) ==
  /\ objs' = [objs EXCEPT ![c] = {}]
  /\ kld' = [kld EXCEPT ![c] = None] /\ ko' = [ko EXCEPT ![c] = None]

\* Mutant: create_dir_all alone.
KeepWork(b) ==
  /\ Goto(b, "clear", "extract")
  /\ UNCHANGED <<world, cache, work, job, want, listed, out>>
\* remove_dir_all, whose error is ignored, and create_dir_all.
ClearWork(b) ==
  /\ Goto(b, "clear", "extract")
  /\ Removed(WorkDir(b)) \/ (ClearFails /\ Removing(WorkDir(b)))
  /\ UNCHANGED <<world, cache, job, want, listed, out>>

FileNames(objects) == {o.name : o \in objects}

\* llvm-ar x writes members, which replace files of the same name.
Extracted(b, members) ==
  objs' = [objs EXCEPT ![WorkDir(b)] =
             {o \in @ : o.name \notin FileNames(members)} \cup members]
Extract(b) ==
  /\ Goto(b, "extract", "list")
  /\ Extracted(b, staticlib[Library(b)])
  /\ UNCHANGED <<world, cache, kld, ko, job, want, listed, out>>

\* Every .o file that is there, wherever it came from.
ListObjects(b) ==
  /\ Goto(b, "list", "link") /\ objs[WorkDir(b)] # {}
  /\ listed' = [listed EXCEPT ![b] = FileNames(objs[WorkDir(b)])]
  /\ UNCHANGED <<world, cache, work, job, want, out>>

\* ld -r: every object is still there and of the machine -m names.
Link(b) ==
  /\ Goto(b, "link", "symbols")
  /\ LET objects == {o \in objs[WorkDir(b)] : o.name \in listed[b]}
     IN  /\ listed[b] = FileNames(objects)
         /\ \A o \in objects : o.from.machine = job[b].machine
         /\ kld' = [kld EXCEPT ![WorkDir(b)] = [objects |-> objects, global |-> "all"]]
  /\ UNCHANGED <<world, cache, objs, ko, job, want, listed, out>>

Direct(b) == job[b].machine = "amd64"
\* Mutant: the shared link is for every machine.
AlwaysShared(b) == "shared"
AfterSymbols(b) == IF Direct(b) THEN "strip" ELSE "shared"

GlobalFor(exports) == [NO |-> "needed", LIST |-> "listed", YES |-> "all"][exports]
\* apply_export_syms; on a .kld that is gone awk prints nothing, and that is Ok.
Symbols(b) ==
  /\ Goto(b, "symbols", AfterSymbols(b))
  /\ kld' = IF kld[WorkDir(b)] = None THEN kld
            ELSE [kld EXCEPT ![WorkDir(b)].global = GlobalFor(job[b].exports)]
  /\ UNCHANGED <<world, cache, objs, ko, job, want, listed, out>>

Shared(b) ==
  /\ Goto(b, "shared", "strip")
  /\ kld[WorkDir(b)] # None
  /\ \A o \in kld[WorkDir(b)].objects : o.from.machine = job[b].machine
  /\ ko' = [ko EXCEPT ![WorkDir(b)] = kld[WorkDir(b)]]
  /\ UNCHANGED <<world, cache, objs, kld, job, want, listed, out>>

Final(b) == IF Direct(b) THEN kld[WorkDir(b)] ELSE ko[WorkDir(b)]

Strip(b) ==
  /\ Goto(b, "strip", "copy") /\ Final(b) # None
  /\ UNCHANGED <<world, cache, work, job, want, listed, out>>

\* fs::copy: it truncates the --out file and writes, which takes a while.
Copy(b) ==
  /\ Goto(b, "copy", "copying") /\ Final(b) # None
  /\ out' = [out EXCEPT ![b] = [module |-> Final(b), whole |-> FALSE]]
  /\ listed' = [listed EXCEPT ![b] = {}]
  /\ UNCHANGED <<world, cache, work, job, want>>
CopyEnds(b) ==
  /\ Goto(b, "copying", "done")
  /\ out' = [out EXCEPT ![b].whole = TRUE]
  /\ UNCHANGED <<world, cache, work, job, want, listed>>

\* What a build that is cut short leaves of its work directory: the step it was
\* at may be half done.
LeftBy(b) ==
  \/ UNCHANGED work
  \/ pc[b] = "clear" /\ Removing(WorkDir(b))
  \/ /\ pc[b] = "extract" /\ UNCHANGED <<kld, ko>>
     /\ \E members \in SUBSET staticlib[Library(b)] : Extracted(b, members)

\* A command or a file operation failed, or the build was killed.
Fail(b) ==
  /\ Active(b) /\ pc' = [pc EXCEPT ![b] = "failed"]
  /\ job' = [job EXCEPT ![b] = None]
  /\ want' = [want EXCEPT ![b] = None]
  /\ listed' = [listed EXCEPT ![b] = {}]
  /\ LeftBy(b)
  /\ UNCHANGED <<world, cache, out>>

EditSource ==
  /\ source < MaxVersion /\ source' = source + 1
  /\ UNCHANGED <<tree, cache, work, pc, job, want, listed, out>>

UpdateTree(t) ==
  /\ tree[t] < MaxVersion /\ tree' = [tree EXCEPT ![t] = @ + 1]
  /\ UNCHANGED <<source, cache, work, pc, job, want, listed, out>>

Step(b) ==
  \/ \E j \in Jobs : Start(b, j)
  \/ Cargo(b) \/ CheckLibrary(b) \/ ClearWork(b) \/ Extract(b) \/ ListObjects(b)
  \/ Link(b) \/ Symbols(b) \/ Shared(b) \/ Strip(b)
  \/ Copy(b) \/ CopyEnds(b) \/ Fail(b)

Next ==
  \/ \E b \in Builders : Step(b)
  \/ EditSource
  \/ \E t \in Moving : UpdateTree(t)

Spec == Init /\ [][Next]_vars

-----------------------------------------------------------------------------
(* Properties.                                                             *)

\* The objects of the module a build has put out.
Out(b) == out[b].module.objects

\* A build that reports success wrote a whole module of its crate, for the machine
\* and with the profile its flags name (build.rs:42-51, print_help) and the
\* features cargo was given, with every object of the source its own cargo build
\* found and no other, and with the symbols --export-syms asks for: whatever
\* earlier builds, of other sources, features, machines or crates, finished or
\* cut short, left in the target directory.  This supposes that builds of one crate
\* do not overlap, that remove_dir_all removes and that built = profile.
OutputIsOwnBuild ==
  \A b \in Builders : pc[b] = "done" =>
    /\ out[b].whole
    /\ FileNames(Out(b)) = Members[job[b], want[b].source]
    /\ \A o \in Out(b) :
         /\ o.from.crate = job[b].crate /\ o.from.machine = job[b].machine
         /\ o.from.profile = job[b].profile /\ o.from.features = job[b].features
         /\ o.from.source = want[b].source
    /\ out[b].module.global = GlobalFor(job[b].exports)

\* "against a real FreeBSD source tree passed via --sysdir" (build.rs:1-3): the
\* module is compiled against bindings of the tree its --sysdir names, although
\* builds from several trees share cargo's cache of bindings.
BindingsOfOwnTree ==
  \A b \in Builders : pc[b] = "done" => \A o \in Out(b) : o.from.tree = job[b].tree

\* The same of the tree's content: the headers the module is compiled against
\* are those its --sysdir held when cargo ran.
HeadersAreCurrent ==
  \A b \in Builders : pc[b] = "done" =>
    \A o \in Out(b) : o.from.headers = want[b].headers

-----------------------------------------------------------------------------
(* The contract.                                                           *)

\* The objects a build has compiled, wherever in the pipeline they are: once
\* cargo is done they are settled.
Held(b) ==
  CASE pc[b] \in {"check", "clear", "extract"} -> staticlib[Library(b)]
    [] pc[b] \in {"list", "link"} -> objs[WorkDir(b)]
    [] pc[b] \in {"symbols", "shared"} -> kld[WorkDir(b)].objects
    [] pc[b] \in {"strip", "copy"} -> Final(b).objects
    [] pc[b] = "copying" -> Out(b)

\* The module they have to become.
Module(b) ==
  IF pc[b] \in {"idle", "cargo", "done", "failed"} THEN None
  ELSE [objects |-> Held(b), global |-> GlobalFor(job[b].exports)]

Contract == INSTANCE BuildContract WITH
  asked     <- [b \in Builders |-> IF Active(b) THEN job[b] ELSE None],
  compiled  <- [b \in Builders |-> Module(b)],
  delivered <- out

\* However many builds share the target directory, and whatever failed ones left
\* there, each of them does what BuildContract says: between its own cargo run
\* and its --out file the module is not changed or exchanged, and until it is
\* copied nothing is put out (build.rs:176-303).  It supposes what OutputIsOwnBuild does.
ImplementsContract == Contract!Spec
=============================================================================
