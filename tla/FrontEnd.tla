------------------------------ MODULE FrontEnd ------------------------------
(***************************************************************************)
(* One invocation of cargo-kbuild, from its arguments to the bindings its  *)
(* module is compiled against and, for ktest, to the qemu command line:    *)
(* run of crates/cargo-kbuild/src/main.rs, the checks before cargo runs in *)
(* build.rs and common.rs, the build scripts of fbsd-sys and net80211-sys, *)
(* which cargo may run side by side, and the tables by machine of ktest.rs.*)
(*                                                                         *)
(* The rest of the pipeline is the matter of BuildPipeline, that of ktest  *)
(* of KtestRun.                                                            *)
(***************************************************************************)
EXTENDS CommandLine

CONSTANTS
  Inputs,    \* a command line (words), a Cargo.toml (lines) and what is in OUT_DIR
  Scripts,   \* the crates with bindings the module depends on
  Names, Underscored, NoName

M == INSTANCE CrateName

LinkName == {"machine", "x86", "i386"}
\* An include directory: of a machine or a shim, in some tree.
Include(t, n) == <<t, n>>
\* One in whatever tree an earlier build was given.
Old == Include(<<None, "">>, "old")

ASSUME FrontEndAssumption ==
  /\ Scripts \subseteq {"fbsd-sys", "net80211-sys"}
  /\ Underscored \in [Names -> Names] /\ NoName \notin Names
  /\ \A in \in Inputs : /\ in.words \in Seq(ToSet(in.words)) /\ None \notin ToSet(in.words)
                        /\ in.manifest \in Seq(M!Line)
                        /\ in.links \in [LinkName -> {None, Old}]

-----------------------------------------------------------------------------
(* Tables by machine.                                                      *)

\* Mutant: i386, which fbsd-sys knows, is taken up in common.rs.
WithI386 ==
  [m \in {"amd64", "arm64", "i386"} |->
     CASE m = "amd64" -> [cpuarch |-> "amd64", emulation |-> "elf_x86_64_fbsd", target |-> "x86_64"]
       [] m = "arm64" -> [cpuarch |-> "aarch64", emulation |-> "aarch64elf", target |-> "aarch64"]
       [] m = "i386"  -> [cpuarch |-> "i386", emulation |-> "elf_i386_fbsd", target |-> "i386"]]
\* machine_cpuarch, ld_emulation and target_spec_path, which name the same two.
Machines ==
  [m \in {"amd64", "arm64"} |->
     CASE m = "amd64" -> [cpuarch |-> "amd64", emulation |-> "elf_x86_64_fbsd", target |-> "x86_64"]
       [] m = "arm64" -> [cpuarch |-> "aarch64", emulation |-> "aarch64elf", target |-> "aarch64"]]

\* The include links beyond "machine", and the machines there is a triple for.
\* Each of the two scripts has tables of its own, and panics for other machines.
SysArchLinks(m) ==
  CASE m = "amd64" -> <<"x86", "i386">> [] m = "i386" -> <<"x86">> [] OTHER -> <<>>
NetArchLinks(m) ==
  CASE m = "amd64" -> <<"x86", "i386">> [] m = "i386" -> <<"x86">> [] OTHER -> <<>>
SysClangTriple == {"amd64", "arm64", "i386"}
NetClangTriple == {"amd64", "arm64", "i386"}

ArchLinks(c, m) == IF c = "fbsd-sys" THEN SysArchLinks(m) ELSE NetArchLinks(m)
ClangTriple(c)  == IF c = "fbsd-sys" THEN SysClangTriple ELSE NetClangTriple

\* ktest: the machines there is an image, a qemu and a -machine for.
DefaultImage == {"amd64", "arm64"}          \* panics for any other
QemuBinary   == {"amd64", "arm64"}
QemuMachine  == {"amd64", "arm64"}          \* unreachable!() for any other

-----------------------------------------------------------------------------
VARIABLES
  pc,
  words,      \* the arguments
  at,         \* how many of them the loop has read
  sub,        \* "build" or "ktest"
  args,       \* BuildArgs or KtestArgs, as read so far
  tree,       \* the sys/ directory they name
  manifest,   \* the lines of Cargo.toml
  line,       \* how many of them have been read
  name,       \* and what they said
  library,    \* the name of the library that is looked for
  stage,      \* where each script is
  todo,       \* the include links it has yet to make
  links,      \* the directory each link in its OUT_DIR leads to
  bindings    \* where the headers of its bindings.rs came from

read == <<words, at, sub, args>>
out  == <<stage, todo, links, bindings>>
made == <<line, name, library, out>>
vars == <<pc, read, tree, manifest, made>>

PC == {"start", "parse", "sysdir", "machine", "tools", "target", "manifest", "cargo",
       "scripts", "qemu", "spawn", "done", "help", "refused", "error", "panic"}

TypeOK ==
  /\ pc \in PC /\ sub \in {"build", "ktest"}
  /\ at \in 0 .. Len(words) /\ line \in 0 .. Len(manifest)
  /\ DOMAIN args = Field(sub)
  /\ \A i \in DOMAIN manifest : manifest[i] \in M!Line
  /\ stage \in [Scripts -> {"links", "bindgen", "done"}]
  /\ \A c \in Scripts : /\ DOMAIN links[c] = LinkName
                       /\ \A i \in DOMAIN todo[c] : todo[c][i] \in LinkName
                       /\ stage[c] = "done" => Include(tree, "sys") \in bindings[c]
  /\ pc \in {"machine", "tools", "target", "manifest", "cargo", "scripts", "qemu", "spawn",
             "done"} => args["sysdir"] # None /\ tree \in {args["sysdir"]} \X {"", "sys"}

Init ==
  /\ pc = "start" /\ sub = "build" /\ at = 0 /\ args = Defaults("build") /\ tree = None
  /\ line = 0 /\ name = M!Nothing /\ library = None
  /\ \E in \in Inputs : /\ words = in.words /\ manifest = in.manifest
                       /\ links = [c \in Scripts |-> in.links]
  /\ stage = [c \in Scripts |-> "links"] /\ todo = [c \in Scripts |-> <<>>]
  /\ bindings = [c \in Scripts |-> None]

-----------------------------------------------------------------------------
Goto(from, to) == pc = from /\ pc' = to

\* Anything the program looks for may be missing: it says so and exits 1.
Missing(from) ==
  /\ Goto(from, "error")
  /\ UNCHANGED <<read, tree, manifest, made>>

\* `cargo kbuild ...` runs `cargo-kbuild kbuild ...`.
Raw == IF words # <<>> /\ Head(words) = "kbuild" THEN Tail(words) ELSE words
First(set) == Raw # <<>> /\ Head(Raw) \in set

MainHelp ==
  /\ Goto("start", "help") /\ First(Help)
  /\ words' = Raw
  /\ UNCHANGED <<at, sub, args, tree, manifest, made>>

Subcommand ==
  /\ Goto("start", "parse") /\ First({"ktest", "build"})
  /\ sub' = Head(Raw) /\ words' = Tail(Raw) /\ args' = Defaults(sub')
  /\ UNCHANGED <<at, tree, manifest, made>>

\* No subcommand: every argument is one of build's.
Bare ==
  /\ Goto("start", "parse") /\ ~First(Help \cup {"ktest", "build"})
  /\ sub' = "build" /\ words' = Raw /\ args' = Defaults("build")
  /\ UNCHANGED <<at, tree, manifest, made>>

\* The loop over the arguments.  Word is the one it.next() returns.
Word == words[at + 1]
Reading == pc = "parse" /\ at < Len(words)
LeaveParse(to) == pc' = to /\ UNCHANGED <<read, tree, manifest, made>>

\* A flag that needs a value takes the next word, if there is one.
HasValue(f) == at + 1 < Len(words) /\ Legal(f, words[at + 2])

\* Mutant: a value may not look like a flag.
TakePlainOption ==
  /\ Reading /\ Word \in DOMAIN Options(sub)
  /\ LET f == Options(sub)[Word]
     IN  IF HasValue(f) /\ words[at + 2] \notin DOMAIN Options(sub)
         THEN /\ args' = [args EXCEPT ![f] = Meaning(f, words[at + 2])] /\ at' = at + 2
              /\ UNCHANGED <<pc, words, sub, tree, manifest, made>>
         ELSE LeaveParse("refused")
TakeOption ==
  /\ Reading /\ Word \in DOMAIN Options(sub)
  /\ LET f == Options(sub)[Word]
     IN  IF HasValue(f)
         THEN /\ args' = [args EXCEPT ![f] = Meaning(f, words[at + 2])] /\ at' = at + 2
              /\ UNCHANGED <<pc, words, sub, tree, manifest, made>>
         ELSE LeaveParse("refused")

TakeSwitch ==
  /\ Reading /\ Word \in DOMAIN Switches(sub)
  /\ args' = [args EXCEPT ![Switches(sub)[Word][1]] = Switches(sub)[Word][2]]
  /\ at' = at + 1
  /\ UNCHANGED <<pc, words, sub, tree, manifest, made>>

\* -- hands all the words after it to cargo.
TakeRest ==
  /\ Reading /\ Word = "--"
  /\ args' = [args EXCEPT !["extra"] = @ \o SubSeq(words, at + 2, Len(words))]
  /\ at' = Len(words)
  /\ UNCHANGED <<pc, words, sub, tree, manifest, made>>

TakeOther ==
  /\ Reading /\ Word \notin DOMAIN Options(sub) \cup DOMAIN Switches(sub) \cup {"--"}
  /\ LeaveParse(IF Word \in Help THEN "help" ELSE "refused")

\* Mutant: --sysdir may be left out.
EndWithoutSysdir ==
  /\ pc = "parse" /\ at = Len(words) /\ pc' = "sysdir"
  /\ UNCHANGED <<read, tree, manifest, made>>
EndOfWords ==
  /\ pc = "parse" /\ at = Len(words)
  /\ IF args["sysdir"] = None THEN LeaveParse("refused")
     ELSE pc' = "sysdir" /\ UNCHANGED <<read, tree, manifest, made>>

\* The path is a tree's sys/, or, failing that, has one in it.
ResolveSysdir ==
  /\ Goto("sysdir", "machine")
  /\ \E isSys, hasSys \in BOOLEAN :
       /\ isSys \/ hasSys
       /\ tree' = <<args["sysdir"], IF isSys THEN "" ELSE "sys">>
  /\ words' = <<>> /\ at' = 0      \* of no more use
  /\ UNCHANGED <<sub, args, manifest, made>>

CheckMachine ==
  /\ pc = "machine"
  /\ pc' = IF args["machine"] \in DOMAIN Machines THEN "tools" ELSE "error"
  /\ UNCHANGED <<read, tree, manifest, made>>

\* Toolchain::discover asks rustc for its host and sysroot, then wants four tools.
Discover ==
  /\ Goto("tools", "target")
  /\ UNCHANGED <<read, tree, manifest, made>>

TargetSpec ==
  /\ Goto("target", "manifest")
  /\ UNCHANGED <<read, tree, manifest, made>>

ReadLine ==
  /\ pc = "manifest" /\ line < Len(manifest)
  /\ name' = M!ReadLine(name, manifest[line + 1]) /\ line' = line + 1
  /\ UNCHANGED <<pc, read, tree, manifest, library, out>>

ReadName ==
  /\ pc = "manifest" /\ line = Len(manifest)
  /\ LET n == M!NameIn(name)
     IN  /\ pc' = IF n = NoName THEN "error" ELSE "cargo"
         /\ library' = IF n = NoName THEN None ELSE M!LibraryName(n)
  /\ UNCHANGED <<read, tree, manifest, line, name, out>>

\* cargo runs the scripts with FBSD_SYSDIR and FBSD_MACHINE set.
RunCargo ==
  /\ Goto("cargo", "scripts")
  /\ todo' = [c \in Scripts |-> <<"machine">> \o ArchLinks(c, args["machine"])]
  /\ UNCHANGED <<read, tree, manifest, line, name, library, stage, links, bindings>>

Leads(n) == Include(tree, IF n = "machine" THEN args["machine"] ELSE n)

\* Mutant: a link that is there is kept.
KeepLink(c) ==
  /\ pc = "scripts" /\ todo[c] # <<>>
  /\ links' = [links EXCEPT ![c][Head(todo[c])] =
                 IF @ = None THEN Leads(Head(todo[c])) ELSE @]
  /\ todo' = [todo EXCEPT ![c] = Tail(@)]
  /\ UNCHANGED <<pc, read, tree, manifest, line, name, library, stage, bindings>>
\* Whatever an earlier script, or one that died, left there is removed, and the
\* link made.
MakeLink(c) ==
  /\ pc = "scripts" /\ todo[c] # <<>>
  /\ links' = [links EXCEPT ![c][Head(todo[c])] = Leads(Head(todo[c]))]
  /\ todo' = [todo EXCEPT ![c] = Tail(@)]
  /\ UNCHANGED <<pc, read, tree, manifest, line, name, library, stage, bindings>>

ChooseTriple(c) ==
  /\ pc = "scripts" /\ stage[c] = "links" /\ todo[c] = <<>>
  /\ \/ args["machine"] \in ClangTriple(c) /\ stage' = [stage EXCEPT ![c] = "bindgen"]
        /\ UNCHANGED pc
     \/ args["machine"] \notin ClangTriple(c) /\ pc' = "panic" /\ UNCHANGED stage
  /\ UNCHANGED <<read, tree, manifest, line, name, library, todo, links, bindings>>

\* bindgen reads <machine/...>, <x86/...> and <i386/...> through the links and
\* the other headers from the tree.
Generate(c) ==
  /\ pc = "scripts" /\ stage[c] = "bindgen" /\ stage' = [stage EXCEPT ![c] = "done"]
  /\ bindings' = [bindings EXCEPT ![c] =
       {links[c][n] : n \in {"machine"} \cup ToSet(ArchLinks(c, args["machine"]))}
       \cup {Include(tree, "sys")}]
  /\ UNCHANGED <<pc, read, tree, manifest, line, name, library, todo, links>>

\* The rest of build() gives a .ko, which ktest boots.
Built ==
  /\ Goto("scripts", IF sub = "ktest" THEN "qemu" ELSE "done")
  /\ \A c \in Scripts : stage[c] = "done"
  /\ UNCHANGED <<read, tree, manifest, made>>

PickImage ==
  /\ pc = "qemu"
  /\ pc' = IF args["image_url"] = None /\ args["machine"] \notin DefaultImage
           THEN "panic" ELSE "spawn"
  /\ UNCHANGED <<read, tree, manifest, made>>

QemuCommand ==
  /\ pc = "spawn"
  /\ pc' = CASE args["machine"] \notin QemuBinary -> "error"
             [] args["machine"] \notin QemuMachine -> "panic"
             [] OTHER -> "done"
  /\ UNCHANGED <<read, tree, manifest, made>>

Next ==
  \/ MainHelp \/ Subcommand \/ Bare
  \/ TakeOption \/ TakeSwitch \/ TakeRest \/ TakeOther \/ EndOfWords
  \/ ResolveSysdir \/ CheckMachine \/ Discover \/ TargetSpec
  \/ ReadLine \/ ReadName \/ RunCargo
  \/ \E c \in Scripts : MakeLink(c) \/ ChooseTriple(c) \/ Generate(c)
  \/ Built \/ PickImage \/ QemuCommand
  \/ \E from \in {"sysdir", "tools", "target", "manifest", "cargo", "scripts", "qemu",
                  "spawn"} : Missing(from)

Spec == Init /\ [][Next]_vars

-----------------------------------------------------------------------------
(* Properties.                                                             *)

\* The loop over the arguments (build.rs:122-143, ktest.rs:62-93) reads a command
\* line as its help text says: the last of a repeated flag counts, a word after
\* a flag with a value is that value even where it looks like a flag, and all
\* words after -- go to cargo.
ParsedAsDocumented ==
  /\ pc = "sysdir" => Expected(sub, words) = <<"run", args>>
  /\ pc \in {"help", "refused"} => Expected(sub, words) = <<pc, None>>

\* "Build options: see `cargo kbuild build --help` (all accepted here too; --machine
\* defaults to arm64 ...)" (ktest.rs:113-115): what build accepts, ktest accepts,
\* and makes the same of it, but for the machine when none is given.
KtestTakesBuildFlags ==
  LET b == Expected("build", words)
  IN  sub = "ktest" /\ pc \in {"sysdir", "help", "refused"} /\ b[1] = "run" =>
        /\ pc = "sysdir"
        /\ \A f \in BuildField :
             args[f] = IF f = "machine" /\ Given("build", words, f) = {} THEN "arm64"
                       ELSE b[2][f]

\* A machine one of the tables does not know is refused before any work is done:
\* no panic of ktest or of the build script is reached ("Reachable only if
\* `machine_cpuarch` grows an entry `ktest` doesn't have a default image for",
\* ktest.rs:235-236).
NoPanic == pc # "panic"

\* For a plain Cargo.toml that cargo accepts, the library build() looks for is the
\* one cargo writes, however tables and keys are ordered (common.rs:106-108).
LooksForCargosLibrary ==
  pc = "cargo" /\ M!Accepted(manifest) /\ M!Plain(manifest) =>
    library = M!CargoLibrary(manifest)

\* The bindings come from the tree and the machine of this build alone, whatever
\* an earlier script left in OUT_DIR (fbsd-sys/build.rs:10-13).
BindingsReadOwnTree ==
  \A c \in Scripts : bindings[c] # None =>
    /\ Include(tree, args["machine"]) \in bindings[c]
    /\ \A d \in bindings[c] : d[1] = tree
=============================================================================
