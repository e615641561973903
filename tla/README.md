# TLA+ models of `cargo kbuild`

The repository builds FreeBSD kernel modules (KLDs) from Rust crates with
`cargo kbuild build` and tests them in a virtual machine with
`cargo kbuild ktest`. This directory models what these programs do when they
are interrupted, run twice at once, or meet a guest, a server or an
environment that does not behave, and what a module built with them does in a
kernel.

Run a model with `tlc -config X.cfg M`, check a proof with `tlapm M.tla`;
`PROJECT.json` lists which configuration belongs to which module, the source
lines each definition stands for, and a mutant that breaks each property.

## Inventory

| Part | State it keeps | Operations | Interacts with |
|---|---|---|---|
| Command line (`main.rs`, `parse_args`, `try_parse_flag`) | none after parsing | dispatch, fold over the arguments | - |
| Discovery (`read_crate_name`, `Toolchain`, `resolve_sysdir`, tables by machine) | none | parse, probe, look up | file system, rustc |
| Bindings (`fbsd-sys`, `net80211-sys` build scripts) | `OUT_DIR`: include links and `bindings.rs` | link, generate when cargo says so | cargo's fingerprints, the source tree |
| Build pipeline (`build.rs`, `common.rs`) | cargo's target directory, `kbuild-work/<crate>`, the `.ko` | cargo build, extract, link, localize, shared link, strip, copy | other builds over the same directory, the FreeBSD source tree |
| Image cache (`ktest.rs` `download_cached`, `decompress_cached`) | cache directory, `.part` files | look up, download, rename, decompress with an `xz` child, rename | other ktest runs through the directory, the server, VMs that have an image open |
| ktest run (`ktest.rs` `run`) | work directory, overlay, ISO, log, variable store | build, cache, overlay, ISO, boot, cleanup | the build, other runs of the same module, VMs that outlive their run |
| Console driver (`ktest.rs` `boot_and_test`, `Console`) | accumulated output, log, child process | expect, expect_marker, send, wait, kill, join, verdict | reader thread through a channel, qemu through three pipes, the guest |
| Module runtime (`fbsd-kernel` `module.rs`, `lib.rs`) | linker-set records in the `.ko` | version range, event dispatch | the kernel's linker |
| `kprintln!`, panic handler | none | one call each | the kernel |
| Target specs, example module | none | - | - |

What makes each part correct:

- *Command line.* What the user asked for is what the help text says the words
  mean, for every order and repetition of them; and a flag of `build` means the
  same to `ktest`. Hard: values that look like flags, `--` anywhere, two loops
  that share one function.
- *Discovery.* The library looked for is the one cargo makes; no machine gets
  past one table to panic at a later one. Hard: nine lists of machines.
- *Bindings.* What a build compiles against is the tree it was given. Hard:
  an `OUT_DIR` that outlives the script, caches that do not see a change.
- *Build pipeline.* What a successful build wrote is its own module, from the
  current source. Hard: leftovers of earlier builds, shared names.
- *Image cache.* A file under its final name is whole, whatever fails or is
  killed; `--fresh` boots what it downloaded; a running VM's base image never
  changes. Hard: concurrent runs, death between steps, temporary names.
- *ktest run.* A pass is about the module this run built, on disks no guest has
  used; no run touches a file another's VM has open; the log a failure names is
  its own. Hard: names shared by runs, cleanup that fails or is skipped.
- *Console driver.* A pass means that the guest did all five commands and did
  not panic; a verdict always comes; no VM is left. Hard: two threads, a
  channel and a log that lag behind the guest, deadlines against late answers,
  processes that do not die.
- *Module runtime.* A module loads where the version rule says and nowhere
  else, is loaded when it is listed, and its handler sees events in order. Hard:
  two loaders, version boundaries, a kernel that unloads after a refusal and
  shuts down at any time.

`PROJECT.json` lists every hazard at its line, with the properties that cover it.

## Modules

`CommandLine` - the flags of the two programs as tables, what a word may do to
the arguments read so far, and beside it a reference that has no loop: what each
field is, said of the words as a whole. A flag with a value takes the next word,
whatever it looks like.

`CrateName` - what `read_crate_name` does with a line, a line being a table's
header, a name key or something else, and what cargo makes of the whole file.

`FrontEnd` - one invocation, from its words to the bindings and the qemu command
line: dispatch, parse, the probes (each finds what it looks for or ends the
run), the look-ups in the tables by machine (which end it or panic), and the
two build scripts, which cargo may run side by side, link by link. The loops are
steps, one for a word or a flag and one for a line of `Cargo.toml`; an error in
the words (`refused`) is told from one of the files. It extends `CommandLine`
and instantiates `CrateName`.

`BuildPipeline` - builds of the crates of a workspace over one target directory,
several at once. A file's content is what it was made from (crate, machine,
profile, features, source, tree, headers), so a wrong output is one made from
something else than the build's own inputs. Cargo's bindings are shared by all
crates; `kbuild-work/<crate>` names neither machine nor profile. A library is a
set of objects with names, and `Members` says which names rustc gives them: any,
changing with the job and the source, as names hashed from features and codegen
units do. So extraction replaces the files whose names come again and no others,
and what is linked is what is found (`ListObjects`). `ClearWork` empties the
directory, or with `ClearFails` leaves any part of it; `Fail` may stop the
clearing and the extraction half way (`LeftBy`), and `Copy` and `CopyEnds` are
the truncation and the end of `fs::copy`. Sources are edited and `Moving` trees
updated while builds run. `BuildContract` is the abstract specification: a build
is asked for a module, compiles it in one step, begins to put out that very
module and ends with the whole of it, or gives up; there are no files in it to
share. `BuildPipeline` implements it.

`ImageCache` - the cache directory as a map from names to inodes, because what
goes wrong goes wrong through inodes: `File::create` truncates an existing
file, `rename` moves an inode somebody may still write, a VM keeps what it
opened. One action per step of the two functions; `Fail` and `Kill` at every
step; `xz` is a child that can outlive its parent. Names are sequences of
dot-separated parts, and `WithExtension` does to them what the library does:
the two temporary names of `<stem>.qcow2.xz` come out equal, as they do in the
program. Constants switch on what the code does not control: overlapping runs,
orphaned children, bodies that end early. `CacheContract` is the abstract
specification: per URL one downloaded release and one expanded from it, five
actions, no files and no failures. `ImageCache` implements it.

`KtestRun` - whole runs over one file system. Files are inodes again, one for
each name and run that made it; `dirty` ones a guest has written. A run fails
or is killed at each step and its VM may live on. `BuildPipeline`, `ImageCache`
and the console are one step each here; what the steps do to shared names is
what this module is about. Each run, with its VM, implements `KtestContract`:
the console's contract holds of the module the run itself built.

`KtestConsole` - the driver thread (`pc`), the reader thread, the channel
between them, qemu's pipe and the log. Output is a set of tokens, those the
code's patterns tell apart; an echoed command and its marker line are different
tokens, which is what `expect_marker`'s needle achieves. The guest, a `login`,
a shell, five commands and a power-off, is external and may fail, panic, hang
or print bytes that are not UTF-8; its `login` may refuse the empty password,
and takes whatever is typed at its prompt for a name. The reader may lose writes
to the log (`LossyLog`) or fail and stop reading (`ReadFails`). `completed`,
`printed` and `swallowed` are history. `KtestContract` is the abstract specification: completed commands,
panic, verdict, three actions that matter. `KtestConsole` implements it.

`KldModule` - a built module (version range, boundary symbols, landing pads)
and the external kernel that loads it, calls its handler and unloads it. The
handler may answer anything. The kernel takes `EOPNOTSUPP` and `EINVAL` from
`MOD_QUIESCE` for consent, a forced unload goes on after a refusal, a failed
`MOD_LOAD` is undone by a `MOD_UNLOAD`, and a shutdown reaches a module from its
registration on. `seen` is what the handler saw and answered.

The `MC...` modules hold the instances. The theorems are in `ImageCacheProofs`,
`CacheContractProofs` (which extends it), `KtestConsoleProofs`,
`KldModuleProofs`, `BuildPipelineProofs`, `KtestRunProofs`, `CommandLineProofs`
and `FrontEndProofs` (which extends it).

## Plan

Done, in this order, the most important behaviour first: `ImageCache`,
`KtestContract` and `KtestConsole`, `KldModule`, `BuildPipeline`, `KtestRun`,
`CommandLine`, `CrateName` and `FrontEnd`, `CacheContract`; then the proofs of
`BuildPipeline`, `KtestRun`, `FrontEnd` and of the cache's refinement; then those of the argument loops and of `read_crate_name`,
and `BuildContract` with its refinement; then object names, half-done steps and
the copy in `BuildPipeline`, forced unloads and all answers in `KldModule`, and a
reader that fails in `KtestConsole`. Every invariant and action property of
the passing runs is now a theorem, and so is every refinement.

What could follow: a console by lines, in which the kernel prints between a
marker and its line end (today a marker is one token); suppositions weaker than
`Alone` and `Orderly`, such as runs of one image that overlap only while they
read it; a build whose cargo lock is modelled, to say which steps of two
overlapping builds cargo itself keeps apart.

## Runs

| Run | Instance | Shows |
|---|---|---|
| `front_end` | up to 5 of 9 words after 3 prefixes; every `Cargo.toml` of up to 5 lines; every `OUT_DIR` | words mean what the help says, to `ktest` what they mean to `build`; no table panics; the library is cargo's; bindings read the build's own tree |
| `build_sequence` | 3 builds, 2 crates, 4 jobs over both machines and profiles, 2 features and 2 trees, one of them moving, 2 versions | a finished build wrote its own module, with every object of its source and no other, whatever earlier builds left and wherever they were cut short; its bindings are of its own tree; each build implements the contract |
| `build_v_stale_bindings` | 2 builds, a tree updated in place | finding 4 |
| `cache_refill` | 2 runs, 1 image, 3 releases, 3 chunks, 4 inodes a name; no overlap | `.part` files are never mistaken for cached ones; `--fresh` boots what it fetched; a VM that is up keeps its base while the other run replaces the image twice; the cache implements its contract |
| `cache_faults` | 2 runs, 1 image, overlap, orphaned `xz`, short bodies | a final name is replaced, never removed |
| `cache_v_overlap` | 2 runs, 1 image, overlap | finding 1 |
| `ktest_runs` | 2 runs, 4 jobs: 2 modules, both machines, shared or own directories; removals that fail; no overlap | a pass is about the run's own module, disks are fresh, an open file stays, a failure names its own log, each run keeps the contract |
| `console_any_guest` | any guest, any deadline, no wrapper, UTF-8, a faithful log and reader | types, `PassSound`, `PassNoPanic`, `NoVmLeft`, `CommandsInOrder`, `OnlyEchoSwallowed`, the contract, and that a verdict comes |
| `console_healthy` | a guest that carries everything out, deadlines that wait for it, a `--qemu` wrapper, bytes that are not UTF-8, a log that loses writes, a reader that may fail | it passes, unless the reader fails |
| `console_v_bytes` | bytes that are not UTF-8 | finding 2 |
| `kld_lifecycle` | 3 trees, 6 kernels around a bucket, both machines, 5 events, any answers | the version rule, no silent load, order of events |
| `kld_v_bucket_start` | a tree at the start of a bucket | finding 3 |

`CHECK_DEADLOCK FALSE` stands in every configuration because each system may
stop: a verdict is final, a run ends, a kernel may have panicked, a bound may
be reached.

### Bounds

Two processes are enough for every interleaving hazard listed: each is a
conflict of a step of one run with a step of another, and a third run adds only
more of the same conflict; the theorems are for any number. Three releases let
an image be replaced twice while a VM holds the first. Three chunks give an
interrupted file that has begun, and is neither empty nor all but done.
`MaxLinks` leaves a name more inodes than two runs and their VMs can hold at
once, so that `Create` is never blocked in `cache_refill`. In `cache_faults` it
is 2: there a third inode of one name is a step the model does not take, and
chunks and releases are one each, which `CacheNeverShrinks` does not look at.
`build_sequence` needs two versions, an old one and the current one. A builder
builds once, so three let a build follow two others, or one that is under way
beside it, and find what they left; its jobs differ from the first in the
features, the tree and the symbols, in machine and profile, or in the crate. A
debug library has an object that keeps its name and one whose name comes and
goes, a release library one that replaces both. A run of
`KtestRun` happens once, so two runs give the second the leftovers of the
first. `MaxWords` 5 is a flag with its value, given twice or swallowed by
another flag, and one word more; the nine words have one of each kind
(subcommand, help, flags with a value that is a path, a machine or a number, a
switch, a separator, plain values). `MaxLines` 5 is two tables with a name each
and a line between or after. Five events see a module loaded, quiesced,
unloaded and loaded again with a refusal or a shutdown in between. The console needs no
bounds: the script has five commands and the tokens are finite; the sequence
`input` and the channel are bounded by what is sent and printed.

### Fairness

`FairSpec` of `KtestConsole` assumes that the driver and the reader are
scheduled (they are threads), that every deadline arrives (`recv_timeout` and
the loop of `wait_with_timeout`), and that a wrapper exits once its VM is gone.
It assumes nothing of the guest, nor that a read of the reader fails
(`ReaderFails` is no part of `Reader`), and without a wrapper `Terminates` needs
no more; with one it fails. `HealthyPasses`
is about a guest that carries everything out, so `FairGuestSpec` adds that it
makes progress; a guest that need not is what `console_any_guest` is about. The
other modules state safety only: each step of theirs may fail or be the last.

## Theorems

`PROJECT.json` lists them. None bounds the number of processes, images, chunks,
releases or versions, and none supposes anything the module's named assumption
does not say, except where stated here.

*ImageCache.* `TypeCorrect` and `CacheGrows` hold with every fault on
(`CacheGrows` supposes `NamesApart`: the names of two images do not collide;
lemma `ReleaseNames` shows it of `<stem>.qcow2.xz` for any distinct stems). The
other four suppose `Alone`: `NamesApart`, no two runs filling one image at once,
no orphan, no short body. Each of the four is needed; `cache_v_overlap` shows it for the
second. The properties are not inductive: that a cached file is whole says
nothing about the file that is about to take its name. `Inv` adds

- `Separate`: runs fill different images, and no inode has two names;
- `Opens`: what a run has open is its own temporary file;
- `Backs`: the base of a VM no longer has a temporary name, so that no write
  reaches it;
- `Fills`: up to a run's offset its temporary file holds its stream, and when it
  has been closed it is whole;
- `Follows`: where a `--fresh` run finds what it downloaded.

Everything a step writes is then either the run's own temporary file or freed
(`OthersNames`, `OthersData`), so a step of one run keeps what holds of another
(`OthersKeep`), and only the two renames change what a final name stands for
(`Replaced`).

*CacheContract.* `KeepsContract`: under `Alone` every step of `ImageCache` is a
step of `CacheContract` or a stutter. The map reads a release off a whole file
under its final name, so the two renames are the steps that matter, and what
they publish must be no older than what is there. `Ages` says why: a run that
fetches holds a release between the cached one and the one served (`Newer`), an
image being made is of the download beside it (`Beside`), a VM's base is whole
(`Based`), nothing cached is newer than what is served (`Served`).

*KtestConsole.* `Types` (a shell executes one of the commands), `Heard` (a marker
was printed only for a completed command; buffer, channel and pipe hold what was
printed), `Scripted` (where the driver is, and what is completed), `Ordered`,
`Ended` (the reader ends only when the VM is gone and the pipe drained, and the
verdict comes after), `Logged` (a panic is in the log or still in the pipe).
`PassIsSound`, `CommandsAreOrdered` and `OnlyTheEchoIsLost` suppose nothing:
they hold for every guest, wrapper, console, log, reader and deadline.
`NoVmIsLeft` supposes that there is no wrapper or that no read of the reader
fails: with both, the join ends while the wrapper's qemu lives. `PassHasNoPanic`
and the refinement `KeepsContract` suppose `Faithful`, a console that is UTF-8, a
log that loses no write and reads that do not fail: without the first,
`console_v_bytes` is a counterexample. The refinement maps each action to an
action of `KtestContract` or a stutter; that a guest that may still print is not
one of a passed test comes from `Ended`.

`OnlyTheEchoIsLost` is what holds of a password prompt that comes too late: the
line it takes is the first echo, which does nothing, and the driver goes no
further until that echo is answered. `Placed` says which lines a guest that still runs may yet read: the name comes first, the empty line only
where the password was asked for, and any line but these and the first echo was
typed to a guest that has a shell.

*KldModule.* The arithmetic of `kernel_maxver` is two lemmas,
`RangeInsideBucket` and `RangeAtBucketStart`; `Linked` (a linked module is one
whose range was accepted) and `Expected` (what the handler saw last, shutdowns
aside, is what the file's state says) make the properties inductive.
`InsideBucketLoads` supposes that no tree is at a multiple of 100000, which is
finding 3. `HandlerSeesProtocol` supposes nothing of the handler: what it may
rely on is what remains when the kernel takes some refusals for consent and
overrides others, that an `Unload` comes right after a `Quiesce`, or after a
`Load` that failed, and a second `Load` only once the handler is gone.

*BuildPipeline.* `TypeCorrect` holds however builds overlap. `OutputIsOwn`,
`BindingsAreOwn` and `KeepsContract` suppose `Orderly`: builds under way
together are of different crates, the cargo arguments after `--` leave the
profile alone, and a removal of the work directory that fails is not passed
over. Each is needed, as *Findings* says under `Overlap`, `built` and
`ClearFails`. Nothing is supposed of the names of objects, nor of where earlier builds were cut short.
The invariant `Progress` says what a build has in its hands at each step, from
the library to the copied file: past the removal its work directory is empty,
and from then on what it holds is `Own`, all objects of its source and tree and
no other; `Separate` keeps other builds away from it. `KeepsContract` maps every
step to a step of `BuildContract` or a stutter. What a build has compiled is
read off whatever holds it at the time (`Held`): the library, the objects
extracted, the `.kld`, the file to copy, the `--out` file. `OwnModule` says that
its own steps hand it on unchanged, `OthersModule` that steps of others do not
touch it, and `HeadersHeld` that cached bindings are of headers the tree had.

*KtestRun.* `TypeCorrect` holds for overlapping runs. The other five suppose
`~Overlap`. `Owned` follows the module from the build to the `--out` file, the
ISO source, the ISO and the guest, and says where the log is; every step of a
run touches only names of its own job (lemmas on `Mine`), which `Separate`
keeps apart from those of a run that is at work or whose VM is up. `VmFilesAreSafe`
and `DisksAreFresh` are action properties from the same invariant;
`RunsKeepContract` maps each run to `KtestContract`.

*CommandLine.* `ParsesAsDocumented` and `KtestTakesBuilds` hold for command
lines of any length and any words, and suppose only the module's assumption on
its constants. What a loop over the words computes is usually an induction over
data; here the loop is steps, so it is an invariant. `Upto` says that the words
before the one the loop is at hold no error and no end, and that each field is
`Settled`: it is what the last flag that sets it says, or the default. `SoFar`
adds the words after `--`, and `ReadBy` names the tables the words are read by:
the subcommand's, and `build`'s too while `ktest` reads words `build` accepts.
The reference speaks of the first and the last place where a flag stands:
`Smallest` gets a least element from the well-foundedness of the naturals,
`MinIsLeast` and `MaxIsGreatest` say what follows for the helpers. One lemma for
each kind of word (`OptionRead`, `SwitchRead`, `EndRead`, `OtherRead`) says how
the reference changes when the words grow by it. `KtestTakesBuilds`
needs no second loop: one loop keeps `SoFar` for both readings, as a flag of
`build` means to `ktest` what it means to `build` (`SameWord`).

*FrontEnd.* `TypeCorrect`, `LooksForCargos`, `NoPanicReached` and
`BindingsReadOwn` suppose only the module's assumption, for any command lines,
files and `OUT_DIR`. `MachineKnown` says that past the first table the machine
is one of two, `LinksMade` that every link a script needs leads into the tree or
is still to be made. `TypeInv` adds to the types that a build which goes on has
the tree its arguments name (`TreeResolved`) and that what a script generated
includes it (`Generated`). `ManifestInv` is the loop over `Cargo.toml`:
`SectionRead` (the section is that of the last header) and `NameRead` (a name
found is one that a line read so far gives its table, and none was found only
when none gives one).

Model-checked only: the liveness properties (`Terminates`, `HealthyPasses`), as
liveness under fairness is out of the prover's reach.

## Findings

1. *Concurrent first runs* (`cache_v_overlap`). Two runs share one `.part` file;
   one truncates what the other has written and is about to rename
   (`ktest.rs:275-288`). For as long as it writes, a part of a download is
   under the final name.
2. *Bytes that are not UTF-8* (`console_v_bytes`). The panic check reads the log
   with `read_to_string(..).unwrap_or_default()` (`ktest.rs:447`).
3. *Start of a bucket* (`kld_v_bucket_start`). For a multiple of 100000 the
   declared maximum is below the minimum (`module.rs:49`).
4. *Stale bindings* (`build_v_stale_bindings`). A tree updated in place does not
   make cargo run the bindings' build script again (`fbsd-sys/build.rs:57`).

Behaviours the models have, some only with the constant, field or job named,
and divergences too small for a run. No document of the repository speaks
against them unless one is named.

Image cache and build:

- `OrphanXz`: the two temporary names of an image are equal, so an `xz` that
  outlives its run writes into a later run's download.
- `TruncatedBody`: a body without a declared length that ends early becomes a
  cached download; `xz` then rejects it at every run until `--fresh`.
- `Overlap` in the cache: a slow run replaces a newer download by its older one.
- A `--fresh` run that fails between its renames leaves a new download beside an
  old image, which the next plain run boots.
- `ClearFails`: the error of `remove_dir_all` is ignored (`build.rs:230`), so
  objects of an earlier build may still be there, under names this one does not
  use, and every `.o` in the directory is linked (`:238-243`). The pipeline's
  comment (`build.rs:12-14`) speaks of the library's members only.
- `Overlap` in `BuildPipeline`: `kbuild-work/<crate>` does not name the machine
  (`build.rs:229`), so an amd64 build can copy out the `.kld` of an arm64 build
  of the same crate, and reports success.
- A job with `built` other than `profile`: `--profile` among the extra cargo
  arguments makes cargo write elsewhere than the build looks, and the library of
  an earlier build satisfies the check (`build.rs:224`).
- `ko.encoded`: `CARGO_ENCODED_RUSTFLAGS` in the environment hides the
  `RUSTFLAGS` the build sets (`build.rs:209`), and an arm64 module traps at its
  first call, which `build.rs:195-201` calls fixed.

ktest runs and their console:

- `Overlap` in `KtestRun`: a second run of a module replaces the `.ko` and the
  work directory of the first, which then passes on the other's module; it
  removes overlay, ISO and log of a VM that is up; the log read back by its path
  can be the other's, so that a panic is missed; arm64 runs truncate each
  other's variable store (`ktest.rs:716`). A VM that outlives a killed run makes
  the next run overlap it.
- A failure before `boot_and_test` skips the cleanup (`ktest.rs:131-180`).
- `Generous` without "prompt": eight seconds after the name (`ktest.rs:407-410`)
  the driver types at the shell; a password prompt that comes then reads the
  line, and a healthy guest fails. `OnlyEchoSwallowed` says how far that goes.
- `Wrapper` with a guest that never ends: `kill` (`ktest.rs:442`) reaches only
  the wrapper, and `join` (`:445`) waits for as long as the VM lives, so
  `Terminates` fails, which the comment at `ktest.rs:438-439` does not expect.
- `Wrapper` with `ReadFails`: the join ends with the reader, and the wrapper's
  qemu outlives the test.
- `LossyLog`: a panic whose write to the log failed is missed.
- `SpawnConsoleFails`: without a `console.log` qemu is left running
  (`ktest.rs:397`).
- A guest that completed the script and then does not power off is killed and
  passes.
- `qemu-img` takes a relative backing file as relative to the overlay
  (`ktest.rs:168`), so a relative `--cache-dir` ends in an error. Paths are
  names in the models; the error is `FailEarly`.

Front end:

- README.md:39 uses `-p`, which `try_parse_flag` does not know
  (`build.rs:91-118`): the build ends with an error.
- The comment at `fbsd-sys/build.rs:10` says `FBSD_TARGET_ARCH`; the code reads
  `FBSD_MACHINE`.
- `read_crate_name` misreads a header or a name with a comment after it, a
  header with blanks inside its brackets, single quotes, dotted keys and
  multi-line strings. `LooksForCargosLibrary` is stated of files that have
  none of these; the function's comment says it is not a full TOML parser.

## Not modelled

- What the external tools compute: bindgen's translation, the linker's and
  `objcopy`'s work on an object, `xz`'s format, TLS and HTTP below a stream of
  chunks. Each is represented by what its output was made from.
- `kprintln!` and the panic handler: a compile-time check of a literal and one
  call each, no state.
- Target specifications: static settings. The example module is one of the
  handlers `KldModule` allows.
- Output of the kernel between a marker and its line end: what a kernel prints,
  and when, is not the program's.
- Wording, progress output, and the creation of directories.
