----------------------------- MODULE KldModule -----------------------------
(***************************************************************************)
(* The lifecycle of a module declared with kernel_module! (crates/         *)
(* fbsd-kernel/src/module.rs and lib.rs), built for a machine as           *)
(* crates/cargo-kbuild/src/build.rs builds it, in the kernel that          *)
(* kldloads, kldunloads and shuts it down.                                 *)
(*                                                                         *)
(* Ours are the version range of the MODULE_DEPEND record, the linker-set  *)
(* entries and their boundary symbols, the landing pads and the dispatch   *)
(* of raw events.  The kernel's linker is external: it checks the range of *)
(* every dependency it finds, runs the SYSINITs it finds, and calls the    *)
(* event handler through a pointer; it reads EOPNOTSUPP and EINVAL as      *)
(* consent to be quiesced, and a forced kldunload goes on after a refusal. *)
(***************************************************************************)
EXTENDS Integers, Sequences

CONSTANTS
  Built,           \* the __FreeBSD_version of the trees modules are built against
  Running,         \* the __FreeBSD_version of the kernels they are loaded into
  MaxEvents        \* events the handler sees.  Bounds the model.

Machine == {"amd64", "arm64"}
Bucket  == 100000

\* __FreeBSD_version is no negative number, and its roundup stays in a c_int.
ASSUME KldAssumption ==
  /\ Built \subseteq Nat /\ Running \subseteq Nat
  /\ \A v \in Built : v \div Bucket < 21474
  /\ MaxEvents \in Nat

-----------------------------------------------------------------------------
(* The module's metadata.                                                  *)

DivCeil(v, n) == (v + n - 1) \div n

\* Mutant: div_floor for div_ceil.
EarlierMaxver(v) == (v \div Bucket) * Bucket - 1
KernelMaxver(v) == DivCeil(v, Bucket) * Bucket - 1

\* Mutant: the record accepts kernels older than the module.
AnyMinimum(v) == [minimum |-> 0, maximum |-> KernelMaxver(v)]
KernelDepend(v) == [minimum |-> v, maximum |-> KernelMaxver(v)]

\* Mutant: nothing refers to __start_set_* and __stop_set_*.
NoBoundarySymbols == FALSE
\* lib.rs declares the boundary symbols weak, so that the linker defines them.
BoundarySymbols == TRUE

\* build.rs asks for landing pads on arm64, through RUSTFLAGS, which cargo
\* ignores when the environment also holds CARGO_ENCODED_RUSTFLAGS.
LandingPads(m, encoded) == m = "arm64" /\ ~encoded

Ko(m, v, encoded) ==
  [machine |-> m, depend |-> KernelDepend(v), version |-> v, encoded |-> encoded,
   boundary |-> BoundarySymbols, landing |-> LandingPads(m, encoded)]

-----------------------------------------------------------------------------
(* Events.                                                                 *)

MOD_LOAD     == 0
MOD_UNLOAD   == 1
MOD_SHUTDOWN == 2
MOD_QUIESCE  == 3

Event == {"Load", "Unload", "Shutdown", "Quiesce"}

\* What a handler returns: 0; EOPNOTSUPP or EINVAL; any other error.
Answer == {"ok", "declined", "error"}

\* Mutant: the last two events in the order of the documentation of Event.
FromRawSwapped(cmd) ==
  CASE cmd = MOD_LOAD -> "Load" [] cmd = MOD_UNLOAD -> "Unload"
    [] cmd = MOD_QUIESCE -> "Shutdown" [] cmd = MOD_SHUTDOWN -> "Quiesce"
    [] OTHER -> "none"
\* A c_int; the cast to u32 keeps the four values apart from all others.
FromRaw(cmd) ==
  CASE cmd = MOD_LOAD -> "Load" [] cmd = MOD_UNLOAD -> "Unload"
    [] cmd = MOD_SHUTDOWN -> "Shutdown" [] cmd = MOD_QUIESCE -> "Quiesce"
    [] OTHER -> "none"

-----------------------------------------------------------------------------
VARIABLES
  ko,        \* the built module
  kernel,    \* the version of the kernel, and whether its CPU enforces BTI
  file,      \* the module's linker file in the kernel
  seen,      \* the events $handler saw, with its answers
  refused,   \* how often the default arm answered EOPNOTSUPP
  panicked

vars == <<ko, kernel, file, seen, refused, panicked>>

TypeOK ==
  /\ ko \in {Ko(m, v, e) : m \in Machine, v \in Built, e \in BOOLEAN}
  /\ kernel \in [version : Running, bti : BOOLEAN]
  /\ file \in {"absent", "rejected", "linked", "failed", "loaded", "quiesced"}
  /\ seen \in Seq(Event \X Answer) /\ Len(seen) <= MaxEvents
  /\ refused \in {0, 1} /\ panicked \in BOOLEAN

Init ==
  /\ ko \in {Ko(m, v, e) : m \in Machine, v \in Built, e \in BOOLEAN}
  /\ kernel \in [version : Running, bti : BOOLEAN]
  /\ file = "absent" /\ seen = << >> /\ refused = 0 /\ panicked = FALSE

\* An amd64 kernel finds a linker set by section name; every other one needs
\* the boundary symbols.
FindsSets == ko.machine = "amd64" \/ ko.boundary

VersionAccepted ==
  ko.depend.minimum <= kernel.version /\ kernel.version <= ko.depend.maximum

\* The kernel's call through the handler pointer: it traps without a landing
\* pad, reaches $handler with a known event, or answers EOPNOTSUPP.
Traps == ko.machine = "arm64" /\ kernel.bti /\ ~ko.landing

Trap == Traps /\ panicked' = TRUE /\ UNCHANGED <<file, seen, refused>>

\* Mutant: an unknown event is passed on too.
HandlesAny(cmd, answer) ==
  /\ ~Traps /\ UNCHANGED panicked
  /\ Len(seen) < MaxEvents /\ seen' = Append(seen, <<FromRaw(cmd), answer>>)
  /\ UNCHANGED refused
Handles(cmd, answer) ==
  /\ ~Traps /\ UNCHANGED panicked
  /\ IF FromRaw(cmd) # "none"
     THEN Len(seen) < MaxEvents /\ seen' = Append(seen, <<FromRaw(cmd), answer>>)
            /\ UNCHANGED refused
     ELSE answer = "declined" /\ refused' = 1 /\ UNCHANGED seen

Reject ==
  /\ file = "absent" /\ FindsSets /\ ~VersionAccepted /\ file' = "rejected"
  /\ UNCHANGED <<ko, kernel, seen, refused, panicked>>

\* The dependency is satisfied, or its record is not found.
Link ==
  /\ file = "absent" /\ (FindsSets => VersionAccepted)
  /\ file' = IF FindsSets THEN "linked" ELSE "loaded"
  /\ UNCHANGED <<ko, kernel, seen, refused, panicked>>

\* module_register_init, the module's SYSINIT.
RegisterInit ==
  /\ file = "linked"
  /\ \/ Trap
     \/ \E answer \in Answer : Handles(MOD_LOAD, answer)
                              /\ file' = IF answer = "ok" THEN "loaded" ELSE "failed"
  /\ UNCHANGED <<ko, kernel>>

\* MOD_LOAD failed: the kernel tells the handler to unload and drops the file.
UndoLoad ==
  /\ file = "failed" /\ file' = "absent"
  /\ \E answer \in Answer : Handles(MOD_UNLOAD, answer)
  /\ UNCHANGED <<ko, kernel>>

\* The first half of kldunload: what declines to say is consent, and a forced
\* unload needs none.
Quiesce ==
  /\ file = "loaded"
  /\ \/ Trap
     \/ \E answer \in Answer, forced \in BOOLEAN :
          /\ Handles(MOD_QUIESCE, answer)
          /\ file' = IF answer # "error" \/ forced THEN "quiesced" ELSE "loaded"
  /\ UNCHANGED <<ko, kernel>>

\* The second half of the same call: the handler can still refuse, forced or not.
Unload ==
  /\ file = "quiesced"
  /\ \E answer \in Answer : Handles(MOD_UNLOAD, answer)
                           /\ file' = IF answer = "ok" THEN "absent" ELSE "loaded"
  /\ UNCHANGED <<ko, kernel>>

\* The system goes down, as soon as the module is registered and in the middle
\* of a kldunload too.
Shutdown ==
  /\ file \in {"linked", "loaded", "quiesced"} /\ UNCHANGED file
  /\ Trap \/ \E answer \in Answer : Handles(MOD_SHUTDOWN, answer)
  /\ UNCHANGED <<ko, kernel>>

\* "the kernel never sends one"; an event of a later kernel would be one.
Stray ==
  /\ file = "loaded" /\ UNCHANGED file
  /\ \E cmd \in {-1, 4} : Handles(cmd, "declined")
  /\ UNCHANGED <<ko, kernel>>

Next ==
  /\ ~panicked
  /\ Reject \/ Link \/ RegisterInit \/ UndoLoad \/ Quiesce \/ Unload
       \/ Shutdown \/ Stray

Spec == Init /\ [][Next]_vars

-----------------------------------------------------------------------------
(* Properties.                                                             *)

\* The documented rule (README.md:114-118): the kernel is not older than the
\* tree and in the same "hundred-thousand" bucket.
SameBucket(v, k) == k >= v /\ k \div Bucket = v \div Bucket

\* A module linked into a kernel was built against a tree the rule accepts,
\* on either machine's loader.
LinkedOnlyBySameBucket ==
  file \notin {"absent", "rejected"} => SameBucket(ko.version, kernel.version)

\* "A module built on M.x loads on any M.y with y >= x" (module.rs:44-46): a
\* kernel that rejects the module is one the rule excludes.
LoadsInSameBucket ==
  file = "rejected" => ~SameBucket(ko.version, kernel.version)

\* A file the kernel keeps has seen a successful MOD_LOAD since it was linked:
\* the failure of lib.rs:20-41, where kldstat lists a module that never ran.
NoSilentLoad ==
  file \in {"loaded", "quiesced"} =>
    \E i \in 1 .. Len(seen) :
      /\ seen[i] = <<"Load", "ok">>
      /\ \A j \in i + 1 .. Len(seen) : seen[j] # <<"Unload", "ok">>

Silent(event) == event[1] = "Shutdown"

\* Of what a handler saw, i and k with no event but Shutdown between them.
Adjacent(i, k) ==
  /\ i < k /\ ~Silent(seen[i]) /\ ~Silent(seen[k])
  /\ \A j \in i + 1 .. k - 1 : Silent(seen[j])

\* The Unload a handler agrees to, or the one that undoes its failed Load,
\* whatever it answers to that one.
Gone(i) ==
  /\ seen[i][1] = "Unload"
  /\ seen[i][2] = "ok" \/ \E h \in 1 .. i - 1 : Adjacent(h, i) /\ seen[h][1] = "Load"

Follows(i, event) ==
  /\ event[1] = "Load" <=> Gone(i)
  /\ event[1] = "Unload" => seen[i][1] = "Quiesce" \/ seen[i][1] = "Load"
  /\ seen[i][1] = "Load" => (event[1] = "Unload" <=> seen[i][2] # "ok")

\* What a handler may rely on, a Shutdown at any time aside: Load comes first, and
\* again only after it is gone; then nothing else does.  Unload comes right after
\* a Quiesce, whatever it answered to that, or right after a Load it failed; and
\* after a failed Load nothing but that Unload.
HandlerProtocol ==
  \A k \in 1 .. Len(seen) : ~Silent(seen[k]) =>
    /\ \A i \in 1 .. k - 1 : Adjacent(i, k) => Follows(i, seen[k])
    /\ (\A j \in 1 .. k - 1 : Silent(seen[j])) => seen[k][1] = "Load"
=============================================================================
