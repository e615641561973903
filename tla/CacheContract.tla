--------------------------- MODULE CacheContract ---------------------------
(***************************************************************************)
(* What the VM image cache of `cargo kbuild ktest` promises (the module    *)
(* comment of crates/cargo-kbuild/src/ktest.rs and README.md "Testing a    *)
(* module in a real kernel"), with no files, no partial contents and no    *)
(* failures in it: per URL one whole download and one image made from it,  *)
(* each replaced in one step and never by an older one, and VMs whose base *)
(* stays what it was when they booted.                                     *)
(***************************************************************************)
EXTENDS Naturals

CONSTANTS
  Procs,        \* the ktest processes, each with a VM at most
  Urls,
  MaxVersion    \* releases a server publishes under one URL

NoBase == << >>

VARIABLES
  served,       \* the release each URL serves now
  downloaded,   \* the release in the cache, 0 if there is none
  expanded,     \* the release the cached image was made from, 0 if there is none
  base          \* the image under each VM: its URL and release

cvars == <<served, downloaded, expanded, base>>

Init ==
  /\ served = [u \in Urls |-> 1]
  /\ downloaded = [u \in Urls |-> 0] /\ expanded = [u \in Urls |-> 0]
  /\ base = [p \in Procs |-> NoBase]

NewRelease(u) ==
  /\ served[u] < MaxVersion
  /\ served' = [served EXCEPT ![u] = @ + 1]
  /\ UNCHANGED <<downloaded, expanded, base>>

\* A run caches a release the server had when it was asked.
Download(u) ==
  /\ \E v \in 1 .. served[u] :
       /\ downloaded[u] <= v
       /\ downloaded' = [downloaded EXCEPT ![u] = v]
  /\ UNCHANGED <<served, expanded, base>>

Expand(u) ==
  /\ downloaded[u] # 0
  /\ expanded' = [expanded EXCEPT ![u] = downloaded[u]]
  /\ UNCHANGED <<served, downloaded, base>>

Boot(p, u) ==
  /\ base[p] = NoBase /\ expanded[u] # 0
  /\ base' = [base EXCEPT ![p] = <<u, expanded[u]>>]
  /\ UNCHANGED <<served, downloaded, expanded>>

Halt(p) ==
  /\ base' = [base EXCEPT ![p] = NoBase]
  /\ UNCHANGED <<served, downloaded, expanded>>

Next ==
  \/ \E u \in Urls : NewRelease(u) \/ Download(u) \/ Expand(u)
  \/ \E p \in Procs : Halt(p) \/ \E u \in Urls : Boot(p, u)

Spec == Init /\ [][Next]_cvars
=============================================================================
