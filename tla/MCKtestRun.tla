----------------------------- MODULE MCKtestRun -----------------------------
(***************************************************************************)
(* Instances of KtestRun: which runs share a file system.                  *)
(***************************************************************************)
EXTENDS KtestRun, TLC

CONSTANTS r1, r2, hello, wifi, target, cwd, scratch

Asked(c, m, t, d, k) ==
  [crate |-> c, machine |-> m, target |-> t, dir |-> d, stem |-> c, keep |-> k]

\* Two modules over one target directory and one current directory, the first
\* tested on either machine, its work directory kept or not; and the first once
\* more, with directories of its own.
TwoModules == {Asked(hello, "amd64", target, cwd, TRUE),
               Asked(hello, "arm64", target, cwd, FALSE),
               Asked(wifi, "amd64", target, cwd, FALSE),
               Asked(hello, "amd64", scratch, scratch, FALSE)}

Symmetry == Permutations(Runs)
=============================================================================
