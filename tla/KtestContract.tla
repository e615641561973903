--------------------------- MODULE KtestContract ---------------------------
(***************************************************************************)
(* What `cargo kbuild ktest` promises of its verdict (the module comment   *)
(* of crates/cargo-kbuild/src/ktest.rs and README.md "Testing a module in  *)
(* a real kernel"), with no console, no threads and no time in it: the     *)
(* guest carries out the five commands in order, each after the one before *)
(* it succeeded; a test passes only when all five did and no panic was     *)
(* printed; a verdict is final.                                            *)
(***************************************************************************)
EXTENDS Naturals

CONSTANT NSteps   \* the commands of the test: boot, mount, load, stat, unload

VARIABLES
  completed,   \* the commands the guest carried out
  panicked,    \* "panic:" appeared on the console
  verdict      \* "none" until ktest is over, then "pass" or "fail"

cvars == <<completed, panicked, verdict>>

Init == completed = {} /\ panicked = FALSE /\ verdict = "none"

\* The guest carries out command k.
Complete(k) ==
  /\ verdict # "pass"
  /\ 1 .. k - 1 \subseteq completed
  /\ completed' = completed \cup {k}
  /\ UNCHANGED <<panicked, verdict>>

\* The guest's kernel panics: at any time before a pass, even after a failure.
Panic ==
  /\ verdict # "pass"
  /\ panicked' = TRUE
  /\ UNCHANGED <<completed, verdict>>

Pass ==
  /\ verdict = "none" /\ completed = 1 .. NSteps /\ ~panicked
  /\ verdict' = "pass"
  /\ UNCHANGED <<completed, panicked>>

Fail ==
  /\ verdict = "none"
  /\ verdict' = "fail"
  /\ UNCHANGED <<completed, panicked>>

Next == (\E k \in 1 .. NSteps : Complete(k)) \/ Panic \/ Pass \/ Fail

Spec == Init /\ [][Next]_cvars
=============================================================================
