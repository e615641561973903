--------------------------- MODULE MCKtestConsole ---------------------------
(***************************************************************************)
(* Instances of KtestConsole.  The script is the program's own five        *)
(* commands; the instances differ in the environment they allow.           *)
(***************************************************************************)
EXTENDS KtestConsole

NoDeadline     == {}
EveryDeadline  == {"login", "prompt", "await", "wait"}
=============================================================================
