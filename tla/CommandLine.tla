---------------------------- MODULE CommandLine ----------------------------
(***************************************************************************)
(* The arguments of `cargo kbuild`: the flags try_parse_flag and           *)
(* parse_args of crates/cargo-kbuild/src/build.rs and ktest.rs know, their *)
(* defaults and what their values mean; and, as a reference for the loops  *)
(* that read them (in FrontEnd), what the help text makes of a whole       *)
(* command line.                                                           *)
(***************************************************************************)
EXTENDS Naturals, Sequences, SequencesExt, FiniteSetsExt

CONSTANTS
  Numbers,   \* the words that read as a number of seconds
  None       \* a path or value nobody gave

Help == {"-h", "--help"}

\* Flags with a value, and the field that gets it.
BuildOption ==
  [o \in {"--sysdir", "-s", "--machine", "-m", "--manifest-path", "--out", "-o", "--target-dir",
          "--export-syms"} |->
     CASE o \in {"--sysdir", "-s"} -> "sysdir"
       [] o \in {"--machine", "-m"} -> "machine"
       [] o = "--manifest-path" -> "manifest_path"
       [] o \in {"--out", "-o"} -> "out"
       [] o = "--target-dir" -> "target_dir"
       [] o = "--export-syms" -> "export_syms"]
VmOption ==
  [o \in {"--image-url", "--cache-dir", "--memory", "--smp", "--timeout", "--qemu"} |->
     CASE o = "--image-url" -> "image_url" [] o = "--cache-dir" -> "cache_dir"
       [] o = "--memory" -> "memory"       [] o = "--smp" -> "smp"
       [] o = "--timeout" -> "timeout"     [] o = "--qemu" -> "qemu"]

\* Flags without one: the field they set, and to what.
BuildSwitch == [o \in {"--debug", "--release"} |-> <<"release", o = "--release">>]
VmSwitch    == [o \in {"--fresh", "--keep"} |->
                  <<IF o = "--fresh" THEN "fresh" ELSE "keep", TRUE>>]

\* ktest hands every word to try_parse_flag first.
KtestOption ==
  [o \in DOMAIN BuildOption \cup DOMAIN VmOption |->
     IF o \in DOMAIN BuildOption THEN BuildOption[o] ELSE VmOption[o]]
KtestSwitch ==
  [o \in DOMAIN BuildSwitch \cup DOMAIN VmSwitch |->
     IF o \in DOMAIN BuildSwitch THEN BuildSwitch[o] ELSE VmSwitch[o]]

\* Mutant: ktest looks at its own flags first, and has a short one for memory.
OwnOptionsFirst(sub) ==
  IF sub = "ktest" THEN ("-m" :> "memory") @@ VmOption @@ BuildOption ELSE BuildOption
Options(sub)  == IF sub = "ktest" THEN KtestOption ELSE BuildOption
Switches(sub) == IF sub = "ktest" THEN KtestSwitch ELSE BuildSwitch

BuildField == {"sysdir", "machine", "manifest_path", "out", "target_dir", "export_syms",
               "release", "extra"}
VmField    == {"image_url", "cache_dir", "memory", "smp", "timeout", "qemu", "fresh", "keep"}

Field(sub)  == IF sub = "ktest" THEN BuildField \cup VmField ELSE BuildField

\* Where a default has no bearing on anything here it is None.
Defaults(sub) ==
  [f \in Field(sub) |->
     CASE f = "machine" -> IF sub = "ktest" THEN "arm64" ELSE "amd64"
       [] f = "release" -> TRUE
       [] f = "extra" -> <<>>
       [] f = "export_syms" -> [kind |-> "NO", list |-> None]
       [] f \in {"fresh", "keep"} -> FALSE
       [] OTHER -> None]

\* What a value means to the field that gets it.
Meaning(f, w) ==
  IF f # "export_syms" THEN w
  ELSE CASE w \in {"YES", "yes"} -> [kind |-> "YES", list |-> None]
         [] w \in {"NO", "no"} -> [kind |-> "NO", list |-> None]
         [] OTHER -> [kind |-> "LIST", list |-> w]
Legal(f, w) == f = "timeout" => w \in Numbers

-----------------------------------------------------------------------------
(* What the help text says, without a loop.                                *)

\* A word is the value of the option before it, unless that one is a value
\* itself: it is a flag when an even number of options in a row stand before it.
IsFlag(sub, words, i) ==
  \E k \in 0 .. i - 1 :
    /\ k = 0 \/ words[k] \notin DOMAIN Options(sub)
    /\ \A j \in k + 1 .. i - 1 : words[j] \in DOMAIN Options(sub)
    /\ (i - 1 - k) % 2 = 0

IsOption(sub, words, i) == IsFlag(sub, words, i) /\ words[i] \in DOMAIN Options(sub)
IsSwitch(sub, words, i) == IsFlag(sub, words, i) /\ words[i] \in DOMAIN Switches(sub)

\* The first word that ends the flags: a --, a call for help, or a word no flag
\* is known by.
Stops(sub, words) ==
  {i \in 1 .. Len(words) : IsFlag(sub, words, i) /\ words[i] \notin DOMAIN Options(sub)
                                                \cup DOMAIN Switches(sub)}
Stop(sub, words) ==
  IF Stops(sub, words) = {} THEN Len(words) + 1 ELSE Min(Stops(sub, words))

\* Flag i sets field f, and to what.
Sets(sub, words, f, i) ==
  \/ IsOption(sub, words, i) /\ Options(sub)[words[i]] = f
  \/ IsSwitch(sub, words, i) /\ Switches(sub)[words[i]][1] = f
SetTo(sub, words, f, i) ==
  IF IsOption(sub, words, i) THEN Meaning(f, words[i + 1]) ELSE Switches(sub)[words[i]][2]

\* The flags that set a field; the last of them counts.
Given(sub, words, f) == {i \in 1 .. Stop(sub, words) - 1 : Sets(sub, words, f, i)}
Value(sub, words, f) ==
  IF f = "extra" THEN SubSeq(words, Stop(sub, words) + 1, Len(words))
  ELSE IF Given(sub, words, f) = {} THEN Defaults(sub)[f]
  ELSE SetTo(sub, words, f, Max(Given(sub, words, f)))

\* Option i has no value, or one that means nothing.
Broken(sub, words, i) ==
  /\ IsOption(sub, words, i)
  /\ i = Len(words) \/ ~Legal(Options(sub)[words[i]], words[i + 1])

\* "run", "help" or "refused", and for "run" the arguments.
Expected(sub, words) ==
  LET stop == Stop(sub, words)
  IN  IF \E i \in 1 .. stop - 1 : Broken(sub, words, i) THEN <<"refused", None>>
      ELSE IF stop <= Len(words) /\ words[stop] # "--"
      THEN <<IF words[stop] \in Help THEN "help" ELSE "refused", None>>
      ELSE IF Given(sub, words, "sysdir") = {} THEN <<"refused", None>>
      ELSE <<"run", [f \in Field(sub) |-> Value(sub, words, f)]>>
=============================================================================
