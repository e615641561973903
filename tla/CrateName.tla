----------------------------- MODULE CrateName -----------------------------
(***************************************************************************)
(* Which library `cargo kbuild build` looks for: what one turn of the loop *)
(* of read_crate_name (crates/cargo-kbuild/src/common.rs), "deliberately   *)
(* not a full TOML parser", makes of a line, and, as a reference, what     *)
(* cargo makes of the whole Cargo.toml.  The loop is in FrontEnd.          *)
(*                                                                         *)
(* A line is a table's header, a name key, or some other line.  It is      *)
(* plain when it holds nothing but the header, or one key and a value in   *)
(* double quotes.                                                          *)
(***************************************************************************)
EXTENDS Naturals, Sequences

CONSTANTS
  Names,        \* the names in a Cargo.toml
  Underscored,  \* the name with every - made a _
  NoName        \* no name

Table == {"package", "lib", "bin"}   \* "bin": any table but the first two
Line  == [kind : {"header"}, table : Table, plain : BOOLEAN]
         \cup [kind : {"name"}, value : Names, plain : BOOLEAN]
         \cup {[kind |-> "other"]}

-----------------------------------------------------------------------------
(* read_crate_name.                                                        *)

Nothing == [section |-> "", package |-> NoName, lib |-> NoName]

\* Mutant: a header of no interest leaves the section as it is.
KeepSection(st, line) ==
  CASE line.kind = "header" /\ line.plain /\ line.table \in {"package", "lib"} ->
         [st EXCEPT !.section = line.table]
    [] line.kind = "name" /\ st.section = "package" ->
         [st EXCEPT !.package = IF line.plain THEN line.value ELSE <<"junk", line.value>>]
    [] line.kind = "name" /\ st.section = "lib" ->
         [st EXCEPT !.lib = IF line.plain THEN line.value ELSE <<"junk", line.value>>]
    [] OTHER -> st
\* A header with a comment after it does not end in ] and is not seen; a value
\* with a comment, or in single quotes, is taken with all of that.
ReadLine(st, line) ==
  CASE line.kind = "header" /\ line.plain ->
         [st EXCEPT !.section = IF line.table \in {"package", "lib"} THEN line.table ELSE ""]
    [] line.kind = "name" /\ st.section = "package" ->
         [st EXCEPT !.package = IF line.plain THEN line.value ELSE <<"junk", line.value>>]
    [] line.kind = "name" /\ st.section = "lib" ->
         [st EXCEPT !.lib = IF line.plain THEN line.value ELSE <<"junk", line.value>>]
    [] OTHER -> st

\* [lib] goes before [package].
NameIn(st) == IF st.lib # NoName THEN st.lib ELSE st.package

\* The library is looked for with every - of the name made a _.
LibraryName(n) == IF n \in Names THEN Underscored[n] ELSE n

-----------------------------------------------------------------------------
(* Cargo (external).                                                       *)

\* The table a line is in: that of the last header before it.
TableOf(lines, i) ==
  LET heads == {h \in 1 .. i : lines[h].kind = "header"}
  IN  IF heads = {} THEN ""
      ELSE lines[CHOOSE h \in heads : \A g \in heads : g <= h].table

NamesIn(lines, t) ==
  {i \in DOMAIN lines : lines[i].kind = "name" /\ TableOf(lines, i) = t}

\* What cargo accepts: one [package] with a name, no table or key twice, and no
\* - in the name of a library.
Accepted(lines) ==
  /\ \E i \in DOMAIN lines : NamesIn(lines, "package") = {i}
  /\ \A t \in {"package", "lib"}, i, j \in DOMAIN lines :
       /\ {i, j} \subseteq NamesIn(lines, t) => i = j
       /\ lines[i].kind = "header" /\ lines[j].kind = "header"
          /\ lines[i].table = t /\ lines[j].table = t => i = j
  /\ \A i \in NamesIn(lines, "lib") : Underscored[lines[i].value] = lines[i].value

Plain(lines) == \A i \in DOMAIN lines : lines[i].kind # "other" => lines[i].plain

\* "crate-type = staticlib always sets one implicitly to [package].name
\* otherwise" (common.rs:106-108).
CargoLibrary(lines) ==
  LET at == IF NamesIn(lines, "lib") # {} THEN NamesIn(lines, "lib")
            ELSE NamesIn(lines, "package")
  IN  Underscored[lines[CHOOSE i \in at : TRUE].value]
=============================================================================
