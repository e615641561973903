----------------------------- MODULE MCFrontEnd -----------------------------
(***************************************************************************)
(* Instances of FrontEnd: short command lines and short Cargo.toml files.  *)
(***************************************************************************)
EXTENDS FrontEnd

CONSTANTS hello_kld, hello_kld_, wifi, MaxWords, MaxLines

Upto(n, S) == UNION {[1 .. k -> S] : k \in 0 .. n}

Subcommands == {<<>>, <<"kbuild", "ktest">>, <<"build">>}
Words == {"ktest", "-h", "-s", "-m", "i386", "--", "--debug", "--timeout", "9"}

SomeUnderscored == hello_kld :> hello_kld_ @@ hello_kld_ :> hello_kld_ @@ wifi :> wifi

Lines == [kind : {"header"}, table : M!Table, plain : {TRUE}]
         \cup {[kind |-> "header", table |-> "lib", plain |-> FALSE]}
         \cup [kind : {"name"}, value : {hello_kld, wifi}, plain : {TRUE}]
         \cup {[kind |-> "name", value |-> hello_kld, plain |-> FALSE]}

Wifi == <<[kind |-> "header", table |-> "package", plain |-> TRUE],
          [kind |-> "name", value |-> wifi, plain |-> TRUE]>>

\* Every command line; every file; and everything a script may have left.
SomeInputs ==
  [words : {s \o w : s \in Subcommands, w \in Upto(MaxWords, Words)},
   manifest : {Wifi}, links : {[n \in LinkName |-> Old]}]
  \cup [words : {<<"kbuild", "-s", "src">>}, manifest : Upto(MaxLines, Lines),
        links : {[n \in LinkName |-> None]}]
  \cup [words : {<<"-s", "src">>, <<"ktest", "-s", "src">>}, manifest : {Wifi},
        links : [LinkName -> {None, Old}]]
=============================================================================
