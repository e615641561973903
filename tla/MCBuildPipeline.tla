-------------------------- MODULE MCBuildPipeline --------------------------
(***************************************************************************)
(* Instances of BuildPipeline: which builds share one target directory.    *)
(***************************************************************************)
EXTENDS BuildPipeline, TLC

CONSTANTS b1, b2, b3, hello, wifi, releng, stable

Asked(c, m, p, f, t, e) ==
  [crate |-> c, machine |-> m, profile |-> p, built |-> p, features |-> f, tree |-> t,
   exports |-> e]

\* One crate for both machines, and for one of them with other features from
\* another tree, as a second crate is.
Mixed == {Asked(hello, "amd64", "debug", "none", releng, "NO"),
          Asked(hello, "amd64", "debug", "some", stable, "LIST"),
          Asked(hello, "arm64", "release", "none", releng, "YES"),
          Asked(wifi, "amd64", "debug", "some", stable, "NO")}

\* One crate from one tree, for both machines.
BothMachines == {Asked(hello, m, "release", "none", releng, "NO") : m \in Machine}

\* A debug library has an object of the runtime's and one or more of the crate's,
\* whose names go with features and source; LTO makes one of them all.
ObjectNames == {<<"core">>, <<"lto">>} \cup {<<f, s>> : f \in Features, s \in Versions}
MemberNames ==
  [js \in Jobs \X Versions |->
     IF js[1].built = "release" THEN {<<"lto">>} ELSE {<<"core">>, <<js[1].features, js[2]>>}]

Symmetry == Permutations(Builders)
=============================================================================
