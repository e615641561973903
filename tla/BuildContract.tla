--------------------------- MODULE BuildContract ---------------------------
(***************************************************************************)
(* What `cargo kbuild build` promises (the module comment of               *)
(* crates/cargo-kbuild/src/build.rs), with no target directory, no         *)
(* intermediate files and no commands in it: a module is compiled in one   *)
(* step, from the source of that instant and from headers the tree it was  *)
(* given has then or had before, and what is put out is that module, whole *)
(* once the build has ended well.  A build that fails before it puts       *)
(* anything out leaves what is there.  Builds do not know of each other.   *)
(***************************************************************************)
EXTENDS Naturals

CONSTANTS
  Builders,
  Jobs,         \* what they are asked for
  Trees,        \* the FreeBSD source trees
  Members,      \* the objects a job makes of a version of the source, by name
  None

VARIABLES
  source,       \* the version of the workspace
  tree,         \* and of each tree
  asked,        \* what each build under way was asked for
  compiled,     \* the module it has compiled
  delivered     \* and what is in its --out file

cvars == <<source, tree, asked, compiled, delivered>>

Init ==
  /\ source = 1 /\ tree = [t \in Trees |-> 1]
  /\ asked = [b \in Builders |-> None] /\ compiled = [b \in Builders |-> None]
  /\ delivered = [b \in Builders |-> None]

Edit == source' = source + 1 /\ UNCHANGED <<tree, asked, compiled, delivered>>

Update(t) ==
  /\ tree' = [tree EXCEPT ![t] = @ + 1]
  /\ UNCHANGED <<source, asked, compiled, delivered>>

Ask(b, j) ==
  /\ asked[b] = None
  /\ asked' = [asked EXCEPT ![b] = j]
  /\ UNCHANGED <<source, tree, compiled, delivered>>

\* The symbols that stay global, by --export-syms.
Global(exports) == [NO |-> "needed", LIST |-> "listed", YES |-> "all"][exports]

\* The module a job makes of a source and of headers of its tree.
Module(j, s, h) ==
  [objects |-> {[name |-> n,
                 from |-> [crate |-> j.crate, machine |-> j.machine, profile |-> j.profile,
                           features |-> j.features, source |-> s, tree |-> j.tree,
                           headers |-> h]] : n \in Members[j, s]},
   global |-> Global(j.exports)]

Compile(b) ==
  /\ asked[b] # None /\ compiled[b] = None
  /\ \E h \in 1 .. tree[asked[b].tree] :
       compiled' = [compiled EXCEPT ![b] = Module(asked[b], source, h)]
  /\ UNCHANGED <<source, tree, asked, delivered>>

\* The module is on its way out, and what was there before is gone.
BeginDelivery(b) ==
  /\ compiled[b] # None
  /\ delivered' = [delivered EXCEPT ![b] = [module |-> compiled[b], whole |-> FALSE]]
  /\ UNCHANGED <<source, tree, asked, compiled>>

Deliver(b) ==
  /\ compiled[b] # None /\ delivered[b] = [module |-> compiled[b], whole |-> FALSE]
  /\ delivered' = [delivered EXCEPT ![b] = [module |-> compiled[b], whole |-> TRUE]]
  /\ asked' = [asked EXCEPT ![b] = None] /\ compiled' = [compiled EXCEPT ![b] = None]
  /\ UNCHANGED <<source, tree>>

\* A build fails, or is killed.
GiveUp(b) ==
  /\ asked[b] # None
  /\ asked' = [asked EXCEPT ![b] = None] /\ compiled' = [compiled EXCEPT ![b] = None]
  /\ UNCHANGED <<source, tree, delivered>>

Next ==
  \/ \E b \in Builders :
       \/ \E j \in Jobs : Ask(b, j)
       \/ Compile(b) \/ BeginDelivery(b) \/ Deliver(b) \/ GiveUp(b)
  \/ Edit
  \/ \E t \in Trees : Update(t)

Spec == Init /\ [][Next]_cvars
=============================================================================
