--------------------------- MODULE FrontEndProofs ---------------------------
(***************************************************************************)
(* Theorems about FrontEnd, for any command lines and Cargo.toml files:    *)
(* its types, the links and bindings of the build scripts, and the name    *)
(* read from Cargo.toml.  The loop over the arguments is in                *)
(* CommandLineProofs.                                                      *)
(***************************************************************************)
EXTENDS CommandLineProofs

\* The include directories a build script links: "machine" and the shims.
Needed(c) == {"machine"} \cup ToSet(ArchLinks(c, args["machine"]))

\* Past machine_cpuarch the machine is one of the two.
MachineKnown ==
  pc \in {"tools", "target", "manifest", "cargo", "scripts", "qemu", "spawn"}
    => args["machine"] \in {"amd64", "arm64"}

\* Every link that is needed leads to the tree or is still to be made.
LinksMade ==
  /\ stage \in [Scripts -> {"links", "bindgen", "done"}]
  /\ DOMAIN links = Scripts /\ DOMAIN bindings = Scripts /\ todo \in [Scripts -> Seq(LinkName)]
  /\ \A c \in Scripts : DOMAIN links[c] = LinkName
  /\ pc = "scripts" => \A c \in Scripts :
       /\ \A n \in Needed(c) : links[c][n] = Leads(n) \/ \E i \in 1 .. Len(todo[c]) : todo[c][i] = n
       /\ stage[c] = "bindgen" => todo[c] = <<>>

NotYet ==
  pc \in {"start", "parse", "sysdir", "machine", "tools", "target", "manifest", "cargo"} =>
    \A c \in Scripts : stage[c] = "links" /\ bindings[c] = None

\* The arguments that pass have a sysdir, and it is where the tree is.
TreeResolved ==
  /\ pc = "sysdir" => args["sysdir"] # None
  /\ pc \in {"machine", "tools", "target", "manifest", "cargo", "scripts", "qemu", "spawn",
             "done"} => args["sysdir"] # None /\ tree \in {args["sysdir"]} \X {"", "sys"}

Generated == \A c \in Scripts : stage[c] = "done" => Include(tree, "sys") \in bindings[c]

Inv == NoPanic /\ MachineKnown /\ LinksMade /\ NotYet /\ BindingsReadOwnTree

\* Both scripts have the links of kmod.mk for the two machines.
LEMMA Shims ==
  ASSUME NEW c, NEW m \in {"amd64", "arm64"}
  PROVE  /\ ArchLinks(c, m) = IF m = "amd64" THEN <<"x86", "i386">> ELSE <<>>
         /\ ToSet(ArchLinks(c, m)) = IF m = "amd64" THEN {"x86", "i386"} ELSE {}
  <1>1. CASE m = "amd64"
    <2>1. ArchLinks(c, m) = <<"x86", "i386">>
      BY <1>1 DEF ArchLinks, SysArchLinks, NetArchLinks
    <2>2. DOMAIN <<"x86", "i386">> = {1, 2}
      OBVIOUS
    <2> QED
      BY <1>1, <2>1, <2>2 DEF ToSet
  <1>2. CASE m = "arm64"
    <2>1. ArchLinks(c, m) = << >>
      BY <1>2 DEF ArchLinks, SysArchLinks, NetArchLinks
    <2> QED
      BY <1>2, <2>1 DEF ToSet
  <1> QED
    BY <1>1, <1>2

LEMMA TwoMachines == DOMAIN Machines = {"amd64", "arm64"}
  BY DEF Machines

LEMMA InitInv == Init => Inv
  BY FrontEndAssumption
     DEF Init, Inv, NoPanic, MachineKnown, LinksMade, NotYet, BindingsReadOwnTree

\* The links are a step of the script, in order; the rest is bookkeeping.
LEMMA InvInductive == Inv /\ [Next]_vars => Inv'
  <1> SUFFICES ASSUME Inv, [Next]_vars PROVE Inv'
    OBVIOUS
  <1> USE DEF Inv, read, made, out
  <1>1. CASE UNCHANGED vars
    BY <1>1 DEF vars, NoPanic, MachineKnown, LinksMade, NotYet, BindingsReadOwnTree, Needed,
         Leads
  <1>2. ASSUME MainHelp \/ Subcommand \/ Bare \/ ResolveSysdir \/ TargetSpec \/ Discover
        PROVE  Inv'
    BY <1>2 DEF MainHelp, Subcommand, Bare, ResolveSysdir, TargetSpec, Discover, Goto,
         NoPanic, MachineKnown, LinksMade, NotYet, BindingsReadOwnTree
  <1>3. ASSUME \E from \in {"sysdir", "tools", "target", "manifest", "cargo", "scripts",
                           "qemu", "spawn"} : Missing(from)
        PROVE  Inv'
    BY <1>3 DEF Missing, Goto, NoPanic, MachineKnown, LinksMade, NotYet, BindingsReadOwnTree
  <1>4. ASSUME TakeOption \/ TakeSwitch \/ TakeRest \/ TakeOther \/ EndOfWords
        PROVE  Inv'
    <2>1. /\ pc = "parse" /\ pc' \in {"parse", "sysdir", "help", "refused"}
          /\ pc' = "sysdir" => args["sysdir"] # None /\ UNCHANGED args
          /\ UNCHANGED <<tree, stage, todo, links, bindings>>
      BY <1>4 DEF TakeOption, TakeSwitch, TakeRest, TakeOther, EndOfWords, LeaveParse, Reading
    <2> QED
      BY <2>1 DEF NoPanic, MachineKnown, LinksMade, NotYet, BindingsReadOwnTree
  <1>5. CASE CheckMachine
    BY <1>5, TwoMachines DEF CheckMachine, NoPanic, MachineKnown, LinksMade, NotYet,
         BindingsReadOwnTree
  <1>6. CASE ReadLine \/ ReadName
    BY <1>6 DEF ReadLine, ReadName, NoPanic, MachineKnown, LinksMade, NotYet, BindingsReadOwnTree
  <1>7. CASE RunCargo
    <2> DEFINE m == args["machine"]
    <2>1. m \in {"amd64", "arm64"}
      BY <1>7 DEF RunCargo, Goto, MachineKnown
    <2>2. ASSUME NEW c \in Scripts
          PROVE  /\ todo'[c] \in Seq(LinkName)
                 /\ \A n \in Needed(c)' : \E i \in 1 .. Len(todo'[c]) : todo'[c][i] = n
      <3> DEFINE f == <<"machine">>
                 s == <<"x86", "i386">>
                 e == << >>
      <3>1. f \in Seq(LinkName) /\ Len(f) = 1 /\ f[1] = "machine"
        BY DEF LinkName
      <3>2. CASE m = "amd64"
        <4>1. todo'[c] = f \o s
          BY <1>7, <2>1, <3>2, Shims DEF RunCargo
        <4>2. s \in Seq(LinkName) /\ Len(s) = 2 /\ s[1] = "x86" /\ s[2] = "i386"
          BY DEF LinkName
        <4>3. Needed(c)' = {"machine", "x86", "i386"}
          BY <1>7, <2>1, <3>2, Shims DEF RunCargo, Needed
        <4> HIDE DEF s, f
        <4>4. /\ f \o s \in Seq(LinkName) /\ Len(f \o s) = Len(f) + Len(s)
              /\ \A i \in 1 .. Len(f) + Len(s) :
                   (f \o s)[i] = IF i <= Len(f) THEN f[i] ELSE s[i - Len(f)]
          BY <3>1, <4>2, ConcatProperties, Zenon
        <4> QED
          BY <3>1, <4>1, <4>2, <4>3, <4>4
      <3>3. CASE m = "arm64"
        <4>1. todo'[c] = f \o e
          BY <1>7, <2>1, <3>3, Shims DEF RunCargo
        <4>2. Needed(c)' = {"machine"}
          BY <1>7, <2>1, <3>3, Shims DEF RunCargo, Needed
        <4>3. f \o e = f
          OBVIOUS
        <4> QED
          BY <3>1, <4>1, <4>2, <4>3
      <3> QED
        BY <2>1, <3>2, <3>3
    <2>3. todo' \in [Scripts -> Seq(LinkName)]
      BY <1>7, <2>2 DEF RunCargo
    <2>4. \A c \in Scripts : stage[c] = "links" /\ bindings[c] = None
      BY <1>7 DEF RunCargo, Goto, NotYet
    <2> QED
      BY <1>7, <2>1, <2>2, <2>3, <2>4 DEF RunCargo, Goto, NoPanic, MachineKnown, LinksMade,
           NotYet, BindingsReadOwnTree
  <1>8. ASSUME NEW c \in Scripts, MakeLink(c)
        PROVE  Inv'
    <2>1. /\ pc = "scripts" /\ todo[c] \in Seq(LinkName) /\ todo[c] # <<>>
          /\ UNCHANGED <<pc, read, tree, stage, bindings>>
          /\ todo' = [todo EXCEPT ![c] = Tail(@)] /\ DOMAIN todo = Scripts
          /\ links' = [links EXCEPT ![c][Head(todo[c])] = Leads(Head(todo[c]))]
          /\ DOMAIN links = Scripts /\ DOMAIN links[c] = LinkName
      BY <1>8 DEF MakeLink, LinksMade
    <2>2. UNCHANGED args /\ \A d, n : Leads(n)' = Leads(n) /\ Needed(d)' = Needed(d)
      BY <2>1 DEF Needed, Leads
    <2>3. ASSUME NEW n \in Needed(c)
          PROVE  links'[c][n] = Leads(n) \/ \E i \in 1 .. Len(todo'[c]) : todo'[c][i] = n
      <3>1. n \in LinkName
        BY <2>1, <2>3, Shims DEF MachineKnown, Needed, LinkName
      <3>2. CASE n = Head(todo[c])
        BY <2>1, <3>1, <3>2
      <3>3. CASE n # Head(todo[c])
        <4>1. CASE links[c][n] = Leads(n)
          BY <2>1, <3>1, <3>3, <4>1
        <4>2. CASE links[c][n] # Leads(n)
          <5>1. PICK i \in 1 .. Len(todo[c]) : todo[c][i] = n
            BY <2>1, <2>3, <4>2 DEF LinksMade
          <5>2. i # 1 /\ i - 1 \in 1 .. Len(todo'[c]) /\ todo'[c][i - 1] = n
            BY <2>1, <3>3, <5>1
          <5> QED
            BY <5>2
        <4> QED
          BY <4>1, <4>2
      <3> QED
        BY <3>2, <3>3
    <2>4. todo'[c] \in Seq(LinkName) /\ DOMAIN links'[c] = LinkName
          /\ DOMAIN todo' = Scripts /\ DOMAIN links' = Scripts
      BY <2>1
    <2>5. \A d \in Scripts \ {c} : todo'[d] = todo[d] /\ links'[d] = links[d]
      BY <2>1
    <2>6. stage[c] # "bindgen"
      BY <2>1 DEF LinksMade
    <2>7. LinksMade'
      BY <2>1, <2>2, <2>3, <2>4, <2>5, <2>6 DEF LinksMade
    <2> QED
      BY <2>1, <2>2, <2>7 DEF NoPanic, MachineKnown, NotYet, BindingsReadOwnTree
  <1>9. ASSUME NEW c \in Scripts, ChooseTriple(c)
        PROVE  Inv'
    <2>1. args["machine"] \in ClangTriple(c)
      BY <1>9 DEF ChooseTriple, MachineKnown, ClangTriple, SysClangTriple, NetClangTriple
    <2>2. /\ pc = "scripts" /\ todo[c] = <<>> /\ stage' = [stage EXCEPT ![c] = "bindgen"]
          /\ UNCHANGED <<pc, read, tree, todo, links, bindings>>
      BY <1>9, <2>1 DEF ChooseTriple
    <2>3. \A d, n : Leads(n)' = Leads(n) /\ Needed(d)' = Needed(d)
      BY <2>2 DEF Needed, Leads
    <2>4. LinksMade'
      BY <2>2, <2>3 DEF LinksMade
    <2> QED
      BY <2>2, <2>4 DEF NoPanic, MachineKnown, NotYet, BindingsReadOwnTree
  <1>10. ASSUME NEW c \in Scripts, Generate(c)
         PROVE  Inv'
    <2>1. /\ pc = "scripts" /\ stage[c] = "bindgen" /\ stage' = [stage EXCEPT ![c] = "done"]
          /\ UNCHANGED <<pc, read, tree, todo, links>>
          /\ bindings' = [bindings EXCEPT ![c] =
               {links[c][n] : n \in Needed(c)} \cup {Include(tree, "sys")}]
          /\ DOMAIN bindings = Scripts /\ todo[c] = <<>>
      BY <1>10 DEF Generate, Needed, LinksMade
    <2>2. \A n \in Needed(c) : links[c][n] = Leads(n)
      BY <2>1 DEF LinksMade
    <2>3. "machine" \in Needed(c)
      BY DEF Needed
    <2>4. \A d, n : Leads(n)' = Leads(n) /\ Needed(d)' = Needed(d)
      BY <2>1 DEF Needed, Leads
    <2>5. LinksMade'
      BY <2>1, <2>4 DEF LinksMade
    <2>6. BindingsReadOwnTree'
      <3>1. /\ Include(tree, args["machine"]) \in bindings'[c]
            /\ \A d \in bindings'[c] : d[1] = tree
        BY <2>1, <2>2, <2>3 DEF Leads, Include
      <3> QED
        BY <2>1, <3>1 DEF BindingsReadOwnTree
    <2> QED
      BY <2>1, <2>5, <2>6 DEF NoPanic, MachineKnown, NotYet
  <1>11. CASE Built
    BY <1>11 DEF Built, Goto, NoPanic, MachineKnown, LinksMade, NotYet, BindingsReadOwnTree
  <1>12. CASE PickImage
    BY <1>12 DEF PickImage, DefaultImage, NoPanic, MachineKnown, LinksMade, NotYet,
         BindingsReadOwnTree
  <1>13. CASE QemuCommand
    BY <1>13 DEF QemuCommand, QemuBinary, QemuMachine, NoPanic, MachineKnown, LinksMade,
         NotYet, BindingsReadOwnTree
  <1> QED
    BY <1>1, <1>2, <1>3, <1>4, <1>5, <1>6, <1>7, <1>8, <1>9, <1>10, <1>11, <1>12, <1>13
       DEF Next

-----------------------------------------------------------------------------
(* Types.                                                                  *)

TypeInv == pc \in PC /\ TreeResolved /\ Generated

LEMMA InitTypes == Init => TypeInv
  BY DEF Init, TypeInv, PC, TreeResolved, Generated

LEMMA TypesInductive == Inv /\ TypeInv /\ [Next]_vars => TypeInv'
  <1> SUFFICES ASSUME Inv, TypeInv, [Next]_vars PROVE TypeInv'
    OBVIOUS
  <1> USE DEF read, made, out
  <1>1. CASE UNCHANGED vars
    BY <1>1 DEF vars, TypeInv, TreeResolved, Generated
  <1>2. ASSUME MainHelp \/ Subcommand \/ Bare \/ ResolveSysdir
        PROVE  TypeInv'
    <2>1. /\ pc \in {"start", "sysdir"} /\ pc' \in {"help", "parse", "machine"}
          /\ UNCHANGED <<stage, bindings>>
          /\ pc' = "machine" => /\ args["sysdir"] # None /\ UNCHANGED args
                                /\ tree' \in {args["sysdir"]} \X {"", "sys"}
      <3>1. CASE MainHelp \/ Subcommand \/ Bare
        BY <3>1 DEF MainHelp, Subcommand, Bare, Goto
      <3>2. CASE ResolveSysdir
        <4>1. /\ pc = "sysdir" /\ pc' = "machine" /\ UNCHANGED <<args, stage, bindings>>
              /\ \E isSys \in BOOLEAN : tree' = <<args["sysdir"], IF isSys THEN "" ELSE "sys">>
          BY <3>2 DEF ResolveSysdir, Goto
        <4>2. args["sysdir"] # None
          BY <4>1 DEF TypeInv, TreeResolved
        <4>3. tree' = <<args["sysdir"], "">> \/ tree' = <<args["sysdir"], "sys">>
          BY <4>1
        <4>4. tree' \in {args["sysdir"]} \X {"", "sys"}
          <5>1. CASE tree' = <<args["sysdir"], "">>
            BY <5>1
          <5>2. CASE tree' = <<args["sysdir"], "sys">>
            BY <5>2
          <5> QED
            BY <4>3, <5>1, <5>2
        <4> QED
          BY <4>1, <4>2, <4>4
      <3> QED
        BY <1>2, <3>1, <3>2
    <2>2. \A c \in Scripts : stage'[c] # "done"
      BY <2>1 DEF Inv, NotYet
    <2> QED
      BY <2>1, <2>2 DEF TypeInv, TreeResolved, Generated, PC
  <1>3. ASSUME TakeOption \/ TakeSwitch \/ TakeRest \/ TakeOther \/ EndOfWords
        PROVE  TypeInv'
    <2>1. /\ pc = "parse" /\ pc' \in {"parse", "sysdir", "help", "refused"}
          /\ pc' = "sysdir" => args'["sysdir"] # None
          /\ UNCHANGED <<tree, stage, bindings>>
      BY <1>3 DEF TakeOption, TakeSwitch, TakeRest, TakeOther, EndOfWords, LeaveParse, Reading
    <2> QED
      BY <2>1 DEF TypeInv, TreeResolved, Generated, PC
  <1>4. ASSUME \/ CheckMachine \/ Discover \/ TargetSpec \/ ReadLine \/ ReadName \/ RunCargo
               \/ \E c \in Scripts : MakeLink(c) \/ ChooseTriple(c)
               \/ Built \/ PickImage \/ QemuCommand
               \/ \E from \in {"sysdir", "tools", "target", "manifest", "cargo", "scripts",
                               "qemu", "spawn"} : Missing(from)
        PROVE  TypeInv'
    <2>1. /\ pc' \in {"tools", "target", "manifest", "cargo", "scripts", "qemu", "spawn", "done"} =>
               pc \in {"machine", "tools", "target", "manifest", "cargo", "scripts", "qemu",
                       "spawn"}
          /\ pc' \in PC \ {"sysdir", "machine"}
          /\ UNCHANGED <<args, tree, bindings>>
      BY <1>4 DEF CheckMachine, Discover, TargetSpec, ReadLine, ReadName, RunCargo, MakeLink,
           ChooseTriple, Built, PickImage, QemuCommand, Missing, Goto, PC
    <2>2. \A c \in Scripts : stage'[c] = "done" => stage[c] = "done"
      <3>1. CASE UNCHANGED stage
        BY <3>1
      <3>2. ASSUME NEW c \in Scripts, stage' = [stage EXCEPT ![c] = "bindgen"]
            PROVE  \A d \in Scripts : stage'[d] = "done" => stage[d] = "done"
        BY <3>2 DEF Inv, LinksMade
      <3>3. UNCHANGED stage \/ \E c \in Scripts : stage' = [stage EXCEPT ![c] = "bindgen"]
        BY <1>4 DEF CheckMachine, Discover, TargetSpec, ReadLine, ReadName, RunCargo, MakeLink,
             ChooseTriple, Built, PickImage, QemuCommand, Missing
      <3> QED
        BY <3>1, <3>2, <3>3
    <2> QED
      BY <2>1, <2>2 DEF TypeInv, TreeResolved, Generated
  <1>5. ASSUME NEW c \in Scripts, Generate(c)
        PROVE  TypeInv'
    <2>1. /\ stage' = [stage EXCEPT ![c] = "done"] /\ UNCHANGED <<pc, args, tree>>
          /\ \A d \in Scripts \ {c} : bindings'[d] = bindings[d]
          /\ Include(tree, "sys") \in bindings'[c]
      BY <1>5 DEF Generate, Inv, LinksMade
    <2>2. Generated'
      BY <2>1 DEF Inv, LinksMade, TypeInv, Generated
    <2> QED
      BY <2>1, <2>2 DEF TypeInv, TreeResolved
  <1> QED
    BY <1>1, <1>2, <1>3, <1>4, <1>5 DEF Next

-----------------------------------------------------------------------------
(* The loop over Cargo.toml.  What it has made of the first n lines:       *)

\* The last header among them is line h.
LastHeader(n, h) ==
  /\ h \in 1 .. n /\ manifest[h].kind = "header"
  /\ \A g \in h + 1 .. n : manifest[g].kind # "header"

\* What has been found for a table is a name one of the lines read gives it, or
\* none of them gives it one.
NameRead(n, t, v) ==
  \/ v = NoName /\ \A i \in 1 .. n : i \notin M!NamesIn(manifest, t)
  \/ \E i \in 1 .. n : i \in M!NamesIn(manifest, t) /\ v = manifest[i].value

SectionRead(n, s) ==
  \/ s = "" /\ \A i \in 1 .. n : manifest[i].kind # "header"
  \/ \E h \in 1 .. n :
       /\ LastHeader(n, h)
       /\ s = IF manifest[h].table \in {"package", "lib"} THEN manifest[h].table ELSE ""

AllRead(n, st) ==
  SectionRead(n, st.section) /\ NameRead(n, "package", st.package) /\ NameRead(n, "lib", st.lib)

ManifestInv ==
  /\ manifest \in Seq(M!Line) /\ line \in 0 .. Len(manifest)
  /\ name = [section |-> name.section, package |-> name.package, lib |-> name.lib]
  /\ M!Plain(manifest) => AllRead(line, name)
  /\ LooksForCargosLibrary

\* A line is in the table of the last header up to it.
LEMMA TableOfLast ==
  ASSUME NEW i \in Nat, NEW h, LastHeader(i, h)
  PROVE  M!TableOf(manifest, i) = manifest[h].table
  <1> DEFINE heads == {g \in 1 .. i : manifest[g].kind = "header"}
             top == CHOOSE k \in heads : \A g \in heads : g <= k
  <1>1. h \in heads /\ \A g \in heads : g <= h
    BY DEF LastHeader
  <1>2. top \in heads /\ \A g \in heads : g <= top
    <2>1. \E k \in heads : \A g \in heads : g <= k
      BY <1>1
    <2> QED
      BY <2>1, Zenon
  <1>3. top = h
    <2>1. top \in Nat /\ h \in Nat /\ top <= h /\ h <= top
      BY <1>1, <1>2
    <2> HIDE DEF top
    <2> QED
      BY <2>1
  <1> QED
    BY <1>1, <1>3 DEF M!TableOf

LEMMA TableOfNone ==
  ASSUME NEW i \in Nat, \A g \in 1 .. i : manifest[g].kind # "header"
  PROVE  M!TableOf(manifest, i) = ""
  BY DEF M!TableOf

LEMMA InitManifest == Init => ManifestInv
  <1> SUFFICES ASSUME Init PROVE ManifestInv
    OBVIOUS
  <1>1. manifest \in Seq(M!Line) /\ line = 0 /\ name = M!Nothing /\ pc = "start"
    BY FrontEndAssumption DEF Init
  <1>2. /\ name = [section |-> name.section, package |-> name.package, lib |-> name.lib]
        /\ name.section = "" /\ name.package = NoName /\ name.lib = NoName
    BY <1>1 DEF M!Nothing
  <1>3. AllRead(line, name)
    <2>1. 1 .. line = {}
      BY <1>1
    <2> QED
      BY <1>2, <2>1 DEF AllRead, SectionRead, NameRead
  <1>4. line \in 0 .. Len(manifest)
    BY <1>1
  <1>5. LooksForCargosLibrary
    BY <1>1 DEF LooksForCargosLibrary
  <1> QED
    BY <1>1, <1>2, <1>3, <1>4, <1>5, Zenon DEF ManifestInv

\* A line that names nothing for a table changes nothing for it, and one that
\* does is the last to.
LEMMA NameKept ==
  ASSUME NEW n \in Nat, NEW t, NEW v, NameRead(n, t, v), n + 1 \notin M!NamesIn(manifest, t)
  PROVE  NameRead(n + 1, t, v)
  <1>1. \A i \in 1 .. n + 1 : i \in 1 .. n \/ i = n + 1
    OBVIOUS
  <1>2. \A i \in 1 .. n : i \in 1 .. n + 1
    OBVIOUS
  <1> QED
    BY <1>1, <1>2, Zenon DEF NameRead

LEMMA NameSet ==
  ASSUME NEW n \in Nat, NEW t, n + 1 \in M!NamesIn(manifest, t)
  PROVE  NameRead(n + 1, t, manifest[n + 1].value)
  BY DEF NameRead

LEMMA LineRead ==
  ASSUME ManifestInv, ReadLine
  PROVE  ManifestInv'
  <1> DEFINE n == line + 1
             l == manifest[n]
  <1>1. /\ pc = "manifest" /\ UNCHANGED <<pc, manifest>> /\ line' = n
        /\ name' = M!ReadLine(name, l) /\ n \in 1 .. Len(manifest)
        /\ line \in Nat /\ manifest \in Seq(M!Line) /\ Len(manifest) \in Nat
        /\ name = [section |-> name.section, package |-> name.package, lib |-> name.lib]
    BY DEF ReadLine, ManifestInv
  <1>2. l \in M!Line /\ n \in Nat
    BY <1>1
  <1>3. /\ \A i \in 1 .. n : i \in 1 .. line \/ i = n
        /\ \A i \in 1 .. line : i \in 1 .. n /\ n \notin i + 1 .. line
        /\ \A h \in 1 .. line : \A g \in h + 1 .. n : g \in h + 1 .. line \/ g = n
    BY <1>1
  <1>4. LooksForCargosLibrary'
    BY <1>1 DEF LooksForCargosLibrary
  <1>5. line' \in 0 .. Len(manifest')
    BY <1>1
  <1>6. l.kind \in {"header", "name", "other"}
    BY <1>2 DEF M!Line
  <1>7. CASE l.kind = "header"
    <2>1. name' = IF l.plain
                  THEN [name EXCEPT !.section = IF l.table \in {"package", "lib"} THEN l.table ELSE ""]
                  ELSE name
      BY <1>1, <1>7 DEF M!ReadLine
    <2>2. name' = [section |-> name'.section, package |-> name'.package, lib |-> name'.lib]
      BY <1>1, <2>1
    <2>3. ASSUME M!Plain(manifest)
          PROVE  AllRead(n, name')
      <3>1. l.plain
        BY <1>1, <1>7, <2>3 DEF M!Plain
      <3>2. /\ name'.section = IF l.table \in {"package", "lib"} THEN l.table ELSE ""
            /\ name'.package = name.package /\ name'.lib = name.lib
        BY <1>1, <2>1, <3>1
      <3>3. n \in 1 .. n /\ LastHeader(n, n)
        BY <1>1, <1>7 DEF LastHeader
      <3>4. SectionRead(n, name'.section)
        BY <3>2, <3>3 DEF SectionRead
      <3>5. \A t : n \notin M!NamesIn(manifest, t)
        BY <1>7 DEF M!NamesIn
      <3>6. NameRead(line, "package", name.package) /\ NameRead(line, "lib", name.lib)
        BY <2>3 DEF ManifestInv, AllRead
      <3>7. NameRead(n, "package", name.package) /\ NameRead(n, "lib", name.lib)
        BY <1>1, <3>5, <3>6, NameKept
      <3> QED
        BY <3>2, <3>4, <3>7 DEF AllRead
    <2> QED
      BY <1>1, <1>4, <1>5, <2>2, <2>3 DEF ManifestInv, AllRead, SectionRead, NameRead, LastHeader
  <1>8. CASE l.kind = "name"
    <2> DEFINE v == IF l.plain THEN l.value ELSE <<"junk", l.value>>
    <2>1. name' = CASE name.section = "package" -> [name EXCEPT !.package = v]
                    [] name.section = "lib" -> [name EXCEPT !.lib = v]
                    [] OTHER -> name
      BY <1>1, <1>8 DEF M!ReadLine
    <2>2. /\ name' = [section |-> name'.section, package |-> name'.package, lib |-> name'.lib]
          /\ name'.section = name.section
          /\ name'.package = IF name.section = "package" THEN v ELSE name.package
          /\ name'.lib = IF name.section = "lib" THEN v ELSE name.lib
      BY <1>1, <2>1
    <2>3. ASSUME M!Plain(manifest)
          PROVE  AllRead(n, name')
      <3>1. v = manifest[n].value
        BY <1>1, <1>8, <2>3 DEF M!Plain
      <3>2. /\ SectionRead(line, name.section)
            /\ NameRead(line, "package", name.package) /\ NameRead(line, "lib", name.lib)
        BY <2>3 DEF ManifestInv, AllRead
      <3>3. SectionRead(n, name.section) /\ \A t \in {"package", "lib"} :
                                              M!TableOf(manifest, n) = t <=> name.section = t
        <4> HIDE DEF n, v
        <4>1. CASE name.section = "" /\ \A i \in 1 .. line : manifest[i].kind # "header"
          <5>1. \A i \in 1 .. n : manifest[i].kind # "header"
            BY <1>3, <1>8, <4>1
          <5>2. M!TableOf(manifest, n) = ""
            BY <1>2, <5>1, TableOfNone
          <5> QED
            BY <4>1, <5>1, <5>2 DEF SectionRead
        <4>2. ASSUME NEW h \in 1 .. line, LastHeader(line, h),
                     name.section = IF manifest[h].table \in {"package", "lib"}
                                    THEN manifest[h].table ELSE ""
              PROVE  SectionRead(n, name.section)
                     /\ \A t \in {"package", "lib"} : M!TableOf(manifest, n) = t <=> name.section = t
          <5>1. h \in 1 .. n /\ LastHeader(n, h)
            <6>1. h \in 1 .. n /\ manifest[h].kind = "header"
              BY <1>3, <4>2 DEF LastHeader
            <6>2. \A g \in h + 1 .. n : manifest[g].kind # "header"
              BY <1>3, <1>8, <4>2 DEF LastHeader
            <6> QED
              BY <6>1, <6>2 DEF LastHeader
          <5>2. M!TableOf(manifest, n) = manifest[h].table
            BY <1>2, <5>1, TableOfLast
          <5> QED
            BY <4>2, <5>1, <5>2 DEF SectionRead
        <4> QED
          BY <3>2, <4>1, <4>2 DEF SectionRead
      <3>4. \A t \in {"package", "lib"} : n \in M!NamesIn(manifest, t) <=> name.section = t
        BY <1>1, <1>8, <3>3 DEF M!NamesIn
      <3>5. NameRead(n, "package", name'.package)
        <4>1. CASE name.section = "package"
          BY <1>1, <2>2, <3>1, <3>4, <4>1, NameSet
        <4>2. CASE name.section # "package"
          BY <1>1, <2>2, <3>2, <3>4, <4>2, NameKept
        <4> QED
          BY <4>1, <4>2
      <3>6. NameRead(n, "lib", name'.lib)
        <4>1. CASE name.section = "lib"
          BY <1>1, <2>2, <3>1, <3>4, <4>1, NameSet
        <4>2. CASE name.section # "lib"
          BY <1>1, <2>2, <3>2, <3>4, <4>2, NameKept
        <4> QED
          BY <4>1, <4>2
      <3> QED
        BY <2>2, <3>3, <3>5, <3>6 DEF AllRead
    <2> QED
      BY <1>1, <1>4, <1>5, <2>2, <2>3 DEF ManifestInv, AllRead, SectionRead, NameRead, LastHeader
  <1>9. CASE l.kind = "other"
    <2>1. name' = name
      BY <1>1, <1>9 DEF M!ReadLine
    <2>2. ASSUME M!Plain(manifest)
          PROVE  AllRead(n, name)
      <3>1. \A t : n \notin M!NamesIn(manifest, t)
        BY <1>9 DEF M!NamesIn
      <3>2. AllRead(line, name)
        BY <2>2 DEF ManifestInv
      <3>3. SectionRead(n, name.section)
        BY <1>3, <1>9, <3>2 DEF AllRead, SectionRead, LastHeader
      <3> QED
        BY <1>1, <3>1, <3>2, <3>3, NameKept DEF AllRead
    <2> QED
      BY <1>1, <1>4, <1>5, <2>1, <2>2 DEF ManifestInv, AllRead, SectionRead, NameRead, LastHeader
  <1> QED
    BY <1>6, <1>7, <1>8, <1>9

LEMMA LibraryFound ==
  ASSUME ManifestInv, ReadName
  PROVE  LooksForCargosLibrary'
  <1> SUFFICES ASSUME M!Accepted(manifest), M!Plain(manifest), pc' = "cargo"
               PROVE  library' = M!CargoLibrary(manifest)
    BY DEF ReadName, LooksForCargosLibrary
  <1>1. /\ line = Len(manifest) /\ manifest \in Seq(M!Line)
        /\ library' = M!LibraryName(M!NameIn(name))
    BY DEF ReadName, ManifestInv
  <1>2. NameRead(line, "package", name.package) /\ NameRead(line, "lib", name.lib)
    BY DEF ManifestInv, AllRead
  <1>3. \A t : M!NamesIn(manifest, t) \subseteq 1 .. line
    BY <1>1 DEF M!NamesIn
  <1>4. \A t, i : i \in M!NamesIn(manifest, t) => manifest[i].value \in Names
    BY <1>1 DEF M!NamesIn, M!Line
  <1>5. PICK p \in DOMAIN manifest : M!NamesIn(manifest, "package") = {p}
    BY DEF M!Accepted
  <1> DEFINE libs == M!NamesIn(manifest, "lib")
  <1>6. CASE libs = {}
    <2>1. name.lib = NoName
      BY <1>2, <1>6 DEF NameRead
    <2>2. name.package = manifest[p].value
      BY <1>2, <1>3, <1>5 DEF NameRead
    <2>3. library' = Underscored[manifest[p].value]
      BY <1>1, <1>4, <1>5, <2>1, <2>2 DEF M!NameIn, M!LibraryName
    <2>4. (CHOOSE i \in {p} : TRUE) = p
      OBVIOUS
    <2> QED
      BY <1>5, <1>6, <2>3, <2>4 DEF M!CargoLibrary
  <1>7. CASE libs # {}
    <2>1. PICK i \in libs : name.lib = manifest[i].value
      BY <1>2, <1>3, <1>7 DEF NameRead
    <2>2. name.lib \in Names /\ name.lib # NoName
      BY <1>4, <2>1, FrontEndAssumption
    <2>3. library' = Underscored[manifest[i].value]
      BY <1>1, <2>1, <2>2 DEF M!NameIn, M!LibraryName
    <2>4. (CHOOSE j \in libs : TRUE) \in libs
      BY <1>7
    <2>5. \A j \in libs : j = i
      <3>1. libs \subseteq DOMAIN manifest
        BY DEF M!NamesIn
      <3> QED
        BY <2>1, <3>1 DEF M!Accepted
    <2>6. (CHOOSE j \in libs : TRUE) = i
      BY <2>4, <2>5
    <2> QED
      BY <1>7, <2>3, <2>6 DEF M!CargoLibrary
  <1> QED
    BY <1>6, <1>7

LEMMA ManifestInductive == ManifestInv /\ [Next]_vars => ManifestInv'
  <1> SUFFICES ASSUME ManifestInv, [Next]_vars PROVE ManifestInv'
    OBVIOUS
  <1>1. CASE ReadLine
    BY <1>1, LineRead
  <1>2. CASE ReadName
    <2>1. LooksForCargosLibrary' /\ UNCHANGED <<manifest, line, name>>
      BY <1>2, LibraryFound DEF ReadName
    <2> QED
      BY <2>1 DEF ManifestInv, AllRead, SectionRead, NameRead, LastHeader
  <1>3. ASSUME UNCHANGED <<manifest, line, name, library>>, pc' = "cargo" => pc = "cargo"
        PROVE  ManifestInv'
    BY <1>3 DEF ManifestInv, AllRead, SectionRead, NameRead, LastHeader, LooksForCargosLibrary
  <1>4. ASSUME \/ UNCHANGED vars \/ MainHelp \/ Subcommand \/ Bare \/ ResolveSysdir
               \/ TakeOption \/ TakeSwitch \/ TakeRest \/ TakeOther \/ EndOfWords
        PROVE  UNCHANGED <<manifest, line, name, library>> /\ (pc' = "cargo" => pc = "cargo")
    BY <1>4 DEF vars, made, MainHelp, Subcommand, Bare, ResolveSysdir, TakeOption, TakeSwitch,
         TakeRest, TakeOther, EndOfWords, LeaveParse, Goto
  <1>5. ASSUME \/ CheckMachine \/ Discover \/ TargetSpec \/ RunCargo
               \/ \E c \in Scripts : MakeLink(c) \/ ChooseTriple(c) \/ Generate(c)
               \/ Built \/ PickImage \/ QemuCommand
               \/ \E from \in {"sysdir", "tools", "target", "manifest", "cargo", "scripts",
                               "qemu", "spawn"} : Missing(from)
        PROVE  UNCHANGED <<manifest, line, name, library>> /\ (pc' = "cargo" => pc = "cargo")
    BY <1>5 DEF made, CheckMachine, Discover, TargetSpec, RunCargo, MakeLink, ChooseTriple,
         Generate, Built, PickImage, QemuCommand, Missing, Goto
  <1> QED
    BY <1>1, <1>2, <1>3, <1>4, <1>5 DEF Next

-----------------------------------------------------------------------------
(* Theorems.                                                               *)

\* The types, among them that the loops stay within the words and the lines and
\* that a build that goes on has a sysdir.
THEOREM TypeCorrect == Spec => []TypeOK
  <1>1. ParseInv /\ ManifestInv /\ Inv /\ TypeInv => TypeOK
    <2> SUFFICES ASSUME ParseInv, ManifestInv, Inv, TypeInv PROVE TypeOK
      OBVIOUS
    <2>1. pc \in PC /\ sub \in {"build", "ktest"} /\ at \in 0 .. Len(words) /\ line \in 0 .. Len(manifest)
      BY DEF ParseInv, LoopInv, ManifestInv, TypeInv, Sub
    <2>2. DOMAIN args = Field(sub)
      BY DEF ParseInv, LoopInv
    <2>3. \A i \in DOMAIN manifest : manifest[i] \in M!Line
      BY DEF ManifestInv
    <2>4. /\ stage \in [Scripts -> {"links", "bindgen", "done"}]
          /\ \A c \in Scripts : /\ DOMAIN links[c] = LinkName
                               /\ \A i \in DOMAIN todo[c] : todo[c][i] \in LinkName
                               /\ stage[c] = "done" => Include(tree, "sys") \in bindings[c]
      BY DEF Inv, LinksMade, TypeInv, Generated
    <2>5. pc \in {"machine", "tools", "target", "manifest", "cargo", "scripts", "qemu", "spawn",
                  "done"} => args["sysdir"] # None /\ tree \in {args["sysdir"]} \X {"", "sys"}
      BY DEF TypeInv, TreeResolved
    <2> QED
      BY <2>1, <2>2, <2>3, <2>4, <2>5 DEF TypeOK
  <1> QED
    BY <1>1, InitParse, ParseInductive, InitManifest, ManifestInductive, InitInv, InvInductive,
       InitTypes, TypesInductive, PTL DEF Spec

\* However long Cargo.toml is and however its tables and keys are ordered, the
\* library looked for is cargo's.
THEOREM LooksForCargos == Spec => []LooksForCargosLibrary
  <1>1. ManifestInv => LooksForCargosLibrary
    BY DEF ManifestInv
  <1> QED
    BY <1>1, InitManifest, ManifestInductive, PTL DEF Spec

\* No machine that passes the first table is unknown to a later one.
THEOREM NoPanicReached == Spec => []NoPanic
  <1>1. Inv => NoPanic
    BY DEF Inv
  <1> QED
    BY <1>1, InitInv, InvInductive, PTL DEF Spec

\* Bindings read no include directory but the build's own.
THEOREM BindingsReadOwn == Spec => []BindingsReadOwnTree
  <1>1. Inv => BindingsReadOwnTree
    BY DEF Inv
  <1> QED
    BY <1>1, InitInv, InvInductive, PTL DEF Spec
=============================================================================
