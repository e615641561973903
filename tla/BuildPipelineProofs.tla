------------------------ MODULE BuildPipelineProofs ------------------------
(***************************************************************************)
(* Theorems about BuildPipeline, for any number of builds, crates, trees,  *)
(* versions and objects, whatever their names.                             *)
(***************************************************************************)
EXTENDS BuildPipeline, TLAPS

-----------------------------------------------------------------------------
(* Types.                                                                  *)

\* TypeOK, with what makes it inductive: a build that is under way was asked
\* for something, only arm64 builds link twice, and a copy has begun.
Types ==
  /\ TypeOK
  /\ \A b \in Builders :
       /\ pc[b] \notin {"idle", "failed"} => job[b] \in Jobs
       /\ pc[b] = "shared" => ~Direct(b)
       /\ pc[b] = "copying" => out[b] # None

\* What the fields of a job are.
LEMMA JobFields ==
  ASSUME NEW j \in Jobs
  PROVE  /\ j.crate \in Crates /\ j.machine \in Machine /\ j.profile \in Profile
         /\ j.built \in Profile /\ j.features \in Features /\ j.tree \in Trees
         /\ j.exports \in {"NO", "LIST", "YES"} /\ j # None
         /\ GlobalFor(j.exports) \in {"all", "listed", "needed"}
  <1>1. j \in Job /\ j # None
    BY BuildAssumption, NoneAssumption
  <1> QED
    BY <1>1 DEF Job, GlobalFor

\* The keys a build uses, while it is under way.
LEMMA Keys ==
  ASSUME Types, NEW b \in Builders, pc[b] \notin {"idle", "failed"}
  PROVE  /\ job[b] \in Jobs /\ Crate(b) \in Crates /\ WorkDir(b) = Crate(b)
         /\ Unit(b) \in Machine \X Profile
         /\ Library(b) \in Crates \X Machine \X Profile
  BY JobFields DEF Types, Crate, WorkDir, Unit, Library

\* Bindings are those of the tree asked for, whether made now or before.
LEMMA BindingsTree ==
  ASSUME Types, NEW u \in Machine \X Profile, NEW t \in Trees
  PROVE  BindingsFor(u, t) \in Bindings /\ BindingsFor(u, t).tree = t
  BY DEF Types, TypeOK, BindingsFor, Bindings

\* What a job's objects are.
LEMMA ObjectsMade ==
  ASSUME NEW j \in Jobs, NEW s \in Versions, NEW h \in Bindings
  PROVE  /\ Objects(j, s, h) \in SUBSET Object /\ Objects(j, s, h) # {}
         /\ FileNames(Objects(j, s, h)) = Members[j, s]
         /\ \A o \in Objects(j, s, h) :
              /\ o.from.crate = j.crate /\ o.from.machine = j.machine
              /\ o.from.profile = j.built /\ o.from.features = j.features
              /\ o.from.source = s /\ o.from.tree = h.tree
  <1> DEFINE from == [crate |-> j.crate, machine |-> j.machine, profile |-> j.built,
                      features |-> j.features, source |-> s, tree |-> h.tree,
                      headers |-> h.headers]
  <1>1. Members[j, s] \in SUBSET Names /\ Members[j, s] # {}
    <2>1. Members \in [Jobs \X Versions -> (SUBSET Names) \ {{}}]
      BY BuildAssumption
    <2>2. Members[j, s] \in (SUBSET Names) \ {{}}
      BY <2>1
    <2> QED
      BY <2>2
  <1>2. from \in Origin
    BY JobFields DEF Origin, Bindings
  <1>3. Objects(j, s, h) = {[name |-> n, from |-> from] : n \in Members[j, s]}
    BY DEF Objects
  <1>4. /\ from.crate = j.crate /\ from.machine = j.machine
        /\ from.profile = j.built /\ from.features = j.features
        /\ from.source = s /\ from.tree = h.tree
    OBVIOUS
  <1> DEFINE names == Members[j, s]
  <1> HIDE DEF from, names
  <1>5. Objects(j, s, h) = {[name |-> n, from |-> from] : n \in names}
    BY <1>3 DEF names
  <1>6. names \in SUBSET Names /\ names # {}
    BY <1>1 DEF names
  <1>7. Objects(j, s, h) \in SUBSET Object
    BY <1>2, <1>5, <1>6 DEF Object
  <1>8. FileNames(Objects(j, s, h)) = names /\ Objects(j, s, h) # {}
    <2>1. \A n \in names : [name |-> n, from |-> from] \in Objects(j, s, h)
                            /\ [name |-> n, from |-> from].name = n
      BY <1>5
    <2>2. \A o \in Objects(j, s, h) : o.name \in names
      BY <1>5
    <2> QED
      BY <1>6, <2>1, <2>2 DEF FileNames
  <1>9. \A o \in Objects(j, s, h) : o.from = from
    BY <1>5
  <1> QED
    BY <1>4, <1>7, <1>8, <1>9 DEF names

\* What linking the symbols does to the .kld.
LEMMA SymbolsStep ==
  ASSUME Types, NEW b \in Builders, Symbols(b), kld[Crate(b)] # None
  PROVE  /\ kld'[Crate(b)] \in Linked
         /\ kld'[Crate(b)].objects = kld[Crate(b)].objects
         /\ kld'[Crate(b)].global = GlobalFor(job[b].exports)
         /\ kld' \in [Crates -> Linked \cup {None}]
         /\ \A c \in Crates : c # Crate(b) => kld'[c] = kld[c]
  <1>1. job[b] \in Jobs /\ Crate(b) \in Crates /\ pc[b] = "symbols" /\ WorkDir(b) = Crate(b)
    BY Keys DEF Symbols, Goto
  <1>2. kld[Crate(b)] \in Linked /\ kld \in [Crates -> Linked \cup {None}]
    BY <1>1 DEF Types, TypeOK
  <1> DEFINE l == [kld[Crate(b)] EXCEPT !.global = GlobalFor(job[b].exports)]
  <1>3. l \in Linked /\ l.objects = kld[Crate(b)].objects
        /\ l.global = GlobalFor(job[b].exports)
    BY <1>1, <1>2, JobFields DEF Linked
  <1>4. kld' = [kld EXCEPT ![Crate(b)] = l]
    BY <1>1 DEF Symbols
  <1> HIDE DEF l
  <1> QED
    BY <1>1, <1>2, <1>3, <1>4

LEMMA InitTypes == Init => Types
  BY BuildAssumption DEF Init, Types, TypeOK, Versions, PC

\* A step of a build leaves the place and the job of the others alone.
LEMMA OthersPlace ==
  ASSUME Types, NEW b \in Builders, NEW q \in Builders, Step(q), b # q
  PROVE  /\ pc'[b] = pc[b] /\ job'[b] = job[b] /\ want'[b] = want[b]
         /\ listed'[b] = listed[b] /\ out'[b] = out[b]
  BY DEF Step, Start, Cargo, CheckLibrary, ClearWork, Extract, ListObjects, Link,
         Symbols, Shared, Strip, Copy, CopyEnds, Fail, Goto, Types, TypeOK, cache, work, world

\* The work directories after a step: a build changes its own alone.
WorkKept(q) ==
  /\ objs' \in [Crates -> SUBSET Object]
  /\ kld' \in [Crates -> Linked \cup {None}] /\ ko' \in [Crates -> ArmLinked \cup {None}]
  /\ \A c \in Crates : c # Crate(q) => /\ objs'[c] = objs[c] /\ kld'[c] = kld[c]
                                       /\ ko'[c] = ko[c]

LEMMA ExtractedKept ==
  ASSUME Types, NEW q \in Builders, pc[q] \notin {"idle", "failed"}, NEW members \in SUBSET Object,
         Extracted(q, members), UNCHANGED <<kld, ko>>
  PROVE  /\ WorkKept(q)
         /\ objs'[Crate(q)] = {o \in objs[Crate(q)] : o.name \notin FileNames(members)}
                              \cup members
  BY Keys DEF Extracted, WorkKept, Types, TypeOK

LEMMA RemovingKept ==
  ASSUME Types, NEW q \in Builders, pc[q] \notin {"idle", "failed"}, Removing(WorkDir(q)) \/ Removed(WorkDir(q))
  PROVE  WorkKept(q)
  <1>1. Crate(q) \in Crates /\ WorkDir(q) = Crate(q)
    BY Keys
  <1>2. CASE Removing(Crate(q))
    <2>1. PICK rest \in SUBSET objs[Crate(q)] : objs' = [objs EXCEPT ![Crate(q)] = rest]
      BY <1>2 DEF Removing
    <2>2. kld' \in {kld, [kld EXCEPT ![Crate(q)] = None]}
          /\ ko' \in {ko, [ko EXCEPT ![Crate(q)] = None]}
      BY <1>2 DEF Removing
    <2> QED
      BY <1>1, <2>1, <2>2 DEF WorkKept, Types, TypeOK
  <1>3. CASE Removed(Crate(q))
    BY <1>1, <1>3 DEF Removed, WorkKept, Types, TypeOK
  <1> QED
    BY <1>1, <1>2, <1>3

LEMMA WorkStep ==
  ASSUME Types, NEW q \in Builders, Step(q)
  PROVE  WorkKept(q)
  <1>1. CASE UNCHANGED work
    BY <1>1 DEF work, WorkKept, Types, TypeOK
  <1>2. CASE ClearWork(q)
    BY <1>2, RemovingKept DEF ClearWork, Goto
  <1>3. CASE Extract(q)
    <2>1. staticlib[Library(q)] \in SUBSET Object /\ pc[q] \notin {"idle", "failed"}
      BY <1>3, Keys DEF Extract, Goto, Types, TypeOK
    <2> QED
      BY <1>3, <2>1, ExtractedKept DEF Extract
  <1>4. CASE Link(q)
    <2> DEFINE objects == {o \in objs[WorkDir(q)] : o.name \in listed[q]}
               l == [objects |-> objects, global |-> "all"]
    <2>1. Crate(q) \in Crates /\ WorkDir(q) = Crate(q)
      BY <1>4, Keys DEF Link, Goto
    <2>2. l \in Linked
      BY <2>1 DEF Linked, Types, TypeOK
    <2>3. kld' = [kld EXCEPT ![Crate(q)] = l] /\ UNCHANGED <<objs, ko>>
      BY <1>4, <2>1 DEF Link
    <2> HIDE DEF l
    <2> QED
      BY <2>1, <2>2, <2>3 DEF WorkKept, Types, TypeOK
  <1>5. CASE Symbols(q)
    <2>1. UNCHANGED <<objs, ko>> /\ Crate(q) \in Crates /\ WorkDir(q) = Crate(q)
      BY <1>5, Keys DEF Symbols, Goto
    <2>2. CASE kld[Crate(q)] = None
      BY <1>5, <2>1, <2>2 DEF Symbols, WorkKept, Types, TypeOK
    <2>3. CASE kld[Crate(q)] # None
      BY <1>5, <2>1, <2>3, SymbolsStep DEF WorkKept, Types, TypeOK
    <2> QED
      BY <2>2, <2>3
  <1>6. CASE Shared(q)
    <2>1. Crate(q) \in Crates /\ WorkDir(q) = Crate(q) /\ job[q] \in Jobs /\ pc[q] = "shared"
      BY <1>6, Keys DEF Shared, Goto
    <2>2. job[q].machine = "arm64"
      BY <2>1, JobFields DEF Types, Direct, Machine
    <2>3. kld[Crate(q)] \in ArmLinked
      BY <1>6, <2>1, <2>2 DEF Shared, ArmLinked, Types, TypeOK
    <2> QED
      BY <1>6, <2>1, <2>3 DEF Shared, WorkKept, Types, TypeOK
  <1>7. CASE Fail(q)
    <2>1. pc[q] \notin {"idle", "failed"}
      BY <1>7 DEF Fail, Active
    <2>2. CASE pc[q] = "extract" /\ UNCHANGED <<kld, ko>>
               /\ \E members \in SUBSET staticlib[Library(q)] : Extracted(q, members)
      <3>1. staticlib[Library(q)] \in SUBSET Object
        BY <2>1, Keys DEF Types, TypeOK
      <3> QED
        BY <2>1, <2>2, <3>1, ExtractedKept
    <2> QED
      BY <1>1, <1>7, <2>1, <2>2, RemovingKept DEF Fail, LeftBy
  <1> QED
    BY <1>1, <1>2, <1>3, <1>4, <1>5, <1>6, <1>7
       DEF Step, Start, Cargo, CheckLibrary, ListObjects, Strip, Copy, CopyEnds

\* What cargo makes: the library of one crate, machine and profile.
LEMMA CargoStep ==
  ASSUME Types, NEW q \in Builders, Cargo(q)
  PROVE  /\ staticlib' \in [Crates \X Machine \X Profile -> SUBSET Object]
         /\ bindings' \in [Machine \X Profile -> Bindings \cup {None}]
         /\ want'[q].source = source
         /\ want' \in [Builders -> [source : Versions, headers : Versions] \cup {None}]
         /\ LET l == <<Crate(q), Unit(q)[1], Unit(q)[2]>> IN
              /\ staticlib'[l] = Objects(job[q], source, BindingsFor(Unit(q), job[q].tree))
              /\ \A k \in Crates \X Machine \X Profile : k # l => staticlib'[k] = staticlib[k]
  <1> DEFINE u == Unit(q)
             t == job[q].tree
             h == BindingsFor(u, t)
             l == <<Crate(q), u[1], u[2]>>
             lib == Objects(job[q], source, h)
             w == [source |-> source, headers |-> tree[t]]
  <1>1. job[q] \in Jobs /\ Crate(q) \in Crates /\ u \in Machine \X Profile /\ t \in Trees
    BY Keys, JobFields DEF Cargo, Goto
  <1>2. h \in Bindings
    BY <1>1, BindingsTree
  <1>3. l \in Crates \X Machine \X Profile /\ source \in Versions /\ tree[t] \in Versions
    BY <1>1 DEF Types, TypeOK
  <1>4. lib \in SUBSET Object
    BY <1>1, <1>2, <1>3, ObjectsMade
  <1>5. /\ staticlib' = [staticlib EXCEPT ![l] = lib]
        /\ bindings' = [bindings EXCEPT ![u] = h]
        /\ want' = [want EXCEPT ![q] = w]
    BY DEF Cargo
  <1>6. w \in [source : Versions, headers : Versions] /\ w.source = source
    BY <1>3
  <1>7. /\ staticlib \in [Crates \X Machine \X Profile -> SUBSET Object]
        /\ bindings \in [Machine \X Profile -> Bindings \cup {None}]
        /\ want \in [Builders -> [source : Versions, headers : Versions] \cup {None}]
    BY DEF Types, TypeOK
  <1>8. /\ staticlib' \in [Crates \X Machine \X Profile -> SUBSET Object]
        /\ staticlib'[l] = lib
        /\ \A k \in Crates \X Machine \X Profile : k # l => staticlib'[k] = staticlib[k]
    <2> HIDE DEF lib, h, w, l
    <2> QED
      BY <1>3, <1>4, <1>5, <1>7
  <1>9. /\ bindings' \in [Machine \X Profile -> Bindings \cup {None}]
        /\ want' \in [Builders -> [source : Versions, headers : Versions] \cup {None}]
        /\ want'[q].source = source
    <2> HIDE DEF lib, h, w, u
    <2> QED
      BY <1>1, <1>2, <1>5, <1>6, <1>7
  <1> QED
    BY <1>8, <1>9

\* A copy that begins, and one that ends.
LEMMA CopyStep ==
  ASSUME Types, NEW q \in Builders, Copy(q) \/ CopyEnds(q)
  PROVE  /\ out' \in [Builders -> Copied \cup {None}] /\ out'[q] \in Copied
         /\ Copy(q) => out'[q] = [module |-> Final(q), whole |-> FALSE]
                       /\ Final(q) \in Linked
         /\ CopyEnds(q) => out'[q].module = out[q].module /\ out'[q].whole
                           /\ out[q] \in Copied
  <1>1. CASE Copy(q)
    <2>1. Final(q) \in Linked
      BY <1>1, Keys DEF Copy, Goto, Final, ArmLinked, Types, TypeOK
    <2>2. [module |-> Final(q), whole |-> FALSE] \in Copied
      BY <2>1 DEF Copied
    <2>3. ~CopyEnds(q)
      BY <1>1 DEF Copy, CopyEnds, Goto
    <2> QED
      BY <1>1, <2>1, <2>2, <2>3 DEF Copy, Types, TypeOK
  <1>2. CASE CopyEnds(q)
    <2>1. out[q] \in Copied /\ out \in [Builders -> Copied \cup {None}]
      BY <1>2 DEF CopyEnds, Goto, Types, TypeOK
    <2> DEFINE c == [out[q] EXCEPT !.whole = TRUE]
    <2>2. c \in Copied /\ c.module = out[q].module /\ c.whole
      BY <2>1 DEF Copied
    <2>3. out' = [out EXCEPT ![q] = c] /\ ~Copy(q)
      BY <1>2 DEF Copy, CopyEnds, Goto
    <2> HIDE DEF c
    <2> QED
      BY <2>1, <2>2, <2>3
  <1> QED
    BY <1>1, <1>2

LEMMA TypesInductive == Types /\ [Next]_vars => Types'
  <1> SUFFICES ASSUME Types, [Next]_vars PROVE Types'
    OBVIOUS
  <1>1. CASE EditSource
    BY <1>1, BuildAssumption DEF EditSource, Types, TypeOK, Versions, cache, work, Direct
  <1>2. ASSUME NEW t \in Trees, UpdateTree(t) PROVE Types'
    BY <1>2, BuildAssumption DEF UpdateTree, Types, TypeOK, Versions, cache, work, Direct
  <1>3. ASSUME NEW q \in Builders, Step(q) PROVE Types'
    <2>0. /\ objs' \in [Crates -> SUBSET Object]
          /\ kld' \in [Crates -> Linked \cup {None}] /\ ko' \in [Crates -> ArmLinked \cup {None}]
      BY <1>3, WorkStep DEF WorkKept
    <2>1. ASSUME NEW j \in Jobs, Start(q, j) PROVE Types'
      BY <2>0, <2>1 DEF Start, Goto, Types, TypeOK, PC, cache, world, Direct
    <2>2. CASE Cargo(q)
      BY <2>0, <2>2, CargoStep DEF Cargo, Goto, Types, TypeOK, PC, world, Direct
    <2>3. CASE CheckLibrary(q)
      BY <2>0, <2>3 DEF CheckLibrary, Goto, Types, TypeOK, PC, cache, world, Direct
    <2>4. CASE ClearWork(q)
      BY <2>0, <2>4 DEF ClearWork, Goto, Types, TypeOK, PC, cache, world, Direct
    <2>5. CASE Extract(q)
      BY <2>0, <2>5 DEF Extract, Goto, Types, TypeOK, PC, cache, world, Direct
    <2>6. CASE ListObjects(q)
      <3>1. FileNames(objs[WorkDir(q)]) \subseteq Names
        BY <2>6, Keys DEF ListObjects, Goto, FileNames, Types, TypeOK, Object
      <3> QED
        BY <2>0, <2>6, <3>1 DEF ListObjects, Goto, Types, TypeOK, PC, cache, world, Direct
    <2>7. CASE Link(q)
      BY <2>0, <2>7 DEF Link, Goto, Types, TypeOK, PC, cache, world, Direct
    <2>8. CASE Symbols(q)
      <3>1. AfterSymbols(q) \in {"strip", "shared"}
            /\ (AfterSymbols(q) = "shared" => ~Direct(q))
        BY DEF AfterSymbols
      <3> QED
        BY <2>0, <2>8, <3>1 DEF Symbols, Goto, Types, TypeOK, PC, cache, world, Direct
    <2>9. CASE Shared(q)
      BY <2>0, <2>9 DEF Shared, Goto, Types, TypeOK, PC, cache, world, Direct
    <2>10. CASE Strip(q)
      BY <2>0, <2>10 DEF Strip, Goto, Types, TypeOK, PC, cache, world, Direct
    <2>11. CASE Copy(q) \/ CopyEnds(q)
      <3>1. out' \in [Builders -> Copied \cup {None}] /\ out'[q] # None
            /\ \A b \in Builders : b # q => out'[b] = out[b]
        BY <1>3, <2>11, CopyStep, OthersPlace, NoneAssumption
      <3> QED
        BY <2>0, <2>11, <3>1
           DEF Copy, CopyEnds, Goto, Types, TypeOK, PC, cache, world, Direct
    <2>12. CASE Fail(q)
      BY <2>0, <2>12 DEF Fail, Types, TypeOK, PC, cache, world, Direct
    <2> QED
      BY <1>3, <2>1, <2>2, <2>3, <2>4, <2>5, <2>6, <2>7, <2>8, <2>9, <2>10, <2>11, <2>12
         DEF Step
  <1>4. CASE UNCHANGED vars
    BY <1>4 DEF vars, Types, TypeOK, cache, work, world, Direct
  <1> QED
    BY <1>1, <1>2, <1>3, <1>4, BuildAssumption DEF Next

\* The type invariant: every file, cache and local of the pipeline has its type,
\* however builds overlap, fail and leave their work directory; what the second
\* link makes is of arm64 objects alone.
THEOREM TypeCorrect == Spec => []TypeOK
  <1>1. Types => TypeOK
    BY DEF Types
  <1> QED
    BY <1>1, InitTypes, TypesInductive, PTL DEF Spec

-----------------------------------------------------------------------------
(* Builds that do not disturb each other.                                  *)

\* What the theorems on the output suppose: builds that are under way together
\* are of different crates, the arguments after -- leave the profile alone, and a
\* removal of the work directory that fails is not passed over.
Orderly == ~Overlap /\ ~ClearFails /\ \A j \in Jobs : j.built = j.profile

\* Builds under way are of different crates.
Separate ==
  \A b, c \in Builders : b # c /\ Active(b) /\ Active(c) => Crate(b) # Crate(c)

\* The objects of build b: all of its source and its tree, and no other.
Own(b, objects) ==
  /\ want[b].source \in Versions
  /\ \E h \in Bindings : h.tree = job[b].tree
                         /\ objects = Objects(job[b], want[b].source, h)

\* A module b may put out.
Finished(b, l) == l \in Linked /\ Own(b, l.objects) /\ l.global = GlobalFor(job[b].exports)

\* What a build has in its hands at each step.  Past the removal its work
\* directory holds nothing, and from then on nothing of others.
Progress(b) ==
  /\ pc[b] \in {"check", "clear", "extract"} => Own(b, staticlib[Library(b)])
  /\ pc[b] = "extract" => objs[Crate(b)] = {}
  /\ pc[b] \in {"list", "link"} => Own(b, objs[Crate(b)])
  /\ pc[b] = "link" => listed[b] = FileNames(objs[Crate(b)])
  /\ pc[b] = "symbols" => kld[Crate(b)] # None /\ Own(b, kld[Crate(b)].objects)
  /\ pc[b] = "shared" => Finished(b, kld[Crate(b)])
  /\ pc[b] \in {"strip", "copy"} => Finished(b, Final(b))
  /\ pc[b] = "copying" => Finished(b, out[b].module) /\ ~out[b].whole
  /\ pc[b] = "done" => Finished(b, out[b].module) /\ out[b].whole

Inv == Types /\ Separate /\ \A b \in Builders : Progress(b)

LEMMA InitInv == Init => Inv
  <1> SUFFICES ASSUME Init PROVE Inv
    OBVIOUS
  <1>1. Types
    BY InitTypes
  <1>2. Separate
    BY DEF Init, Separate, Active
  <1>3. ASSUME NEW b \in Builders PROVE Progress(b)
    BY DEF Init, Progress
  <1> QED
    BY <1>1, <1>2, <1>3 DEF Inv

\* The same, object by object.
AllOwn(b, objects) ==
  /\ FileNames(objects) = Members[job[b], want[b].source]
  /\ \A o \in objects :
       /\ o.from.crate = job[b].crate /\ o.from.machine = job[b].machine
       /\ o.from.profile = job[b].built /\ o.from.features = job[b].features
       /\ o.from.source = want[b].source /\ o.from.tree = job[b].tree

LEMMA OwnObjects ==
  ASSUME NEW b \in Builders, job[b] \in Jobs, NEW objects, Own(b, objects)
  PROVE  AllOwn(b, objects) /\ objects # {}
  <1>1. PICK h \in Bindings : h.tree = job[b].tree
                             /\ objects = Objects(job[b], want[b].source, h)
    BY DEF Own
  <1>2. want[b].source \in Versions
    BY DEF Own
  <1> DEFINE j == job[b]
             s == want[b].source
  <1>3. j \in Jobs /\ s \in Versions
    BY <1>2
  <1> HIDE DEF j, s
  <1>4. /\ Objects(j, s, h) # {} /\ FileNames(Objects(j, s, h)) = Members[j, s]
        /\ \A o \in Objects(j, s, h) :
             /\ o.from.crate = j.crate /\ o.from.machine = j.machine
             /\ o.from.profile = j.built /\ o.from.features = j.features
             /\ o.from.source = s /\ o.from.tree = h.tree
    BY <1>3, ObjectsMade
  <1>5. objects = Objects(j, s, h) /\ h.tree = j.tree
    BY <1>1 DEF j, s
  <1>6. /\ objects # {} /\ FileNames(objects) = Members[j, s]
        /\ \A o \in objects :
             /\ o.from.crate = j.crate /\ o.from.machine = j.machine
             /\ o.from.profile = j.built /\ o.from.features = j.features
             /\ o.from.source = s /\ o.from.tree = j.tree
    BY <1>4, <1>5
  <1> QED
    BY <1>6 DEF j, s, AllOwn

\* A step of one build leaves what another has in its hands alone.
LEMMA OthersFiles ==
  ASSUME Orderly, Inv, NEW b \in Builders, NEW q \in Builders, Step(q), b # q, Active(b)
  PROVE  /\ objs'[Crate(b)] = objs[Crate(b)] /\ kld'[Crate(b)] = kld[Crate(b)]
         /\ ko'[Crate(b)] = ko[Crate(b)] /\ staticlib'[Library(b)] = staticlib[Library(b)]
  <1>1. Types /\ Crate(b) \in Crates /\ Library(b) \in Crates \X Machine \X Profile
    BY Keys DEF Inv, Active
  <1>2. CASE \E j \in Jobs : Start(q, j)
    BY <1>2 DEF Start, cache, work
  <1>3. CASE ~\E j \in Jobs : Start(q, j)
    <2>1. Active(q) /\ Crate(q) # Crate(b)
      <3>1. Active(q)
        BY <1>3 DEF Step, Active, Cargo, CheckLibrary, ClearWork, Extract, ListObjects,
             Link, Symbols, Shared, Strip, Copy, CopyEnds, Fail, Goto
      <3> QED
        BY <3>1 DEF Inv, Separate
    <2>2. /\ objs'[Crate(b)] = objs[Crate(b)] /\ kld'[Crate(b)] = kld[Crate(b)]
          /\ ko'[Crate(b)] = ko[Crate(b)]
      BY <1>1, <2>1, WorkStep DEF WorkKept
    <2>3. CASE Cargo(q)
      <3>1. Library(b) # <<Crate(q), Unit(q)[1], Unit(q)[2]>>
        BY <2>1 DEF Library
      <3> QED
        BY <1>1, <2>2, <2>3, <3>1, CargoStep
    <2> QED
      BY <1>3, <2>2, <2>3
         DEF Step, CheckLibrary, ClearWork, Extract, ListObjects, Link, Symbols, Shared,
             Strip, Copy, CopyEnds, Fail, cache
  <1> QED
    BY <1>2, <1>3

LEMMA OthersProgress ==
  ASSUME Orderly, Inv, NEW b \in Builders, NEW q \in Builders, Step(q), b # q
  PROVE  Progress(b)'
  <1>1. Types /\ Progress(b)
    BY DEF Inv
  <1>2. /\ pc'[b] = pc[b] /\ job'[b] = job[b] /\ want'[b] = want[b]
        /\ listed'[b] = listed[b] /\ out'[b] = out[b]
    BY <1>1, OthersPlace
  <1>3. CASE Active(b)
    <2>1. /\ objs'[Crate(b)] = objs[Crate(b)] /\ kld'[Crate(b)] = kld[Crate(b)]
          /\ ko'[Crate(b)] = ko[Crate(b)] /\ staticlib'[Library(b)] = staticlib[Library(b)]
      BY <1>3, OthersFiles
    <2>2. Crate(b)' = Crate(b) /\ Library(b)' = Library(b) /\ Direct(b)' = Direct(b)
      BY <1>2 DEF Crate, Library, Direct
    <2>3. Final(b)' = Final(b)
      BY <2>1, <2>2 DEF Final, WorkDir
    <2> QED
      BY <1>1, <1>2, <2>1, <2>2, <2>3 DEF Progress, Own, Finished
  <1>4. CASE ~Active(b)
    BY <1>1, <1>2, <1>4 DEF Progress, Own, Finished, Active
  <1> QED
    BY <1>3, <1>4

LEMMA SeparateKept ==
  ASSUME Orderly, Inv, NEW q \in Builders, Step(q)
  PROVE  Separate'
  <1> SUFFICES ASSUME NEW b \in Builders, NEW c \in Builders, b # c, Active(b)', Active(c)'
               PROVE  Crate(b)' # Crate(c)'
    BY DEF Separate
  <1>1. Types /\ Separate
    BY DEF Inv
  <1>2. CASE \E j \in Jobs : Start(q, j)
    BY <1>1, <1>2 DEF Start, Goto, Orderly, Separate, Active, Crate, Types, TypeOK
  <1>3. CASE ~\E j \in Jobs : Start(q, j)
    <2>1. \A x \in Builders : Active(x)' => Active(x) /\ job'[x] = job[x]
      BY <1>1, <1>3 DEF Step, Active, Cargo, CheckLibrary, ClearWork, Extract, ListObjects,
           Link, Symbols, Shared, Strip, Copy, CopyEnds, Fail, Goto, Types, TypeOK
    <2> QED
      BY <1>1, <2>1 DEF Separate, Crate
  <1> QED
    BY <1>2, <1>3

LEMMA OwnProgress ==
  ASSUME Orderly, Inv, NEW b \in Builders, Step(b)
  PROVE  Progress(b)'
  <1>1. Types /\ Progress(b) /\ WorkKept(b)
    BY WorkStep DEF Inv
  <1>2. ASSUME NEW j \in Jobs, Start(b, j) PROVE Progress(b)'
    BY <1>1, <1>2 DEF Start, Goto, Progress, Types, TypeOK
  <1>3. CASE Cargo(b)
    <2> DEFINE h == BindingsFor(Unit(b), job[b].tree)
    <2>1. /\ job[b] \in Jobs /\ Library(b) = <<Crate(b), Unit(b)[1], Unit(b)[2]>>
          /\ Unit(b) \in Machine \X Profile /\ job[b].tree \in Trees
      BY <1>1, <1>3, Keys, JobFields DEF Cargo, Goto, Orderly, Library, Unit
    <2>2. pc'[b] = "check" /\ job' = job /\ Library(b)' = Library(b)
      BY <1>1, <1>3 DEF Cargo, Goto, Types, TypeOK, Library, Crate
    <2>3. h \in Bindings /\ h.tree = job[b].tree
      BY <1>1, <2>1, BindingsTree
    <2>4. /\ staticlib'[Library(b)] = Objects(job[b], source, h)
          /\ want'[b].source = source /\ source \in Versions
      BY <1>1, <1>3, <2>1, CargoStep DEF Types, TypeOK
    <2>5. Own(b, staticlib[Library(b)])'
      BY <2>2, <2>3, <2>4 DEF Own
    <2> QED
      BY <2>2, <2>5 DEF Progress
  <1>4. CASE CheckLibrary(b)
    BY <1>1, <1>4
       DEF CheckLibrary, Goto, Progress, Own, Library, Crate, Types, TypeOK, cache
  <1>5. CASE ClearWork(b)
    <2>1. Crate(b) \in Crates /\ objs' = [objs EXCEPT ![Crate(b)] = {}]
      BY <1>1, <1>5, Keys DEF ClearWork, Goto, Orderly, Removed
    <2>2. objs'[Crate(b)] = {}
      BY <1>1, <2>1 DEF Types, TypeOK
    <2>3. pc[b] = "clear" /\ pc'[b] = "extract" /\ job' = job /\ want' = want
          /\ staticlib' = staticlib
      BY <1>1, <1>5 DEF ClearWork, Goto, Types, TypeOK, cache
    <2> QED
      BY <1>1, <2>2, <2>3 DEF Progress, Own, Library, Crate
  <1>6. CASE Extract(b)
    <2>1. /\ Crate(b) \in Crates /\ Own(b, staticlib[Library(b)]) /\ objs[Crate(b)] = {}
          /\ staticlib[Library(b)] \in SUBSET Object /\ pc[b] \notin {"idle", "failed"}
      BY <1>1, <1>6, Keys DEF Extract, Goto, Progress, Types, TypeOK
    <2>2. objs'[Crate(b)] = staticlib[Library(b)]
      BY <1>1, <1>6, <2>1, ExtractedKept DEF Extract
    <2>3. pc'[b] = "list" /\ job' = job /\ want' = want
      BY <1>1, <1>6 DEF Extract, Goto, Types, TypeOK
    <2> QED
      BY <2>1, <2>2, <2>3 DEF Progress, Own, Crate
  <1>7. CASE ListObjects(b)
    <2>1. pc'[b] = "link" /\ job' = job /\ want' = want /\ objs' = objs
          /\ listed'[b] = FileNames(objs[Crate(b)])
      BY <1>1, <1>7 DEF ListObjects, Goto, Types, TypeOK, work, WorkDir
    <2>2. Own(b, objs[Crate(b)])
      BY <1>1, <1>7 DEF ListObjects, Goto, Progress
    <2> QED
      BY <2>1, <2>2 DEF Progress, Own, Crate, FileNames
  <1>8. CASE Link(b)
    <2>1. Crate(b) \in Crates /\ WorkDir(b) = Crate(b) /\ Own(b, objs[Crate(b)])
          /\ listed[b] = FileNames(objs[Crate(b)])
      BY <1>1, <1>8, Keys DEF Link, Goto, Progress
    <2>2. {o \in objs[Crate(b)] : o.name \in listed[b]} = objs[Crate(b)]
      BY <2>1 DEF FileNames
    <2>3. kld'[Crate(b)] = [objects |-> objs[Crate(b)], global |-> "all"]
      BY <1>1, <1>8, <2>1, <2>2 DEF Link, Types, TypeOK
    <2>4. kld'[Crate(b)] # None
      <3>1. kld'[Crate(b)] \in Linked
        BY <1>1, <2>1, <2>3 DEF Linked, Types, TypeOK
      <3> QED
        BY <3>1, NoneAssumption
    <2>5. pc'[b] = "symbols" /\ job' = job /\ want' = want
      BY <1>1, <1>8 DEF Link, Goto, Types, TypeOK
    <2> QED
      BY <2>1, <2>3, <2>4, <2>5 DEF Progress, Own, Crate
  <1>9. CASE Symbols(b)
    <2>1. kld[Crate(b)] # None /\ Own(b, kld[Crate(b)].objects) /\ Crate(b) \in Crates
      BY <1>1, <1>9, Keys DEF Symbols, Goto, Progress
    <2>2. /\ kld'[Crate(b)] \in Linked
          /\ kld'[Crate(b)].objects = kld[Crate(b)].objects
          /\ kld'[Crate(b)].global = GlobalFor(job[b].exports)
      BY <1>1, <1>9, <2>1, SymbolsStep
    <2>3. pc'[b] = AfterSymbols(b) /\ job' = job /\ want' = want
      BY <1>1, <1>9 DEF Symbols, Goto, Types, TypeOK
    <2>4. Finished(b, kld[Crate(b)])'
      BY <2>1, <2>2, <2>3 DEF Finished, Own, Crate
    <2>5. Direct(b) => Final(b)' = kld'[Crate(b)]
      BY <2>3 DEF Final, Direct, WorkDir, Crate
    <2> QED
      BY <2>3, <2>4, <2>5 DEF Progress, Finished, Own, Crate, AfterSymbols
  <1>10. CASE Shared(b)
    <2>1. Crate(b) \in Crates /\ ~Direct(b) /\ Finished(b, kld[Crate(b)])
      BY <1>1, <1>10, Keys DEF Shared, Goto, Progress, Types
    <2>2. pc'[b] = "strip" /\ job' = job /\ want' = want /\ ko'[Crate(b)] = kld[Crate(b)]
      BY <1>1, <1>10, <2>1 DEF Shared, Goto, WorkDir, Types, TypeOK
    <2>3. Final(b)' = kld[Crate(b)]
      BY <2>1, <2>2 DEF Final, Direct, WorkDir, Crate
    <2> QED
      BY <2>1, <2>2, <2>3 DEF Progress, Finished, Own
  <1>11. CASE Strip(b)
    <2>1. /\ pc[b] = "strip" /\ pc'[b] = "copy"
          /\ job' = job /\ want' = want /\ kld' = kld /\ ko' = ko
      BY <1>1, <1>11 DEF Strip, Goto, Types, TypeOK, work
    <2> QED
      BY <1>1, <2>1 DEF Progress, Finished, Own, Final, Direct, WorkDir, Crate
  <1>12. CASE Copy(b)
    <2>1. /\ pc[b] = "copy" /\ pc'[b] = "copying" /\ job' = job /\ want' = want
          /\ out'[b] = [module |-> Final(b), whole |-> FALSE]
      BY <1>1, <1>12, CopyStep DEF Copy, Goto, Types, TypeOK
    <2>2. Finished(b, Final(b))
      BY <1>1, <2>1 DEF Progress
    <2>3. Finished(b, out[b].module)' /\ ~out'[b].whole
      BY <2>1, <2>2 DEF Finished, Own
    <2> QED
      BY <2>1, <2>3 DEF Progress
  <1>13. CASE CopyEnds(b)
    <2>1. /\ pc[b] = "copying" /\ pc'[b] = "done" /\ job' = job /\ want' = want
          /\ out'[b].module = out[b].module /\ out'[b].whole
      BY <1>1, <1>13, CopyStep DEF CopyEnds, Goto, Types, TypeOK
    <2>2. Finished(b, out[b].module)'
      BY <1>1, <2>1 DEF Progress, Finished, Own
    <2> QED
      BY <2>1, <2>2 DEF Progress
  <1>14. CASE Fail(b)
    BY <1>1, <1>14 DEF Fail, Progress, Types, TypeOK
  <1> QED
    BY <1>2, <1>3, <1>4, <1>5, <1>6, <1>7, <1>8, <1>9, <1>10, <1>11, <1>12, <1>13, <1>14
       DEF Step

LEMMA InvInductive ==
  ASSUME Orderly
  PROVE  Inv /\ [Next]_vars => Inv'
  <1> SUFFICES ASSUME Inv, [Next]_vars PROVE Inv'
    OBVIOUS
  <1>1. Types'
    BY TypesInductive DEF Inv
  <1>2. ASSUME NEW q \in Builders, Step(q) PROVE Inv'
    <2>1. ASSUME NEW b \in Builders PROVE Progress(b)'
      BY <1>2, OthersProgress, OwnProgress
    <2> QED
      BY <1>1, <1>2, <2>1, SeparateKept DEF Inv
  <1>3. CASE UNCHANGED <<cache, work, pc, job, want, listed, out>>
    <2>1. Separate'
      BY <1>3 DEF Inv, Separate, Active, Crate
    <2>2. ASSUME NEW b \in Builders PROVE Progress(b)'
      BY <1>3 DEF Inv, Progress, Finished, Own, Final, Direct, Library, WorkDir,
           Crate, cache, work
    <2> QED
      BY <1>1, <2>1, <2>2 DEF Inv
  <1>4. Next => \/ \E q \in Builders : Step(q)
                \/ UNCHANGED <<cache, work, pc, job, want, listed, out>>
    BY DEF Next, EditSource, UpdateTree, cache, work
  <1> QED
    BY <1>2, <1>3, <1>4 DEF vars

\* A build that reports success wrote a whole module of its own crate, machine,
\* profile, features, source and symbols, with every object of the library and no
\* other, whatever earlier and killed builds left in the target directory under
\* whatever names, and whatever builds of other crates do meanwhile.
THEOREM OutputIsOwn ==
  ASSUME Orderly
  PROVE  Spec => []OutputIsOwnBuild
  <1>1. Inv => OutputIsOwnBuild
    <2> SUFFICES ASSUME Inv, NEW b \in Builders, pc[b] = "done"
                 PROVE  /\ out[b].whole
                        /\ FileNames(Out(b)) = Members[job[b], want[b].source]
                        /\ \A o \in Out(b) :
                             /\ o.from.crate = job[b].crate
                             /\ o.from.machine = job[b].machine
                             /\ o.from.profile = job[b].profile
                             /\ o.from.features = job[b].features
                             /\ o.from.source = want[b].source
                        /\ out[b].module.global = GlobalFor(job[b].exports)
      BY DEF OutputIsOwnBuild
    <2>1. job[b] \in Jobs /\ Finished(b, out[b].module) /\ out[b].whole
      BY DEF Inv, Types, Progress
    <2>2. job[b].built = job[b].profile
      BY <2>1 DEF Orderly
    <2>3. Own(b, Out(b)) /\ out[b].module.global = GlobalFor(job[b].exports)
      BY <2>1 DEF Finished, Out
    <2>4. /\ FileNames(Out(b)) = Members[job[b], want[b].source]
          /\ \A o \in Out(b) :
               /\ o.from.crate = job[b].crate /\ o.from.machine = job[b].machine
               /\ o.from.profile = job[b].built /\ o.from.features = job[b].features
               /\ o.from.source = want[b].source
      <3>1. AllOwn(b, Out(b))
        BY <2>1, <2>3, OwnObjects
      <3> QED
        BY <3>1 DEF AllOwn
    <2> QED
      BY <2>1, <2>2, <2>3, <2>4
  <1> QED
    BY <1>1, InitInv, InvInductive, PTL DEF Spec

\* And compiled it against bindings of the tree --sysdir named.
THEOREM BindingsAreOwn ==
  ASSUME Orderly
  PROVE  Spec => []BindingsOfOwnTree
  <1>1. Inv => BindingsOfOwnTree
    <2> SUFFICES ASSUME Inv, NEW b \in Builders, pc[b] = "done", NEW o \in Out(b)
                 PROVE  o.from.tree = job[b].tree
      BY DEF BindingsOfOwnTree
    <2>1. job[b] \in Jobs /\ Finished(b, out[b].module)
      BY DEF Inv, Types, Progress
    <2> QED
      BY <2>1, OwnObjects DEF Finished, Out, AllOwn
  <1> QED
    BY <1>1, InitInv, InvInductive, PTL DEF Spec

-----------------------------------------------------------------------------
(* The contract.                                                           *)

\* Cached bindings are of headers their tree holds or held.
HeadersHeld ==
  \A u \in Machine \X Profile :
    bindings[u] # None => bindings[u].headers <= tree[bindings[u].tree]

KeptInv == Inv /\ HeadersHeld

LEMMA InitKept == Init => KeptInv
  BY InitInv DEF KeptInv, Init, HeadersHeld

\* Bindings made now are of the headers the tree holds now.
LEMMA HeadersMade ==
  ASSUME Types, HeadersHeld, NEW u \in Machine \X Profile, NEW t \in Trees
  PROVE  BindingsFor(u, t).headers \in 1 .. tree[t]
  BY BindingsTree, BuildAssumption
     DEF Types, TypeOK, HeadersHeld, BindingsFor, Bindings, Versions

LEMMA HeadersKept ==
  ASSUME Types, HeadersHeld, [Next]_vars
  PROVE  HeadersHeld'
  <1>1. CASE \E q \in Builders : Cargo(q)
    <2>1. PICK q \in Builders : Cargo(q)
      BY <1>1
    <2> DEFINE u == Unit(q)
               t == job[q].tree
               h == BindingsFor(u, t)
    <2>2. u \in Machine \X Profile /\ t \in Trees
      BY <2>1, Keys, JobFields DEF Cargo, Goto
    <2>3. h.tree = t /\ h.headers \in 1 .. tree[t]
      BY <2>2, BindingsTree, HeadersMade
    <2>4. bindings' = [bindings EXCEPT ![u] = h] /\ tree' = tree
      BY <2>1 DEF Cargo, world
    <2> HIDE DEF u, t, h
    <2>5. \A v \in Machine \X Profile : bindings'[v] = IF v = u THEN h ELSE bindings[v]
      BY <2>2, <2>4 DEF Types, TypeOK
    <2> QED
      BY <2>3, <2>4, <2>5 DEF HeadersHeld
  <1>2. CASE \E t \in Trees : UpdateTree(t)
    BY <1>2, BuildAssumption
       DEF UpdateTree, HeadersHeld, Types, TypeOK, Bindings, Versions, cache
  <1>3. CASE UNCHANGED <<bindings, tree>>
    BY <1>3 DEF HeadersHeld
  <1> QED
    BY <1>1, <1>2, <1>3, BuildAssumption
       DEF Next, Step, Start, CheckLibrary, ClearWork, Extract, ListObjects, Link, Symbols,
           Shared, Strip, Copy, CopyEnds, Fail, EditSource, vars, cache, world

LEMMA KeptInductive ==
  ASSUME Orderly
  PROVE  KeptInv /\ [Next]_vars => KeptInv'
  BY InvInductive, HeadersKept DEF KeptInv, Inv

\* What a build was asked for, while it is under way.
Asked(b) == IF Active(b) THEN job[b] ELSE None

\* A step of one build does not change what another was asked for or has compiled.
LEMMA OthersModule ==
  ASSUME Orderly, Inv, NEW b \in Builders, NEW q \in Builders, Step(q), b # q
  PROVE  Module(b)' = Module(b) /\ Asked(b)' = Asked(b)
  <1>1. Types
    BY DEF Inv
  <1>2. pc'[b] = pc[b] /\ job'[b] = job[b] /\ out'[b] = out[b]
    BY <1>1, OthersPlace
  <1>3. CASE Active(b)
    <2>1. /\ objs'[Crate(b)] = objs[Crate(b)] /\ kld'[Crate(b)] = kld[Crate(b)]
          /\ ko'[Crate(b)] = ko[Crate(b)] /\ staticlib'[Library(b)] = staticlib[Library(b)]
      BY <1>3, OthersFiles
    <2>2. /\ Crate(b)' = Crate(b) /\ WorkDir(b)' = Crate(b) /\ WorkDir(b) = Crate(b)
          /\ Library(b)' = Library(b) /\ Direct(b)' = Direct(b) /\ Out(b)' = Out(b)
      BY <1>2 DEF Crate, WorkDir, Library, Direct, Out
    <2>3. Final(b)' = Final(b)
      BY <2>1, <2>2 DEF Final
    <2>4. Held(b)' = Held(b)
      BY <1>2, <2>1, <2>2, <2>3 DEF Held
    <2> QED
      BY <1>2, <2>4 DEF Module, Asked, Active
  <1>4. CASE ~Active(b)
    BY <1>2, <1>4 DEF Module, Asked, Active
  <1> QED
    BY <1>3, <1>4

\* Nor does one of its own, once cargo is done and until the copy has ended.
LEMMA OwnModule ==
  ASSUME Orderly, Inv, NEW b \in Builders, Step(b),
         \/ CheckLibrary(b) \/ ClearWork(b) \/ Extract(b) \/ ListObjects(b) \/ Link(b)
         \/ Symbols(b) \/ Shared(b) \/ Strip(b) \/ Copy(b)
  PROVE  Module(b)' = Module(b) /\ Asked(b)' = Asked(b)
  <1>1. Types /\ Progress(b) /\ Types'
    BY TypesInductive DEF Inv, Next
  <1>2. /\ pc[b] \notin {"idle", "cargo", "copying", "done", "failed"} /\ Crate(b) \in Crates
        /\ job' = job /\ WorkDir(b) = Crate(b)
    BY <1>1, Keys DEF CheckLibrary, ClearWork, Extract, ListObjects, Link, Symbols, Shared,
         Strip, Copy, Goto
  <1>3. /\ Crate(b)' = Crate(b) /\ WorkDir(b)' = Crate(b) /\ Library(b)' = Library(b)
        /\ Direct(b)' = Direct(b)
    BY <1>2 DEF Crate, WorkDir, Library, Direct
  <1>4. Asked(b)' = Asked(b)
    BY <1>1, <1>2
       DEF Asked, Active, CheckLibrary, ClearWork, Extract, ListObjects, Link, Symbols,
           AfterSymbols, Shared, Strip, Copy, Goto, Types, TypeOK
  <1> DEFINE Same == Held(b)' = Held(b)
  <1>5. CASE CheckLibrary(b) \/ ClearWork(b)
    <2>1. /\ pc[b] \in {"check", "clear"} /\ pc'[b] \in {"clear", "extract"}
          /\ staticlib' = staticlib
      BY <1>1, <1>5 DEF CheckLibrary, ClearWork, Goto, Types, TypeOK, cache
    <2>2. Held(b) = staticlib[Library(b)]
      BY <2>1 DEF Held
    <2>3. Held(b)' = staticlib'[Library(b)]
      BY <1>3, <2>1 DEF Held
    <2>4. Same
      BY <2>1, <2>2, <2>3
    <2>5. pc'[b] \notin {"idle", "cargo", "done", "failed"}
      BY <2>1
    <2> QED
      BY <1>2, <1>4, <2>4, <2>5 DEF Module
  <1>6. CASE Extract(b)
    <2>1. /\ pc'[b] = "list" /\ pc[b] = "extract" /\ objs[Crate(b)] = {}
          /\ staticlib[Library(b)] \in SUBSET Object
      BY <1>1, <1>6, Keys DEF Extract, Goto, Progress, Types, TypeOK
    <2>2. objs'[Crate(b)] = staticlib[Library(b)]
      <3>1. pc[b] \notin {"idle", "failed"} /\ Extracted(b, staticlib[Library(b)]) /\ UNCHANGED <<kld, ko>>
        BY <1>6, <2>1 DEF Extract
      <3> QED
        <4>1. objs'[Crate(b)] =
                {o \in objs[Crate(b)] : o.name \notin FileNames(staticlib[Library(b)])}
                  \cup staticlib[Library(b)]
          BY <1>1, <2>1, <3>1, ExtractedKept
        <4> QED
          BY <2>1, <4>1
    <2>3. Held(b) = staticlib[Library(b)]
      BY <2>1 DEF Held
    <2>4. Held(b)' = objs'[Crate(b)]
      BY <1>3, <2>1 DEF Held
    <2> QED
      BY <1>2, <1>4, <2>1, <2>2, <2>3, <2>4 DEF Module
  <1>7. CASE ListObjects(b)
    <2>1. pc'[b] = "link" /\ pc[b] = "list" /\ objs' = objs
      BY <1>1, <1>7 DEF ListObjects, Goto, Types, TypeOK, work
    <2>2. Held(b) = objs[Crate(b)]
      BY <1>2, <2>1 DEF Held
    <2>3. Held(b)' = objs'[Crate(b)]
      BY <1>3, <2>1 DEF Held
    <2> QED
      BY <1>2, <1>4, <2>1, <2>2, <2>3 DEF Module
  <1>8. CASE Link(b)
    <2>1. /\ pc'[b] = "symbols" /\ pc[b] = "link" /\ listed[b] = FileNames(objs[Crate(b)])
      BY <1>1, <1>8 DEF Link, Goto, Progress, Types, TypeOK
    <2>2. {o \in objs[Crate(b)] : o.name \in listed[b]} = objs[Crate(b)]
      BY <2>1 DEF FileNames
    <2>3. kld'[Crate(b)] = [objects |-> objs[Crate(b)], global |-> "all"]
      BY <1>1, <1>2, <1>8, <2>2 DEF Link, Types, TypeOK
    <2>4. Held(b) = objs[Crate(b)]
      BY <1>2, <2>1 DEF Held
    <2>5. Held(b)' = kld'[Crate(b)].objects
      BY <1>3, <2>1 DEF Held
    <2>6. Same
      BY <2>3, <2>4, <2>5
    <2> QED
      BY <1>2, <1>4, <2>1, <2>6 DEF Module
  <1>9. CASE Symbols(b)
    <2>1. kld'[Crate(b)].objects = kld[Crate(b)].objects
      BY <1>1, <1>9, SymbolsStep DEF Symbols, Goto, Progress
    <2>2. pc'[b] = AfterSymbols(b) /\ pc[b] = "symbols"
      BY <1>1, <1>9 DEF Symbols, Goto, Types, TypeOK
    <2>3. Held(b) = kld[Crate(b)].objects
      BY <1>2, <2>2 DEF Held
    <2>4. CASE Direct(b)
      <3>1. pc'[b] = "strip" /\ Final(b)' = kld'[Crate(b)]
        BY <1>3, <2>2, <2>4 DEF AfterSymbols, Final
      <3>2. Held(b)' = kld'[Crate(b)].objects
        BY <3>1 DEF Held
      <3> QED
        BY <1>2, <1>4, <2>1, <2>3, <3>1, <3>2 DEF Module
    <2>5. CASE ~Direct(b)
      <3>1. pc'[b] = "shared"
        BY <2>2, <2>5 DEF AfterSymbols
      <3>2. Held(b)' = kld'[Crate(b)].objects
        BY <1>3, <3>1 DEF Held
      <3> QED
        BY <1>2, <1>4, <2>1, <2>3, <3>1, <3>2 DEF Module
    <2> QED
      BY <2>4, <2>5
  <1>10. CASE Shared(b)
    <2>1. ~Direct(b) /\ ko'[Crate(b)] = kld[Crate(b)]
      BY <1>1, <1>2, <1>10 DEF Shared, Goto, Types, TypeOK
    <2>2. pc'[b] = "strip" /\ pc[b] = "shared"
      BY <1>1, <1>10 DEF Shared, Goto, Types, TypeOK
    <2>3. Held(b) = kld[Crate(b)].objects
      BY <1>2, <2>2 DEF Held
    <2>4. Final(b)' = kld[Crate(b)]
      BY <1>3, <2>1 DEF Final
    <2>5. Held(b)' = kld[Crate(b)].objects
      BY <2>2, <2>4 DEF Held
    <2> QED
      BY <1>2, <1>4, <2>2, <2>3, <2>5 DEF Module
  <1>11. CASE Strip(b)
    <2>1. Final(b)' = Final(b)
      BY <1>2, <1>3, <1>11 DEF Strip, Final, work
    <2>2. pc'[b] = "copy" /\ pc[b] = "strip"
      BY <1>1, <1>11 DEF Strip, Goto, Types, TypeOK
    <2>3. Held(b) = Final(b).objects
      BY <2>2 DEF Held
    <2>4. Held(b)' = Final(b).objects
      BY <2>1, <2>2 DEF Held
    <2> QED
      BY <1>2, <1>4, <2>2, <2>3, <2>4 DEF Module
  <1>12. CASE Copy(b)
    <2>1. out'[b] = [module |-> Final(b), whole |-> FALSE]
          /\ pc'[b] = "copying" /\ pc[b] = "copy"
      BY <1>1, <1>12, CopyStep DEF Copy, Goto, Types, TypeOK
    <2>2. Held(b) = Final(b).objects
      BY <2>1 DEF Held
    <2>3. Held(b)' = Out(b)'
      BY <2>1 DEF Held
    <2>4. Out(b)' = Final(b).objects
      BY <2>1 DEF Out
    <2> QED
      BY <1>2, <1>4, <2>1, <2>2, <2>3, <2>4 DEF Module
  <1> QED
    BY <1>4, <1>5, <1>6, <1>7, <1>8, <1>9, <1>10, <1>11, <1>12

\* A build begins.
LEMMA StartIsAsk ==
  ASSUME Orderly, KeptInv, NEW b \in Builders, Step(b), NEW j \in Jobs, Start(b, j)
  PROVE  Contract!Ask(b, j)
  <1>1. Inv /\ Types
    BY DEF KeptInv, Inv
  <1>2. pc[b] = "idle" /\ pc'[b] = "cargo" /\ job'[b] = j
    BY <1>1 DEF Start, Goto, Types, TypeOK
  <1>3. /\ Asked(b) = None /\ Asked(b)' = j
        /\ Module(b) = None /\ Module(b)' = None
    BY <1>2 DEF Asked, Active, Module
  <1>4. \A c \in Builders : c # b => Module(c)' = Module(c) /\ Asked(c)' = Asked(c)
    BY <1>1, OthersModule
  <1>5. UNCHANGED <<source, tree, out>>
    BY DEF Start, world
  <1> QED
    BY <1>3, <1>4, <1>5 DEF Contract!Ask, Asked

\* cargo compiles the module, from the source of now and headers its tree holds
\* or held.
LEMMA CargoIsCompile ==
  ASSUME Orderly, KeptInv, NEW b \in Builders, Step(b), Cargo(b)
  PROVE  Contract!Compile(b)
  <1> DEFINE u == Unit(b)
             h == BindingsFor(u, job[b].tree)
  <1>1. Inv /\ Types /\ HeadersHeld
    BY DEF KeptInv, Inv
  <1>2. pc[b] = "cargo" /\ pc'[b] = "check" /\ job' = job
    BY <1>1 DEF Cargo, Goto, Types, TypeOK
  <1>3. /\ job[b] \in Jobs /\ job[b] # None /\ u \in Machine \X Profile
        /\ job[b].tree \in Trees /\ job[b].built = job[b].profile
    BY <1>1, <1>2, Keys, JobFields DEF Orderly
  <1>4. h.headers \in 1 .. tree[job[b].tree] /\ h.tree = job[b].tree
    BY <1>1, <1>3, HeadersMade, BindingsTree
  <1>5. Library(b) = <<Crate(b), u[1], u[2]>> /\ Library(b)' = Library(b)
    BY <1>2, <1>3 DEF Library, Unit, Crate
  <1>6. staticlib'[Library(b)] = Objects(job[b], source, h)
    BY <1>1, <1>5, CargoStep
  <1>7. [objects |-> Objects(job[b], source, h), global |-> GlobalFor(job[b].exports)]
          = Contract!Module(job[b], source, h.headers)
    BY <1>3, <1>4 DEF Objects, Contract!Module, Contract!Global, GlobalFor
  <1>8. Module(b)' = Contract!Module(job[b], source, h.headers)
    <2>1. Held(b)' = staticlib'[Library(b)]
      BY <1>2, <1>5 DEF Held
    <2>2. Module(b)' = [objects |-> Held(b)', global |-> GlobalFor(job[b].exports)]
      BY <1>2 DEF Module
    <2> QED
      BY <1>6, <1>7, <2>1, <2>2
  <1>9. Module(b) = None /\ Asked(b) = job[b] /\ Asked(b)' = job[b]
    BY <1>2 DEF Module, Asked, Active
  <1>10. \A c \in Builders : c # b => Module(c)' = Module(c) /\ Asked(c)' = Asked(c)
    BY <1>1, OthersModule
  <1>11. UNCHANGED <<source, tree, out>>
    BY DEF Cargo, world
  <1> DEFINE m == Contract!Module(job[b], source, h.headers)
  <1>12. [c \in Builders |-> Module(c)]' = [[c \in Builders |-> Module(c)] EXCEPT ![b] = m]
    BY <1>8, <1>10
  <1>13. [c \in Builders |-> Asked(c)]' = [c \in Builders |-> Asked(c)]
    BY <1>9, <1>10
  <1> HIDE DEF h
  <1> QED
    BY <1>3, <1>4, <1>9, <1>11, <1>12, <1>13 DEF Contract!Compile, Asked

\* The copy begins with what was compiled.
LEMMA CopyIsBegin ==
  ASSUME Orderly, KeptInv, NEW b \in Builders, Step(b), Copy(b)
  PROVE  Contract!BeginDelivery(b)
  <1>1. Inv /\ Types /\ Progress(b)
    BY DEF KeptInv, Inv
  <1>2. pc[b] = "copy" /\ Finished(b, Final(b))
    BY <1>1 DEF Copy, Goto, Progress
  <1>3. Final(b) = [objects |-> Final(b).objects, global |-> Final(b).global]
    BY <1>2 DEF Finished, Linked
  <1>4. Module(b) = Final(b) /\ Final(b) # None
    BY <1>2, <1>3, NoneAssumption DEF Module, Held, Finished
  <1>5. \A c \in Builders : Module(c)' = Module(c) /\ Asked(c)' = Asked(c)
    BY <1>1, OwnModule, OthersModule
  <1>6. /\ out' = [out EXCEPT ![b] = [module |-> Final(b), whole |-> FALSE]]
        /\ UNCHANGED <<source, tree>>
    BY DEF Copy, world
  <1> QED
    BY <1>4, <1>5, <1>6 DEF Contract!BeginDelivery, Asked

\* And ends with it.
LEMMA CopyEndIsDeliver ==
  ASSUME Orderly, KeptInv, NEW b \in Builders, Step(b), CopyEnds(b)
  PROVE  Contract!Deliver(b)
  <1>1. Inv /\ Types /\ Progress(b)
    BY DEF KeptInv, Inv
  <1>2. /\ pc[b] = "copying" /\ pc'[b] = "done" /\ out[b] \in Copied
        /\ Finished(b, out[b].module) /\ ~out[b].whole
    BY <1>1, CopyStep DEF CopyEnds, Goto, Progress, Types, TypeOK
  <1> DEFINE m == out[b].module
  <1>3. out[b] = [module |-> m, whole |-> FALSE]
    <2>1. out[b].whole \in BOOLEAN /\ out[b] = [module |-> m, whole |-> out[b].whole]
      BY <1>2 DEF Copied
    <2>2. out[b].whole = FALSE
      BY <1>2, <2>1
    <2> QED
      BY <2>1, <2>2
  <1>4. m = [objects |-> Out(b), global |-> m.global] /\ m # None
    BY <1>2, NoneAssumption DEF Finished, Linked, Out
  <1>5. Module(b) = m /\ m.global = GlobalFor(job[b].exports)
    BY <1>2, <1>4 DEF Module, Held, Finished
  <1>6. Module(b)' = None /\ Asked(b)' = None
    BY <1>2 DEF Module, Asked, Active
  <1>7. \A c \in Builders : c # b => Module(c)' = Module(c) /\ Asked(c)' = Asked(c)
    BY <1>1, OthersModule
  <1>8. out' = [out EXCEPT ![b] = [module |-> m, whole |-> TRUE]]
    <2>1. [out[b] EXCEPT !.whole = TRUE] = [module |-> m, whole |-> TRUE]
      <3> DEFINE c == [out[b] EXCEPT !.whole = TRUE]
      <3>1. c \in Copied /\ c.module = m /\ c.whole = TRUE
        BY <1>2 DEF Copied
      <3> HIDE DEF c
      <3>2. c = [module |-> c.module, whole |-> c.whole]
        BY <3>1 DEF Copied
      <3> QED
        BY <3>1, <3>2 DEF c
    <2>2. out' = [out EXCEPT ![b] = [out[b] EXCEPT !.whole = TRUE]]
      BY DEF CopyEnds
    <2> QED
      BY <2>1, <2>2
  <1>9. UNCHANGED <<source, tree>>
    BY DEF CopyEnds, world
  <1> HIDE DEF m
  <1> QED
    BY <1>3, <1>4, <1>5, <1>6, <1>7, <1>8, <1>9 DEF Contract!Deliver, Asked

\* A build that fails has compiled nothing and delivers nothing more.
LEMMA FailIsGiveUp ==
  ASSUME Orderly, KeptInv, NEW b \in Builders, Step(b), Fail(b)
  PROVE  Contract!GiveUp(b)
  <1>1. Inv /\ Types
    BY DEF KeptInv, Inv
  <1>2. Asked(b) # None /\ pc'[b] = "failed"
    BY <1>1, JobFields DEF Fail, Active, Asked, Types, TypeOK
  <1>3. Module(b)' = None /\ Asked(b)' = None
    BY <1>2 DEF Module, Asked, Active
  <1>4. \A c \in Builders : c # b => Module(c)' = Module(c) /\ Asked(c)' = Asked(c)
    BY <1>1, OthersModule
  <1>5. UNCHANGED <<source, tree, out>>
    BY DEF Fail, world
  <1> QED
    BY <1>2, <1>3, <1>4, <1>5 DEF Contract!GiveUp, Asked

\* Every step of the pipeline is a step of the contract, or none.
LEMMA StepsKeepContract ==
  ASSUME Orderly
  PROVE  KeptInv /\ [Next]_vars => [Contract!Next]_Contract!cvars
  <1> SUFFICES ASSUME KeptInv, [Next]_vars PROVE [Contract!Next]_Contract!cvars
    OBVIOUS
  <1>1. ASSUME NEW b \in Builders, Step(b) PROVE [Contract!Next]_Contract!cvars
    <2>1. CASE \E j \in Jobs : Start(b, j)
      BY <1>1, <2>1, StartIsAsk DEF Contract!Next
    <2>2. CASE Cargo(b)
      BY <1>1, <2>2, CargoIsCompile DEF Contract!Next
    <2>3. CASE Copy(b)
      BY <1>1, <2>3, CopyIsBegin DEF Contract!Next
    <2>4. CASE CopyEnds(b)
      BY <1>1, <2>4, CopyEndIsDeliver DEF Contract!Next
    <2>5. CASE Fail(b)
      BY <1>1, <2>5, FailIsGiveUp DEF Contract!Next
    <2>6. CASE \/ CheckLibrary(b) \/ ClearWork(b) \/ Extract(b) \/ ListObjects(b)
               \/ Link(b) \/ Symbols(b) \/ Shared(b) \/ Strip(b)
      <3>1. \A c \in Builders : Module(c)' = Module(c) /\ Asked(c)' = Asked(c)
        BY <1>1, <2>6, OwnModule, OthersModule DEF KeptInv
      <3>2. UNCHANGED <<source, tree, out>>
        BY <2>6 DEF CheckLibrary, ClearWork, Extract, ListObjects, Link, Symbols, Shared,
             Strip, world
      <3> QED
        BY <3>1, <3>2 DEF Contract!cvars, Asked
    <2> QED
      BY <1>1, <2>1, <2>2, <2>3, <2>4, <2>5, <2>6 DEF Step
  <1>2. ASSUME UNCHANGED <<cache, work, pc, job, out>>
        PROVE  \A c \in Builders : Module(c)' = Module(c) /\ Asked(c)' = Asked(c)
    BY <1>2 DEF Module, Held, Final, Direct, Library, WorkDir, Crate, Out, Asked, Active,
         cache, work
  <1>3. CASE EditSource
    <2>1. UNCHANGED <<cache, work, pc, job, out>>
      BY <1>3 DEF EditSource
    <2> QED
      BY <1>2, <1>3, <2>1 DEF EditSource, Contract!Edit, Contract!Next, Asked
  <1>4. ASSUME NEW t \in Moving, UpdateTree(t) PROVE [Contract!Next]_Contract!cvars
    <2>1. UNCHANGED <<cache, work, pc, job, out>> /\ t \in Trees
      BY <1>4, BuildAssumption DEF UpdateTree
    <2> QED
      BY <1>2, <1>4, <2>1 DEF UpdateTree, Contract!Update, Contract!Next, Asked
  <1>5. CASE UNCHANGED vars
    BY <1>2, <1>5 DEF vars, world, Contract!cvars, Asked
  <1> QED
    BY <1>1, <1>3, <1>4, <1>5 DEF Next

\* However many builds of different crates share the target directory, and
\* whatever failed ones left there, each does what BuildContract says: it compiles
\* its module in one step, from its own source and tree, and what it puts out is
\* that module, from the moment its copy begins and whole when it ends.
THEOREM KeepsContract ==
  ASSUME Orderly
  PROVE  Spec => ImplementsContract
  <1>1. Init => Contract!Init
    BY DEF Init, Contract!Init, Module, Active
  <1> QED
    BY <1>1, InitKept, KeptInductive, StepsKeepContract, PTL
       DEF Spec, ImplementsContract, Contract!Spec
=============================================================================
