-------------------------- MODULE KldModuleProofs --------------------------
(***************************************************************************)
(* Theorems about KldModule, for every tree a module is built against,     *)
(* every kernel it is loaded into and any number of events.                *)
(***************************************************************************)
EXTENDS KldModule, TLAPS

\* The versions are natural numbers.
LEMMA VersionsAreNumbers == Built \subseteq Nat /\ Running \subseteq Nat
  BY KldAssumption

-----------------------------------------------------------------------------
(* The version range.                                                      *)

\* Inside a bucket the roundup of kernel_maxver reaches the bucket's end, so
\* that the range of the record is the documented rule.
LEMMA RangeInsideBucket ==
  ASSUME NEW v \in Nat, NEW k \in Nat, v % Bucket # 0
  PROVE  (v <= k /\ k <= KernelMaxver(v)) <=> SameBucket(v, k)
  BY DEF KernelMaxver, DivCeil, Bucket, SameBucket

\* At the start of a bucket there is nothing to round up: the maximum is below
\* the minimum and the record accepts no kernel at all.
LEMMA RangeAtBucketStart ==
  ASSUME NEW v \in Nat, v % Bucket = 0
  PROVE  KernelMaxver(v) = v - 1
  BY DEF KernelMaxver, DivCeil, Bucket

\* What the record accepts is a kernel the rule accepts, at every version.
LEMMA AcceptedIsSameBucket ==
  ASSUME NEW v \in Nat, NEW k \in Nat, v <= k, k <= KernelMaxver(v)
  PROVE  SameBucket(v, k)
  <1>1. CASE v % Bucket # 0
    BY <1>1, RangeInsideBucket
  <1>2. CASE v % Bucket = 0
    BY <1>2, RangeAtBucketStart
  <1> QED
    BY <1>1, <1>2

-----------------------------------------------------------------------------
(* Types.                                                                  *)

\* The four raw values of the handler's dispatch.
LEMMA RawEvents ==
  /\ FromRaw(MOD_LOAD) = "Load" /\ FromRaw(MOD_UNLOAD) = "Unload"
  /\ FromRaw(MOD_SHUTDOWN) = "Shutdown" /\ FromRaw(MOD_QUIESCE) = "Quiesce"
  /\ FromRaw(-1) = "none" /\ FromRaw(4) = "none"
  BY DEF FromRaw, MOD_LOAD, MOD_UNLOAD, MOD_SHUTDOWN, MOD_QUIESCE

\* A call of the handler appends the event it decoded, or is refused.
LEMMA HandlesEvent ==
  ASSUME TypeOK, NEW cmd \in {-1, 0, 1, 2, 3, 4}, NEW answer \in Answer, Handles(cmd, answer)
  PROVE  /\ seen' \in Seq(Event \X Answer) /\ Len(seen') <= MaxEvents
         /\ refused' \in {0, 1} /\ panicked' = panicked
         /\ \/ FromRaw(cmd) # "none" /\ seen' = Append(seen, <<FromRaw(cmd), answer>>)
            \/ FromRaw(cmd) = "none" /\ seen' = seen
  <1>1. FromRaw(cmd) # "none" => FromRaw(cmd) \in Event
    BY DEF FromRaw, MOD_LOAD, MOD_UNLOAD, MOD_SHUTDOWN, MOD_QUIESCE, Event
  <1>2. CASE FromRaw(cmd) # "none"
    <2>1. <<FromRaw(cmd), answer>> \in Event \X Answer
      BY <1>1, <1>2
    <2>2. Len(seen) < MaxEvents /\ seen' = Append(seen, <<FromRaw(cmd), answer>>)
      BY <1>2 DEF Handles
    <2>3. /\ seen' \in Seq(Event \X Answer)
          /\ Len(seen') = Len(seen) + 1 /\ Len(seen) \in Nat
      BY <2>1, <2>2 DEF TypeOK
    <2> QED
      BY <1>2, <2>2, <2>3, KldAssumption DEF Handles, TypeOK
  <1>3. CASE FromRaw(cmd) = "none"
    BY <1>3 DEF Handles, TypeOK
  <1> QED
    BY <1>2, <1>3

\* Type correctness: no file state, event or count outside its type.
THEOREM TypeCorrect == Spec => []TypeOK
  <1>1. Init => TypeOK
    <2> SUFFICES ASSUME Init PROVE TypeOK
      OBVIOUS
    <2>1. seen \in Seq(Event \X Answer) /\ Len(seen) <= MaxEvents
      BY KldAssumption DEF Init
    <2>2. /\ file \in {"absent", "rejected", "linked", "failed", "loaded", "quiesced"}
          /\ refused \in {0, 1}
      BY DEF Init
    <2>3. panicked \in BOOLEAN
      BY DEF Init
    <2> QED
      BY <2>1, <2>2, <2>3 DEF Init, TypeOK
  <1>2. TypeOK /\ [Next]_vars => TypeOK'
    <2> SUFFICES ASSUME TypeOK, [Next]_vars PROVE TypeOK'
      OBVIOUS
    <2> USE DEF TypeOK
    <2>1. CASE Reject
      BY <2>1 DEF Reject
    <2>2. CASE Link
      BY <2>2 DEF Link
    <2>3. CASE RegisterInit
      <3>1. CASE Trap
        BY <2>3, <3>1 DEF RegisterInit, Trap
      <3>2. ASSUME NEW answer \in Answer, Handles(MOD_LOAD, answer),
                   file' = IF answer = "ok" THEN "loaded" ELSE "failed"
            PROVE  TypeOK'
        BY <2>3, <3>2, HandlesEvent DEF RegisterInit, MOD_LOAD
      <3> QED
        BY <2>3, <3>1, <3>2 DEF RegisterInit
    <2>4. CASE UndoLoad
      BY <2>4, HandlesEvent DEF UndoLoad, MOD_UNLOAD
    <2>5. CASE Quiesce
      <3>1. CASE Trap
        BY <2>5, <3>1 DEF Quiesce, Trap
      <3>2. ASSUME NEW answer \in Answer, Handles(MOD_QUIESCE, answer),
                   file' \in {"quiesced", "loaded"}
            PROVE  TypeOK'
        BY <2>5, <3>2, HandlesEvent DEF Quiesce, MOD_QUIESCE
      <3> QED
        BY <2>5, <3>1, <3>2 DEF Quiesce
    <2>6. CASE Unload
      BY <2>6, HandlesEvent DEF Unload, MOD_UNLOAD
    <2>7. CASE Shutdown
      <3>1. CASE Trap
        BY <2>7, <3>1 DEF Shutdown, Trap
      <3>2. ASSUME NEW answer \in Answer, Handles(MOD_SHUTDOWN, answer) PROVE TypeOK'
        BY <2>7, <3>2, HandlesEvent DEF Shutdown, MOD_SHUTDOWN
      <3> QED
        BY <2>7, <3>1, <3>2 DEF Shutdown
    <2>8. CASE Stray
      <3>1. PICK cmd \in {-1, 4} : Handles(cmd, "declined")
        BY <2>8 DEF Stray
      <3>2. /\ seen' \in Seq(Event \X Answer) /\ Len(seen') <= MaxEvents
            /\ refused' \in {0, 1} /\ panicked' = panicked
        <4>1. cmd \in {-1, 0, 1, 2, 3, 4} /\ "declined" \in Answer
          BY DEF Answer
        <4> HIDE DEF TypeOK
        <4> QED
          BY <3>1, <4>1, HandlesEvent
      <3> QED
        BY <2>8, <3>2 DEF Stray
    <2>9. CASE UNCHANGED vars
      BY <2>9 DEF vars
    <2> QED
      BY <2>1, <2>2, <2>3, <2>4, <2>5, <2>6, <2>7, <2>8, <2>9 DEF Next
  <1> QED
    BY <1>1, <1>2, PTL DEF Spec

-----------------------------------------------------------------------------
(* Loading.                                                                *)

\* Why a linked module is an accepted one: the loader of either machine finds
\* the linker sets, hence the record, and it checked the range once and for all.
Linked == file \notin {"absent", "rejected"} => VersionAccepted

\* The boundary symbols are there, so the loader of either machine finds the sets.
LEMMA SetsAreFound == TypeOK => FindsSets
  BY DEF TypeOK, FindsSets, Ko, BoundarySymbols

\* A step that is not Link leaves the file unlinked or keeps the versions.
LEMMA LinkedInductive == TypeOK /\ Linked /\ [Next]_vars => Linked'
  <1> SUFFICES ASSUME TypeOK, Linked, [Next]_vars PROVE Linked'
    OBVIOUS
  <1>1. ko' = ko /\ kernel' = kernel
    BY DEF Next, vars, Reject, Link, RegisterInit, UndoLoad, Quiesce, Unload,
           Shutdown, Stray
  <1>2. VersionAccepted' <=> VersionAccepted
    BY <1>1 DEF VersionAccepted
  <1>3. CASE file \notin {"absent", "rejected"}
    BY <1>2, <1>3 DEF Linked
  <1>4. CASE file \in {"absent", "rejected"}
    <2>1. Link => VersionAccepted
      BY SetsAreFound DEF Link
    <2>2. ~Link => file' \in {"absent", "rejected"}
      BY <1>4 DEF Next, vars, Reject, RegisterInit, UndoLoad, Quiesce, Unload,
                  Shutdown, Stray
    <2> QED
      BY <1>2, <2>1, <2>2 DEF Linked
  <1> QED
    BY <1>3, <1>4

\* A module runs only in a kernel of its own version bucket that is not older
\* than its tree, whatever version it was built against (module.rs:44-50).
THEOREM OnlySameBucketLinks == Spec => []LinkedOnlyBySameBucket
  <1>1. Init => Linked
    BY DEF Init, Linked
  <1>2. TypeOK /\ Linked => LinkedOnlyBySameBucket
    <2> SUFFICES ASSUME TypeOK, Linked, file \notin {"absent", "rejected"}
                 PROVE  SameBucket(ko.version, kernel.version)
      BY DEF LinkedOnlyBySameBucket
    <2>1. ko.version \in Nat /\ kernel.version \in Nat
      <3>1. PICK m \in Machine, v \in Built, e \in BOOLEAN : ko = Ko(m, v, e)
        BY DEF TypeOK
      <3>2. ko.version = v /\ v \in Nat
        BY <3>1, VersionsAreNumbers DEF Ko
      <3>3. kernel.version \in Running
        BY DEF TypeOK
      <3> QED
        BY <3>2, <3>3, VersionsAreNumbers
    <2>2. ko.depend = KernelDepend(ko.version)
      BY DEF TypeOK, Ko
    <2>3. ko.version <= kernel.version /\ kernel.version <= KernelMaxver(ko.version)
      BY <2>2 DEF Linked, VersionAccepted, KernelDepend
    <2> QED
      BY <2>1, <2>3, AcceptedIsSameBucket
  <1> QED
    BY <1>1, <1>2, LinkedInductive, TypeCorrect, PTL DEF Spec

\* The converse, for trees inside a bucket: a module is rejected only where the
\* documented rule excludes it ("loads on any M.y with y >= x", module.rs:44-46).
THEOREM InsideBucketLoads ==
  ASSUME \A v \in Built : v % Bucket # 0
  PROVE  Spec => []LoadsInSameBucket
  <1> DEFINE Refused == file = "rejected" => ~VersionAccepted
  <1>1. Init => Refused
    BY DEF Init
  <1>2. Refused /\ [Next]_vars => Refused'
    <2> SUFFICES ASSUME Refused, [Next]_vars, file' = "rejected" PROVE ~VersionAccepted'
      OBVIOUS
    <2>1. ko' = ko /\ kernel' = kernel
      BY DEF Next, vars, Reject, Link, RegisterInit, UndoLoad, Quiesce, Unload,
             Shutdown, Stray
    <2>2. ~VersionAccepted
      BY DEF Next, vars, Reject, Link, RegisterInit, UndoLoad, Quiesce, Unload,
             Shutdown, Stray, Trap
    <2> QED
      BY <2>1, <2>2 DEF VersionAccepted
  <1>3. TypeOK /\ Refused => LoadsInSameBucket
    <2> SUFFICES ASSUME TypeOK, ~VersionAccepted
                 PROVE  ~SameBucket(ko.version, kernel.version)
      BY DEF LoadsInSameBucket
    <2>1. /\ ko.version \in Built /\ kernel.version \in Running
          /\ ko.depend = KernelDepend(ko.version)
      BY DEF TypeOK, Ko
    <2>2. ~(ko.version <= kernel.version /\ kernel.version <= KernelMaxver(ko.version))
      BY <2>1 DEF VersionAccepted, KernelDepend
    <2> QED
      BY <2>1, <2>2, VersionsAreNumbers, RangeInsideBucket
  <1> QED
    BY <1>1, <1>2, <1>3, TypeCorrect, PTL DEF Spec

-----------------------------------------------------------------------------
(* The handler.                                                            *)

\* The last event but for Shutdowns decides what the kernel may send next; the
\* file's state says what it is.
Last(i) == ~Silent(seen[i]) /\ \A j \in i + 1 .. Len(seen) : Silent(seen[j])
Expected ==
  /\ file \in {"failed", "loaded", "quiesced"} => \E i \in 1 .. Len(seen) : Last(i)
  /\ \A i \in 1 .. Len(seen) : Last(i) =>
       /\ file \in {"absent", "rejected", "linked"} => Gone(i)
       /\ file = "failed" => seen[i][1] = "Load" /\ seen[i][2] # "ok"
       /\ file = "loaded" => ~Gone(i) /\ (seen[i][1] = "Load" => seen[i][2] = "ok")
       /\ file = "quiesced" => seen[i][1] = "Quiesce"

\* What an appended event changes in the history.
LEMMA Appended ==
  ASSUME TypeOK, NEW e \in Event \X Answer, seen' = Append(seen, e)
  PROVE  /\ Len(seen) \in Nat /\ Len(seen') = Len(seen) + 1 /\ seen'[Len(seen) + 1] = e
         /\ \A i \in 1 .. Len(seen) : seen'[i] = seen[i]
  BY DEF TypeOK

\* What an appended event changes of the relations between the others.
LEMMA AppendedOrder ==
  ASSUME TypeOK, NEW e \in Event \X Answer, seen' = Append(seen, e),
         NEW n, n = Len(seen) + 1
  PROVE  /\ \A k \in 1 .. Len(seen) : \A i \in 1 .. k - 1 : Adjacent(i, k)' <=> Adjacent(i, k)
         /\ \A i \in 1 .. Len(seen) :
              /\ Gone(i)' <=> Gone(i)
              /\ Adjacent(i, n)' <=> Last(i) /\ ~Silent(e)
              /\ Last(i)' <=> Last(i) /\ Silent(e)
         /\ Last(n)' <=> ~Silent(e)
  <1>1. /\ Len(seen) \in Nat /\ Len(seen') = Len(seen) + 1 /\ seen'[Len(seen) + 1] = e
        /\ \A i \in 1 .. Len(seen) : seen'[i] = seen[i]
    BY Appended
  <1>2. \A k \in 1 .. Len(seen) : \A i \in 1 .. k - 1 : Adjacent(i, k)' <=> Adjacent(i, k)
    <2> SUFFICES ASSUME NEW k \in 1 .. Len(seen), NEW i \in 1 .. k - 1
                 PROVE  Adjacent(i, k)' <=> Adjacent(i, k)
      OBVIOUS
    <2>1. i \in 1 .. Len(seen) /\ \A j \in i + 1 .. k - 1 : j \in 1 .. Len(seen)
      BY <1>1
    <2> QED
      BY <1>1, <2>1 DEF Adjacent, Silent
  <1>3. ASSUME NEW i \in 1 .. Len(seen)
        PROVE  /\ Gone(i)' <=> Gone(i)
               /\ Adjacent(i, n)' <=> Last(i) /\ ~Silent(e)
               /\ Last(i)' <=> Last(i) /\ Silent(e)
    <2>1. Gone(i)' <=> Gone(i)
      <3>1. \A h \in 1 .. i - 1 : /\ Adjacent(h, i)' <=> Adjacent(h, i)
                                 /\ seen'[h] = seen[h]
        BY <1>1, <1>2
      <3> QED
        BY <1>1, <3>1 DEF Gone
    <2>2. \A j \in i + 1 .. Len(seen) : seen'[j] = seen[j]
      BY <1>1
    <2>3. n - 1 = Len(seen) /\ i < n
      BY <1>1
    <2>4. Adjacent(i, n)' <=>
            /\ ~Silent(seen'[i]) /\ ~Silent(seen'[n])
            /\ \A j \in i + 1 .. Len(seen) : Silent(seen'[j])
      BY <1>1, <2>3 DEF Adjacent, Silent
    <2>5. Last(i)' <=> /\ ~Silent(seen'[i])
                       /\ \A j \in i + 1 .. Len(seen) + 1 : Silent(seen'[j])
      BY <1>1 DEF Last, Silent
    <2>6. (\A j \in i + 1 .. Len(seen) + 1 : Silent(seen'[j]))
            <=> Silent(e) /\ \A j \in i + 1 .. Len(seen) : Silent(seen'[j])
      <3>1. i + 1 .. Len(seen) + 1 = (i + 1 .. Len(seen)) \cup {Len(seen) + 1}
        BY <1>1
      <3> QED
        BY <1>1, <3>1
    <2>7. (\A j \in i + 1 .. Len(seen) : Silent(seen'[j]))
            <=> \A j \in i + 1 .. Len(seen) : Silent(seen[j])
      BY <2>2
    <2>8. Silent(seen'[i]) <=> Silent(seen[i])
      BY <1>1
    <2> QED
      BY <1>1, <2>1, <2>4, <2>5, <2>6, <2>7, <2>8 DEF Last
  <1>4. Last(n)' <=> ~Silent(e)
    <2>1. \A j \in (Len(seen) + 1) + 1 .. Len(seen') : FALSE
      BY <1>1
    <2> QED
      BY <1>1, <2>1 DEF Last, Silent
  <1> QED
    BY <1>2, <1>3, <1>4

\* One more event keeps the protocol if it may follow the last one.
LEMMA AppendEvent ==
  ASSUME TypeOK, HandlerProtocol, NEW e \in Event \X Answer, seen' = Append(seen, e),
         ~Silent(e) =>
           /\ \A i \in 1 .. Len(seen) : Last(i) => Follows(i, e)
           /\ (\A i \in 1 .. Len(seen) : Silent(seen[i])) => e[1] = "Load"
  PROVE  HandlerProtocol'
  <1>1. /\ Len(seen) \in Nat /\ Len(seen') = Len(seen) + 1 /\ seen'[Len(seen) + 1] = e
        /\ \A i \in 1 .. Len(seen) : seen'[i] = seen[i]
    BY Appended
  <1> SUFFICES ASSUME NEW k \in 1 .. Len(seen'), ~Silent(seen'[k])
               PROVE  /\ \A i \in 1 .. k - 1 : Adjacent(i, k)' => Follows(i, seen[k])'
                      /\ (\A j \in 1 .. k - 1 : Silent(seen'[j])) => seen'[k][1] = "Load"
    BY DEF HandlerProtocol, Silent
  <1>3. CASE k = Len(seen) + 1
    <2>1. ~Silent(e) /\ k - 1 = Len(seen) /\ seen'[k] = e
      BY <1>1, <1>3
    <2>2. ASSUME NEW i \in 1 .. Len(seen), Adjacent(i, k)' PROVE Follows(i, seen[k])'
      <3>1. Last(i) /\ Follows(i, e)
        BY <1>3, <2>1, <2>2, AppendedOrder
      <3>2. Gone(i)' <=> Gone(i)
        BY AppendedOrder
      <3>3. seen'[i] = seen[i]
        BY <1>1
      <3> QED
        BY <2>1, <3>1, <3>2, <3>3 DEF Follows
    <2>3. ASSUME \A j \in 1 .. Len(seen) : Silent(seen'[j]) PROVE e[1] = "Load"
      BY <1>1, <2>1, <2>3
    <2> QED
      BY <2>1, <2>2, <2>3
  <1>4. CASE k \in 1 .. Len(seen)
    <2>1. seen'[k] = seen[k] /\ \A i \in 1 .. k - 1 : i \in 1 .. Len(seen) /\ seen'[i] = seen[i]
      BY <1>1, <1>4
    <2>2. ASSUME NEW i \in 1 .. k - 1, Adjacent(i, k)' PROVE Follows(i, seen[k])'
      <3>1. Adjacent(i, k) /\ (Gone(i)' <=> Gone(i))
        BY <1>4, <2>1, <2>2, AppendedOrder
      <3>2. Follows(i, seen[k])
        BY <1>4, <2>1, <3>1 DEF HandlerProtocol
      <3> QED
        BY <2>1, <3>1, <3>2 DEF Follows
    <2>3. (\A j \in 1 .. k - 1 : Silent(seen'[j])) => seen'[k][1] = "Load"
      BY <1>4, <2>1 DEF HandlerProtocol
    <2> QED
      BY <2>2, <2>3
  <1> QED
    BY <1>1, <1>3, <1>4

\* What one call of the handler appends, by raw value.
LEMMA HandlesKnown ==
  ASSUME TypeOK, NEW cmd \in {0, 1, 2, 3}, NEW answer \in Answer, Handles(cmd, answer)
  PROVE  /\ seen' = Append(seen, <<FromRaw(cmd), answer>>)
         /\ <<FromRaw(cmd), answer>> \in Event \X Answer
  <1>1. FromRaw(cmd) \in Event
    BY DEF FromRaw, MOD_LOAD, MOD_UNLOAD, MOD_SHUTDOWN, MOD_QUIESCE, Event
  <1>2. FromRaw(cmd) # "none"
    BY <1>1 DEF Event
  <1>3. cmd \in {-1, 0, 1, 2, 3, 4}
    OBVIOUS
  <1> QED
    BY <1>1, <1>2, <1>3, HandlesEvent

\* A step that sends nothing and keeps the module's standing changes nothing.
LEMMA NothingSent ==
  ASSUME TypeOK, HandlerProtocol, Expected, seen' = seen,
         \/ file' = file
         \/ {file, file'} \subseteq {"absent", "rejected", "linked"}
  PROVE  HandlerProtocol' /\ Expected'
  <1>0. ASSUME NEW i, NEW k
        PROVE  /\ Adjacent(i, k)' <=> Adjacent(i, k)
               /\ Follows(i, seen[k])' <=> Follows(i, seen[k])
    BY DEF Follows, Gone, Adjacent, Silent
  <1>1. HandlerProtocol'
    <2> SUFFICES ASSUME NEW k \in 1 .. Len(seen), ~Silent(seen[k])
                 PROVE  /\ \A i \in 1 .. k - 1 : Adjacent(i, k)' => Follows(i, seen[k])'
                        /\ (\A j \in 1 .. k - 1 : Silent(seen[j])) => seen[k][1] = "Load"
      BY DEF HandlerProtocol
    <2>1. ASSUME NEW i \in 1 .. k - 1, Adjacent(i, k)' PROVE Follows(i, seen[k])'
      <3>1. Adjacent(i, k)
        BY <1>0, <2>1
      <3>2. Follows(i, seen[k])
        BY <3>1 DEF HandlerProtocol
      <3> QED
        BY <1>0, <3>2
    <2>2. (\A j \in 1 .. k - 1 : Silent(seen[j])) => seen[k][1] = "Load"
      BY DEF HandlerProtocol
    <2> QED
      BY <2>1, <2>2
  <1>2. \A i \in 1 .. Len(seen) : (Last(i)' <=> Last(i)) /\ (Gone(i)' <=> Gone(i))
    BY DEF Last, Gone, Adjacent, Silent
  <1> QED
    BY <1>1, <1>2 DEF Expected

\* A call of the handler with a Shutdown: the event before it stays the last one.
LEMMA ShutdownSent ==
  ASSUME TypeOK, HandlerProtocol, Expected, file' = file,
         NEW answer \in Answer, Handles(MOD_SHUTDOWN, answer)
  PROVE  HandlerProtocol' /\ Expected'
  <1> DEFINE e == <<"Shutdown", answer>>
  <1>1. seen' = Append(seen, e) /\ e \in Event \X Answer /\ Silent(e)
    BY RawEvents, HandlesKnown DEF MOD_SHUTDOWN, Silent
  <1> HIDE DEF e
  <1>2. HandlerProtocol'
    BY <1>1, AppendEvent
  <1>3. /\ Len(seen') = Len(seen) + 1 /\ Len(seen) \in Nat
        /\ \A i \in 1 .. Len(seen) : seen'[i] = seen[i]
    BY <1>1, Appended
  <1> PICK n \in Nat : n = Len(seen) + 1
    BY <1>3
  <1>4. /\ \A i \in 1 .. Len(seen) : (Last(i)' <=> Last(i)) /\ (Gone(i)' <=> Gone(i))
        /\ ~Last(n)'
    BY <1>1, AppendedOrder
  <1>5. 1 .. Len(seen') = (1 .. Len(seen)) \cup {n}
    BY <1>3
  <1> QED
    BY <1>2, <1>3, <1>4, <1>5 DEF Expected

\* A call of the handler with any other event that may follow the last one: it
\* becomes the last one.
LEMMA EventSent ==
  ASSUME TypeOK, HandlerProtocol, NEW e \in Event \X Answer, ~Silent(e),
         seen' = Append(seen, e),
         \A i \in 1 .. Len(seen) : Last(i) => Follows(i, e),
         e[1] = "Load" \/ \E i \in 1 .. Len(seen) : Last(i)
  PROVE  /\ HandlerProtocol'
         /\ \A i \in 1 .. Len(seen') : Last(i)' <=> i = Len(seen')
         /\ Len(seen') \in 1 .. Len(seen') /\ seen'[Len(seen')] = e
         /\ Len(seen') = Len(seen) + 1 /\ Len(seen) \in Nat
  <1>1. /\ Len(seen) \in Nat /\ Len(seen') = Len(seen) + 1 /\ seen'[Len(seen) + 1] = e
        /\ \A i \in 1 .. Len(seen) : seen'[i] = seen[i]
    BY Appended
  <1>2. (\A i \in 1 .. Len(seen) : Silent(seen[i])) => e[1] = "Load"
    BY DEF Last
  <1>3. HandlerProtocol'
    BY <1>2, AppendEvent
  <1> PICK n \in Nat : n = Len(seen) + 1
    BY <1>1
  <1>4. /\ \A i \in 1 .. Len(seen) : ~Last(i)'
        /\ Last(n)'
    BY AppendedOrder
  <1>5. \A i \in 1 .. Len(seen') : i \in 1 .. Len(seen) \/ i = n
    BY <1>1
  <1>6. \A i \in 1 .. Len(seen) : i # Len(seen')
    BY <1>1
  <1>7. \A i \in 1 .. Len(seen') : Last(i)' <=> i = Len(seen')
    BY <1>1, <1>4, <1>5, <1>6
  <1>8. Len(seen') \in 1 .. Len(seen')
    BY <1>1
  <1> QED
    BY <1>1, <1>3, <1>7, <1>8

\* Of two events in a row, the first was the last before the second was sent.
LEMMA SentAfterLast ==
  ASSUME TypeOK, NEW e \in Event \X Answer, seen' = Append(seen, e),
         NEW n, n = Len(seen')
  PROVE  \A h \in 1 .. Len(seen) : Adjacent(h, n)' <=> Last(h) /\ ~Silent(e)
  BY Appended, AppendedOrder

\* The events a step sends are those the file's state expects.
LEMMA ProtocolInductive ==
  TypeOK /\ HandlerProtocol /\ Expected /\ [Next]_vars => HandlerProtocol' /\ Expected'
  <1> SUFFICES ASSUME TypeOK, HandlerProtocol, Expected, [Next]_vars
               PROVE  HandlerProtocol' /\ Expected'
    OBVIOUS
  <1>1. CASE Reject
    BY <1>1, NothingSent DEF Reject
  <1>2. CASE Link
    BY <1>2, NothingSent, SetsAreFound DEF Link
  <1>t. CASE Trap
    BY <1>t, NothingSent DEF Trap
  <1>3. CASE RegisterInit /\ ~Trap
    <2>1. PICK answer \in Answer :
            /\ Handles(MOD_LOAD, answer)
            /\ file' = IF answer = "ok" THEN "loaded" ELSE "failed"
      BY <1>3 DEF RegisterInit
    <2> DEFINE e == <<"Load", answer>>
    <2>2. seen' = Append(seen, e) /\ e \in Event \X Answer /\ ~Silent(e)
      BY <2>1, RawEvents, HandlesKnown DEF MOD_LOAD, Silent
    <2>3. \A i \in 1 .. Len(seen) : Last(i) => Follows(i, e)
      BY <1>3 DEF RegisterInit, Expected, Follows, Gone
    <2>4. e[1] = "Load" /\ e[2] = answer
      OBVIOUS
    <2> HIDE DEF e
    <2>5. /\ HandlerProtocol'
          /\ \A i \in 1 .. Len(seen') : Last(i)' <=> i = Len(seen')
          /\ Len(seen') \in 1 .. Len(seen') /\ seen'[Len(seen')] = e
      BY <2>2, <2>3, <2>4, EventSent
    <2>6. ASSUME NEW n, n = Len(seen') PROVE ~Gone(n)'
      BY <2>4, <2>5, <2>6 DEF Gone
    <2> QED
      BY <2>1, <2>4, <2>5, <2>6 DEF Expected
  <1>4. CASE UndoLoad
    <2>1. PICK answer \in Answer : Handles(MOD_UNLOAD, answer)
      BY <1>4 DEF UndoLoad
    <2> DEFINE e == <<"Unload", answer>>
    <2>2. seen' = Append(seen, e) /\ e \in Event \X Answer /\ ~Silent(e)
      BY <2>1, RawEvents, HandlesKnown DEF MOD_UNLOAD, Silent
    <2>3. \A i \in 1 .. Len(seen) : Last(i) => Follows(i, e)
      BY <1>4 DEF UndoLoad, Expected, Follows, Gone
    <2>4. PICK h \in 1 .. Len(seen) : Last(h)
      BY <1>4 DEF UndoLoad, Expected
    <2>5. e[1] = "Unload"
      OBVIOUS
    <2> HIDE DEF e
    <2>6. /\ HandlerProtocol'
          /\ \A i \in 1 .. Len(seen') : Last(i)' <=> i = Len(seen')
          /\ seen'[Len(seen')] = e /\ Len(seen') = Len(seen) + 1 /\ Len(seen) \in Nat
      BY <2>2, <2>3, <2>4, EventSent
    <2> PICK n \in Nat : n = Len(seen')
      BY <2>6
    <2>7. Adjacent(h, n)' /\ seen'[h] = seen[h] /\ seen[h][1] = "Load"
      <3>1. Adjacent(h, n)'
        BY <2>2, <2>4, SentAfterLast
      <3>2. seen'[h] = seen[h]
        BY <2>2, <2>4, Appended
      <3>3. seen[h][1] = "Load"
        BY <1>4, <2>4 DEF UndoLoad, Expected
      <3> QED
        BY <2>6, <3>1, <3>2, <3>3
    <2>8. Gone(n)'
      <3>1. h \in 1 .. n - 1
        BY <2>6
      <3> QED
        BY <2>5, <2>6, <2>7, <3>1 DEF Gone
    <2> QED
      BY <1>4, <2>6, <2>8 DEF UndoLoad, Expected
  <1>5. CASE Quiesce /\ ~Trap
    <2>1. PICK answer \in Answer, forced \in BOOLEAN :
            /\ Handles(MOD_QUIESCE, answer)
            /\ file' = IF answer # "error" \/ forced THEN "quiesced" ELSE "loaded"
      BY <1>5 DEF Quiesce
    <2> DEFINE e == <<"Quiesce", answer>>
    <2>2. seen' = Append(seen, e) /\ e \in Event \X Answer /\ ~Silent(e)
      BY <2>1, RawEvents, HandlesKnown DEF MOD_QUIESCE, Silent
    <2>3. \A i \in 1 .. Len(seen) : Last(i) => Follows(i, e)
      BY <1>5 DEF Quiesce, Expected, Follows
    <2>4. \E i \in 1 .. Len(seen) : Last(i)
      BY <1>5 DEF Quiesce, Expected
    <2>5. e[1] = "Quiesce"
      OBVIOUS
    <2> HIDE DEF e
    <2>6. /\ HandlerProtocol'
          /\ \A i \in 1 .. Len(seen') : Last(i)' <=> i = Len(seen')
          /\ Len(seen') \in 1 .. Len(seen') /\ seen'[Len(seen')] = e
      BY <2>2, <2>3, <2>4, EventSent
    <2>7. ASSUME NEW n, n = Len(seen') PROVE ~Gone(n)'
      BY <2>5, <2>6, <2>7 DEF Gone
    <2> QED
      BY <2>1, <2>5, <2>6, <2>7 DEF Expected
  <1>6. CASE Unload
    <2>1. PICK answer \in Answer : /\ Handles(MOD_UNLOAD, answer)
                                   /\ file' = IF answer = "ok" THEN "absent" ELSE "loaded"
      BY <1>6 DEF Unload
    <2> DEFINE e == <<"Unload", answer>>
    <2>2. seen' = Append(seen, e) /\ e \in Event \X Answer /\ ~Silent(e)
      BY <2>1, RawEvents, HandlesKnown DEF MOD_UNLOAD, Silent
    <2>3. \A i \in 1 .. Len(seen) : Last(i) => Follows(i, e)
      BY <1>6 DEF Unload, Expected, Follows, Gone
    <2>4. \E i \in 1 .. Len(seen) : Last(i)
      BY <1>6 DEF Unload, Expected
    <2>5. e[1] = "Unload" /\ e[2] = answer
      OBVIOUS
    <2> HIDE DEF e
    <2>6. /\ HandlerProtocol'
          /\ \A i \in 1 .. Len(seen') : Last(i)' <=> i = Len(seen')
          /\ Len(seen') \in 1 .. Len(seen') /\ seen'[Len(seen')] = e
          /\ Len(seen') = Len(seen) + 1 /\ Len(seen) \in Nat
      BY <2>2, <2>3, <2>4, EventSent
    <2> PICK n \in Nat : n = Len(seen')
      BY <2>6
    <2>7. ASSUME NEW h \in 1 .. n - 1, Adjacent(h, n)'
          PROVE  seen'[h][1] = "Quiesce"
      <3>1. h \in 1 .. Len(seen) /\ Adjacent(h, n)'
        BY <2>6, <2>7
      <3>2. Last(h)
        BY <2>2, <3>1, SentAfterLast
      <3>3. seen'[h] = seen[h]
        BY <2>2, <3>1, Appended
      <3> QED
        BY <1>6, <3>1, <3>2, <3>3 DEF Unload, Expected
    <2>8. Gone(n)' <=> answer = "ok"
      BY <2>5, <2>6, <2>7 DEF Gone
    <2> QED
      BY <2>1, <2>5, <2>6, <2>8 DEF Expected
  <1>7. CASE Shutdown /\ ~Trap
    BY <1>7, ShutdownSent DEF Shutdown
  <1>8. CASE Stray
    <2>1. PICK cmd \in {-1, 4} : Handles(cmd, "declined")
      BY <1>8 DEF Stray
    <2>2. seen' = seen
      BY <2>1, RawEvents DEF Handles
    <2> QED
      BY <1>8, <2>2, NothingSent DEF Stray
  <1>9. CASE UNCHANGED vars
    BY <1>9, NothingSent DEF vars
  <1> QED
    BY <1>1, <1>2, <1>t, <1>3, <1>4, <1>5, <1>6, <1>7, <1>8, <1>9 DEF Next

\* $handler sees events only in the order it may rely on (module.rs:22-36, 86-95):
\* whatever it answers, whether or not an unload is forced, with a shutdown at any
\* time, and whatever raw values the kernel sends besides.
THEOREM HandlerSeesProtocol == Spec => []HandlerProtocol
  <1>1. Init => HandlerProtocol /\ Expected
    BY DEF Init, HandlerProtocol, Expected
  <1> QED
    BY <1>1, ProtocolInductive, TypeCorrect, PTL DEF Spec

-----------------------------------------------------------------------------
(* Loaded modules ran.                                                     *)

\* A later event that is no successful unload leaves the module initialized.
LEMMA StillInitialized ==
  ASSUME TypeOK, NEW e \in Event \X Answer, e # <<"Unload", "ok">>,
         seen' = Append(seen, e), NoSilentLoad, file \in {"loaded", "quiesced"}
  PROVE  NoSilentLoad'
  <1>1. /\ Len(seen) \in Nat /\ Len(seen') = Len(seen) + 1 /\ seen'[Len(seen) + 1] = e
        /\ \A i \in 1 .. Len(seen) : seen'[i] = seen[i]
    BY Appended
  <1>2. PICK i \in 1 .. Len(seen) :
          /\ seen[i] = <<"Load", "ok">>
          /\ \A j \in i + 1 .. Len(seen) : seen[j] # <<"Unload", "ok">>
    BY DEF NoSilentLoad
  <1>3. i \in 1 .. Len(seen') /\ seen'[i] = <<"Load", "ok">>
    <2>1. i \in 1 .. Len(seen')
      BY <1>1
    <2>2. seen'[i] = seen[i]
      BY <1>1
    <2> QED
      BY <1>2, <2>1, <2>2
  <1>4. ASSUME NEW j \in i + 1 .. Len(seen')
        PROVE  seen'[j] # <<"Unload", "ok">>
    <2>1. CASE j = Len(seen) + 1
      BY <1>1, <2>1
    <2>2. CASE j # Len(seen) + 1
      <3>1. j \in i + 1 .. Len(seen) /\ j \in 1 .. Len(seen)
        BY <1>1, <2>2
      <3>2. seen'[j] = seen[j]
        BY <1>1, <3>1
      <3> QED
        BY <1>2, <3>1, <3>2
    <2> QED
      BY <2>1, <2>2
  <1> QED
    BY <1>3, <1>4 DEF NoSilentLoad

\* The last step of a load is the handler's successful MOD_LOAD.
LEMMA JustInitialized ==
  ASSUME TypeOK, seen' = Append(seen, <<"Load", "ok">>)
  PROVE  NoSilentLoad'
  <1>1. /\ Len(seen) \in Nat /\ Len(seen') = Len(seen) + 1
        /\ seen'[Len(seen) + 1] = <<"Load", "ok">>
    <2>1. <<"Load", "ok">> \in Event \X Answer
      BY DEF Event, Answer
    <2> QED
      BY <2>1, Appended
  <1>2. Len(seen') \in 1 .. Len(seen')
    BY <1>1
  <1>3. \A j \in Len(seen') + 1 .. Len(seen') : FALSE
    BY <1>1
  <1>4. seen'[Len(seen')] = <<"Load", "ok">>
    BY <1>1
  <1> QED
    BY <1>2, <1>3, <1>4 DEF NoSilentLoad

LEMMA InitializedInductive == TypeOK /\ NoSilentLoad /\ [Next]_vars => NoSilentLoad'
  <1> SUFFICES ASSUME TypeOK, NoSilentLoad, [Next]_vars PROVE NoSilentLoad'
    OBVIOUS
  <1>0. ASSUME seen' = seen, file' = file \/ file' \notin {"loaded", "quiesced"}
        PROVE  NoSilentLoad'
    BY <1>0 DEF NoSilentLoad
  <1>1. CASE Reject
    BY <1>1 DEF Reject, NoSilentLoad
  <1>2. CASE Link
    BY <1>2, SetsAreFound DEF Link, NoSilentLoad
  <1>3. CASE RegisterInit
    <2>1. CASE Trap
      BY <1>0, <2>1 DEF Trap
    <2>2. ASSUME NEW answer \in Answer, Handles(MOD_LOAD, answer),
                 file' = IF answer = "ok" THEN "loaded" ELSE "failed"
          PROVE  NoSilentLoad'
      <3>1. CASE answer = "ok"
        BY <2>2, <3>1, RawEvents, HandlesKnown, JustInitialized DEF MOD_LOAD
      <3>2. CASE answer # "ok"
        BY <2>2, <3>2 DEF NoSilentLoad
      <3> QED
        BY <3>1, <3>2
    <2> QED
      BY <1>3, <2>1, <2>2 DEF RegisterInit
  <1>4. CASE UndoLoad
    BY <1>4 DEF UndoLoad, NoSilentLoad
  <1>5. CASE Quiesce
    <2>1. CASE Trap
      BY <1>0, <2>1 DEF Trap
    <2>2. ASSUME NEW answer \in Answer, Handles(MOD_QUIESCE, answer)
          PROVE  NoSilentLoad'
      <3>1. file \in {"loaded", "quiesced"}
        BY <1>5 DEF Quiesce
      <3>2. seen' = Append(seen, <<"Quiesce", answer>>) /\ <<"Quiesce", answer>> \in Event \X Answer
        BY <2>2, RawEvents, HandlesKnown DEF MOD_QUIESCE
      <3> QED
        BY <3>1, <3>2, StillInitialized
    <2> QED
      BY <1>5, <2>1, <2>2 DEF Quiesce
  <1>6. CASE Unload
    <2>1. PICK answer \in Answer : /\ Handles(MOD_UNLOAD, answer)
                               /\ file' = IF answer = "ok" THEN "absent" ELSE "loaded"
      BY <1>6 DEF Unload
    <2>2. file \in {"loaded", "quiesced"}
      BY <1>6 DEF Unload
    <2>3. seen' = Append(seen, <<"Unload", answer>>) /\ <<"Unload", answer>> \in Event \X Answer
      BY <2>1, RawEvents, HandlesKnown DEF MOD_UNLOAD
    <2>4. CASE answer = "ok"
      BY <2>1, <2>4 DEF NoSilentLoad
    <2>5. CASE answer # "ok"
      BY <2>2, <2>3, <2>5, StillInitialized
    <2> QED
      BY <2>4, <2>5
  <1>7. CASE Shutdown
    <2>1. CASE Trap
      BY <1>0, <2>1 DEF Trap
    <2>2. ASSUME NEW answer \in Answer, Handles(MOD_SHUTDOWN, answer) PROVE NoSilentLoad'
      <3>1. file' = file
        BY <1>7 DEF Shutdown
      <3>2. seen' = Append(seen, <<"Shutdown", answer>>)
            /\ <<"Shutdown", answer>> \in Event \X Answer
        BY <2>2, RawEvents, HandlesKnown DEF MOD_SHUTDOWN
      <3>3. CASE file \in {"loaded", "quiesced"}
        BY <3>2, <3>3, StillInitialized
      <3>4. CASE file \notin {"loaded", "quiesced"}
        BY <3>1, <3>4 DEF NoSilentLoad
      <3> QED
        BY <3>3, <3>4
    <2> QED
      BY <1>7, <2>1, <2>2 DEF Shutdown
  <1>8. CASE Stray
    <2>1. PICK cmd \in {-1, 4} : Handles(cmd, "declined")
      BY <1>8 DEF Stray
    <2>2. seen' = seen
      BY <2>1, RawEvents DEF Handles
    <2> QED
      BY <1>0, <1>8, <2>2 DEF Stray
  <1>9. CASE UNCHANGED vars
    BY <1>0, <1>9 DEF vars
  <1> QED
    BY <1>1, <1>2, <1>3, <1>4, <1>5, <1>6, <1>7, <1>8, <1>9 DEF Next

\* A module the kernel keeps has run its initialization since it was linked
\* (lib.rs:20-47), with any handler and any number of loads and unloads.
THEOREM LoadedModulesRan == Spec => []NoSilentLoad
  <1>1. Init => NoSilentLoad
    BY DEF Init, NoSilentLoad
  <1> QED
    BY <1>1, InitializedInductive, TypeCorrect, PTL DEF Spec
=============================================================================
