------------------------- MODULE CommandLineProofs -------------------------
(***************************************************************************)
(* Theorems about how FrontEnd reads a command line and a Cargo.toml, of   *)
(* any length.  The loops are the steps of the specification, so what they *)
(* compute is shown by an invariant over what has been read so far.        *)
(***************************************************************************)
EXTENDS FrontEnd, SequenceTheorems, WellFoundedInduction, TLAPS

Sub == {"build", "ktest"}

-----------------------------------------------------------------------------
(* Least and greatest.                                                     *)

LEMMA Smallest ==
  ASSUME NEW S \in SUBSET Nat, S # {}
  PROVE  \E m \in S : \A k \in S : m <= k
  <1> DEFINE R == OpToRel(<, Nat)
  <1>1. IsWellFoundedOn(R, Nat)
    BY NatLessThanWellFounded
  <1>2. \A x, y \in Nat : <<x, y>> \in R <=> x < y
    BY DEF OpToRel
  <1> HIDE DEF R
  <1>3. PICK m \in S : \A k \in S : <<k, m>> \notin R
    BY <1>1, WFMin
  <1>4. \A k \in S : k \in Nat /\ m \in Nat /\ ~(k < m)
    BY <1>2, <1>3
  <1>5. \A k \in S : m <= k
    BY <1>4
  <1> QED
    BY <1>5

LEMMA MinIsLeast ==
  ASSUME NEW S \in SUBSET Nat, S # {}
  PROVE  Min(S) \in S /\ \A k \in S : Min(S) <= k
  BY Smallest DEF Min

\* Whoever has the greatest element has Max.
LEMMA MaxIsGreatest ==
  ASSUME NEW S \in SUBSET Nat, NEW m \in S, \A k \in S : k <= m
  PROVE  Max(S) = m
  <1>0. \A k \in S : m >= k
    OBVIOUS
  <1>1. Max(S) \in S /\ \A k \in S : Max(S) >= k
    BY <1>0, Zenon DEF Max
  <1>2. Max(S) \in Nat /\ m \in Nat /\ Max(S) >= m /\ m >= Max(S)
    BY <1>0, <1>1
  <1> QED
    BY <1>2

-----------------------------------------------------------------------------
(* The tables of flags.                                                    *)

LEMMA Tables ==
  ASSUME NEW s \in Sub
  PROVE  /\ DOMAIN Options(s) \cap DOMAIN Switches(s) = {}
         /\ "--" \notin DOMAIN Options(s) \cup DOMAIN Switches(s)
         /\ \A o \in DOMAIN Options(s) : Options(s)[o] \in Field(s) \ {"extra"}
         /\ \A o \in DOMAIN Switches(s) : Switches(s)[o][1] \in Field(s) \ {"extra", "sysdir"}
         /\ {"sysdir", "extra"} \subseteq Field(s)
         /\ DOMAIN Defaults(s) = Field(s)
         /\ Defaults(s)["sysdir"] = None /\ Defaults(s)["extra"] = << >>
  <1> USE DEF Sub, Options, Switches, BuildOption, VmOption, KtestOption, BuildSwitch, VmSwitch,
        KtestSwitch
  <1>1. DOMAIN Options(s) \cap DOMAIN Switches(s) = {}
    OBVIOUS
  <1>2. "--" \notin DOMAIN Options(s) \cup DOMAIN Switches(s)
    OBVIOUS
  <1>3. \A o \in DOMAIN Options(s) : Options(s)[o] \in Field(s) \ {"extra"}
    BY DEF Field, BuildField, VmField
  <1>4. \A o \in DOMAIN Switches(s) : Switches(s)[o][1] \in Field(s) \ {"extra", "sysdir"}
    <2>1. \A o \in DOMAIN BuildSwitch : BuildSwitch[o][1] = "release"
      OBVIOUS
    <2>2. \A o \in DOMAIN VmSwitch : VmSwitch[o][1] \in {"fresh", "keep"}
      OBVIOUS
    <2>3. \A o \in DOMAIN KtestSwitch : KtestSwitch[o][1] \in {"release", "fresh", "keep"}
      BY <2>1, <2>2
    <2> HIDE DEF BuildSwitch, VmSwitch, KtestSwitch, Options
    <2>4. CASE s = "ktest"
      BY <2>3, <2>4 DEF Field, BuildField, VmField
    <2>5. CASE s = "build"
      BY <2>1, <2>5 DEF Field, BuildField, VmField
    <2> QED
      BY <2>4, <2>5
  <1>5. {"sysdir", "extra"} \subseteq Field(s)
    BY DEF Field, BuildField, VmField
  <1>6. /\ DOMAIN Defaults(s) = Field(s)
        /\ Defaults(s)["sysdir"] = None /\ Defaults(s)["extra"] = << >>
    BY DEF Defaults, Field, BuildField, VmField
  <1> QED
    BY <1>1, <1>2, <1>3, <1>4, <1>5, <1>6

\* What build has ktest has, and it means the same.
LEMMA KtestTables ==
  /\ DOMAIN Options("build") \subseteq DOMAIN Options("ktest")
  /\ DOMAIN Switches("build") \subseteq DOMAIN Switches("ktest")
  /\ \A o \in DOMAIN Options("build") : Options("build")[o] = Options("ktest")[o]
  /\ \A o \in DOMAIN Switches("build") : Switches("build")[o] = Switches("ktest")[o]
  /\ BuildField = Field("build") /\ BuildField \subseteq Field("ktest")
  /\ \A f \in BuildField \ {"machine"} : Defaults("build")[f] = Defaults("ktest")[f]
  /\ Defaults("ktest")["machine"] = "arm64"
  BY DEF Options, Switches, BuildOption, VmOption, KtestOption, BuildSwitch, VmSwitch,
         KtestSwitch, Field, BuildField, VmField, Defaults

-----------------------------------------------------------------------------
(* Flags and values.                                                       *)

\* The first word is a flag, and so is the word after one that is no option.
LEMMA FirstFlag ==
  ASSUME NEW s, NEW w
  PROVE  IsFlag(s, w, 1)
  BY DEF IsFlag

LEMMA AfterNoOption ==
  ASSUME NEW s, NEW w, NEW i \in Nat \ {0}, w[i] \notin DOMAIN Options(s)
  PROVE  IsFlag(s, w, i + 1)
  BY DEF IsFlag

\* The word after an option is its value, and the one after that a flag again.
LEMMA AfterOption ==
  ASSUME NEW s, NEW w, NEW i \in Nat \ {0}, IsOption(s, w, i)
  PROVE  ~IsFlag(s, w, i + 1) /\ IsFlag(s, w, i + 2)
  <1> DEFINE opt(j) == w[j] \in DOMAIN Options(s)
  <1>1. PICK k \in 0 .. i - 1 :
          /\ k = 0 \/ ~opt(k)
          /\ \A j \in k + 1 .. i - 1 : opt(j)
          /\ (i - 1 - k) % 2 = 0
    BY DEF IsOption, IsFlag
  <1>2. opt(i)
    BY DEF IsOption
  <1> HIDE DEF opt
  <1>3. ASSUME NEW m \in 0 .. i, m = 0 \/ ~opt(m), \A j \in m + 1 .. i : opt(j)
        PROVE  m = k
    <2>1. ~(m < k)
      <3> SUFFICES ASSUME m < k PROVE FALSE
        OBVIOUS
      <3>1. k \in m + 1 .. i /\ k # 0
        OBVIOUS
      <3> QED
        BY <1>1, <1>3, <3>1
    <2>2. ~(k < m)
      BY <1>1, <1>2, <1>3
    <2> QED
      BY <2>1, <2>2
  <1>4. ~IsFlag(s, w, i + 1)
    <2> SUFFICES ASSUME NEW m \in 0 .. i, m = 0 \/ ~opt(m), \A j \in m + 1 .. i : opt(j),
                        (i - m) % 2 = 0
                 PROVE  FALSE
      BY DEF IsFlag, opt
    <2>1. (i - k) % 2 = 0 /\ (i - 1 - k) % 2 = 0
      BY <1>1, <1>3
    <2> QED
      BY <2>1
  <1>5. IsFlag(s, w, i + 2)
    <2>1. CASE ~opt(i + 1)
      BY <2>1 DEF IsFlag, opt
    <2>2. CASE opt(i + 1)
      <3>1. k \in 0 .. i + 1 /\ (i + 1 - k) % 2 = 0
        BY <1>1
      <3>2. \A j \in k + 1 .. i + 1 : opt(j)
        BY <1>1, <1>2, <2>2
      <3>3. (i + 2) - 1 = i + 1 /\ (i + 2) - 1 - k = i + 1 - k
        OBVIOUS
      <3> QED
        BY <1>1, <3>1, <3>2, <3>3 DEF IsFlag, opt
    <2> QED
      BY <2>1, <2>2
  <1> QED
    BY <1>4, <1>5

-----------------------------------------------------------------------------
(* What the loop has made of the words before the n-th, which is a flag.   *)

\* The flags before the n-th word that set field f.
SetBefore(s, w, f, n) == {i \in 1 .. n - 1 : Sets(s, w, f, i)}

\* Field f of the arguments a is what the last flag that sets it says, or d's.
Settled(s, d, w, n, f, a) ==
  LET sets == SetBefore(s, w, f, n)
  IN  \/ sets = {} /\ a[f] = d[f]
      \/ \E i \in sets : (\A j \in sets : j <= i) /\ a[f] = SetTo(s, w, f, i)

Upto(s, d, w, n, a) ==
  /\ IsFlag(s, w, n)
  /\ \A i \in 1 .. n - 1 : i \notin Stops(s, w) /\ ~Broken(s, w, i)
  /\ \A f \in Field(s) \ {"extra"} : Settled(s, d, w, n, f, a)

LEMMA NothingRead ==
  ASSUME NEW s \in Sub, NEW d, NEW w, NEW a, \A f \in Field(s) : a[f] = d[f]
  PROVE  Upto(s, d, w, 1, a)
  BY FirstFlag DEF Upto, Settled, SetBefore

LEMMA OptionRead ==
  ASSUME NEW s \in Sub, NEW d, NEW W, NEW w \in Seq(W), NEW n \in 1 .. Len(w), NEW a,
         Upto(s, d, w, n, a), w[n] \in DOMAIN Options(s), Options(s)[w[n]] \in DOMAIN a,
         n < Len(w), Legal(Options(s)[w[n]], w[n + 1])
  PROVE  Upto(s, d, w, n + 2, [a EXCEPT ![Options(s)[w[n]]] =
                                 Meaning(Options(s)[w[n]], w[n + 1])])
  <1> DEFINE o == Options(s)[w[n]]
             b == [a EXCEPT ![o] = Meaning(o, w[n + 1])]
  <1>1. IsOption(s, w, n) /\ n \notin Stops(s, w) /\ ~Broken(s, w, n)
    BY DEF Upto, IsOption, Stops, Broken
  <1>2. ~IsFlag(s, w, n + 1) /\ IsFlag(s, w, n + 2)
    BY <1>1, AfterOption
  <1>3. n + 1 \notin Stops(s, w) /\ ~Broken(s, w, n + 1)
        /\ \A f : ~Sets(s, w, f, n + 1)
    BY <1>2 DEF Stops, Broken, Sets, IsOption, IsSwitch
  <1>4. \A i \in 1 .. n + 1 : i \in 1 .. n - 1 \/ i = n \/ i = n + 1
    OBVIOUS
  <1>5. ~IsSwitch(s, w, n)
    BY Tables DEF IsSwitch
  <1>6. \A f : Sets(s, w, f, n) <=> f = o
    BY <1>1, <1>5 DEF Sets
  <1>7. ASSUME NEW f \in Field(s) \ {"extra"}
        PROVE  Settled(s, d, w, n + 2, f, b)
    <2>1. CASE f = o
      <3>1. \A j \in 1 .. n + 1 : Sets(s, w, f, j) => j <= n
        BY <1>3
      <3>2. b[f] = SetTo(s, w, f, n)
        BY <1>1, <2>1 DEF SetTo
      <3> QED
        BY <1>6, <2>1, <3>1, <3>2 DEF Settled, SetBefore
    <2>2. CASE f # o
      <3>1. SetBefore(s, w, f, n + 2) = SetBefore(s, w, f, n)
        BY <1>3, <1>4, <1>6, <2>2 DEF SetBefore
      <3>2. b[f] = a[f]
        BY <2>2
      <3>3. Settled(s, d, w, n, f, a)
        BY DEF Upto
      <3> QED
        BY <3>1, <3>2, <3>3 DEF Settled
    <2> QED
      BY <2>1, <2>2
  <1>8. \A i \in 1 .. n + 1 : i \notin Stops(s, w) /\ ~Broken(s, w, i)
    BY <1>1, <1>3, <1>4 DEF Upto
  <1>9. (n + 2) - 1 = n + 1
    OBVIOUS
  <1> HIDE DEF b
  <1>10. Upto(s, d, w, n + 2, b)
    BY <1>2, <1>7, <1>8, <1>9 DEF Upto
  <1> QED
    BY <1>10 DEF b

LEMMA SwitchRead ==
  ASSUME NEW s \in Sub, NEW d, NEW W, NEW w \in Seq(W), NEW n \in 1 .. Len(w), NEW a,
         Upto(s, d, w, n, a), w[n] \in DOMAIN Switches(s), Switches(s)[w[n]][1] \in DOMAIN a
  PROVE  Upto(s, d, w, n + 1, [a EXCEPT ![Switches(s)[w[n]][1]] = Switches(s)[w[n]][2]])
  <1> DEFINE o == Switches(s)[w[n]][1]
             b == [a EXCEPT ![o] = Switches(s)[w[n]][2]]
  <1>1. w[n] \notin DOMAIN Options(s)
    BY Tables
  <1>2. IsFlag(s, w, n + 1)
    BY <1>1, AfterNoOption
  <1>3. /\ ~IsOption(s, w, n) /\ IsSwitch(s, w, n)
        /\ n \notin Stops(s, w) /\ ~Broken(s, w, n)
    BY <1>1 DEF Upto, IsOption, IsSwitch, Stops, Broken
  <1>4. \A f : Sets(s, w, f, n) <=> f = o
    BY <1>3 DEF Sets
  <1>5. \A i \in 1 .. n : i \in 1 .. n - 1 \/ i = n
    OBVIOUS
  <1>6. ASSUME NEW f \in Field(s) \ {"extra"}
        PROVE  Settled(s, d, w, n + 1, f, b)
    <2>1. CASE f = o
      <3>1. b[f] = SetTo(s, w, f, n)
        BY <1>3, <2>1 DEF SetTo
      <3> QED
        BY <1>4, <2>1, <3>1 DEF Settled, SetBefore
    <2>2. CASE f # o
      <3>1. SetBefore(s, w, f, n + 1) = SetBefore(s, w, f, n)
        BY <1>4, <1>5, <2>2 DEF SetBefore
      <3>2. b[f] = a[f]
        BY <2>2
      <3>3. Settled(s, d, w, n, f, a)
        BY DEF Upto
      <3> QED
        BY <3>1, <3>2, <3>3 DEF Settled
    <2> QED
      BY <2>1, <2>2
  <1>7. \A i \in 1 .. n : i \notin Stops(s, w) /\ ~Broken(s, w, i)
    BY <1>3, <1>5 DEF Upto
  <1>8. (n + 1) - 1 = n
    OBVIOUS
  <1> HIDE DEF b
  <1>9. Upto(s, d, w, n + 1, b)
    BY <1>2, <1>6, <1>7, <1>8 DEF Upto
  <1> QED
    BY <1>9 DEF b

-----------------------------------------------------------------------------
(* Where the loop ends is where the flags end.                             *)

LEMMA StopIsHere ==
  ASSUME NEW s \in Sub, NEW d, NEW W, NEW w \in Seq(W), NEW n \in 1 .. Len(w) + 1, NEW a,
         Upto(s, d, w, n, a), n = Len(w) + 1 \/ n \in Stops(s, w)
  PROVE  Stop(s, w) = n
  <1>1. Stops(s, w) \subseteq 1 .. Len(w) /\ Stops(s, w) \in SUBSET Nat
    BY DEF Stops
  <1>2. \A i \in Stops(s, w) : i >= n
    BY <1>1 DEF Upto
  <1>3. CASE n = Len(w) + 1
    <2>1. Stops(s, w) = {}
      BY <1>1, <1>2, <1>3
    <2> QED
      BY <1>3, <2>1 DEF Stop
  <1>4. CASE n \in Stops(s, w)
    <2>1. /\ Min(Stops(s, w)) \in Stops(s, w)
          /\ \A k \in Stops(s, w) : Min(Stops(s, w)) <= k
      BY <1>1, <1>4, MinIsLeast
    <2>2. Min(Stops(s, w)) = n
      BY <1>1, <1>2, <1>4, <2>1
    <2> QED
      BY <1>4, <2>2 DEF Stop
  <1> QED
    BY <1>3, <1>4

LEMMA StopIsLater ==
  ASSUME NEW s \in Sub, NEW d, NEW W, NEW w \in Seq(W), NEW n \in 1 .. Len(w), NEW a,
         Upto(s, d, w, n, a), n \notin Stops(s, w)
  PROVE  Stop(s, w) \in Nat /\ n < Stop(s, w)
  <1>1. Stops(s, w) \in SUBSET Nat
    BY DEF Stops
  <1>2. \A i \in Stops(s, w) : i > n
    BY DEF Upto, Stops
  <1>3. CASE Stops(s, w) = {}
    BY <1>3 DEF Stop
  <1>4. CASE Stops(s, w) # {}
    BY <1>1, <1>2, <1>4, MinIsLeast DEF Stop
  <1> QED
    BY <1>3, <1>4

\* The arguments the help text makes of the words.
Documented(s, w) == [f \in Field(s) |-> Value(s, w, f)]

\* When only the last words, or --, are left, the arguments are as documented.
LEMMA EndRead ==
  ASSUME NEW s \in Sub, NEW d, NEW W, NEW w \in Seq(W), NEW n \in 1 .. Len(w) + 1, NEW a,
         Upto(s, d, w, n, a), n = Len(w) + 1 \/ (n <= Len(w) /\ w[n] = "--")
  PROVE  /\ Stop(s, w) = n
         /\ Expected(s, w) = IF Given(s, w, "sysdir") = {} THEN <<"refused", None>>
                             ELSE <<"run", Documented(s, w)>>
         /\ \A f \in Field(s) \ {"extra"} :
              a[f] = IF Given(s, w, f) = {} THEN d[f]
                     ELSE SetTo(s, w, f, Max(Given(s, w, f)))
  <1>1. n = Len(w) + 1 \/ n \in Stops(s, w)
    BY Tables DEF Upto, Stops
  <1>2. Stop(s, w) = n
    BY <1>1, StopIsHere
  <1>3. ~\E i \in 1 .. Stop(s, w) - 1 : Broken(s, w, i)
    BY <1>2 DEF Upto
  <1>4. ~(Stop(s, w) <= Len(w) /\ w[Stop(s, w)] # "--")
    BY <1>2
  <1>5. ASSUME NEW f \in Field(s) \ {"extra"}
        PROVE  a[f] = IF Given(s, w, f) = {} THEN d[f]
                      ELSE SetTo(s, w, f, Max(Given(s, w, f)))
    <2>1. Given(s, w, f) = SetBefore(s, w, f, n) /\ SetBefore(s, w, f, n) \in SUBSET Nat
      BY <1>2 DEF Given, SetBefore
    <2>2. Settled(s, d, w, n, f, a)
      BY DEF Upto
    <2>3. CASE Given(s, w, f) = {}
      BY <2>1, <2>2, <2>3 DEF Settled
    <2>4. CASE Given(s, w, f) # {}
      <3>1. PICK i \in Given(s, w, f) : /\ \A j \in Given(s, w, f) : j <= i
                                      /\ a[f] = SetTo(s, w, f, i)
        BY <2>1, <2>2, <2>4 DEF Settled
      <3>2. Max(Given(s, w, f)) = i
        BY <2>1, <3>1, MaxIsGreatest
      <3> QED
        BY <2>4, <3>1, <3>2
    <2> QED
      BY <2>3, <2>4
  <1> QED
    BY <1>2, <1>3, <1>4, <1>5 DEF Expected, Documented

\* No word is None, so whether --sysdir was given shows in the arguments.
LEMMA SysdirGiven ==
  ASSUME NEW s \in Sub, NEW d, NEW W, NEW w \in Seq(W), NEW n \in 1 .. Len(w) + 1, NEW a,
         Upto(s, d, w, n, a), None \notin W, d["sysdir"] = None
  PROVE  a["sysdir"] = None <=> SetBefore(s, w, "sysdir", n) = {}
  <1>1. Settled(s, d, w, n, "sysdir", a)
    BY Tables DEF Upto
  <1>2. ASSUME NEW i \in SetBefore(s, w, "sysdir", n)
        PROVE  SetTo(s, w, "sysdir", i) # None
    <2>0. \A o \in DOMAIN Switches(s) : Switches(s)[o][1] # "sysdir"
      BY Tables
    <2>1. IsOption(s, w, i)
      BY <2>0 DEF SetBefore, Sets, IsSwitch
    <2>2. i \in 1 .. n - 1 /\ ~Broken(s, w, i)
      BY DEF SetBefore, Upto
    <2>3. i # Len(w)
      BY <2>1, <2>2 DEF Broken
    <2>4. i + 1 \in 1 .. Len(w)
      BY <2>2, <2>3
    <2>5. w[i + 1] \in W
      BY <2>4
    <2> QED
      BY <2>1, <2>5 DEF SetTo, Meaning
  <1> QED
    BY <1>1, <1>2 DEF Settled

\* Where the loop gives up there is nothing to be made of the words.
LEMMA OptionFails ==
  ASSUME NEW s \in Sub, NEW d, NEW W, NEW w \in Seq(W), NEW n \in 1 .. Len(w), NEW a,
         Upto(s, d, w, n, a), w[n] \in DOMAIN Options(s),
         ~(n < Len(w) /\ Legal(Options(s)[w[n]], w[n + 1]))
  PROVE  Expected(s, w) = <<"refused", None>>
  <1>1. n \notin Stops(s, w) /\ Broken(s, w, n)
    BY DEF Upto, Stops, Broken, IsOption
  <1>2. Stop(s, w) \in Nat /\ n < Stop(s, w)
    BY <1>1, StopIsLater
  <1>3. n \in 1 .. Stop(s, w) - 1
    BY <1>2
  <1> QED
    BY <1>1, <1>3 DEF Expected

LEMMA OtherRead ==
  ASSUME NEW s \in Sub, NEW d, NEW W, NEW w \in Seq(W), NEW n \in 1 .. Len(w), NEW a,
         Upto(s, d, w, n, a),
         w[n] \notin DOMAIN Options(s) \cup DOMAIN Switches(s) \cup {"--"}
  PROVE  Expected(s, w) = <<IF w[n] \in Help THEN "help" ELSE "refused", None>>
  <1>1. n \in Stops(s, w)
    BY DEF Upto, Stops
  <1>2. Stop(s, w) = n
    BY <1>1, StopIsHere
  <1>3. ~\E i \in 1 .. Stop(s, w) - 1 : Broken(s, w, i)
    BY <1>2 DEF Upto
  <1> QED
    BY <1>2, <1>3 DEF Expected

-----------------------------------------------------------------------------
(* The loop over the arguments.                                            *)

Alphabet == UNION {ToSet(in.words) : in \in Inputs}

\* What the command line is read by: the table of the subcommand and, if build
\* would accept the words, for ktest build's table too.
ReadBy(s) == s = sub \/ (s = "build" /\ sub = "ktest" /\ Expected("build", words)[1] = "run")

\* The arguments are what the words read so far say, from the defaults of the
\* subcommand; past -- the other words are cargo's.
SoFar(s) ==
  \/ Upto(s, Defaults(sub), words, at + 1, args) /\ args["extra"] = <<>>
  \/ \E n \in 1 .. Len(words) :
       /\ words[n] = "--" /\ at = Len(words)
       /\ Upto(s, Defaults(sub), words, n, args)
       /\ args["extra"] = SubSeq(words, n + 1, Len(words))

LoopInv ==
  /\ sub \in Sub /\ at \in 0 .. Len(words) /\ words \in Seq(Alphabet)
  /\ args = [f \in Field(sub) |-> args[f]]
  /\ pc = "start" => sub = "build" /\ at = 0
  /\ pc = "parse" => \A s \in Sub : ReadBy(s) => SoFar(s)

ParseInv == LoopInv /\ ParsedAsDocumented /\ KtestTakesBuildFlags

\* A word that a subcommand takes means the same to whatever else reads it.
LEMMA SameWord ==
  ASSUME NEW s \in Sub, sub \in Sub, words \in Seq(Alphabet), at \in Nat, at < Len(words),
         NEW d, ReadBy(s), Upto(s, d, words, at + 1, args)
  PROVE  /\ Word \in DOMAIN Options(sub) =>
              /\ Word \in DOMAIN Options(s) /\ Options(s)[Word] = Options(sub)[Word]
              /\ s # sub => HasValue(Options(sub)[Word])
         /\ Word \in DOMAIN Switches(sub) =>
              Word \in DOMAIN Switches(s) /\ Switches(s)[Word] = Switches(sub)[Word]
         /\ s # sub => Word \in DOMAIN Options(sub) \cup DOMAIN Switches(sub) \cup {"--"}
  <1>1. CASE s = sub
    BY <1>1
  <1>2. CASE s # sub
    <2>1. s = "build" /\ sub = "ktest" /\ Expected("build", words)[1] = "run"
      BY <1>2 DEF ReadBy
    <2>2. at + 1 \in 1 .. Len(words) /\ (at + 1) + 1 = at + 2
      OBVIOUS
    <2>3. /\ <<"refused", None>>[1] # "run"
          /\ <<IF Word \in Help THEN "help" ELSE "refused", None>>[1] # "run"
      OBVIOUS
    <2>4. Word \in DOMAIN Options("build") \cup DOMAIN Switches("build") \cup {"--"}
      BY <2>1, <2>2, <2>3, OtherRead DEF Word
    <2>5. ASSUME Word \in DOMAIN Options("build")
          PROVE  HasValue(Options("build")[Word])
      BY <2>1, <2>2, <2>3, <2>5, OptionFails DEF Word, HasValue
    <2>6. /\ DOMAIN Options("ktest") \cap DOMAIN Switches("ktest") = {}
          /\ "--" \notin DOMAIN Options("ktest") \cup DOMAIN Switches("ktest")
      BY Tables DEF Sub
    <2> QED
      BY <2>1, <2>4, <2>5, <2>6, KtestTables
  <1> QED
    BY <1>1, <1>2

\* A word that is still to be read is a flag: -- ends the words.
LEMMA FlagNext ==
  ASSUME LoopInv, Reading, NEW s \in Sub, ReadBy(s)
  PROVE  Upto(s, Defaults(sub), words, at + 1, args) /\ args["extra"] = <<>>
  <1>1. SoFar(s)
    BY DEF LoopInv, Reading
  <1>2. at # Len(words)
    BY DEF LoopInv, Reading
  <1> QED
    BY <1>1, <1>2, Zenon DEF SoFar

LEMMA OptionTaken ==
  ASSUME LoopInv, TakeOption, HasValue(Options(sub)[Word]), NEW s \in Sub, ReadBy(s)
  PROVE  SoFar(s)'
  <1> DEFINE o == Options(sub)[Word]
             d == Defaults(sub)
  <1>1. /\ pc = "parse" /\ at \in Nat /\ at < Len(words) /\ words \in Seq(Alphabet)
        /\ Len(words) \in Nat /\ sub \in Sub /\ Word \in DOMAIN Options(sub)
        /\ DOMAIN args = Field(sub)
    BY DEF TakeOption, Reading, LoopInv
  <1>2. /\ args' = [args EXCEPT ![o] = Meaning(o, words[at + 2])] /\ at' = at + 2
        /\ UNCHANGED <<pc, words, sub>>
    BY DEF TakeOption
  <1>3. Upto(s, d, words, at + 1, args) /\ args["extra"] = << >>
    BY FlagNext DEF TakeOption, TakeSwitch, TakeRest
  <1>4. Word \in DOMAIN Options(s) /\ Options(s)[Word] = o
    BY <1>1, <1>3, SameWord
  <1>5. o \in Field(sub) \ {"extra"}
    BY <1>1, Tables
  <1>6. /\ at + 1 \in 1 .. Len(words) /\ at + 1 < Len(words) /\ (at + 1) + 1 = at + 2
        /\ (at + 1) + 2 = (at + 2) + 1 /\ Legal(o, words[at + 2])
    BY <1>1 DEF HasValue
  <1> HIDE DEF o, d
  <1>7. Upto(s, d, words, (at + 1) + 2, args')
    BY <1>1, <1>2, <1>3, <1>4, <1>5, <1>6, OptionRead DEF Word
  <1>8. args'["extra"] = << >>
    BY <1>1, <1>2, <1>3, <1>5
  <1> QED
    BY <1>2, <1>6, <1>7, <1>8 DEF SoFar, d

LEMMA SwitchTaken ==
  ASSUME LoopInv, TakeSwitch, NEW s \in Sub, ReadBy(s)
  PROVE  SoFar(s)'
  <1> DEFINE o == Switches(sub)[Word]
             d == Defaults(sub)
  <1>1. /\ pc = "parse" /\ at \in Nat /\ at < Len(words) /\ words \in Seq(Alphabet)
        /\ Len(words) \in Nat /\ sub \in Sub /\ Word \in DOMAIN Switches(sub)
        /\ DOMAIN args = Field(sub)
    BY DEF TakeSwitch, Reading, LoopInv
  <1>2. /\ args' = [args EXCEPT ![o[1]] = o[2]] /\ at' = at + 1
        /\ UNCHANGED <<pc, words, sub>>
    BY DEF TakeSwitch
  <1>3. Upto(s, d, words, at + 1, args) /\ args["extra"] = << >>
    BY FlagNext DEF TakeOption, TakeSwitch, TakeRest
  <1>4. Word \in DOMAIN Switches(s) /\ Switches(s)[Word] = o
    BY <1>1, <1>3, SameWord
  <1>5. o[1] \in Field(sub) \ {"extra"}
    BY <1>1, Tables
  <1>6. at + 1 \in 1 .. Len(words)
    BY <1>1
  <1> HIDE DEF o, d
  <1>7. Upto(s, d, words, (at + 1) + 1, args')
    BY <1>1, <1>2, <1>3, <1>4, <1>5, <1>6, SwitchRead DEF Word
  <1>8. args'["extra"] = << >>
    BY <1>1, <1>2, <1>3, <1>5
  <1> QED
    BY <1>2, <1>7, <1>8 DEF SoFar, d

\* No flag sets the words for cargo.
LEMMA RestTaken ==
  ASSUME LoopInv, TakeRest, NEW s \in Sub, ReadBy(s)
  PROVE  SoFar(s)'
  <1> DEFINE d == Defaults(sub)
  <1>1. /\ pc = "parse" /\ at \in Nat /\ at < Len(words) /\ words \in Seq(Alphabet)
        /\ Len(words) \in Nat /\ sub \in Sub /\ words[at + 1] = "--" /\ DOMAIN args = Field(sub)
    BY DEF TakeRest, Reading, LoopInv, Word
  <1>2. /\ args' = [args EXCEPT !["extra"] = args["extra"] \o SubSeq(words, at + 2, Len(words))]
        /\ at' = Len(words) /\ UNCHANGED <<pc, words, sub>>
    BY DEF TakeRest
  <1>3. Upto(s, d, words, at + 1, args) /\ args["extra"] = << >>
    BY FlagNext DEF TakeOption, TakeSwitch, TakeRest
  <1>4. SubSeq(words, at + 2, Len(words)) \in Seq(Alphabet)
    BY <1>1
  <1>5. << >> \o SubSeq(words, at + 2, Len(words)) = SubSeq(words, at + 2, Len(words))
    BY <1>4
  <1>6. args'["extra"] = SubSeq(words, (at + 1) + 1, Len(words))
    <2>1. "extra" \in Field(sub) /\ (at + 1) + 1 = at + 2
      BY <1>1, Tables
    <2> QED
      BY <1>1, <1>2, <1>3, <1>5, <2>1
  <1>7. \A f \in Field(s) \ {"extra"} : args'[f] = args[f]
    <2>1. Field(s) \subseteq Field(sub)
      BY <1>1, KtestTables DEF Sub, ReadBy
    <2> QED
      BY <1>1, <1>2, <2>1
  <1>8. Upto(s, d, words, at + 1, args')
    BY <1>3, <1>7 DEF Upto, Settled
  <1>9. at + 1 \in 1 .. Len(words)
    BY <1>1
  <1> HIDE DEF d
  <1> QED
    BY <1>1, <1>2, <1>6, <1>8, <1>9 DEF SoFar, d

LEMMA Alphabetic ==
  /\ None \notin Alphabet
  /\ \A in \in Inputs : in.words \in Seq(Alphabet)
  <1>1. None \notin Alphabet
    BY FrontEndAssumption DEF Alphabet
  <1>2. ASSUME NEW in \in Inputs
        PROVE  in.words \in Seq(Alphabet)
    <2>1. in.words \in Seq(ToSet(in.words)) /\ ToSet(in.words) \subseteq Alphabet
      BY FrontEndAssumption DEF Alphabet
    <2> QED
      BY <2>1
  <1> QED
    BY <1>1, <1>2

\* What the loop leaves is what the help text says of the words.
LEMMA Outcome ==
  ASSUME LoopInv, pc = "parse", at = Len(words), NEW s \in Sub, ReadBy(s)
  PROVE  /\ args["sysdir"] = None => Expected(s, words) = <<"refused", None>>
         /\ args["sysdir"] # None =>
              Expected(s, words) = <<"run", Documented(s, words)>>
         /\ args["extra"] = Value(s, words, "extra")
         /\ \A f \in Field(s) \ {"extra"} :
              args[f] = IF Given(s, words, f) = {} THEN Defaults(sub)[f]
                        ELSE SetTo(s, words, f, Max(Given(s, words, f)))
  <1> DEFINE d == Defaults(sub)
  <1>1. words \in Seq(Alphabet) /\ Len(words) \in Nat /\ sub \in Sub
    BY DEF LoopInv
  <1>2. SoFar(s)
    BY DEF LoopInv
  <1>3. PICK n \in 1 .. Len(words) + 1 :
          /\ n = Len(words) + 1 \/ (n <= Len(words) /\ words[n] = "--")
          /\ Upto(s, d, words, n, args) /\ args["extra"] = SubSeq(words, n + 1, Len(words))
    <2>1. CASE Upto(s, d, words, at + 1, args) /\ args["extra"] = << >>
      <3>1. SubSeq(words, (Len(words) + 1) + 1, Len(words)) = << >>
        BY <1>1
      <3> QED
        BY <1>1, <2>1, <3>1
    <2>2. CASE \E n \in 1 .. Len(words) :
                 /\ words[n] = "--" /\ at = Len(words) /\ Upto(s, d, words, n, args)
                 /\ args["extra"] = SubSeq(words, n + 1, Len(words))
      BY <1>1, <2>2
    <2> QED
      BY <1>2, <2>1, <2>2 DEF SoFar
  <1>4. /\ n = Len(words) + 1 \/ (n <= Len(words) /\ words[n] = "--")
        /\ Upto(s, d, words, n, args) /\ d["sysdir"] = None
    BY <1>1, <1>3, Tables
  <1> HIDE DEF d
  <1>5. /\ Stop(s, words) = n
        /\ Expected(s, words) = IF Given(s, words, "sysdir") = {} THEN <<"refused", None>>
                                ELSE <<"run", Documented(s, words)>>
        /\ \A f \in Field(s) \ {"extra"} :
             args[f] = IF Given(s, words, f) = {} THEN d[f]
                       ELSE SetTo(s, words, f, Max(Given(s, words, f)))
    BY <1>1, <1>4, EndRead
  <1>6. args["sysdir"] = None <=> SetBefore(s, words, "sysdir", n) = {}
    BY <1>1, <1>4, Alphabetic, SysdirGiven
  <1>7. SetBefore(s, words, "sysdir", n) = Given(s, words, "sysdir")
    BY <1>5 DEF SetBefore, Given
  <1>8. args["extra"] = Value(s, words, "extra")
    BY <1>3, <1>5 DEF Value
  <1> QED
    BY <1>5, <1>6, <1>7, <1>8 DEF d

LEMMA EndsAsDocumented ==
  ASSUME LoopInv, EndOfWords
  PROVE  ParsedAsDocumented' /\ KtestTakesBuildFlags'
  <1>1. /\ pc = "parse" /\ at = Len(words) /\ UNCHANGED <<words, at, sub, args>>
        /\ pc' = IF args["sysdir"] = None THEN "refused" ELSE "sysdir"
    BY DEF EndOfWords, LeaveParse, read
  <1>2. sub \in Sub /\ args = [f \in Field(sub) |-> args[f]]
    BY DEF LoopInv
  <1>3. ReadBy(sub)
    BY DEF ReadBy
  <1>4. ParsedAsDocumented'
    <2>1. CASE args["sysdir"] = None
      BY <1>1, <1>2, <1>3, <2>1, Outcome DEF ParsedAsDocumented
    <2>2. CASE args["sysdir"] # None
      <3>1. \A f \in Field(sub) : args[f] = Value(sub, words, f)
        BY <1>1, <1>2, <1>3, Outcome DEF Value
      <3>2. args = [f \in Field(sub) |-> Value(sub, words, f)]
        BY <1>2, <3>1
      <3>3. Expected(sub, words) = <<"run", Documented(sub, words)>>
        BY <1>1, <1>2, <1>3, <2>2, Outcome
      <3>4. Expected(sub, words) = <<"run", args>>
        BY <3>2, <3>3 DEF Documented
      <3> QED
        BY <1>1, <2>2, <3>4 DEF ParsedAsDocumented
    <2> QED
      BY <2>1, <2>2
  <1>5. KtestTakesBuildFlags'
    <2> DEFINE b == Expected("build", words)
    <2> SUFFICES ASSUME sub = "ktest", b[1] = "run"
                 PROVE  /\ pc' = "sysdir"
                        /\ \A f \in BuildField :
                             args[f] = IF f = "machine" /\ Given("build", words, f) = {}
                                       THEN "arm64" ELSE b[2][f]
      BY <1>1 DEF KtestTakesBuildFlags
    <2>1. "build" \in Sub /\ ReadBy("build")
      BY DEF ReadBy, Sub
    <2>2. args["sysdir"] # None
      <3> SUFFICES ASSUME args["sysdir"] = None PROVE FALSE
        OBVIOUS
      <3>1. b = <<"refused", None>>
        BY <1>1, <2>1, Outcome
      <3> QED
        BY <3>1
    <2>3. b[2] = [f \in Field("build") |-> Value("build", words, f)]
      BY <1>1, <2>1, <2>2, Outcome DEF Documented
    <2>4. \A f \in BuildField : b[2][f] = Value("build", words, f)
      BY <2>3, KtestTables
    <2>5. ASSUME NEW f \in BuildField
          PROVE  args[f] = IF f = "machine" /\ Given("build", words, f) = {}
                           THEN "arm64" ELSE Value("build", words, f)
      <3>1. CASE f = "extra"
        BY <1>1, <2>1, <3>1, Outcome
      <3>2. CASE f # "extra"
        <4>1. args[f] = IF Given("build", words, f) = {} THEN Defaults("ktest")[f]
                        ELSE SetTo("build", words, f, Max(Given("build", words, f)))
          BY <1>1, <2>1, <3>2, KtestTables, Outcome
        <4>2. Value("build", words, f) =
                IF Given("build", words, f) = {} THEN Defaults("build")[f]
                ELSE SetTo("build", words, f, Max(Given("build", words, f)))
          BY <3>2 DEF Value
        <4>3. f # "machine" => Defaults("build")[f] = Defaults("ktest")[f]
          BY KtestTables
        <4>4. f = "machine" => Defaults("ktest")[f] = "arm64"
          BY KtestTables
        <4> QED
          BY <4>1, <4>2, <4>3, <4>4
      <3> QED
        BY <3>1, <3>2
    <2> QED
      BY <1>1, <2>2, <2>4, <2>5
  <1> QED
    BY <1>4, <1>5

\* A loop that gives up, or prints help, is right to, and build's would too.
LEMMA LeavesAsDocumented ==
  ASSUME LoopInv, Reading, NEW to \in {"help", "refused"}, LeaveParse(to),
         \/ /\ Word \in DOMAIN Options(sub) /\ ~HasValue(Options(sub)[Word]) /\ to = "refused"
         \/ /\ Word \notin DOMAIN Options(sub) \cup DOMAIN Switches(sub) \cup {"--"}
            /\ to = IF Word \in Help THEN "help" ELSE "refused"
  PROVE  ParsedAsDocumented' /\ KtestTakesBuildFlags'
  <1>1. /\ at \in Nat /\ at < Len(words) /\ words \in Seq(Alphabet) /\ sub \in Sub
        /\ Len(words) \in Nat
    BY DEF LoopInv, Reading
  <1>2. pc' = to /\ UNCHANGED <<words, at, sub, args>>
    BY DEF LeaveParse, read
  <1>3. /\ at + 1 \in 1 .. Len(words) /\ (at + 1) + 1 = at + 2
        /\ at + 1 < Len(words) <=> ~(at + 1 = Len(words))
    BY <1>1
  <1>4. ReadBy(sub) /\ Upto(sub, Defaults(sub), words, at + 1, args)
    BY <1>1, FlagNext DEF ReadBy
  <1>5. Expected(sub, words) = <<to, None>>
    <2>1. CASE Word \in DOMAIN Options(sub)
      <3>1. ~HasValue(Options(sub)[Word]) /\ to = "refused"
        BY <2>1
      <3> QED
        BY <1>1, <1>3, <1>4, <2>1, <3>1, OptionFails DEF Word, HasValue
    <2>2. CASE Word \notin DOMAIN Options(sub)
      BY <1>1, <1>3, <1>4, <2>2, OtherRead DEF Word
    <2> QED
      BY <2>1, <2>2
  <1>6. ParsedAsDocumented'
    BY <1>2, <1>5 DEF ParsedAsDocumented
  <1>7. KtestTakesBuildFlags'
    <2> SUFFICES ASSUME sub = "ktest", Expected("build", words)[1] = "run" PROVE FALSE
      BY <1>2 DEF KtestTakesBuildFlags
    <2>1. "build" \in Sub /\ ReadBy("build") /\ "build" # sub
      BY DEF ReadBy, Sub
    <2>2. Upto("build", Defaults(sub), words, at + 1, args)
      BY <2>1, FlagNext
    <2> QED
      BY <1>1, <2>1, <2>2, SameWord
  <1> QED
    BY <1>6, <1>7

LEMMA RawWords ==
  ASSUME words \in Seq(Alphabet)
  PROVE  /\ Raw \in Seq(Alphabet)
         /\ Raw # << >> => Tail(Raw) \in Seq(Alphabet) /\ Head(Raw) = Raw[1] /\ Len(Raw) \in Nat \ {0}
  <1>1. words # << >> => Tail(words) \in Seq(Alphabet)
    OBVIOUS
  <1>2. Raw = words \/ (words # << >> /\ Raw = Tail(words))
    BY DEF Raw
  <1>3. Raw \in Seq(Alphabet)
    BY <1>1, <1>2
  <1> QED
    BY <1>3

LEMMA InitParse == Init => ParseInv
  <1> SUFFICES ASSUME Init PROVE ParseInv
    OBVIOUS
  <1>1. words \in Seq(Alphabet) /\ sub = "build" /\ at = 0 /\ pc = "start"
    BY Alphabetic DEF Init
  <1>2. args = [f \in Field(sub) |-> args[f]]
    BY <1>1 DEF Init, Defaults
  <1>3. at \in 0 .. Len(words)
    BY <1>1
  <1> QED
    BY <1>1, <1>2, <1>3 DEF ParseInv, LoopInv, Sub, ParsedAsDocumented, KtestTakesBuildFlags

\* The loop begins with the defaults.
LEMMA Begins ==
  ASSUME LoopInv, at = 0, at' = 0, pc' = "parse", sub' \in Sub, words' \in Seq(Alphabet),
         args' = Defaults(sub')
  PROVE  ParseInv'
  <1>1. ASSUME NEW s \in Sub, ReadBy(s)'
        PROVE  SoFar(s)'
    <2>1. Upto(s, Defaults(sub'), words', 0 + 1, args')
      BY NothingRead
    <2>2. args'["extra"] = << >>
      BY Tables
    <2> QED
      BY <2>1, <2>2 DEF SoFar
  <1>2. args' = [f \in Field(sub') |-> args'[f]]
    BY DEF Defaults
  <1>3. at' \in 0 .. Len(words')
    OBVIOUS
  <1> QED
    BY <1>1, <1>2, <1>3 DEF ParseInv, LoopInv, ParsedAsDocumented, KtestTakesBuildFlags

\* Outside the loop nothing is read.
LEMMA Elsewhere ==
  ASSUME ParseInv, UNCHANGED <<sub, args>>,
         UNCHANGED <<words, at>> \/ (words' = << >> /\ at' = 0),
         pc' \notin {"start", "parse", "sysdir", "help", "refused"}
  PROVE  ParseInv'
  <1>1. words' \in Seq(Alphabet) /\ at' \in 0 .. Len(words')
    <2>1. CASE UNCHANGED <<words, at>>
      BY <2>1 DEF ParseInv, LoopInv
    <2>2. CASE words' = << >> /\ at' = 0
      BY <2>2
    <2> QED
      BY <2>1, <2>2
  <1> QED
    BY <1>1 DEF ParseInv, LoopInv, ParsedAsDocumented, KtestTakesBuildFlags

LEMMA ParseInductive == ParseInv /\ [Next]_vars => ParseInv'
  <1> SUFFICES ASSUME ParseInv, [Next]_vars PROVE ParseInv'
    OBVIOUS
  <1>0. /\ LoopInv /\ sub \in Sub /\ words \in Seq(Alphabet) /\ at \in 0 .. Len(words)
        /\ args = [f \in Field(sub) |-> args[f]]
        /\ pc = "start" => sub = "build" /\ at = 0
    BY DEF ParseInv, LoopInv
  <1>1. CASE UNCHANGED vars
    BY <1>1 DEF vars, read, ParseInv, LoopInv, ParsedAsDocumented, KtestTakesBuildFlags, ReadBy,
         SoFar
  <1>2. CASE MainHelp
    <2>1. /\ pc' = "help" /\ words' = Raw /\ sub = "build" /\ at = 0 /\ UNCHANGED <<at, sub, args>>
          /\ Raw # << >> /\ Head(Raw) \in Help
      BY <1>0, <1>2 DEF MainHelp, Goto, First
    <2>2. Raw \in Seq(Alphabet) /\ Head(Raw) = Raw[1] /\ Len(Raw) \in Nat \ {0}
      BY <1>0, <2>1, RawWords
    <2>3. Help \cap (DOMAIN Options(sub) \cup DOMAIN Switches(sub) \cup {"--"}) = {}
      BY <2>1 DEF Help, Options, Switches, BuildOption, BuildSwitch
    <2>4. Upto(sub, Defaults(sub), Raw, 1, Defaults(sub))
      BY <1>0, NothingRead
    <2>5. 1 \in 1 .. Len(Raw) /\ Raw[1] \in Help
          /\ Raw[1] \notin DOMAIN Options(sub) \cup DOMAIN Switches(sub) \cup {"--"}
      BY <2>1, <2>2, <2>3
    <2>6. Expected(sub, Raw) = <<"help", None>>
      BY <1>0, <2>2, <2>4, <2>5, OtherRead
    <2>7. at' \in 0 .. Len(words')
      BY <2>1, <2>2
    <2> QED
      BY <1>0, <2>1, <2>2, <2>6, <2>7
         DEF ParseInv, LoopInv, ParsedAsDocumented, KtestTakesBuildFlags
  <1>3. CASE Subcommand \/ Bare
    <2>1. /\ pc' = "parse" /\ pc = "start" /\ at' = at /\ args' = Defaults(sub') /\ sub' \in Sub
          /\ words' = Raw \/ (Raw # << >> /\ words' = Tail(Raw))
      BY <1>3 DEF Subcommand, Bare, Goto, First, Sub
    <2>2. words' \in Seq(Alphabet)
      BY <1>0, <2>1, RawWords
    <2> QED
      BY <1>0, <2>1, <2>2, Begins
  <1>4. CASE TakeOption
    <2>1. CASE HasValue(Options(sub)[Word])
      <3>1. /\ pc = "parse" /\ pc' = pc /\ UNCHANGED <<words, sub>> /\ at' = at + 2
            /\ args' = [args EXCEPT ![Options(sub)[Word]] =
                          Meaning(Options(sub)[Word], words[at + 2])]
            /\ at + 1 < Len(words)
        BY <1>4, <2>1 DEF TakeOption, Reading, HasValue
      <3>2. \A s \in Sub : ReadBy(s)' => SoFar(s)'
        BY <1>0, <1>4, <2>1, <3>1, OptionTaken DEF ReadBy
      <3>3. args' = [f \in Field(sub) |-> args'[f]]
        BY <1>0, <3>1
      <3>4. at' \in 0 .. Len(words')
        BY <1>0, <3>1
      <3> QED
        BY <1>0, <3>1, <3>2, <3>3, <3>4
           DEF ParseInv, LoopInv, ParsedAsDocumented, KtestTakesBuildFlags
    <2>2. CASE ~HasValue(Options(sub)[Word])
      <3>1. LeaveParse("refused") /\ Reading /\ Word \in DOMAIN Options(sub)
        BY <1>4, <2>2 DEF TakeOption
      <3>2. ParsedAsDocumented' /\ KtestTakesBuildFlags'
        BY <1>0, <2>2, <3>1, LeavesAsDocumented
      <3> QED
        BY <1>0, <3>1, <3>2 DEF ParseInv, LoopInv, LeaveParse, read
    <2> QED
      BY <2>1, <2>2
  <1>5. CASE TakeSwitch
    <2>1. /\ pc = "parse" /\ pc' = pc /\ UNCHANGED <<words, sub>> /\ at' = at + 1
          /\ args' = [args EXCEPT ![Switches(sub)[Word][1]] = Switches(sub)[Word][2]]
          /\ at < Len(words)
      BY <1>5 DEF TakeSwitch, Reading
    <2>2. \A s \in Sub : ReadBy(s)' => SoFar(s)'
      BY <1>0, <1>5, <2>1, SwitchTaken DEF ReadBy
    <2>3. args' = [f \in Field(sub) |-> args'[f]]
      BY <1>0, <2>1
    <2>4. at' \in 0 .. Len(words')
      BY <1>0, <2>1
    <2> QED
      BY <1>0, <2>1, <2>2, <2>3, <2>4
         DEF ParseInv, LoopInv, ParsedAsDocumented, KtestTakesBuildFlags
  <1>6. CASE TakeRest
    <2>1. /\ pc = "parse" /\ pc' = pc /\ UNCHANGED <<words, sub>> /\ at' = Len(words)
          /\ args' = [args EXCEPT !["extra"] = args["extra"] \o SubSeq(words, at + 2, Len(words))]
      BY <1>6 DEF TakeRest, Reading
    <2>2. \A s \in Sub : ReadBy(s)' => SoFar(s)'
      BY <1>0, <1>6, <2>1, RestTaken DEF ReadBy
    <2>3. args' = [f \in Field(sub) |-> args'[f]]
      BY <1>0, <2>1
    <2>4. at' \in 0 .. Len(words')
      BY <1>0, <2>1
    <2> QED
      BY <1>0, <2>1, <2>2, <2>3, <2>4
         DEF ParseInv, LoopInv, ParsedAsDocumented, KtestTakesBuildFlags
  <1>7. CASE TakeOther
    <2> DEFINE to == IF Word \in Help THEN "help" ELSE "refused"
    <2>1. /\ LeaveParse(to) /\ Reading
          /\ Word \notin DOMAIN Options(sub) \cup DOMAIN Switches(sub) \cup {"--"}
          /\ to \in {"help", "refused"}
      BY <1>7 DEF TakeOther
    <2>2. ParsedAsDocumented' /\ KtestTakesBuildFlags'
      BY <1>0, <2>1, LeavesAsDocumented
    <2>3. pc' \in {"help", "refused"} /\ UNCHANGED <<words, at, sub, args>>
      BY <2>1 DEF LeaveParse, read
    <2> QED
      BY <1>0, <2>2, <2>3 DEF ParseInv, LoopInv
  <1>8. CASE EndOfWords
    <2>1. ParsedAsDocumented' /\ KtestTakesBuildFlags'
      BY <1>0, <1>8, EndsAsDocumented
    <2>2. pc' \in {"refused", "sysdir"} /\ UNCHANGED <<words, at, sub, args>>
      BY <1>8 DEF EndOfWords, LeaveParse, read
    <2> QED
      BY <1>0, <2>1, <2>2 DEF ParseInv, LoopInv
  <1>9. CASE ResolveSysdir
    BY <1>9, Elsewhere DEF ResolveSysdir, Goto
  <1>10. ASSUME \/ CheckMachine \/ Discover \/ TargetSpec \/ ReadLine \/ ReadName \/ RunCargo
                \/ Built \/ PickImage \/ QemuCommand
                \/ \E c \in Scripts : MakeLink(c) \/ ChooseTriple(c) \/ Generate(c)
                \/ \E from \in {"sysdir", "tools", "target", "manifest", "cargo", "scripts",
                                "qemu", "spawn"} : Missing(from)
         PROVE  ParseInv'
    <2>1. UNCHANGED read /\ pc' \notin {"start", "parse", "sysdir", "help", "refused"}
      BY <1>10 DEF CheckMachine, Discover, TargetSpec, ReadLine, ReadName, RunCargo, Built,
           PickImage, QemuCommand, MakeLink, ChooseTriple, Generate, Missing, Goto
    <2> QED
      BY <2>1, Elsewhere DEF read
  <1> QED
    BY <1>1, <1>2, <1>3, <1>4, <1>5, <1>6, <1>7, <1>8, <1>9, <1>10 DEF Next

\* Whatever the words, what the loops of build and ktest make of them is what the
\* help text says.
THEOREM ParsesAsDocumented == Spec => []ParsedAsDocumented
  <1>1. ParseInv => ParsedAsDocumented
    BY DEF ParseInv
  <1> QED
    BY <1>1, InitParse, ParseInductive, PTL DEF Spec

\* Whatever the words, ktest takes what build takes, and makes the same of it.
THEOREM KtestTakesBuilds == Spec => []KtestTakesBuildFlags
  <1>1. ParseInv => KtestTakesBuildFlags
    BY DEF ParseInv
  <1> QED
    BY <1>1, InitParse, ParseInductive, PTL DEF Spec
=============================================================================
