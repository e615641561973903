-------------------------- MODULE ImageCacheProofs --------------------------
(***************************************************************************)
(* Theorems about ImageCache, for any number of processes, images, chunks, *)
(* releases and inodes.                                                    *)
(***************************************************************************)
EXTENDS ImageCache, TLAPS

-----------------------------------------------------------------------------
(* Names and contents.                                                     *)

\* Where the names of an image belong.
LEMMA NameTypes ==
  ASSUME NEW u \in Urls
  PROVE  /\ {Xz(u), Expanded(u), Part(u), ExpandedPart(u)} \subseteq Names
         /\ {Xz(u), Expanded(u)} \subseteq Published(u)
         /\ {Part(u), ExpandedPart(u)} \subseteq Temporary(u)
         /\ \A k \in 1 .. MaxLinks : /\ <<Part(u), k>> \in Inodes
                                     /\ <<ExpandedPart(u), k>> \in Inodes
  BY DEF Names, Footprint, Published, Temporary, Inodes

LEMMA ContentTypes ==
  /\ Empty \in Content
  /\ \A c \in Chunk \cup {Hole} : Whole(c) \in Content
  /\ \A u \in Urls, v \in Versions : <<"xz", u, v>> \in Chunk /\ <<"raw", u, v>> \in Chunk
  BY DEF Empty, Whole, Content, Chunk

\* xz makes an image of a whole download and rejects everything else.
LEMMA DecompressedType ==
  ASSUME NEW c \in Content
  PROVE  Decompressed(c) \in Chunk \cup {Hole}
  <1>1. 1 \in 1 .. NChunks
    BY NAssumption
  <1>2. c[1] \in Chunk \cup {Hole}
    BY <1>1 DEF Content
  <1>3. CASE c[1] \in Chunk
    BY <1>3 DEF Decompressed, Chunk
  <1>4. CASE c[1] = Hole
    BY <1>4 DEF Decompressed
  <1> QED
    BY <1>2, <1>3, <1>4

-----------------------------------------------------------------------------
(* The names of the release images.                                         *)

\* Short sequences, written out.
LEMMA Short ==
  ASSUME NEW S, NEW s \in Seq(S)
  PROVE  /\ Len(s) = 1 => s = <<s[1]>>
         /\ Len(s) = 2 => s = <<s[1], s[2]>>
         /\ Len(s) = 3 => s = <<s[1], s[2], s[3]>>
  <1>1. ASSUME Len(s) = 1 PROVE s = <<s[1]>>
    BY <1>1
  <1>2. ASSUME Len(s) = 2 PROVE s = <<s[1], s[2]>>
    BY <1>2
  <1>3. ASSUME Len(s) = 3 PROVE s = <<s[1], s[2], s[3]>>
    BY <1>3
  <1> QED
    BY <1>1, <1>2, <1>3

\* with_extension on the names of the release images, <stem>.qcow2.xz.
LEMMA Extensions ==
  ASSUME NEW a
  PROVE  /\ Stem(<<a, "qcow2", "xz">>) = <<a, "qcow2">> /\ Stem(<<a, "qcow2">>) = <<a>>
         /\ <<a, "qcow2">> \o << >> = <<a, "qcow2">>
         /\ <<a, "qcow2">> \o <<"part">> = <<a, "qcow2", "part">>
         /\ <<a>> \o <<"qcow2", "part">> = <<a, "qcow2", "part">>
  <1> DEFINE S == {a, "qcow2", "xz", "part"}
  <1>0. /\ <<a>> \in Seq(S) /\ <<a, "qcow2">> \in Seq(S) /\ <<"part">> \in Seq(S)
        /\ <<a, "qcow2", "xz">> \in Seq(S) /\ <<"qcow2", "part">> \in Seq(S)
        /\ <<a, "qcow2", "part">> \in Seq(S)
    OBVIOUS
  <1>1. Stem(<<a, "qcow2", "xz">>) = <<a, "qcow2">>
    <2> DEFINE s == SubSeq(<<a, "qcow2", "xz">>, 1, 2)
    <2>1. s \in Seq(S) /\ Len(s) = 2 /\ s[1] = a /\ s[2] = "qcow2"
      OBVIOUS
    <2>2. s = <<a, "qcow2">>
      BY <1>0, <2>1, Short
    <2> QED
      BY <2>2 DEF Stem
  <1>2. Stem(<<a, "qcow2">>) = <<a>>
    <2> DEFINE s == SubSeq(<<a, "qcow2">>, 1, 1)
    <2>1. s \in Seq(S) /\ Len(s) = 1 /\ s[1] = a
      OBVIOUS
    <2>2. s = <<a>>
      BY <1>0, <2>1, Short
    <2> QED
      BY <2>2 DEF Stem
  <1>3. <<a, "qcow2">> \o << >> = <<a, "qcow2">>
    <2> DEFINE s == <<a, "qcow2">> \o << >>
    <2>1. s \in Seq(S) /\ Len(s) = 2 /\ s[1] = a /\ s[2] = "qcow2"
      BY <1>0
    <2> QED
      BY <1>0, <2>1, Short
  <1>4. <<a, "qcow2">> \o <<"part">> = <<a, "qcow2", "part">>
    <2> DEFINE s == <<a, "qcow2">> \o <<"part">>
    <2>1. s \in Seq(S) /\ Len(s) = 3 /\ s[1] = a /\ s[2] = "qcow2" /\ s[3] = "part"
      BY <1>0
    <2> QED
      BY <1>0, <2>1, Short
  <1>5. <<a>> \o <<"qcow2", "part">> = <<a, "qcow2", "part">>
    <2> DEFINE s == <<a>> \o <<"qcow2", "part">>
    <2>1. s \in Seq(S) /\ Len(s) = 3 /\ s[1] = a /\ s[2] = "qcow2" /\ s[3] = "part"
      BY <1>0
    <2> QED
      BY <1>0, <2>1, Short
  <1> QED
    BY <1>1, <1>2, <1>3, <1>4, <1>5

\* What NamesApart asks of names holds of the release images of any machines:
\* the two temporary names of one image are equal, and that is all they share.
LEMMA ReleaseNames ==
  ASSUME NEW stem, \A u \in Urls : FileName[u] = <<stem[u], "qcow2", "xz">>,
         \A u, w \in Urls : u # w => stem[u] # stem[w]
  PROVE  NamesApart
  <1>1. ASSUME NEW u \in Urls
        PROVE  /\ Xz(u) = <<stem[u], "qcow2", "xz">>
               /\ Expanded(u) = <<stem[u], "qcow2">>
               /\ Part(u) = <<stem[u], "qcow2", "part">>
               /\ ExpandedPart(u) = <<stem[u], "qcow2", "part">>
    BY Extensions DEF Xz, Expanded, Part, ExpandedPart, WithExtension
  <1> QED
    BY <1>1 DEF NamesApart, Published, Temporary, Footprint

-----------------------------------------------------------------------------
(* Types.                                                                  *)

\* What the locals of a run hold where it uses them.
Types ==
  /\ TypeOK
  /\ \A p \in Procs : pc[p] # "idle" => url[p] \in Urls
  /\ \A p \in Procs : pc[p] \in {"create", "stream", "publish"} => got[p] \in Versions
  /\ \A p \in Procs : pc[p] \in {"stream", "spawn", "xz"} => fd[p] \in Inodes

LEMMA FreeTypes == data \in [Inodes -> Content] /\ FreeUnused => data' \in [Inodes -> Content]
  BY ContentTypes DEF FreeUnused

LEMMA WriteTypes ==
  ASSUME data \in [Inodes -> Content], NEW i, NEW k, NEW c \in Chunk \cup {Hole}, Write(i, k, c)
  PROVE  data' \in [Inodes -> Content]
  BY DEF Write, Content

\* A new inode is one nobody uses.
LEMMA NewInodeUnused ==
  ASSUME NEW u \in Urls, NEW name \in Temporary(u), Spare(name) # {}
  PROVE  NewInode(name) \in Inodes /\ NewInode(name) \notin InUse
  <1> DEFINE k == CHOOSE i \in Spare(name) : TRUE
  <1>0. NewInode(name) = <<name, k>>
    BY DEF NewInode
  <1>1. k \in Spare(name)
    OBVIOUS
  <1> HIDE DEF k
  <1>2. k \in 1 .. MaxLinks /\ <<name, k>> \notin InUse
    BY <1>1 DEF Spare
  <1>3. name \in UNION {Temporary(w) : w \in Urls}
    OBVIOUS
  <1> QED
    BY <1>0, <1>2, <1>3 DEF Inodes

LEMMA CreateTypes ==
  ASSUME Types, NEW p \in Procs, NEW u \in Urls, NEW name \in Temporary(u), Create(p, name)
  PROVE  /\ data' \in [Inodes -> Content] /\ dir' \in [Names -> Inodes \cup {NoFile}]
         /\ fd' \in [Procs -> Inodes \cup {NoFile}]
         /\ fd'[p] \in Inodes /\ \A q \in Procs \ {p} : fd'[q] = fd[q]
  <1>0. name \in Names
    BY DEF Names, Footprint
  <1>1. CASE dir[name] # NoFile
    BY <1>0, <1>1, ContentTypes DEF Create, Types, TypeOK
  <1>2. CASE dir[name] = NoFile
    <2>1. NewInode(name) \in Inodes
      BY <1>2, NewInodeUnused DEF Create
    <2> QED
      BY <1>0, <1>2, <2>1 DEF Create, Types, TypeOK
  <1> QED
    BY <1>1, <1>2

LEMMA RenameTypes ==
  ASSUME Types, NEW from \in Names, NEW to \in Names, Rename(from, to)
  PROVE  dir' \in [Names -> Inodes \cup {NoFile}]
  BY DEF Rename, Types, TypeOK

\* A run that is over.
LEMMA ExitTypes ==
  ASSUME Types, NEW p \in Procs, Exit(p), FreeUnused, orphans' \subseteq Orphan
  PROVE  Types'
  <1>1. data' \in [Inodes -> Content]
    BY FreeTypes DEF Types, TypeOK
  <1>2. off' \in [Procs -> 0 .. NChunks]
    BY NAssumption DEF Exit, Types, TypeOK
  <1>3. TypeOK'
    BY <1>1, <1>2 DEF Exit, Types, TypeOK, PC
  <1>4. \A q \in Procs : pc'[q] # "idle" => q # p
    BY DEF Exit, Types, TypeOK
  <1>5. \A q \in Procs \ {p} : pc'[q] = pc[q] /\ url'[q] = url[q] /\ got'[q] = got[q] /\ fd'[q] = fd[q]
    BY DEF Exit, Types, TypeOK
  <1> QED
    BY <1>3, <1>4, <1>5 DEF Types

LEMMA TypesInductive == Types /\ [Next]_vars => Types'
  <1> SUFFICES ASSUME Types, [Next]_vars PROVE Types'
    OBVIOUS
  <1>1. ASSUME NEW p \in Procs, Step(p) PROVE Types'
    <2>1. ASSUME NEW u \in Urls, NEW f \in BOOLEAN, Start(p, u, f) PROVE Types'
      BY <2>1 DEF Start, Goto, Types, TypeOK, PC
    <2>2. CASE UseCached(p)
      BY <2>2 DEF UseCached, Goto, Types, TypeOK, PC
    <2>3. CASE Request(p)
      <3>1. remote[url[p]] \in Versions
        BY <2>3 DEF Request, Goto, Types, TypeOK
      <3> QED
        BY <2>3, <3>1 DEF Request, Goto, Types, TypeOK, PC
    <2>4. CASE CreatePart(p)
      <3>1. Part(url[p]) \in Temporary(url[p]) /\ url[p] \in Urls /\ got[p] \in Versions
        BY <2>4, NameTypes DEF CreatePart, Goto, Types
      <3>2. /\ data' \in [Inodes -> Content] /\ dir' \in [Names -> Inodes \cup {NoFile}]
            /\ fd' \in [Procs -> Inodes \cup {NoFile}]
            /\ fd'[p] \in Inodes /\ \A q \in Procs \ {p} : fd'[q] = fd[q]
        BY <2>4, <3>1, CreateTypes DEF CreatePart
      <3>3. <<"xz", url[p], got[p]>> \in Chunk
        BY <3>1, ContentTypes
      <3>4. 0 \in 0 .. NChunks
        BY NAssumption
      <3> QED
        BY <2>4, <3>1, <3>2, <3>3, <3>4 DEF CreatePart, Goto, Types, TypeOK, PC
    <2>5. CASE Receive(p)
      <3>1. data' \in [Inodes -> Content]
        BY <2>5, WriteTypes DEF Receive, Types, TypeOK
      <3>2. off[p] + 1 \in 0 .. NChunks
        BY <2>5, NAssumption DEF Receive, Types, TypeOK
      <3> QED
        BY <2>5, <3>1, <3>2 DEF Receive, Types, TypeOK
    <2>6. CASE EndOfBody(p)
      BY <2>6, FreeTypes DEF EndOfBody, Goto, Types, TypeOK, PC
    <2>7. CASE Publish(p)
      <3>1. Part(url[p]) \in Names /\ Xz(url[p]) \in Names
        BY <2>7, NameTypes DEF Publish, Goto, Types
      <3>2. data' \in [Inodes -> Content] /\ dir' \in [Names -> Inodes \cup {NoFile}]
        BY <2>7, <3>1, FreeTypes, RenameTypes DEF Publish, Types, TypeOK
      <3> QED
        BY <2>7, <3>2 DEF Publish, Goto, Types, TypeOK, PC
    <2>8. CASE UseExpanded(p)
      BY <2>8 DEF UseExpanded, Goto, Types, TypeOK, PC
    <2>9. CASE Expand(p)
      BY <2>9 DEF Expand, Goto, Types, TypeOK, PC
    <2>10. CASE CreateExpandedPart(p)
      <3>1. ExpandedPart(url[p]) \in Temporary(url[p]) /\ url[p] \in Urls
        BY <2>10, NameTypes DEF CreateExpandedPart, Goto, Types
      <3>2. /\ data' \in [Inodes -> Content] /\ dir' \in [Names -> Inodes \cup {NoFile}]
            /\ fd' \in [Procs -> Inodes \cup {NoFile}]
            /\ fd'[p] \in Inodes /\ \A q \in Procs \ {p} : fd'[q] = fd[q]
        BY <2>10, <3>1, CreateTypes DEF CreateExpandedPart
      <3> QED
        BY <2>10, <3>1, <3>2 DEF CreateExpandedPart, Goto, Types, TypeOK, PC
    <2>11. CASE SpawnXz(p)
      <3>1. Xz(url[p]) \in Names
        BY <2>11, NameTypes DEF SpawnXz, Goto, Types
      <3>2. data[dir[Xz(url[p])]] \in Content
        BY <2>11, <3>1 DEF SpawnXz, Types, TypeOK
      <3>3. Decompressed(data[dir[Xz(url[p])]]) \in Chunk \cup {Hole} /\ 0 \in 0 .. NChunks
        BY <3>2, DecompressedType, NAssumption
      <3> QED
        BY <2>11, <3>3 DEF SpawnXz, Goto, Types, TypeOK, PC
    <2>12. CASE XzWrite(p)
      <3>1. data' \in [Inodes -> Content]
        BY <2>12, WriteTypes DEF XzWrite, Types, TypeOK
      <3>2. off[p] + 1 \in 0 .. NChunks
        BY <2>12, NAssumption DEF XzWrite, Types, TypeOK
      <3> QED
        BY <2>12, <3>1, <3>2 DEF XzWrite, Types, TypeOK
    <2>13. CASE XzExit(p)
      BY <2>13, FreeTypes DEF XzExit, Goto, Types, TypeOK, PC
    <2>14. CASE Install(p)
      <3>1. ExpandedPart(url[p]) \in Names /\ Expanded(url[p]) \in Names
        BY <2>14, NameTypes DEF Install, Goto, Types
      <3>2. data' \in [Inodes -> Content] /\ dir' \in [Names -> Inodes \cup {NoFile}]
        BY <2>14, <3>1, FreeTypes, RenameTypes DEF Install, Types, TypeOK
      <3> QED
        BY <2>14, <3>2 DEF Install, Goto, Types, TypeOK, PC
    <2>15. CASE Boot(p)
      <3>1. dir[Expanded(url[p])] \in Inodes \cup {NoFile}
        BY <2>15, NameTypes DEF Boot, Goto, Types, TypeOK
      <3> QED
        BY <2>15, <3>1 DEF Boot, Goto, Types, TypeOK, PC
    <2>16. CASE Finish(p)
      BY <2>16, ExitTypes DEF Finish, Types, TypeOK
    <2>17. CASE Fail(p)
      BY <2>17, ExitTypes DEF Fail, Types, TypeOK
    <2>18. CASE Kill(p)
      <3>1. orphans' \subseteq Orphan
        <4>1. CASE UNCHANGED orphans
          BY <4>1 DEF Types, TypeOK
        <4>2. CASE pc[p] = "xz" /\ src[p] # Hole
                     /\ orphans' = {[dst |-> fd[p], off |-> off[p], src |-> src[p]]}
          BY <4>2 DEF Types, TypeOK, Orphan
        <4> QED
          BY <2>18, <4>1, <4>2 DEF Kill
      <3> QED
        BY <2>18, <3>1, ExitTypes DEF Kill
    <2> QED
      BY <1>1, <2>1, <2>2, <2>3, <2>4, <2>5, <2>6, <2>7, <2>8, <2>9,
         <2>10, <2>11, <2>12, <2>13, <2>14, <2>15, <2>16, <2>17, <2>18 DEF Step
  <1>2. ASSUME NEW o \in orphans, OrphanWrite(o) \/ OrphanExit(o) PROVE Types'
    <2>1. /\ o.src \in Chunk /\ o.off \in 0 .. NChunks
          /\ [o EXCEPT !.off = @ + 1] = [dst |-> o.dst, off |-> o.off + 1, src |-> o.src]
      BY DEF Types, TypeOK, Orphan
    <2>2. CASE OrphanWrite(o)
      <3>1. o.off + 1 \in 0 .. NChunks
        BY <2>1, <2>2, NAssumption DEF OrphanWrite
      <3>2. [o EXCEPT !.off = @ + 1] \in Orphan
        BY <2>1, <3>1 DEF Types, TypeOK, Orphan
      <3>3. data' \in [Inodes -> Content]
        BY <2>1, <2>2, WriteTypes DEF OrphanWrite, Types, TypeOK
      <3> QED
        BY <2>2, <3>2, <3>3 DEF OrphanWrite, Types, TypeOK
    <2>3. CASE OrphanExit(o)
      BY <2>3, FreeTypes DEF OrphanExit, Types, TypeOK
    <2> QED
      BY <1>2, <2>2, <2>3
  <1>3. ASSUME NEW u \in Urls, NewRelease(u) PROVE Types'
    BY <1>3, NAssumption DEF NewRelease, Types, TypeOK, Versions
  <1>4. CASE UNCHANGED vars
    BY <1>4 DEF vars, Types, TypeOK
  <1> QED
    BY <1>1, <1>2, <1>3, <1>4 DEF Next

LEMMA InitTypes == Init => Types
  BY NAssumption, ContentTypes DEF Init, Types, TypeOK, PC, Versions

\* Type correctness: every file a chunk at a time, every local where a run uses
\* it, with any overlap, orphan or short body.
THEOREM TypeCorrect == Spec => []TypeOK
  <1>1. Types => TypeOK
    BY DEF Types
  <1> QED
    BY <1>1, InitTypes, TypesInductive, PTL DEF Spec

-----------------------------------------------------------------------------
(* Runs that fill the cache without disturbing each other.                 *)

\* What the theorems on whole files suppose: the names keep apart, no two runs
\* fill the same names at once, and neither fault of the environment happens.
Alone == NamesApart /\ ~Overlap /\ ~OrphanXz /\ ~TruncatedBody

\* Runs fill different images, and a file has one name.
Separate ==
  /\ orphans = {}
  /\ \A p, q \in Procs : p # q /\ Filling(p) /\ Filling(q) => url[p] # url[q]
  /\ \A m, n \in Names : dir[m] = dir[n] /\ dir[m] # NoFile => m = n

\* What a run has open is its own temporary file.
Opens(p) ==
  /\ pc[p] = "stream" => fd[p] = dir[Part(url[p])]
  /\ pc[p] \in {"spawn", "xz"} => fd[p] = dir[ExpandedPart(url[p])]
  /\ pc[p] \notin {"stream", "spawn", "xz"} => fd[p] = NoFile

\* The base of a VM no longer has a temporary name.
Backs(p) ==
  pc[p] = "run" => vm[p] \in Inodes
                     /\ \A u \in Urls : \A n \in Temporary(u) : dir[n] # vm[p]

\* What a temporary file holds: a prefix while it is written, the whole after.
Fills(p) ==
  /\ pc[p] = "stream" =>
       /\ src[p] = <<"xz", url[p], got[p]>>
       /\ \A k \in 1 .. off[p] : data[fd[p]][k] = src[p]
  /\ pc[p] = "publish" =>
       /\ dir[Part(url[p])] # NoFile
       /\ data[dir[Part(url[p])]] = Whole(<<"xz", url[p], got[p]>>)
  /\ pc[p] = "xz" /\ src[p] # Hole =>
       /\ \E v \in Versions : src[p] = <<"raw", url[p], v>>
       /\ \A k \in 1 .. off[p] : data[fd[p]][k] = src[p]
  /\ pc[p] = "install" =>
       /\ dir[ExpandedPart(url[p])] # NoFile
       /\ \E v \in Versions :
            data[dir[ExpandedPart(url[p])]] = Whole(<<"raw", url[p], v>>)

\* Where a --fresh run finds what it downloaded.
Follows(p) ==
  fresh[p] =>
    /\ pc[p] \in {"expand", "xzfile", "spawn"} =>
         /\ dir[Xz(url[p])] # NoFile /\ got[p] \in Versions
         /\ data[dir[Xz(url[p])]] = Whole(<<"xz", url[p], got[p]>>)
    /\ pc[p] = "xz" /\ src[p] # Hole => src[p] = <<"raw", url[p], got[p]>>
    /\ pc[p] = "install" =>
         data[dir[ExpandedPart(url[p])]] = Whole(<<"raw", url[p], got[p]>>)
    /\ pc[p] = "boot" =>
         /\ dir[Expanded(url[p])] # NoFile
         /\ data[dir[Expanded(url[p])]] = Whole(<<"raw", url[p], got[p]>>)
    /\ pc[p] = "run" => data[vm[p]] = Whole(<<"raw", url[p], got[p]>>)

Disjoint == Separate /\ \A p \in Procs : Opens(p) /\ Backs(p)
Proceeds == \A p \in Procs : Fills(p) /\ Follows(p)

\* What the names of the program's images satisfy, name by name.
LEMMA Apart ==
  ASSUME NamesApart, NEW u \in Urls, NEW w \in Urls
  PROVE  /\ Xz(w) \notin Temporary(u) /\ Expanded(w) \notin Temporary(u)
         /\ Xz(u) # Expanded(w)
         /\ u # w => Footprint(u) \cap Footprint(w) = {}
  BY DEF NamesApart, Published

\* Freeing leaves alone what has a name, is open or backs a VM.
LEMMA Kept ==
  ASSUME FreeUnused, NEW i \in Inodes, i \in InUse'
  PROVE  data'[i] = data[i]
  BY DEF FreeUnused

LEMMA KeptNames ==
  ASSUME FreeUnused, NEW n \in Names, dir'[n] \in Inodes
  PROVE  data'[dir'[n]] = data[dir'[n]]
  <1>1. dir'[n] \in InUse'
    BY DEF InUse
  <1> QED
    BY <1>1, Kept

LEMMA KeptVms ==
  ASSUME FreeUnused, NEW q \in Procs, vm'[q] \in Inodes
  PROVE  data'[vm'[q]] = data[vm'[q]]
  <1>1. vm'[q] \in InUse'
    BY DEF InUse
  <1> QED
    BY <1>1, Kept

\* File::create opens the file of that name, emptied, or a new one nobody uses.
LEMMA Created ==
  ASSUME Types, NEW p \in Procs, NEW u \in Urls, NEW name \in Temporary(u), Create(p, name)
  PROVE  /\ fd'[p] = dir'[name] /\ dir'[name] \in Inodes
         /\ \A n \in Names \ {name} : dir'[n] = dir[n]
         /\ \A i \in Inodes : i # dir[name] => data'[i] = data[i]
         /\ \/ dir'[name] = dir[name]
            \/ /\ \A n \in Names : dir[n] # dir'[name]
               /\ \A q \in Procs : vm[q] # dir'[name]
  <1>0. name \in Names
    BY DEF Names, Footprint
  <1>1. CASE dir[name] # NoFile
    BY <1>0, <1>1 DEF Create, Types, TypeOK
  <1>2. CASE dir[name] = NoFile
    <2>1. NewInode(name) \in Inodes /\ NewInode(name) \notin InUse
      BY <1>2, NewInodeUnused DEF Create
    <2>2. \A n \in Names : dir[n] # NewInode(name)
      BY <2>1 DEF InUse
    <2>3. \A q \in Procs : vm[q] # NewInode(name)
      BY <2>1 DEF InUse
    <2>4. dir' = [dir EXCEPT ![name] = NewInode(name)] /\ data' = data
          /\ fd' = [fd EXCEPT ![p] = NewInode(name)]
      BY <1>2 DEF Create
    <2> QED
      BY <1>0, <2>1, <2>2, <2>3, <2>4 DEF Types, TypeOK
  <1> QED
    BY <1>1, <1>2

LEMMA Renamed ==
  ASSUME Types, NEW from \in Names, NEW to \in Names, from # to, Rename(from, to)
  PROVE  /\ dir'[to] = dir[from] /\ dir[from] \in Inodes /\ dir'[from] = NoFile
         /\ \A n \in Names \ {from, to} : dir'[n] = dir[n]
  BY DEF Rename, Types, TypeOK

-----------------------------------------------------------------------------
(* What a step of one run leaves alone.                                    *)

LEMMA OthersLocals ==
  ASSUME Types, NEW p \in Procs, Step(p), NEW q \in Procs, q # p
  PROVE  /\ pc'[q] = pc[q] /\ url'[q] = url[q] /\ fresh'[q] = fresh[q]
         /\ got'[q] = got[q] /\ fd'[q] = fd[q] /\ off'[q] = off[q]
         /\ src'[q] = src[q] /\ vm'[q] = vm[q]
  <1> DEFINE Same == /\ pc'[q] = pc[q] /\ url'[q] = url[q] /\ fresh'[q] = fresh[q]
                     /\ got'[q] = got[q] /\ fd'[q] = fd[q] /\ off'[q] = off[q]
                     /\ src'[q] = src[q] /\ vm'[q] = vm[q]
  <1>1. ASSUME NEW u \in Urls, NEW f \in BOOLEAN, Start(p, u, f) PROVE Same
    BY <1>1 DEF Start, Goto, Types, TypeOK
  <1>2. CASE UseCached(p)
    BY <1>2 DEF UseCached, Goto, Types, TypeOK
  <1>3. CASE Request(p)
    BY <1>3 DEF Request, Goto, Types, TypeOK
  <1>4. CASE CreatePart(p)
    BY <1>4 DEF CreatePart, Goto, Create, Types, TypeOK
  <1>5. CASE Receive(p)
    BY <1>5 DEF Receive, Goto, Types, TypeOK
  <1>6. CASE EndOfBody(p)
    BY <1>6 DEF EndOfBody, Goto, Types, TypeOK
  <1>7. CASE Publish(p)
    BY <1>7 DEF Publish, Goto, Types, TypeOK
  <1>8. CASE UseExpanded(p)
    BY <1>8 DEF UseExpanded, Goto, Types, TypeOK
  <1>9. CASE Expand(p)
    BY <1>9 DEF Expand, Goto, Types, TypeOK
  <1>10. CASE CreateExpandedPart(p)
    BY <1>10 DEF CreateExpandedPart, Goto, Create, Types, TypeOK
  <1>11. CASE SpawnXz(p)
    BY <1>11 DEF SpawnXz, Goto, Types, TypeOK
  <1>12. CASE XzWrite(p)
    BY <1>12 DEF XzWrite, Goto, Types, TypeOK
  <1>13. CASE XzExit(p)
    BY <1>13 DEF XzExit, Goto, Types, TypeOK
  <1>14. CASE Install(p)
    BY <1>14 DEF Install, Goto, Types, TypeOK
  <1>15. CASE Boot(p)
    BY <1>15 DEF Boot, Goto, Types, TypeOK
  <1>16. CASE Finish(p)
    BY <1>16 DEF Finish, Goto, Exit, Types, TypeOK
  <1>17. CASE Fail(p)
    BY <1>17 DEF Fail, Goto, Exit, Types, TypeOK
  <1>18. CASE Kill(p)
    BY <1>18 DEF Kill, Goto, Exit, Types, TypeOK
  <1> QED
    BY <1>1, <1>2, <1>3, <1>4, <1>5, <1>6, <1>7, <1>8, <1>9, <1>10, <1>11,
       <1>12, <1>13, <1>14, <1>15, <1>16, <1>17, <1>18 DEF Step

\* A step changes no names but the run's own, while it fills the cache.
LEMMA OthersNames ==
  ASSUME Types, NEW p \in Procs, Step(p), NEW n \in Names, dir'[n] # dir[n]
  PROVE  Filling(p) /\ n \in Footprint(url[p])
  <1> DEFINE Own == Filling(p) /\ n \in Footprint(url[p])
  <1>1. ASSUME NEW u \in Urls, NEW f \in BOOLEAN, Start(p, u, f) PROVE Own
    BY <1>1 DEF Start
  <1>2. CASE UseCached(p)
    BY <1>2 DEF UseCached
  <1>3. CASE Request(p)
    BY <1>3 DEF Request
  <1>4. CASE CreatePart(p)
    <2>1. url[p] \in Urls /\ Part(url[p]) \in Temporary(url[p])
      BY <1>4, NameTypes DEF CreatePart, Goto, Types
    <2>2. n = Part(url[p])
      BY <1>4, <2>1, Created DEF CreatePart
    <2> QED
      BY <1>4, <2>1, <2>2 DEF CreatePart, Goto, Filling, Footprint
  <1>5. CASE Receive(p)
    BY <1>5 DEF Receive
  <1>6. CASE EndOfBody(p)
    BY <1>6 DEF EndOfBody
  <1>7. CASE Publish(p)
    <2>1. /\ url[p] \in Urls /\ Part(url[p]) \in Temporary(url[p])
          /\ Xz(url[p]) \in Published(url[p])
      BY <1>7, NameTypes DEF Publish, Goto, Types
    <2>2. n \in {Part(url[p]), Xz(url[p])}
      BY <1>7 DEF Publish, Rename, Types, TypeOK
    <2> QED
      BY <1>7, <2>1, <2>2 DEF Publish, Goto, Filling, Footprint
  <1>8. CASE UseExpanded(p)
    BY <1>8 DEF UseExpanded
  <1>9. CASE Expand(p)
    BY <1>9 DEF Expand
  <1>10. CASE CreateExpandedPart(p)
    <2>1. url[p] \in Urls /\ ExpandedPart(url[p]) \in Temporary(url[p])
      BY <1>10, NameTypes DEF CreateExpandedPart, Goto, Types
    <2>2. n = ExpandedPart(url[p])
      BY <1>10, <2>1, Created DEF CreateExpandedPart
    <2> QED
      BY <1>10, <2>1, <2>2 DEF CreateExpandedPart, Goto, Filling, Footprint
  <1>11. CASE SpawnXz(p)
    BY <1>11 DEF SpawnXz
  <1>12. CASE XzWrite(p)
    BY <1>12 DEF XzWrite
  <1>13. CASE XzExit(p)
    BY <1>13 DEF XzExit
  <1>14. CASE Install(p)
    <2>1. /\ url[p] \in Urls /\ ExpandedPart(url[p]) \in Temporary(url[p])
          /\ Expanded(url[p]) \in Published(url[p])
      BY <1>14, NameTypes DEF Install, Goto, Types
    <2>2. n \in {ExpandedPart(url[p]), Expanded(url[p])}
      BY <1>14 DEF Install, Rename, Types, TypeOK
    <2> QED
      BY <1>14, <2>1, <2>2 DEF Install, Goto, Filling, Footprint
  <1>15. CASE Boot(p)
    BY <1>15 DEF Boot
  <1>16. CASE Finish(p)
    BY <1>16 DEF Finish, Exit
  <1>17. CASE Fail(p)
    BY <1>17 DEF Fail, Exit
  <1>18. CASE Kill(p)
    BY <1>18 DEF Kill, Exit
  <1> QED
    BY <1>1, <1>2, <1>3, <1>4, <1>5, <1>6, <1>7, <1>8, <1>9, <1>10, <1>11,
       <1>12, <1>13, <1>14, <1>15, <1>16, <1>17, <1>18 DEF Step

\* A step changes the content of no file in use but the run's own temporary one.
LEMMA OthersData ==
  ASSUME Types, Disjoint, NEW p \in Procs, Step(p),
         NEW i \in Inodes, i \in InUse', data'[i] # data[i]
  PROVE  Filling(p) /\ \E n \in Temporary(url[p]) : dir[n] = i
  <1> DEFINE Own == Filling(p) /\ \E n \in Temporary(url[p]) : dir[n] = i
  <1>1. ASSUME NEW u \in Urls, NEW f \in BOOLEAN, Start(p, u, f) PROVE Own
    BY <1>1 DEF Start
  <1>2. CASE UseCached(p)
    BY <1>2 DEF UseCached
  <1>3. CASE Request(p)
    BY <1>3 DEF Request
  <1>4. CASE CreatePart(p)
    <2>1. url[p] \in Urls /\ Part(url[p]) \in Temporary(url[p])
      BY <1>4, NameTypes DEF CreatePart, Goto, Types
    <2>2. dir[Part(url[p])] = i
      BY <1>4, <2>1, Created DEF CreatePart
    <2> QED
      BY <1>4, <2>1, <2>2 DEF CreatePart, Goto, Filling
  <1>5. CASE Receive(p)
    <2>1. url[p] \in Urls /\ Part(url[p]) \in Temporary(url[p]) /\ fd[p] = dir[Part(url[p])]
      BY <1>5, NameTypes DEF Receive, Types, Disjoint, Opens
    <2>2. i = fd[p]
      BY <1>5 DEF Receive, Write, Types, TypeOK
    <2> QED
      BY <1>5, <2>1, <2>2 DEF Receive, Filling
  <1>6. CASE EndOfBody(p)
    BY <1>6, Kept DEF EndOfBody
  <1>7. CASE Publish(p)
    BY <1>7, Kept DEF Publish
  <1>8. CASE UseExpanded(p)
    BY <1>8 DEF UseExpanded
  <1>9. CASE Expand(p)
    BY <1>9 DEF Expand
  <1>10. CASE CreateExpandedPart(p)
    <2>1. url[p] \in Urls /\ ExpandedPart(url[p]) \in Temporary(url[p])
      BY <1>10, NameTypes DEF CreateExpandedPart, Goto, Types
    <2>2. dir[ExpandedPart(url[p])] = i
      BY <1>10, <2>1, Created DEF CreateExpandedPart
    <2> QED
      BY <1>10, <2>1, <2>2 DEF CreateExpandedPart, Goto, Filling
  <1>11. CASE SpawnXz(p)
    BY <1>11 DEF SpawnXz
  <1>12. CASE XzWrite(p)
    <2>1. url[p] \in Urls /\ ExpandedPart(url[p]) \in Temporary(url[p]) /\ fd[p] = dir[ExpandedPart(url[p])]
      BY <1>12, NameTypes DEF XzWrite, Types, Disjoint, Opens
    <2>2. i = fd[p]
      BY <1>12 DEF XzWrite, Write, Types, TypeOK
    <2> QED
      BY <1>12, <2>1, <2>2 DEF XzWrite, Filling
  <1>13. CASE XzExit(p)
    BY <1>13, Kept DEF XzExit
  <1>14. CASE Install(p)
    BY <1>14, Kept DEF Install
  <1>15. CASE Boot(p)
    BY <1>15 DEF Boot
  <1>16. CASE Finish(p)
    BY <1>16, Kept DEF Finish
  <1>17. CASE Fail(p)
    BY <1>17, Kept DEF Fail
  <1>18. CASE Kill(p)
    BY <1>18, Kept DEF Kill
  <1> QED
    BY <1>1, <1>2, <1>3, <1>4, <1>5, <1>6, <1>7, <1>8, <1>9, <1>10, <1>11,
       <1>12, <1>13, <1>14, <1>15, <1>16, <1>17, <1>18 DEF Step

\* Another run's names and files are not touched while it fills them.
LEMMA OthersFiles ==
  ASSUME Types, NamesApart, Disjoint, NEW p \in Procs, Step(p),
         NEW q \in Procs, q # p, Filling(q), NEW n \in Footprint(url[q])
  PROVE  /\ n \in Names /\ dir'[n] = dir[n]
         /\ dir[n] # NoFile => dir[n] \in Inodes /\ data'[dir[n]] = data[dir[n]]
  <1>1. url[q] \in Urls /\ n \in Names
    BY DEF Types, Filling, Names
  <1>2. Filling(p) => url[p] \in Urls /\ n \notin Footprint(url[p])
    BY <1>1, Apart DEF Types, Filling, Disjoint, Separate
  <1>3. dir'[n] = dir[n]
    BY <1>1, <1>2, OthersNames
  <1>4. ASSUME dir[n] # NoFile, data'[dir[n]] # data[dir[n]]
        PROVE  FALSE
    <2>1. dir[n] \in Inodes
      BY <1>1, <1>4 DEF Types, TypeOK
    <2>2. dir[n] \in InUse'
      BY <1>1, <1>3 DEF InUse
    <2>3. PICK m \in Temporary(url[p]) : Filling(p) /\ dir[m] = dir[n]
      BY <1>4, <2>1, <2>2, OthersData
    <2>4. m \in Footprint(url[p]) /\ m \in Names
      BY <1>2, <2>3 DEF Footprint, Names
    <2> QED
      BY <1>1, <1>2, <1>4, <2>3, <2>4 DEF Disjoint, Separate
  <1> QED
    BY <1>1, <1>3, <1>4 DEF Types, TypeOK

\* Nor is the base of another run's VM.
LEMMA OthersVms ==
  ASSUME Types, Disjoint, NEW p \in Procs, Step(p), NEW q \in Procs, q # p, pc[q] = "run"
  PROVE  data'[vm[q]] = data[vm[q]]
  <1>1. vm'[q] = vm[q] /\ vm[q] \in Inodes
    BY OthersLocals DEF Disjoint, Backs
  <1>2. vm[q] \in InUse'
    BY <1>1 DEF InUse
  <1>3. Filling(p) => url[p] \in Urls
    BY DEF Types, Filling
  <1> QED
    BY <1>1, <1>2, <1>3, OthersData DEF Disjoint, Backs

\* What holds of a run's own files goes on holding while others take steps.
LEMMA OthersKeep ==
  ASSUME Types, NamesApart, Disjoint, Proceeds, NEW p \in Procs, Step(p), NEW q \in Procs, q # p
  PROVE  Opens(q)' /\ Fills(q)' /\ Follows(q)'
  <1>0. /\ pc'[q] = pc[q] /\ url'[q] = url[q] /\ fresh'[q] = fresh[q]
        /\ got'[q] = got[q] /\ fd'[q] = fd[q] /\ off'[q] = off[q]
        /\ src'[q] = src[q] /\ vm'[q] = vm[q]
    BY OthersLocals
  <1>1. /\ pc[q] \notin {"idle", "run"} <=> Filling(q)
        /\ {Xz(url[q]), Expanded(url[q]), Part(url[q]), ExpandedPart(url[q])} \subseteq Footprint(url[q])
    BY DEF Filling, Footprint, Published, Temporary
  <1>2. Opens(q) /\ Fills(q) /\ Follows(q)
    BY DEF Disjoint, Proceeds
  <1>3. Opens(q)'
    BY <1>0, <1>1, <1>2, OthersFiles DEF Opens
  <1>4. Fills(q)'
    <2>1. CASE pc[q] \in {"stream", "xz"}
      <3>1. fd[q] \in Inodes /\ data'[fd[q]] = data[fd[q]]
        <4>1. fd[q] \in Inodes /\ fd[q] # NoFile
          BY <2>1, NAssumption DEF Types
        <4>2. \E n \in Footprint(url[q]) : fd[q] = dir[n]
          BY <1>1, <1>2, <2>1 DEF Opens
        <4> QED
          BY <1>1, <2>1, <4>1, <4>2, OthersFiles
      <3> QED
        BY <1>0, <1>2, <2>1, <3>1 DEF Fills
    <2>2. CASE pc[q] = "publish"
      BY <1>0, <1>1, <1>2, <2>2, OthersFiles DEF Fills
    <2>3. CASE pc[q] = "install"
      BY <1>0, <1>1, <1>2, <2>3, OthersFiles DEF Fills
    <2>4. CASE pc[q] \notin {"stream", "xz", "publish", "install"}
      BY <1>0, <2>4 DEF Fills
    <2> QED
      BY <2>1, <2>2, <2>3, <2>4
  <1>5. Follows(q)'
    <2>1. CASE pc[q] \in {"expand", "xzfile", "spawn"}
      BY <1>0, <1>1, <1>2, <2>1, OthersFiles DEF Follows
    <2>2. CASE pc[q] = "install"
      BY <1>0, <1>1, <1>2, <2>2, OthersFiles DEF Follows, Fills
    <2>3. CASE pc[q] = "boot"
      BY <1>0, <1>1, <1>2, <2>3, OthersFiles DEF Follows
    <2>4. CASE pc[q] = "run"
      BY <1>0, <1>2, <2>4, OthersVms DEF Follows
    <2>5. CASE pc[q] \notin {"expand", "xzfile", "spawn", "install", "boot", "run"}
      BY <1>0, <1>2, <2>5 DEF Follows
    <2> QED
      BY <2>1, <2>2, <2>3, <2>4, <2>5
  <1> QED
    BY <1>3, <1>4, <1>5

-----------------------------------------------------------------------------
(* Runs stay disjoint.                                                     *)

\* A temporary name only ever gets a new file, or none.
LEMMA NewTemporaries ==
  ASSUME Types, NamesApart, NEW p \in Procs, Step(p),
         NEW u \in Urls, NEW n \in Temporary(u), dir'[n] # dir[n]
  PROVE  \/ dir'[n] = NoFile
         \/ /\ \A m \in Names : dir[m] # dir'[n]
            /\ \A q \in Procs : vm[q] # dir'[n]
  <1> DEFINE New == \/ dir'[n] = NoFile
                    \/ /\ \A m \in Names : dir[m] # dir'[n]
                       /\ \A q \in Procs : vm[q] # dir'[n]
  <1>0. n \in Names
    BY DEF Names, Footprint
  <1>1. ASSUME NEW w \in Urls, NEW f \in BOOLEAN, Start(p, w, f) PROVE New
    BY <1>1 DEF Start
  <1>2. CASE UseCached(p)
    BY <1>2 DEF UseCached
  <1>3. CASE Request(p)
    BY <1>3 DEF Request
  <1>4. CASE CreatePart(p)
    <2>1. url[p] \in Urls /\ Part(url[p]) \in Temporary(url[p])
      BY <1>4, NameTypes DEF CreatePart, Goto, Types
    <2> QED
      BY <1>4, <1>0, <2>1, Created DEF CreatePart
  <1>5. CASE Receive(p)
    BY <1>5 DEF Receive
  <1>6. CASE EndOfBody(p)
    BY <1>6 DEF EndOfBody
  <1>7. CASE Publish(p)
    <2>1. /\ url[p] \in Urls /\ Part(url[p]) \in Names /\ Xz(url[p]) \in Names
      BY <1>7, NameTypes DEF Publish, Goto, Types
    <2>2. n # Xz(url[p]) /\ Part(url[p]) # Xz(url[p])
      BY <2>1, Apart, NameTypes
    <2> QED
      BY <1>7, <1>0, <2>1, <2>2, Renamed DEF Publish
  <1>8. CASE UseExpanded(p)
    BY <1>8 DEF UseExpanded
  <1>9. CASE Expand(p)
    BY <1>9 DEF Expand
  <1>10. CASE CreateExpandedPart(p)
    <2>1. url[p] \in Urls /\ ExpandedPart(url[p]) \in Temporary(url[p])
      BY <1>10, NameTypes DEF CreateExpandedPart, Goto, Types
    <2> QED
      BY <1>10, <1>0, <2>1, Created DEF CreateExpandedPart
  <1>11. CASE SpawnXz(p)
    BY <1>11 DEF SpawnXz
  <1>12. CASE XzWrite(p)
    BY <1>12 DEF XzWrite
  <1>13. CASE XzExit(p)
    BY <1>13 DEF XzExit
  <1>14. CASE Install(p)
    <2>1. /\ url[p] \in Urls /\ ExpandedPart(url[p]) \in Names /\ Expanded(url[p]) \in Names
      BY <1>14, NameTypes DEF Install, Goto, Types
    <2>2. n # Expanded(url[p]) /\ ExpandedPart(url[p]) # Expanded(url[p])
      BY <2>1, Apart, NameTypes
    <2> QED
      BY <1>14, <1>0, <2>1, <2>2, Renamed DEF Install
  <1>15. CASE Boot(p)
    BY <1>15 DEF Boot
  <1>16. CASE Finish(p)
    BY <1>16 DEF Finish, Exit
  <1>17. CASE Fail(p)
    BY <1>17 DEF Fail, Exit
  <1>18. CASE Kill(p)
    BY <1>18 DEF Kill, Exit
  <1> QED
    BY <1>1, <1>2, <1>3, <1>4, <1>5, <1>6, <1>7, <1>8, <1>9, <1>10, <1>11,
       <1>12, <1>13, <1>14, <1>15, <1>16, <1>17, <1>18 DEF Step

\* No step gives a file a second name.
LEMMA OneName ==
  ASSUME Types, NamesApart, Disjoint, NEW p \in Procs, Step(p),
         NEW m \in Names, NEW n \in Names, dir'[m] = dir'[n], dir'[m] # NoFile
  PROVE  m = n
  <1>0. dir[m] = dir[n] /\ dir[m] # NoFile => m = n
    BY DEF Disjoint, Separate
  <1>1. ASSUME NEW u \in Urls, NEW f \in BOOLEAN, Start(p, u, f) PROVE m = n
    BY <1>1, <1>0 DEF Start
  <1>2. CASE UseCached(p)
    BY <1>2, <1>0 DEF UseCached
  <1>3. CASE Request(p)
    BY <1>3, <1>0 DEF Request
  <1>4. CASE CreatePart(p)
    <2>1. url[p] \in Urls /\ Part(url[p]) \in Temporary(url[p])
      BY <1>4, NameTypes DEF CreatePart, Goto, Types
    <2> QED
      BY <1>4, <1>0, <2>1, Created DEF CreatePart
  <1>5. CASE Receive(p)
    BY <1>5, <1>0 DEF Receive
  <1>6. CASE EndOfBody(p)
    BY <1>6, <1>0 DEF EndOfBody
  <1>7. CASE Publish(p)
    <2>1. url[p] \in Urls /\ Part(url[p]) \in Names /\ Xz(url[p]) \in Names
      BY <1>7, NameTypes DEF Publish, Goto, Types
    <2>2. Part(url[p]) # Xz(url[p])
      BY <2>1, Apart, NameTypes
    <2>3. /\ dir'[Xz(url[p])] = dir[Part(url[p])] /\ dir'[Part(url[p])] = NoFile
          /\ \A k \in Names \ {Part(url[p]), Xz(url[p])} : dir'[k] = dir[k]
      BY <1>7, <2>1, <2>2, Renamed DEF Publish
    <2> QED
      BY <2>1, <2>3 DEF Disjoint, Separate
  <1>8. CASE UseExpanded(p)
    BY <1>8, <1>0 DEF UseExpanded
  <1>9. CASE Expand(p)
    BY <1>9, <1>0 DEF Expand
  <1>10. CASE CreateExpandedPart(p)
    <2>1. url[p] \in Urls /\ ExpandedPart(url[p]) \in Temporary(url[p])
      BY <1>10, NameTypes DEF CreateExpandedPart, Goto, Types
    <2> QED
      BY <1>10, <1>0, <2>1, Created DEF CreateExpandedPart
  <1>11. CASE SpawnXz(p)
    BY <1>11, <1>0 DEF SpawnXz
  <1>12. CASE XzWrite(p)
    BY <1>12, <1>0 DEF XzWrite
  <1>13. CASE XzExit(p)
    BY <1>13, <1>0 DEF XzExit
  <1>14. CASE Install(p)
    <2>1. url[p] \in Urls /\ ExpandedPart(url[p]) \in Names /\ Expanded(url[p]) \in Names
      BY <1>14, NameTypes DEF Install, Goto, Types
    <2>2. ExpandedPart(url[p]) # Expanded(url[p])
      BY <2>1, Apart, NameTypes
    <2>3. /\ dir'[Expanded(url[p])] = dir[ExpandedPart(url[p])] /\ dir'[ExpandedPart(url[p])] = NoFile
          /\ \A k \in Names \ {ExpandedPart(url[p]), Expanded(url[p])} : dir'[k] = dir[k]
      BY <1>14, <2>1, <2>2, Renamed DEF Install
    <2> QED
      BY <2>1, <2>3 DEF Disjoint, Separate
  <1>15. CASE Boot(p)
    BY <1>15, <1>0 DEF Boot
  <1>16. CASE Finish(p)
    BY <1>16, <1>0 DEF Finish, Exit
  <1>17. CASE Fail(p)
    BY <1>17, <1>0 DEF Fail, Exit
  <1>18. CASE Kill(p)
    BY <1>18, <1>0 DEF Kill, Exit
  <1> QED
    BY <1>1, <1>2, <1>3, <1>4, <1>5, <1>6, <1>7, <1>8, <1>9, <1>10, <1>11,
       <1>12, <1>13, <1>14, <1>15, <1>16, <1>17, <1>18 DEF Step

\* A run keeps its image while it fills, and starts only where nobody fills.
LEMMA OwnImage ==
  ASSUME Types, Alone, NEW p \in Procs, Step(p), Filling(p)'
  PROVE  \/ Filling(p) /\ url'[p] = url[p]
         \/ \A q \in Procs : Filling(q) => url'[p] # url[q]
  <1> DEFINE Own == \/ Filling(p) /\ url'[p] = url[p]
                    \/ \A q \in Procs : Filling(q) => url'[p] # url[q]
  <1>1. ASSUME NEW u \in Urls, NEW f \in BOOLEAN, Start(p, u, f) PROVE Own
    <2>1. \A q \in Procs : Filling(q) => Footprint(url[q]) \cap Footprint(u) = {}
      BY <1>1 DEF Start, Alone
    <2>2. Footprint(u) # {} /\ url'[p] = u
      BY <1>1 DEF Start, Footprint, Published, Types, TypeOK
    <2> QED
      BY <2>1, <2>2
  <1>2. CASE UseCached(p)
    BY <1>2 DEF UseCached, Goto, Filling
  <1>3. CASE Request(p)
    BY <1>3 DEF Request, Goto, Filling
  <1>4. CASE CreatePart(p)
    BY <1>4 DEF CreatePart, Goto, Filling
  <1>5. CASE Receive(p)
    BY <1>5 DEF Receive, Goto, Filling
  <1>6. CASE EndOfBody(p)
    BY <1>6 DEF EndOfBody, Goto, Filling
  <1>7. CASE Publish(p)
    BY <1>7 DEF Publish, Goto, Filling
  <1>8. CASE UseExpanded(p)
    BY <1>8 DEF UseExpanded, Goto, Filling
  <1>9. CASE Expand(p)
    BY <1>9 DEF Expand, Goto, Filling
  <1>10. CASE CreateExpandedPart(p)
    BY <1>10 DEF CreateExpandedPart, Goto, Filling
  <1>11. CASE SpawnXz(p)
    BY <1>11 DEF SpawnXz, Goto, Filling
  <1>12. CASE XzWrite(p)
    BY <1>12 DEF XzWrite, Goto, Filling
  <1>13. CASE XzExit(p)
    BY <1>13 DEF XzExit, Goto, Filling
  <1>14. CASE Install(p)
    BY <1>14 DEF Install, Goto, Filling
  <1>15. CASE Boot(p)
    BY <1>15 DEF Boot, Goto, Filling
  <1>16. CASE Finish(p)
    BY <1>16 DEF Finish, Exit, Filling, Types, TypeOK
  <1>17. CASE Fail(p)
    BY <1>17 DEF Fail, Exit, Filling, Types, TypeOK
  <1>18. CASE Kill(p)
    BY <1>18 DEF Kill, Exit, Filling, Types, TypeOK
  <1> QED
    BY <1>1, <1>2, <1>3, <1>4, <1>5, <1>6, <1>7, <1>8, <1>9, <1>10, <1>11,
       <1>12, <1>13, <1>14, <1>15, <1>16, <1>17, <1>18 DEF Step

LEMMA SeparateStep ==
  ASSUME Types, Alone, Disjoint, NEW p \in Procs, Step(p)
  PROVE  Separate'
  <1>1. orphans' = {}
    BY DEF Disjoint, Separate, Alone, Step, Start, UseCached, Request, CreatePart,
           Receive, EndOfBody, Publish, UseExpanded, Expand, CreateExpandedPart,
           SpawnXz, XzWrite, XzExit, Install, Boot, Finish, Fail, Kill
  <1>2. ASSUME NEW q \in Procs, NEW r \in Procs, q # r, Filling(q)', Filling(r)'
        PROVE  url'[q] # url'[r]
    <2>0. \A s \in Procs \ {p} : url'[s] = url[s] /\ (Filling(s)' <=> Filling(s))
      BY OthersLocals DEF Filling
    <2>1. CASE q # p /\ r # p
      BY <1>2, <2>0, <2>1 DEF Disjoint, Separate
    <2>2. CASE q = p
      BY <1>2, <2>0, <2>2, OwnImage DEF Disjoint, Separate
    <2>3. CASE r = p
      BY <1>2, <2>0, <2>3, OwnImage DEF Disjoint, Separate
    <2> QED
      BY <2>1, <2>2, <2>3
  <1>3. \A m, n \in Names : dir'[m] = dir'[n] /\ dir'[m] # NoFile => m = n
    BY OneName DEF Alone
  <1> QED
    BY <1>1, <1>2, <1>3 DEF Separate

LEMMA OwnOpens ==
  ASSUME Types, Alone, Disjoint, NEW p \in Procs, Step(p)
  PROVE  Opens(p)'
  <1>0. Opens(p)
    BY DEF Disjoint
  <1>1. ASSUME NEW u \in Urls, NEW f \in BOOLEAN, Start(p, u, f) PROVE Opens(p)'
    BY <1>1, <1>0 DEF Start, Goto, Opens, Types, TypeOK
  <1>2. CASE UseCached(p)
    BY <1>2, <1>0 DEF UseCached, Goto, Opens, Types, TypeOK
  <1>3. CASE Request(p)
    BY <1>3, <1>0 DEF Request, Goto, Opens, Types, TypeOK
  <1>4. CASE CreatePart(p)
    <2>1. url[p] \in Urls /\ Part(url[p]) \in Temporary(url[p])
      BY <1>4, NameTypes DEF CreatePart, Goto, Types
    <2>2. fd'[p] = dir'[Part(url[p])]
      BY <1>4, <2>1, Created DEF CreatePart
    <2> QED
      BY <1>4, <2>2 DEF CreatePart, Goto, Opens, Types, TypeOK
  <1>5. CASE Receive(p)
    BY <1>5, <1>0 DEF Receive, Goto, Opens, Types, TypeOK
  <1>6. CASE EndOfBody(p)
    BY <1>6, <1>0 DEF EndOfBody, Goto, Opens, Types, TypeOK
  <1>7. CASE Publish(p)
    BY <1>7, <1>0 DEF Publish, Goto, Opens, Types, TypeOK
  <1>8. CASE UseExpanded(p)
    BY <1>8, <1>0 DEF UseExpanded, Goto, Opens, Types, TypeOK
  <1>9. CASE Expand(p)
    BY <1>9, <1>0 DEF Expand, Goto, Opens, Types, TypeOK
  <1>10. CASE CreateExpandedPart(p)
    <2>1. url[p] \in Urls /\ ExpandedPart(url[p]) \in Temporary(url[p])
      BY <1>10, NameTypes DEF CreateExpandedPart, Goto, Types
    <2>2. fd'[p] = dir'[ExpandedPart(url[p])]
      BY <1>10, <2>1, Created DEF CreateExpandedPart
    <2> QED
      BY <1>10, <2>2 DEF CreateExpandedPart, Goto, Opens, Types, TypeOK
  <1>11. CASE SpawnXz(p)
    BY <1>11, <1>0 DEF SpawnXz, Goto, Opens, Types, TypeOK
  <1>12. CASE XzWrite(p)
    BY <1>12, <1>0 DEF XzWrite, Goto, Opens, Types, TypeOK
  <1>13. CASE XzExit(p)
    BY <1>13, <1>0 DEF XzExit, Goto, Opens, Types, TypeOK
  <1>14. CASE Install(p)
    BY <1>14, <1>0 DEF Install, Goto, Opens, Types, TypeOK
  <1>15. CASE Boot(p)
    BY <1>15, <1>0 DEF Boot, Goto, Opens, Types, TypeOK
  <1>16. CASE Finish(p)
    BY <1>16, <1>0 DEF Finish, Goto, Exit, Opens, Types, TypeOK
  <1>17. CASE Fail(p)
    BY <1>17, <1>0 DEF Fail, Goto, Exit, Opens, Types, TypeOK
  <1>18. CASE Kill(p)
    BY <1>18, <1>0 DEF Kill, Goto, Exit, Opens, Types, TypeOK
  <1> QED
    BY <1>1, <1>2, <1>3, <1>4, <1>5, <1>6, <1>7, <1>8, <1>9, <1>10, <1>11,
       <1>12, <1>13, <1>14, <1>15, <1>16, <1>17, <1>18 DEF Step

LEMMA BacksStep ==
  ASSUME Types, Alone, Disjoint, NEW p \in Procs, Step(p), NEW q \in Procs
  PROVE  Backs(q)'
  <1> SUFFICES ASSUME pc'[q] = "run"
               PROVE  /\ vm'[q] \in Inodes
                      /\ \A u \in Urls : \A n \in Temporary(u) : dir'[n] # vm'[q]
    BY DEF Backs
  <1>1. CASE q # p
    <2>1. /\ pc[q] = "run" /\ vm'[q] = vm[q] /\ vm[q] \in Inodes /\ vm[q] # NoFile
          /\ \A u \in Urls : \A n \in Temporary(u) : dir[n] # vm[q]
      BY <1>1, OthersLocals, NAssumption DEF Disjoint, Backs
    <2> QED
      BY <2>1, NewTemporaries DEF Alone
  <1>2. CASE q = p
    <2>1. Boot(p)
      BY <1>2 DEF Step, Start, UseCached, Request, CreatePart, Receive, EndOfBody,
                  Publish, UseExpanded, Expand, CreateExpandedPart, SpawnXz, XzWrite,
                  XzExit, Install, Finish, Fail, Kill, Exit, Goto, Types, TypeOK
    <2>2. /\ url[p] \in Urls /\ Expanded(url[p]) \in Names /\ dir' = dir
          /\ dir[Expanded(url[p])] \in Inodes /\ vm'[p] = dir[Expanded(url[p])]
          /\ dir[Expanded(url[p])] # NoFile
      BY <2>1, NameTypes DEF Boot, Goto, Types, TypeOK
    <2>3. ASSUME NEW u \in Urls, NEW n \in Temporary(u) PROVE dir[n] # dir[Expanded(url[p])]
      <3>1. n \in Names /\ n # Expanded(url[p])
        BY <2>2, Apart DEF Names, Footprint, Alone
      <3> QED
        BY <2>2, <3>1 DEF Disjoint, Separate
    <2> QED
      BY <1>2, <2>2, <2>3
  <1> QED
    BY <1>1, <1>2

LEMMA DisjointInductive ==
  ASSUME Alone
  PROVE  Types /\ Disjoint /\ [Next]_vars => Disjoint'
  <1> SUFFICES ASSUME Types, Disjoint, [Next]_vars PROVE Disjoint'
    OBVIOUS
  <1>1. ASSUME NEW p \in Procs, Step(p) PROVE Disjoint'
    <2>1. ASSUME NEW q \in Procs, q # p PROVE Opens(q)'
      <3>1. /\ pc'[q] = pc[q] /\ url'[q] = url[q] /\ fd'[q] = fd[q] /\ Opens(q)
        BY <1>1, <2>1, OthersLocals DEF Disjoint
      <3>2. ASSUME pc[q] \in {"stream", "spawn", "xz"}
            PROVE  /\ dir'[Part(url[q])] = dir[Part(url[q])]
                   /\ dir'[ExpandedPart(url[q])] = dir[ExpandedPart(url[q])]
        <4>1. Filling(q) /\ {Part(url[q]), ExpandedPart(url[q])} \subseteq Footprint(url[q])
          BY <3>2 DEF Filling, Footprint, Temporary
        <4> QED
          BY <1>1, <2>1, <4>1, OthersFiles DEF Alone
      <3> QED
        BY <3>1, <3>2 DEF Opens
    <2>2. \A q \in Procs : Opens(q)'
      BY <1>1, <2>1, OwnOpens
    <2>3. \A q \in Procs : Backs(q)'
      BY <1>1, BacksStep
    <2> QED
      BY <1>1, <2>2, <2>3, SeparateStep DEF Disjoint
  <1>2. ASSUME NEW o \in orphans, OrphanWrite(o) \/ OrphanExit(o) PROVE Disjoint'
    BY <1>2 DEF Disjoint, Separate
  <1>3. ASSUME NEW u \in Urls, NewRelease(u) PROVE Disjoint'
    BY <1>3 DEF NewRelease, Disjoint, Separate, Opens, Backs, Filling
  <1>4. CASE UNCHANGED vars
    BY <1>4 DEF vars, Disjoint, Separate, Opens, Backs, Filling
  <1> QED
    BY <1>1, <1>2, <1>3, <1>4 DEF Next

-----------------------------------------------------------------------------
(* What a run's own files hold.                                            *)

\* A file filled to its last chunk is whole.
LEMMA Filled ==
  ASSUME NEW c \in Content, NEW s, \A k \in 1 .. NChunks : c[k] = s
  PROVE  c = Whole(s)
  BY DEF Content, Whole

\* xz makes the image of a release out of the whole download of that release.
LEMMA DecompressedWhole ==
  ASSUME NEW u, NEW v
  PROVE  Decompressed(Whole(<<"xz", u, v>>)) = <<"raw", u, v>>
  <1>1. Whole(<<"xz", u, v>>)[1] = <<"xz", u, v>>
    BY NAssumption DEF Whole
  <1>2. <<"xz", u, v>> # Hole /\ <<"xz", u, v>>[1] = "xz"
    BY DEF Hole
  <1> QED
    BY <1>1, <1>2 DEF Decompressed

\* One more chunk behind the prefix that is already there.
LEMMA Written ==
  ASSUME Types, NEW p \in Procs, fd[p] \in Inodes, off[p] < NChunks,
         Write(fd[p], off[p], src[p]), off' = [off EXCEPT ![p] = @ + 1],
         \A k \in 1 .. off[p] : data[fd[p]][k] = src[p]
  PROVE  \A k \in 1 .. off'[p] : data'[fd[p]][k] = src[p]
  <1>1. off[p] \in Nat /\ off'[p] = off[p] + 1 /\ off[p] + 1 \in 1 .. NChunks
    BY NAssumption DEF Types, TypeOK
  <1>2. data[fd[p]] \in Content /\ data'[fd[p]] = [data[fd[p]] EXCEPT ![off[p] + 1] = src[p]]
    BY DEF Write, Types, TypeOK
  <1>3. TAKE k \in 1 .. off'[p]
  <1>4. k \in 1 .. NChunks /\ (k = off[p] + 1 \/ k \in 1 .. off[p])
    BY <1>1, NAssumption
  <1>5. DOMAIN data[fd[p]] = 1 .. NChunks
    BY <1>2 DEF Content
  <1> QED
    BY <1>2, <1>4, <1>5

LEMMA OwnFiles ==
  ASSUME Types, Alone, Disjoint, Proceeds, CachedDownloadWhole, NEW p \in Procs, Step(p)
  PROVE  Fills(p)' /\ Follows(p)'
  <1> DEFINE Own == Fills(p)' /\ Follows(p)'
  <1> USE DEF Types, TypeOK
  <1>0. Opens(p) /\ Fills(p) /\ Follows(p)
    BY DEF Disjoint, Proceeds
  <1>1. ASSUME NEW u \in Urls, NEW f \in BOOLEAN, Start(p, u, f) PROVE Own
    BY <1>1 DEF Start, Goto, Fills, Follows
  <1>2. CASE UseCached(p)
    BY <1>2 DEF UseCached, Goto, Fills, Follows
  <1>3. CASE Request(p)
    BY <1>3 DEF Request, Goto, Fills, Follows
  <1>4. CASE CreatePart(p)
    BY <1>4 DEF CreatePart, Goto, Fills, Follows
  <1>5. CASE Receive(p)
    <2>1. /\ src[p] = <<"xz", url[p], got[p]>>
          /\ \A k \in 1 .. off'[p] : data'[fd[p]][k] = src[p]
      BY <1>0, <1>5, Written DEF Receive, Fills
    <2> QED
      BY <1>5, <2>1 DEF Receive, Fills, Follows
  <1>6. CASE EndOfBody(p)
    <2>1. /\ fd[p] \in Inodes /\ fd[p] = dir[Part(url[p])] /\ Part(url[p]) \in Names
          /\ dir' = dir /\ FreeUnused /\ off[p] = NChunks
      BY <1>0, <1>6, NameTypes DEF EndOfBody, Goto, Opens, Alone
    <2>2. data[fd[p]] = Whole(<<"xz", url[p], got[p]>>)
      BY <1>0, <1>6, <2>1, Filled DEF EndOfBody, Goto, Fills
    <2>3. data'[dir[Part(url[p])]] = data[fd[p]] /\ dir[Part(url[p])] # NoFile
      BY <2>1, KeptNames, NAssumption
    <2> QED
      BY <1>6, <2>1, <2>2, <2>3 DEF EndOfBody, Goto, Fills, Follows
  <1>7. CASE Publish(p)
    <2>1. /\ url[p] \in Urls /\ Part(url[p]) \in Names /\ Xz(url[p]) \in Names
          /\ Part(url[p]) # Xz(url[p]) /\ got[p] \in Versions /\ FreeUnused
      BY <1>7, NameTypes, Apart DEF Publish, Goto, Alone
    <2>2. dir'[Xz(url[p])] = dir[Part(url[p])] /\ dir[Part(url[p])] \in Inodes
      BY <1>7, <2>1, Renamed DEF Publish
    <2>3. data'[dir'[Xz(url[p])]] = Whole(<<"xz", url[p], got[p]>>)
      BY <1>0, <1>7, <2>1, <2>2, KeptNames DEF Publish, Goto, Fills
    <2> QED
      BY <1>7, <2>1, <2>2, <2>3, NAssumption DEF Publish, Goto, Fills, Follows
  <1>8. CASE UseExpanded(p)
    BY <1>8 DEF UseExpanded, Goto, Fills, Follows
  <1>9. CASE Expand(p)
    BY <1>0, <1>9 DEF Expand, Goto, Fills, Follows
  <1>10. CASE CreateExpandedPart(p)
    <2>1. /\ url[p] \in Urls /\ ExpandedPart(url[p]) \in Temporary(url[p])
          /\ {Xz(url[p]), ExpandedPart(url[p])} \subseteq Names
          /\ Xz(url[p]) # ExpandedPart(url[p])
      BY <1>10, NameTypes, Apart DEF CreateExpandedPart, Goto, Alone
    <2>2. dir'[Xz(url[p])] = dir[Xz(url[p])]
      BY <1>10, <2>1, Created DEF CreateExpandedPart
    <2>3. dir[Xz(url[p])] # NoFile => data'[dir[Xz(url[p])]] = data[dir[Xz(url[p])]]
      BY <1>10, <2>1, Created DEF CreateExpandedPart, Disjoint, Separate
    <2> QED
      BY <1>0, <1>10, <2>2, <2>3 DEF CreateExpandedPart, Goto, Fills, Follows
  <1>11. CASE SpawnXz(p)
    <2>1. PICK v \in Versions : data[dir[Xz(url[p])]] = Whole(<<"xz", url[p], v>>)
      BY <1>11 DEF SpawnXz, Goto, CachedDownloadWhole
    <2>2. src'[p] = <<"raw", url[p], v>> /\ off'[p] = 0
      BY <1>11, <2>1, DecompressedWhole DEF SpawnXz
    <2>3. fresh[p] => src'[p] = <<"raw", url[p], got[p]>>
      BY <1>0, <1>11, DecompressedWhole DEF SpawnXz, Goto, Follows
    <2> QED
      BY <1>11, <2>2, <2>3 DEF SpawnXz, Goto, Fills, Follows
  <1>12. CASE XzWrite(p)
    <2>1. /\ \E v \in Versions : src[p] = <<"raw", url[p], v>>
          /\ \A k \in 1 .. off'[p] : data'[fd[p]][k] = src[p]
      BY <1>0, <1>12, Written DEF XzWrite, Fills
    <2> QED
      BY <1>0, <1>12, <2>1 DEF XzWrite, Fills, Follows
  <1>13. CASE XzExit(p)
    <2>1. /\ fd[p] \in Inodes /\ fd[p] = dir[ExpandedPart(url[p])] /\ ExpandedPart(url[p]) \in Names
          /\ dir' = dir /\ FreeUnused
      BY <1>0, <1>13, NameTypes DEF XzExit, Goto, Opens
    <2>2. data[fd[p]] = Whole(src[p]) /\ \E v \in Versions : src[p] = <<"raw", url[p], v>>
      BY <1>0, <1>13, <2>1, Filled DEF XzExit, Goto, Fills
    <2>3. data'[dir[ExpandedPart(url[p])]] = data[fd[p]] /\ dir[ExpandedPart(url[p])] # NoFile
      BY <2>1, KeptNames, NAssumption
    <2>4. fresh[p] => src[p] = <<"raw", url[p], got[p]>>
      BY <1>0, <1>13 DEF XzExit, Goto, Follows
    <2> QED
      BY <1>13, <2>1, <2>2, <2>3, <2>4 DEF XzExit, Goto, Fills, Follows
  <1>14. CASE Install(p)
    <2>1. /\ url[p] \in Urls /\ ExpandedPart(url[p]) \in Names /\ Expanded(url[p]) \in Names
          /\ ExpandedPart(url[p]) # Expanded(url[p]) /\ FreeUnused
      BY <1>14, NameTypes, Apart DEF Install, Goto, Alone
    <2>2. dir'[Expanded(url[p])] = dir[ExpandedPart(url[p])] /\ dir[ExpandedPart(url[p])] \in Inodes
      BY <1>14, <2>1, Renamed DEF Install
    <2>3. data'[dir'[Expanded(url[p])]] = data[dir[ExpandedPart(url[p])]]
      BY <2>1, <2>2, KeptNames
    <2> QED
      BY <1>0, <1>14, <2>2, <2>3, NAssumption DEF Install, Goto, Fills, Follows
  <1>15. CASE Boot(p)
    BY <1>0, <1>15 DEF Boot, Goto, Fills, Follows
  <1>16. CASE Finish(p)
    BY <1>16 DEF Finish, Exit, Fills, Follows
  <1>17. CASE Fail(p)
    BY <1>17 DEF Fail, Exit, Fills, Follows
  <1>18. CASE Kill(p)
    BY <1>18 DEF Kill, Exit, Fills, Follows
  <1> QED
    BY <1>1, <1>2, <1>3, <1>4, <1>5, <1>6, <1>7, <1>8, <1>9, <1>10, <1>11,
       <1>12, <1>13, <1>14, <1>15, <1>16, <1>17, <1>18 DEF Step

-----------------------------------------------------------------------------
(* The cache and its guarantees.                                           *)

\* Only the two renames change what a final name stands for.
LEMMA Replaced ==
  ASSUME Types, NamesApart, NEW p \in Procs, Step(p),
         NEW u \in Urls, NEW n \in Published(u), dir'[n] # dir[n]
  PROVE  /\ url[p] = u
         /\ \/ Publish(p) /\ n = Xz(u)
            \/ Install(p) /\ n = Expanded(u)
  <1>1. n \in Names /\ n \in Footprint(u)
    BY DEF Names, Footprint
  <1>2. Filling(p) /\ n \in Footprint(url[p]) /\ url[p] \in Urls
    BY <1>1, OthersNames DEF Types, Filling
  <1>3. url[p] = u
    BY <1>1, <1>2, Apart
  <1>4. /\ {Part(u), ExpandedPart(u), Xz(u), Expanded(u)} \subseteq Names
        /\ {Part(u), ExpandedPart(u)} \subseteq Temporary(u)
        /\ n \notin {Part(u), ExpandedPart(u)} /\ n \in {Xz(u), Expanded(u)}
        /\ Part(u) # Xz(u) /\ ExpandedPart(u) # Expanded(u)
    BY NameTypes, Apart DEF Published
  <1>5. Publish(p) \/ Install(p) \/ CreatePart(p) \/ CreateExpandedPart(p)
    BY DEF Step, Start, UseCached, Request, Receive, EndOfBody, UseExpanded, Expand,
           SpawnXz, XzWrite, XzExit, Boot, Finish, Fail, Kill, Exit
  <1>6. ~CreatePart(p)
    BY <1>1, <1>3, <1>4, Created DEF CreatePart
  <1>7. ~CreateExpandedPart(p)
    BY <1>1, <1>3, <1>4, Created DEF CreateExpandedPart
  <1>8. Publish(p) => n = Xz(u)
    BY <1>1, <1>3, <1>4, Renamed DEF Publish
  <1>9. Install(p) => n = Expanded(u)
    BY <1>1, <1>3, <1>4, Renamed DEF Install
  <1> QED
    BY <1>3, <1>5, <1>6, <1>7, <1>8, <1>9

\* A file that keeps its final name keeps its content.
LEMMA PublishedKept ==
  ASSUME Types, NamesApart, Disjoint, NEW p \in Procs, Step(p),
         NEW u \in Urls, NEW n \in Published(u), dir'[n] = dir[n], dir[n] # NoFile
  PROVE  data'[dir[n]] = data[dir[n]]
  <1>1. n \in Names /\ dir[n] \in Inodes
    BY DEF Names, Footprint, Types, TypeOK
  <1>2. dir[n] \in InUse'
    BY <1>1 DEF InUse
  <1>3. SUFFICES ASSUME data'[dir[n]] # data[dir[n]] PROVE FALSE
    OBVIOUS
  <1>4. PICK m \in Temporary(url[p]) : Filling(p) /\ dir[m] = dir[n]
    BY <1>1, <1>2, <1>3, OthersData
  <1>5. url[p] \in Urls /\ m \in Names
    BY <1>4 DEF Types, Filling, Names, Footprint
  <1>6. m = n
    BY <1>1, <1>4, <1>5 DEF Disjoint, Separate
  <1> QED
    BY <1>4, <1>5, <1>6 DEF NamesApart

LEMMA CachedStep ==
  ASSUME Types, Alone, Disjoint, Proceeds, CachedDownloadWhole, CachedImageWhole,
         NEW p \in Procs, Step(p)
  PROVE  CachedDownloadWhole' /\ CachedImageWhole'
  <1>0. Fills(p)
    BY DEF Proceeds
  <1>1. ASSUME NEW u \in Urls, dir'[Xz(u)] # NoFile
        PROVE  \E v \in Versions : data'[dir'[Xz(u)]] = Whole(<<"xz", u, v>>)
    <2>0. Xz(u) \in Published(u) /\ {Part(u), Xz(u), Expanded(u)} \subseteq Names
          /\ Part(u) # Xz(u) /\ Xz(u) # Expanded(u)
      BY NameTypes, Apart DEF Alone
    <2>1. CASE dir'[Xz(u)] = dir[Xz(u)]
      BY <1>1, <2>0, <2>1, PublishedKept DEF Alone, CachedDownloadWhole
    <2>2. CASE dir'[Xz(u)] # dir[Xz(u)]
      <3>1. url[p] = u /\ Publish(p)
        BY <2>0, <2>2, Replaced DEF Alone
      <3>2. dir'[Xz(u)] = dir[Part(u)] /\ dir[Part(u)] \in Inodes /\ FreeUnused
        BY <2>0, <3>1, Renamed DEF Publish
      <3>3. data'[dir'[Xz(u)]] = Whole(<<"xz", u, got[p]>>) /\ got[p] \in Versions
        BY <1>0, <2>0, <3>1, <3>2, KeptNames DEF Publish, Goto, Fills, Types
      <3> QED
        BY <3>3
    <2> QED
      BY <2>1, <2>2
  <1>2. ASSUME NEW u \in Urls, dir'[Expanded(u)] # NoFile
        PROVE  \E v \in Versions : data'[dir'[Expanded(u)]] = Whole(<<"raw", u, v>>)
    <2>0. Expanded(u) \in Published(u) /\ {ExpandedPart(u), Xz(u), Expanded(u)} \subseteq Names
          /\ ExpandedPart(u) # Expanded(u) /\ Xz(u) # Expanded(u)
      BY NameTypes, Apart DEF Alone
    <2>1. CASE dir'[Expanded(u)] = dir[Expanded(u)]
      BY <1>2, <2>0, <2>1, PublishedKept DEF Alone, CachedImageWhole
    <2>2. CASE dir'[Expanded(u)] # dir[Expanded(u)]
      <3>1. url[p] = u /\ Install(p)
        BY <2>0, <2>2, Replaced DEF Alone
      <3>2. dir'[Expanded(u)] = dir[ExpandedPart(u)] /\ dir[ExpandedPart(u)] \in Inodes /\ FreeUnused
        BY <2>0, <3>1, Renamed DEF Install
      <3> QED
        BY <1>0, <2>0, <3>1, <3>2, KeptNames DEF Install, Goto, Fills
    <2> QED
      BY <2>1, <2>2
  <1> QED
    BY <1>1, <1>2 DEF CachedDownloadWhole, CachedImageWhole

\* The inductive invariant behind the theorems on whole files.
Inv == Types /\ Disjoint /\ Proceeds /\ CachedDownloadWhole /\ CachedImageWhole

LEMMA InitInv == Init => Inv
  <1> SUFFICES ASSUME Init PROVE Inv
    OBVIOUS
  <1>1. Types
    BY InitTypes
  <1>2. \A n \in Names : dir[n] = NoFile
    BY DEF Init
  <1>3. CachedDownloadWhole /\ CachedImageWhole
    BY <1>2, NameTypes DEF CachedDownloadWhole, CachedImageWhole
  <1>4. Disjoint
    BY <1>2 DEF Init, Disjoint, Separate, Opens, Backs, Filling
  <1>5. Proceeds
    BY DEF Init, Proceeds, Fills, Follows
  <1> QED
    BY <1>1, <1>3, <1>4, <1>5 DEF Inv

LEMMA InvInductive ==
  ASSUME Alone
  PROVE  Inv /\ [Next]_vars => Inv'
  <1> SUFFICES ASSUME Inv, [Next]_vars PROVE Inv'
    OBVIOUS
  <1>0. Types' /\ Disjoint'
    BY TypesInductive, DisjointInductive DEF Inv
  <1>1. ASSUME NEW p \in Procs, Step(p)
        PROVE  Proceeds' /\ CachedDownloadWhole' /\ CachedImageWhole'
    <2>1. \A q \in Procs : Fills(q)' /\ Follows(q)'
      BY <1>1, OthersKeep, OwnFiles DEF Inv, Alone
    <2> QED
      BY <1>1, <2>1, CachedStep DEF Inv, Proceeds
  <1>2. ASSUME NEW o \in orphans, OrphanWrite(o) \/ OrphanExit(o) PROVE FALSE
    BY <1>2 DEF Inv, Disjoint, Separate
  <1>3. ASSUME UNCHANGED <<dir, data, pc, url, fresh, got, fd, off, src, vm>>
        PROVE  Proceeds' /\ CachedDownloadWhole' /\ CachedImageWhole'
    <2>1. ASSUME NEW p \in Procs PROVE Fills(p)' /\ Follows(p)'
      BY <1>3 DEF Inv, Proceeds, Fills, Follows
    <2> QED
      BY <1>3, <2>1 DEF Inv, Proceeds, CachedDownloadWhole, CachedImageWhole
  <1>4. ASSUME (\E u \in Urls : NewRelease(u)) \/ UNCHANGED vars
        PROVE  UNCHANGED <<dir, data, pc, url, fresh, got, fd, off, src, vm>>
    BY <1>4 DEF NewRelease, vars
  <1> QED
    BY <1>0, <1>1, <1>2, <1>3, <1>4 DEF Next, Inv

\* A half-finished download is never cached: with runs that keep apart, a final
\* name holds one whole release, through every failure, kill and --fresh.
THEOREM DownloadsAreWhole ==
  ASSUME Alone
  PROVE  Spec => []CachedDownloadWhole
  <1>1. Inv => CachedDownloadWhole
    BY DEF Inv
  <1> QED
    BY <1>1, InitInv, InvInductive, PTL DEF Spec

\* Neither is a half-decompressed image.
THEOREM ImagesAreWhole ==
  ASSUME Alone
  PROVE  Spec => []CachedImageWhole
  <1>1. Inv => CachedImageWhole
    BY DEF Inv
  <1> QED
    BY <1>1, InitInv, InvInductive, PTL DEF Spec

\* The VM of a --fresh run is backed by the release that run downloaded.
THEOREM FreshIsFresh ==
  ASSUME Alone
  PROVE  Spec => []FreshBootsDownload
  <1>1. Inv => FreshBootsDownload
    BY DEF Inv, Proceeds, Follows, FreshBootsDownload
  <1> QED
    BY <1>1, InitInv, InvInductive, PTL DEF Spec

\* No run changes the base image of a VM another run has up, and a run whose VM
\* is up changes no image at all.
THEOREM BaseIsStable ==
  ASSUME Alone
  PROVE  Spec => BaseNeverMutated
  <1>1. ASSUME Inv, [Next]_vars, NEW p \in Procs, pc[p] = "run", pc'[p] = "run"
        PROVE  data'[vm[p]] = data[vm[p]]
    <2>1. ASSUME NEW q \in Procs, Step(q) PROVE data'[vm[p]] = data[vm[p]]
      <3>1. CASE q # p
        BY <1>1, <2>1, <3>1, OthersVms DEF Inv
      <3>2. CASE q = p
        BY <1>1, <2>1, <3>2
           DEF Step, Start, UseCached, Request, CreatePart, Receive, EndOfBody, Publish,
               UseExpanded, Expand, CreateExpandedPart, SpawnXz, XzWrite, XzExit, Install,
               Boot, Finish, Fail, Kill, Exit, Goto, Inv, Types, TypeOK
      <3> QED
        BY <3>1, <3>2
    <2>2. ASSUME NEW o \in orphans, OrphanWrite(o) \/ OrphanExit(o) PROVE FALSE
      BY <1>1, <2>2 DEF Inv, Disjoint, Separate
    <2>3. CASE \E u \in Urls : NewRelease(u)
      BY <2>3 DEF NewRelease
    <2>4. CASE UNCHANGED vars
      BY <2>4 DEF vars
    <2> QED
      BY <1>1, <2>1, <2>2, <2>3, <2>4 DEF Next
  <1>2. Inv /\ [Next]_vars =>
          [\A p \in Procs : pc[p] = "run" /\ pc'[p] = "run" => data'[vm[p]] = data[vm[p]]]_vars
    BY <1>1
  <1> QED
    BY <1>2, InitInv, InvInductive, PTL DEF Spec, BaseNeverMutated

\* A name once cached stays cached, whatever overlaps, fails, is killed, is left
\* orphaned or is cut short.
THEOREM CacheGrows ==
  ASSUME NamesApart
  PROVE  Spec => CacheNeverShrinks
  <1>1. ASSUME Types, [Next]_vars, NEW u \in Urls, NEW n \in Published(u), dir[n] # NoFile
        PROVE  dir'[n] # NoFile
    <2>1. ASSUME NEW p \in Procs, Step(p), dir'[n] # dir[n] PROVE dir'[n] # NoFile
      <3>1. {Part(u), ExpandedPart(u), Xz(u), Expanded(u)} \subseteq Names
            /\ Part(u) # Xz(u) /\ ExpandedPart(u) # Expanded(u)
        BY NameTypes, Apart
      <3>2. CASE Publish(p) /\ n = Xz(u) /\ url[p] = u
        BY <1>1, <3>1, <3>2, Renamed, NAssumption DEF Publish
      <3>3. CASE Install(p) /\ n = Expanded(u) /\ url[p] = u
        BY <1>1, <3>1, <3>3, Renamed, NAssumption DEF Install
      <3> QED
        BY <1>1, <2>1, <3>2, <3>3, Replaced
    <2>2. ASSUME NEW o \in orphans, OrphanWrite(o) \/ OrphanExit(o) PROVE dir' = dir
      BY <2>2 DEF OrphanWrite, OrphanExit
    <2>3. CASE \E w \in Urls : NewRelease(w)
      BY <1>1, <2>3 DEF NewRelease
    <2>4. CASE UNCHANGED vars
      BY <1>1, <2>4 DEF vars
    <2> QED
      BY <1>1, <2>1, <2>2, <2>3, <2>4 DEF Next
  <1>2. Types /\ [Next]_vars =>
          [\A u \in Urls : \A n \in Published(u) : dir[n] # NoFile => dir'[n] # NoFile]_vars
    BY <1>1
  <1> QED
    BY <1>2, InitTypes, TypesInductive, PTL DEF Spec, CacheNeverShrinks
=============================================================================
