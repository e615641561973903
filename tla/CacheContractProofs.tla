------------------------ MODULE CacheContractProofs ------------------------
(***************************************************************************)
(* The image cache implements CacheContract, whatever fails or is killed,  *)
(* under the suppositions of ImageCacheProofs (Alone).                     *)
(***************************************************************************)
EXTENDS ImageCacheProofs

LEMMA SameWhole ==
  ASSUME NEW kind, NEW u, NEW v, NEW w, Whole(<<kind, u, v>>) = Whole(<<kind, u, w>>)
  PROVE  v = w
  <1>1. Whole(<<kind, u, v>>)[1] = <<kind, u, v>> /\ Whole(<<kind, u, w>>)[1] = <<kind, u, w>>
    BY NAssumption DEF Whole
  <1> QED
    BY <1>1

\* A whole file stands for one release.
LEMMA ReleaseOf ==
  ASSUME NEW kind, NEW u, NEW i, i # NoFile,
         NEW v \in Versions, data[i] = Whole(<<kind, u, v>>)
  PROVE  Release(kind, u, i) = v
  <1> DEFINE R == CHOOSE w \in Versions : data[i] = Whole(<<kind, u, w>>)
  <1>1. R \in Versions /\ data[i] = Whole(<<kind, u, R>>)
    OBVIOUS
  <1>2. R = v
    BY <1>1, SameWhole
  <1> QED
    BY <1>2 DEF Release

-----------------------------------------------------------------------------
(* Releases only get newer, and images follow downloads.                   *)

\* A run that fetches holds a release between the cached one and the one served.
Newer(p) ==
  pc[p] \in {"create", "stream", "publish"} =>
    /\ got[p] <= remote[url[p]]
    /\ \A v \in Versions :
         dir[Xz(url[p])] # NoFile /\ data[dir[Xz(url[p])]] = Whole(<<"xz", url[p], v>>) =>
           v <= got[p]

\* The image a run makes is of the release in the download beside it.
Beside(p) ==
  /\ pc[p] = "xz" /\ src[p] # Hole =>
       \E v \in Versions : /\ src[p] = <<"raw", url[p], v>>
                           /\ dir[Xz(url[p])] # NoFile
                           /\ data[dir[Xz(url[p])]] = Whole(<<"xz", url[p], v>>)
  /\ pc[p] = "install" =>
       \E v \in Versions : /\ data[dir[ExpandedPart(url[p])]] = Whole(<<"raw", url[p], v>>)
                           /\ dir[Xz(url[p])] # NoFile
                           /\ data[dir[Xz(url[p])]] = Whole(<<"xz", url[p], v>>)

\* The base of a VM is a whole image of its URL.
Based(p) == pc[p] = "run" => \E v \in Versions : data[vm[p]] = Whole(<<"raw", url[p], v>>)

Served ==
  \A u \in Urls, v \in Versions :
    dir[Xz(u)] # NoFile /\ data[dir[Xz(u)]] = Whole(<<"xz", u, v>>) => v <= remote[u]

Ages == Served /\ \A p \in Procs : Newer(p) /\ Beside(p) /\ Based(p)

\* What a run that is not this step's sees of its URL stays.
LEMMA OthersAge ==
  ASSUME Types, NamesApart, Disjoint, Proceeds, Ages, remote' = remote,
         NEW p \in Procs, Step(p), NEW q \in Procs, q # p
  PROVE  Newer(q)' /\ Beside(q)' /\ Based(q)'
  <1>0. /\ pc'[q] = pc[q] /\ url'[q] = url[q] /\ got'[q] = got[q] /\ src'[q] = src[q]
        /\ vm'[q] = vm[q]
    BY OthersLocals
  <1>1. Newer(q) /\ Beside(q) /\ Based(q) /\ Fills(q)
    BY DEF Ages, Proceeds
  <1>2. {Xz(url[q]), ExpandedPart(url[q])} \subseteq Footprint(url[q])
    BY DEF Footprint, Published, Temporary
  <1>3. ASSUME Filling(q)
        PROVE  /\ dir'[Xz(url[q])] = dir[Xz(url[q])]
               /\ dir[Xz(url[q])] # NoFile =>
                    data'[dir[Xz(url[q])]] = data[dir[Xz(url[q])]]
               /\ dir'[ExpandedPart(url[q])] = dir[ExpandedPart(url[q])]
               /\ dir[ExpandedPart(url[q])] # NoFile =>
                    data'[dir[ExpandedPart(url[q])]] = data[dir[ExpandedPart(url[q])]]
    BY <1>2, <1>3, OthersFiles
  <1>4. Newer(q)'
    BY <1>0, <1>1, <1>3 DEF Newer, Filling
  <1>5. Beside(q)'
    BY <1>0, <1>1, <1>3 DEF Beside, Filling, Fills
  <1>6. Based(q)'
    BY <1>0, <1>1, OthersVms DEF Based
  <1> QED
    BY <1>4, <1>5, <1>6

\* The download of a URL changes only when it is published, to what was fetched.
LEMMA DownloadStep ==
  ASSUME Types, Alone, Disjoint, Proceeds, NEW p \in Procs, Step(p), NEW u \in Urls
  PROVE  \/ /\ Publish(p) /\ url[p] = u /\ dir'[Xz(u)] # NoFile /\ got[p] \in Versions
            /\ data'[dir'[Xz(u)]] = Whole(<<"xz", u, got[p]>>)
         \/ /\ dir'[Xz(u)] = dir[Xz(u)]
            /\ dir[Xz(u)] # NoFile => data'[dir[Xz(u)]] = data[dir[Xz(u)]]
  <1>0. Xz(u) \in Published(u) /\ {Part(u), Xz(u), Expanded(u)} \subseteq Names
        /\ Part(u) # Xz(u) /\ Xz(u) # Expanded(u)
    BY NameTypes, Apart DEF Alone
  <1>1. CASE dir'[Xz(u)] = dir[Xz(u)]
    BY <1>0, <1>1, PublishedKept DEF Alone
  <1>2. CASE dir'[Xz(u)] # dir[Xz(u)]
    <2>1. url[p] = u /\ Publish(p)
      BY <1>0, <1>2, Replaced DEF Alone
    <2>2. dir'[Xz(u)] = dir[Part(u)] /\ dir[Part(u)] \in Inodes /\ FreeUnused
      BY <1>0, <2>1, Renamed DEF Publish
    <2>3. data'[dir'[Xz(u)]] = Whole(<<"xz", u, got[p]>>) /\ got[p] \in Versions
      BY <1>0, <2>1, <2>2, KeptNames DEF Publish, Goto, Fills, Types, Proceeds
    <2> QED
      BY <2>1, <2>2, <2>3, NAssumption
  <1> QED
    BY <1>1, <1>2

\* And the image, when it is installed, to one of the download beside it.
LEMMA ImageStep ==
  ASSUME Types, Alone, Disjoint, Ages, NEW p \in Procs, Step(p), NEW u \in Urls
  PROVE  \/ /\ Install(p) /\ url[p] = u /\ dir'[Expanded(u)] # NoFile /\ dir[Xz(u)] # NoFile
            /\ \E v \in Versions : /\ data'[dir'[Expanded(u)]] = Whole(<<"raw", u, v>>)
                                   /\ data[dir[Xz(u)]] = Whole(<<"xz", u, v>>)
         \/ /\ dir'[Expanded(u)] = dir[Expanded(u)]
            /\ dir[Expanded(u)] # NoFile => data'[dir[Expanded(u)]] = data[dir[Expanded(u)]]
  <1>0. Expanded(u) \in Published(u) /\ {ExpandedPart(u), Xz(u), Expanded(u)} \subseteq Names
        /\ ExpandedPart(u) # Expanded(u) /\ Xz(u) # Expanded(u)
    BY NameTypes, Apart DEF Alone
  <1>1. CASE dir'[Expanded(u)] = dir[Expanded(u)]
    BY <1>0, <1>1, PublishedKept DEF Alone
  <1>2. CASE dir'[Expanded(u)] # dir[Expanded(u)]
    <2>1. url[p] = u /\ Install(p)
      BY <1>0, <1>2, Replaced DEF Alone
    <2>2. dir'[Expanded(u)] = dir[ExpandedPart(u)] /\ dir[ExpandedPart(u)] \in Inodes /\ FreeUnused
      BY <1>0, <2>1, Renamed DEF Install
    <2>3. data'[dir'[Expanded(u)]] = data[dir[ExpandedPart(u)]]
      BY <1>0, <2>2, KeptNames
    <2>4. Beside(p) /\ pc[p] = "install"
      BY <2>1 DEF Ages, Install, Goto
    <2> QED
      BY <2>1, <2>2, <2>3, <2>4, NAssumption DEF Beside
  <1> QED
    BY <1>1, <1>2

LEMMA ServedStep ==
  ASSUME Types, Alone, Disjoint, Proceeds, Ages, remote' = remote, NEW p \in Procs, Step(p)
  PROVE  Served'
  <1> SUFFICES ASSUME NEW u \in Urls, NEW v \in Versions, dir'[Xz(u)] # NoFile,
                      data'[dir'[Xz(u)]] = Whole(<<"xz", u, v>>)
               PROVE  v <= remote[u]
    BY DEF Served
  <1>1. CASE /\ Publish(p) /\ url[p] = u /\ got[p] \in Versions
             /\ data'[dir'[Xz(u)]] = Whole(<<"xz", u, got[p]>>)
    <2>1. got[p] <= remote[u]
      BY <1>1 DEF Publish, Goto, Ages, Newer
    <2>2. v = got[p]
      BY <1>1, SameWhole
    <2> QED
      BY <2>1, <2>2
  <1>2. CASE dir'[Xz(u)] = dir[Xz(u)] /\ data'[dir[Xz(u)]] = data[dir[Xz(u)]]
    BY <1>2 DEF Ages, Served
  <1> QED
    BY <1>1, <1>2, DownloadStep

LEMMA OwnAge ==
  ASSUME Types, Alone, Disjoint, Proceeds, CachedDownloadWhole, CachedImageWhole, Ages,
         NEW p \in Procs, Step(p)
  PROVE  Newer(p)' /\ Beside(p)' /\ Based(p)'
  <1> DEFINE Own == Newer(p)' /\ Beside(p)' /\ Based(p)'
             Stays == /\ dir'[Xz(url[p])] = dir[Xz(url[p])]
                      /\ dir[Xz(url[p])] # NoFile =>
                           data'[dir[Xz(url[p])]] = data[dir[Xz(url[p])]]
  <1> USE DEF Types, TypeOK
  <1>0. Newer(p) /\ Beside(p) /\ Based(p) /\ Fills(p) /\ Opens(p)
    BY DEF Ages, Proceeds, Disjoint
  <1>a. ASSUME url[p] \in Urls, ~Publish(p) PROVE Stays
    BY <1>a, DownloadStep
  <1>1. ASSUME NEW u \in Urls, NEW f \in BOOLEAN, Start(p, u, f) PROVE Own
    BY <1>1 DEF Start, Goto, Newer, Beside, Based
  <1>2. CASE UseCached(p)
    BY <1>2 DEF UseCached, Goto, Newer, Beside, Based
  <1>3. CASE Request(p)
    <2>1. got'[p] = remote[url[p]] /\ url[p] \in Urls /\ pc'[p] = "create"
      BY <1>3 DEF Request, Goto
    <2>2. remote[url[p]] \in Nat
      BY <2>1, NAssumption DEF Versions
    <2> QED
      BY <1>3, <2>1, <2>2 DEF Request, Goto, Newer, Beside, Based, Ages, Served
  <1>4. CASE CreatePart(p)
    <2>1. Stays /\ url[p] \in Urls
      BY <1>4, <1>a DEF CreatePart, Publish, Goto
    <2> QED
      BY <1>0, <1>4, <2>1 DEF CreatePart, Goto, Newer, Beside, Based
  <1>5. CASE Receive(p)
    <2>1. Stays /\ url[p] \in Urls
      BY <1>5, <1>a DEF Receive, Publish, Goto
    <2> QED
      BY <1>0, <1>5, <2>1 DEF Receive, Newer, Beside, Based
  <1>6. CASE EndOfBody(p)
    <2>1. Stays /\ url[p] \in Urls
      BY <1>6, <1>a DEF EndOfBody, Publish, Goto
    <2> QED
      BY <1>0, <1>6, <2>1 DEF EndOfBody, Goto, Newer, Beside, Based
  <1>7. CASE Publish(p)
    BY <1>7 DEF Publish, Goto, Newer, Beside, Based
  <1>8. CASE UseExpanded(p)
    BY <1>8 DEF UseExpanded, Goto, Newer, Beside, Based
  <1>9. CASE Expand(p)
    BY <1>9 DEF Expand, Goto, Newer, Beside, Based
  <1>10. CASE CreateExpandedPart(p)
    BY <1>10 DEF CreateExpandedPart, Goto, Newer, Beside, Based
  <1>11. CASE SpawnXz(p)
    <2>1. PICK v \in Versions : data[dir[Xz(url[p])]] = Whole(<<"xz", url[p], v>>)
      BY <1>11 DEF SpawnXz, Goto, CachedDownloadWhole
    <2>2. src'[p] = <<"raw", url[p], v>>
      BY <1>11, <2>1, DecompressedWhole DEF SpawnXz
    <2> QED
      BY <1>11, <2>1, <2>2 DEF SpawnXz, Goto, Newer, Beside, Based
  <1>12. CASE XzWrite(p)
    <2>1. Stays /\ url[p] \in Urls
      BY <1>12, <1>a DEF XzWrite, Publish, Goto
    <2> QED
      BY <1>0, <1>12, <2>1 DEF XzWrite, Newer, Beside, Based
  <1>13. CASE XzExit(p)
    <2>1. Stays /\ url[p] \in Urls
      BY <1>13, <1>a DEF XzExit, Publish, Goto
    <2>2. /\ fd[p] \in Inodes /\ fd[p] = dir[ExpandedPart(url[p])] /\ ExpandedPart(url[p]) \in Names
          /\ dir' = dir /\ FreeUnused
      BY <1>0, <1>13, NameTypes DEF XzExit, Goto, Opens
    <2>3. data[fd[p]] = Whole(src[p])
      BY <1>0, <1>13, <2>2, Filled DEF XzExit, Goto, Fills
    <2>4. data'[dir'[ExpandedPart(url[p])]] = Whole(src[p])
      BY <2>2, <2>3, KeptNames
    <2>5. PICK v \in Versions : /\ src[p] = <<"raw", url[p], v>>
                                /\ dir[Xz(url[p])] # NoFile
                                /\ data[dir[Xz(url[p])]] = Whole(<<"xz", url[p], v>>)
      BY <1>0, <1>13 DEF XzExit, Goto, Beside
    <2> QED
      BY <1>13, <2>1, <2>4, <2>5 DEF XzExit, Goto, Newer, Beside, Based
  <1>14. CASE Install(p)
    BY <1>14 DEF Install, Goto, Newer, Beside, Based
  <1>15. CASE Boot(p)
    <2>1. /\ vm'[p] = dir[Expanded(url[p])] /\ url' = url /\ data' = data /\ pc'[p] = "run"
          /\ \E v \in Versions : data[dir[Expanded(url[p])]] = Whole(<<"raw", url[p], v>>)
      BY <1>15 DEF Boot, Goto, CachedImageWhole
    <2> QED
      BY <2>1 DEF Newer, Beside, Based
  <1>16. CASE Finish(p)
    BY <1>16 DEF Finish, Exit, Newer, Beside, Based
  <1>17. CASE Fail(p)
    BY <1>17 DEF Fail, Exit, Newer, Beside, Based
  <1>18. CASE Kill(p)
    BY <1>18 DEF Kill, Exit, Newer, Beside, Based
  <1> QED
    BY <1>1, <1>2, <1>3, <1>4, <1>5, <1>6, <1>7, <1>8, <1>9, <1>10, <1>11,
       <1>12, <1>13, <1>14, <1>15, <1>16, <1>17, <1>18 DEF Step

LEMMA RemoteStays ==
  ASSUME NEW p \in Procs, Step(p)
  PROVE  remote' = remote
  BY DEF Step, Start, UseCached, Request, CreatePart, Receive, EndOfBody, Publish, UseExpanded,
         Expand, CreateExpandedPart, SpawnXz, XzWrite, XzExit, Install, Boot, Finish, Fail,
         Kill, Exit

LEMMA AgesInductive ==
  ASSUME Alone
  PROVE  Inv /\ Ages /\ [Next]_vars => Ages'
  <1> SUFFICES ASSUME Inv, Ages, [Next]_vars PROVE Ages'
    OBVIOUS
  <1>1. ASSUME NEW p \in Procs, Step(p) PROVE Ages'
    <2>1. remote' = remote
      BY <1>1, RemoteStays
    <2>2. ASSUME NEW q \in Procs PROVE Newer(q)' /\ Beside(q)' /\ Based(q)'
      BY <1>1, <2>1, OthersAge, OwnAge DEF Inv, Alone
    <2> QED
      BY <1>1, <2>1, <2>2, ServedStep DEF Inv, Ages
  <1>2. ASSUME NEW o \in orphans, OrphanWrite(o) \/ OrphanExit(o) PROVE FALSE
    BY <1>2 DEF Inv, Disjoint, Separate
  <1>3. ASSUME NEW u \in Urls, NewRelease(u) PROVE Ages'
    <2>1. \A w \in Urls : remote[w] \in Nat /\ remote'[w] \in Nat /\ remote[w] <= remote'[w]
      BY <1>3, NAssumption DEF NewRelease, Inv, Types, TypeOK, Versions
    <2>2. Served'
      BY <1>3, <2>1 DEF NewRelease, Ages, Served, Versions
    <2>3. ASSUME NEW p \in Procs PROVE Newer(p)' /\ Beside(p)' /\ Based(p)'
      <3>1. Newer(p)'
        <4>1. CASE pc[p] \in {"create", "stream", "publish"}
          <5>1. url[p] \in Urls /\ got[p] \in Nat
            BY <4>1, NAssumption DEF Inv, Types, TypeOK, Versions
          <5> QED
            BY <1>3, <2>1, <4>1, <5>1 DEF NewRelease, Ages, Newer
        <4> QED
          BY <1>3, <4>1 DEF NewRelease, Newer
      <3> QED
        BY <1>3, <3>1 DEF NewRelease, Ages, Beside, Based
    <2> QED
      BY <2>2, <2>3 DEF Ages
  <1>4. CASE UNCHANGED vars
    BY <1>4 DEF vars, Ages, Served, Newer, Beside, Based
  <1> QED
    BY <1>1, <1>2, <1>3, <1>4 DEF Next

-----------------------------------------------------------------------------
(* Every step is a step of the contract or a stutter.                      *)

\* The contract sees nothing of a step that leaves final names and VMs alone.
LEMMA SeesNothing ==
  ASSUME UNCHANGED <<remote, Downloaded, Images, Bases>>
  PROVE  [Contract!Next]_Contract!cvars
  BY DEF Contract!cvars

\* What the contract sees of the final names, step by step.
LEMMA DownloadedStep ==
  ASSUME Inv, Alone, NEW p \in Procs, Step(p), ~Publish(p)
  PROVE  Downloaded' = Downloaded
  <1>1. ASSUME NEW u \in Urls
        PROVE  Release("xz", u, dir[Xz(u)])' = Release("xz", u, dir[Xz(u)])
    <2>1. dir'[Xz(u)] = dir[Xz(u)] /\ (dir[Xz(u)] # NoFile => data'[dir[Xz(u)]] = data[dir[Xz(u)]])
      BY DownloadStep DEF Inv
    <2> QED
      BY <2>1 DEF Release
  <1> QED
    BY <1>1 DEF Downloaded

LEMMA ImagesStep ==
  ASSUME Inv, Alone, Ages, NEW p \in Procs, Step(p), ~Install(p)
  PROVE  Images' = Images
  <1>1. ASSUME NEW u \in Urls
        PROVE  Release("raw", u, dir[Expanded(u)])' = Release("raw", u, dir[Expanded(u)])
    <2>1. dir'[Expanded(u)] = dir[Expanded(u)]
          /\ (dir[Expanded(u)] # NoFile => data'[dir[Expanded(u)]] = data[dir[Expanded(u)]])
      BY ImageStep DEF Inv
    <2> QED
      BY <2>1 DEF Release
  <1> QED
    BY <1>1 DEF Images

\* Only a run's own boot and end change what its VM stands on.
LEMMA BasesStep ==
  ASSUME Inv, Alone, NEW p \in Procs, Step(p)
  PROVE  /\ \A q \in Procs \ {p} : Bases'[q] = Bases[q]
         /\ pc[p] # "run" /\ ~Boot(p) => Bases'[p] = << >>
  <1>1. ASSUME NEW q \in Procs \ {p} PROVE Bases'[q] = Bases[q]
    <2>1. pc'[q] = pc[q] /\ url'[q] = url[q] /\ vm'[q] = vm[q]
      BY OthersLocals DEF Inv
    <2>2. CASE pc[q] = "run"
      <3>1. data'[vm[q]] = data[vm[q]]
        BY <2>2, OthersVms DEF Inv
      <3>2. Release("raw", url[q], vm[q])' = Release("raw", url[q], vm[q])
        BY <2>1, <3>1 DEF Release
      <3> QED
        BY <2>1, <2>2, <3>2 DEF Bases
    <2>3. CASE pc[q] # "run"
      BY <2>1, <2>3 DEF Bases
    <2> QED
      BY <2>2, <2>3
  <1>2. ASSUME pc[p] # "run", ~Boot(p) PROVE Bases'[p] = << >>
    <2>1. pc'[p] # "run"
      BY <1>2 DEF Step, Start, UseCached, Request, CreatePart, Receive, EndOfBody, Publish,
                  UseExpanded, Expand, CreateExpandedPart, SpawnXz, XzWrite, XzExit, Install,
                  Finish, Fail, Kill, Exit, Goto, Inv, Types, TypeOK
    <2> QED
      BY <2>1 DEF Bases
  <1> QED
    BY <1>1, <1>2

\* A run that is not up has no VM before it boots.
LEMMA BasesSame ==
  ASSUME Inv, Alone, NEW p \in Procs, Step(p), pc[p] # "run", ~Boot(p)
  PROVE  Bases' = Bases
  <1>1. Bases[p] = << >> /\ Bases'[p] = << >>
    BY BasesStep DEF Bases
  <1>2. \A q \in Procs : Bases'[q] = Bases[q]
    BY <1>1, BasesStep
  <1> QED
    BY <1>2 DEF Bases

LEMMA PublishStep ==
  ASSUME Inv, Alone, Ages, NEW p \in Procs, Publish(p)
  PROVE  Contract!Download(url[p])
  <1>0. Step(p) /\ url[p] \in Urls /\ pc[p] = "publish"
    BY DEF Step, Publish, Goto, Inv, Types
  <1>1. got[p] \in 1 .. remote[url[p]]
    <2>1. got[p] \in Versions /\ got[p] <= remote[url[p]] /\ remote[url[p]] \in Versions
      BY <1>0 DEF Inv, Types, TypeOK, Ages, Newer
    <2> QED
      BY <2>1, NAssumption DEF Versions
  <1>2. Downloaded[url[p]] <= got[p]
    <2>1. CASE dir[Xz(url[p])] = NoFile
      BY <1>0, <1>1, <2>1, NAssumption DEF Downloaded, Release, Inv, Types, TypeOK, Versions
    <2>2. CASE dir[Xz(url[p])] # NoFile
      <3>1. PICK v \in Versions : data[dir[Xz(url[p])]] = Whole(<<"xz", url[p], v>>)
        BY <1>0, <2>2 DEF Inv, CachedDownloadWhole
      <3>2. v <= got[p]
        BY <1>0, <2>2, <3>1 DEF Ages, Newer
      <3>3. Release("xz", url[p], dir[Xz(url[p])]) = v
        BY <2>2, <3>1, ReleaseOf
      <3> QED
        BY <1>0, <3>2, <3>3 DEF Downloaded
    <2> QED
      BY <2>1, <2>2
  <1>3. ASSUME NEW u \in Urls
        PROVE  Downloaded'[u] = IF u = url[p] THEN got[p] ELSE Downloaded[u]
    <2>1. CASE u = url[p]
      <3>1. \/ dir'[Xz(u)] # NoFile /\ data'[dir'[Xz(u)]] = Whole(<<"xz", u, got[p]>>)
            \/ dir'[Xz(u)] = dir[Xz(u)]
        BY <1>0, DownloadStep DEF Inv
      <3>2. /\ {Part(u), Xz(u)} \subseteq Names /\ Part(u) # Xz(u)
            /\ dir'[Xz(u)] = dir[Part(u)] /\ dir[Part(u)] \in Inodes /\ dir[Part(u)] # NoFile
        BY <2>1, NameTypes, Apart, Renamed, NAssumption DEF Publish, Inv, Alone
      <3>3. dir'[Xz(u)] # dir[Xz(u)]
        BY <3>2 DEF Inv, Disjoint, Separate
      <3>4. dir'[Xz(u)] # NoFile /\ data'[dir'[Xz(u)]] = Whole(<<"xz", u, got[p]>>)
        BY <3>1, <3>3
      <3>5. got[p] \in Versions
        BY <1>0 DEF Inv, Types
      <3>6. Release("xz", u, dir[Xz(u)])' = got[p]
        <4>1. \A w \in Versions : Whole(<<"xz", u, w>>) = Whole(<<"xz", u, got[p]>>) => w = got[p]
          BY SameWhole
        <4> QED
          BY <3>4, <3>5, <4>1 DEF Release
      <3> QED
        BY <2>1, <3>6 DEF Downloaded
    <2>2. CASE u # url[p]
      <3>1. dir'[Xz(u)] = dir[Xz(u)] /\ (dir[Xz(u)] # NoFile => data'[dir[Xz(u)]] = data[dir[Xz(u)]])
        BY <1>0, <2>2, DownloadStep DEF Inv
      <3>2. Release("xz", u, dir[Xz(u)])' = Release("xz", u, dir[Xz(u)])
        BY <3>1 DEF Release
      <3> QED
        BY <2>2, <3>2 DEF Downloaded
    <2> QED
      BY <2>1, <2>2
  <1>4. Downloaded' = [Downloaded EXCEPT ![url[p]] = got[p]]
    BY <1>0, <1>3 DEF Downloaded
  <1>5. remote' = remote /\ Images' = Images /\ Bases' = Bases
    BY <1>0, ImagesStep, BasesSame DEF Publish, Install, Boot, Goto
  <1> QED
    BY <1>1, <1>2, <1>4, <1>5 DEF Contract!Download

LEMMA InstallStep ==
  ASSUME Inv, Alone, Ages, NEW p \in Procs, Install(p)
  PROVE  Contract!Expand(url[p])
  <1>0. Step(p) /\ url[p] \in Urls /\ pc[p] = "install"
    BY DEF Step, Install, Goto, Inv, Types
  <1>1. /\ {ExpandedPart(url[p]), Expanded(url[p])} \subseteq Names
        /\ ExpandedPart(url[p]) # Expanded(url[p])
        /\ dir'[Expanded(url[p])] = dir[ExpandedPart(url[p])]
        /\ dir[ExpandedPart(url[p])] \in Inodes /\ dir[ExpandedPart(url[p])] # NoFile
    BY <1>0, NameTypes, Apart, Renamed, NAssumption DEF Install, Inv, Alone
  <1>2. dir'[Expanded(url[p])] # dir[Expanded(url[p])]
    BY <1>1 DEF Inv, Disjoint, Separate
  <1>3. PICK v \in Versions : /\ dir'[Expanded(url[p])] # NoFile /\ dir[Xz(url[p])] # NoFile
                              /\ data'[dir'[Expanded(url[p])]] = Whole(<<"raw", url[p], v>>)
                              /\ data[dir[Xz(url[p])]] = Whole(<<"xz", url[p], v>>)
    BY <1>0, <1>2, ImageStep DEF Inv
  <1>4. Downloaded[url[p]] = v /\ v # 0
    BY <1>0, <1>3, ReleaseOf DEF Downloaded, Versions
  <1>5. ASSUME NEW u \in Urls PROVE Images'[u] = IF u = url[p] THEN v ELSE Images[u]
    <2>1. CASE u = url[p]
      <3>1. \A w \in Versions : Whole(<<"raw", u, w>>) = Whole(<<"raw", u, v>>) => w = v
        BY SameWhole
      <3>2. Release("raw", u, dir[Expanded(u)])' = v
        BY <1>3, <2>1, <3>1 DEF Release
      <3> QED
        BY <2>1, <3>2 DEF Images
    <2>2. CASE u # url[p]
      <3>1. dir'[Expanded(u)] = dir[Expanded(u)]
            /\ (dir[Expanded(u)] # NoFile => data'[dir[Expanded(u)]] = data[dir[Expanded(u)]])
        BY <1>0, <2>2, ImageStep DEF Inv
      <3>2. Release("raw", u, dir[Expanded(u)])' = Release("raw", u, dir[Expanded(u)])
        BY <3>1 DEF Release
      <3> QED
        BY <2>2, <3>2 DEF Images
    <2> QED
      BY <2>1, <2>2
  <1>6. Images' = [Images EXCEPT ![url[p]] = Downloaded[url[p]]]
    BY <1>0, <1>4, <1>5 DEF Images
  <1>7. remote' = remote /\ Downloaded' = Downloaded /\ Bases' = Bases
    BY <1>0, DownloadedStep, BasesSame DEF Install, Publish, Boot, Goto
  <1> QED
    BY <1>4, <1>6, <1>7 DEF Contract!Expand

LEMMA BootStep ==
  ASSUME Inv, Alone, Ages, NEW p \in Procs, Boot(p)
  PROVE  Contract!Boot(p, url[p])
  <1>0. /\ Step(p) /\ url[p] \in Urls /\ pc[p] = "boot" /\ pc'[p] = "run"
        /\ dir[Expanded(url[p])] # NoFile /\ vm'[p] = dir[Expanded(url[p])]
        /\ url' = url /\ data' = data
    BY DEF Step, Boot, Goto, Inv, Types, TypeOK
  <1>1. PICK v \in Versions : data[dir[Expanded(url[p])]] = Whole(<<"raw", url[p], v>>)
    BY <1>0 DEF Inv, CachedImageWhole
  <1>2. Images[url[p]] = v /\ v # 0
    BY <1>0, <1>1, ReleaseOf DEF Images, Versions
  <1>3. Release("raw", url[p], vm[p])' = Release("raw", url[p], dir[Expanded(url[p])])
    BY <1>0 DEF Release
  <1>4. Bases[p] = << >> /\ Bases'[p] = <<url[p], Images[url[p]]>>
    BY <1>0, <1>3 DEF Bases, Images
  <1>5. Bases' = [Bases EXCEPT ![p] = <<url[p], Images[url[p]]>>]
    <2>1. \A q \in Procs \ {p} : Bases'[q] = Bases[q]
      BY <1>0, BasesStep
    <2> QED
      BY <1>4, <2>1 DEF Bases
  <1>6. remote' = remote /\ Downloaded' = Downloaded /\ Images' = Images
    BY <1>0, DownloadedStep, ImagesStep DEF Boot, Publish, Install, Goto
  <1> QED
    BY <1>2, <1>4, <1>5, <1>6 DEF Contract!Boot, Contract!NoBase

\* The end of a run that has a VM up, however it comes.
LEMMA HaltStep ==
  ASSUME Inv, Alone, Ages, NEW p \in Procs, Step(p), pc[p] = "run"
  PROVE  Contract!Halt(p)
  <1>1. pc'[p] = "idle"
    BY DEF Step, Start, UseCached, Request, CreatePart, Receive, EndOfBody, Publish, UseExpanded,
           Expand, CreateExpandedPart, SpawnXz, XzWrite, XzExit, Install, Boot, Finish, Fail,
           Kill, Exit, Goto, Inv, Types, TypeOK
  <1>2. Bases' = [Bases EXCEPT ![p] = << >>]
    <2>1. Bases'[p] = << >>
      BY <1>1 DEF Bases
    <2>2. \A q \in Procs \ {p} : Bases'[q] = Bases[q]
      BY BasesStep
    <2> QED
      BY <2>1, <2>2 DEF Bases
  <1>3. Downloaded' = Downloaded /\ Images' = Images /\ remote' = remote
    BY DownloadedStep, ImagesStep, RemoteStays DEF Publish, Install, Goto
  <1> QED
    BY <1>2, <1>3 DEF Contract!Halt, Contract!NoBase

LEMMA CacheStep ==
  ASSUME Alone
  PROVE  Inv /\ Ages /\ [Next]_vars => [Contract!Next]_Contract!cvars
  <1> SUFFICES ASSUME Inv, Ages, [Next]_vars PROVE [Contract!Next]_Contract!cvars
    OBVIOUS
  <1>1. ASSUME NEW p \in Procs, Step(p) PROVE [Contract!Next]_Contract!cvars
    <2>0. Publish(p) \/ Install(p) => url[p] \in Urls
      BY DEF Publish, Install, Goto, Inv, Types
    <2>1. CASE Publish(p)
      BY <2>0, <2>1, PublishStep DEF Contract!Next
    <2>2. CASE Install(p)
      BY <2>0, <2>2, InstallStep DEF Contract!Next
    <2>3. CASE Boot(p)
      <3>1. url[p] \in Urls
        BY <2>3 DEF Boot, Goto, Inv, Types
      <3> QED
        BY <2>3, <3>1, BootStep DEF Contract!Next
    <2>4. CASE pc[p] = "run"
      BY <1>1, <2>4, HaltStep DEF Contract!Next
    <2>5. CASE ~Publish(p) /\ ~Install(p) /\ ~Boot(p) /\ pc[p] # "run"
      BY <1>1, <2>5, RemoteStays, DownloadedStep, ImagesStep, BasesSame, SeesNothing
    <2> QED
      BY <2>1, <2>2, <2>3, <2>4, <2>5
  <1>2. ASSUME NEW o \in orphans, OrphanWrite(o) \/ OrphanExit(o) PROVE FALSE
    BY <1>2 DEF Inv, Disjoint, Separate
  <1>3. ASSUME UNCHANGED <<dir, data, pc, url, vm>>
        PROVE  UNCHANGED <<Downloaded, Images, Bases>>
    BY <1>3 DEF Downloaded, Images, Bases, Release
  <1>4. ASSUME NEW u \in Urls, NewRelease(u) PROVE [Contract!Next]_Contract!cvars
    BY <1>3, <1>4 DEF NewRelease, Contract!NewRelease, Contract!Next
  <1>5. CASE UNCHANGED vars
    BY <1>3, <1>5, SeesNothing DEF vars
  <1> QED
    BY <1>1, <1>2, <1>4, <1>5 DEF Next

\* The cache implements its contract ("the cache is never mutated", README.md:
\* 106-107; ktest.rs:241-243): if runs that fill it keep apart, then through every
\* failure, kill and --fresh it is a map from URL to whole releases that only get
\* newer, and VMs stand on images that stay.
THEOREM KeepsContract ==
  ASSUME Alone
  PROVE  Spec => ImplementsContract
  <1>1. Init => Ages
    <2> SUFFICES ASSUME Init PROVE Ages
      OBVIOUS
    <2>1. \A u \in Urls : Xz(u) \in Names /\ dir[Xz(u)] = NoFile
      BY NameTypes DEF Init
    <2>2. \A p \in Procs : pc[p] = "idle"
      BY DEF Init
    <2> QED
      BY <2>1, <2>2 DEF Ages, Served, Newer, Beside, Based
  <1>2. Init => Contract!Init
    <2> SUFFICES ASSUME Init PROVE Contract!Init
      OBVIOUS
    <2>1. \A u \in Urls : dir[Xz(u)] = NoFile /\ dir[Expanded(u)] = NoFile
      BY NameTypes DEF Init
    <2>2. \A p \in Procs : pc[p] = "idle"
      BY DEF Init
    <2>3. /\ Downloaded = [u \in Urls |-> 0] /\ Images = [u \in Urls |-> 0]
          /\ Bases = [p \in Procs |-> << >>]
      BY <2>1, <2>2 DEF Downloaded, Images, Bases, Release
    <2> QED
      BY <2>3 DEF Init, Contract!Init, Contract!NoBase
  <1> QED
    BY <1>1, <1>2, InitInv, InvInductive, AgesInductive, CacheStep, PTL
       DEF Spec, ImplementsContract, Contract!Spec
=============================================================================
