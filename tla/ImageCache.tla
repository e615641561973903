----------------------------- MODULE ImageCache -----------------------------
(***************************************************************************)
(* The VM image cache of `cargo kbuild ktest` (crates/cargo-kbuild/src/    *)
(* ktest.rs): download_cached and decompress_cached, run by any number of  *)
(* ktest processes against one cache directory, followed by the boot of a  *)
(* VM whose disposable overlay is backed by the cached image.              *)
(*                                                                         *)
(* The directory maps names to inodes, because what goes wrong here goes   *)
(* wrong through inodes: File::create truncates a file that exists instead *)
(* of making a new one, rename moves an inode that somebody may still have *)
(* open, and a running VM keeps the inode it opened.                       *)
(*                                                                         *)
(* A file is NChunks chunks.  A chunk is the kind of file it belongs to    *)
(* and the release (URL and version) it was made from, or Hole: bytes that *)
(* were never written, past the end of a short file included.              *)
(***************************************************************************)
EXTENDS Naturals, Sequences

CONSTANTS
  Procs,         \* the ktest processes
  Urls,          \* the values --image-url takes, the default of a machine included
  FileName,      \* the last path segment of a URL, split at its dots
  MaxVersion,    \* releases a server publishes under one URL.  Bounds the model.
  NChunks,       \* chunks in a whole file
  NoFile, NoUrl,
  MaxLinks,      \* inodes made under one name that are alive at once.  Bounds the model.
  Overlap,       \* may two runs fill the cache under the same names at once?
  OrphanXz,      \* may an `xz` child outlive a ktest that is killed?
  TruncatedBody  \* may a body cut short read as a clean end of stream?

Versions == 1 .. MaxVersion
Chunk    == {"xz", "raw"} \X Urls \X Versions
Hole     == << >>
Content  == [1 .. NChunks -> Chunk \cup {Hole}]
Empty    == [k \in 1 .. NChunks |-> Hole]
Whole(c) == [k \in 1 .. NChunks |-> c]

-----------------------------------------------------------------------------
(* Names.  Path::with_extension replaces the last extension; the empty     *)
(* extension removes it and "qcow2.part" adds two.                         *)

Stem(name) == IF Len(name) > 1 THEN SubSeq(name, 1, Len(name) - 1) ELSE name
WithExtension(name, ext) == Stem(name) \o ext

Xz(u)           == FileName[u]
Expanded(u)     == WithExtension(Xz(u), << >>)
\* Mutant: the stream is saved under its final name.
PartInPlace(u)  == Xz(u)
Part(u)         == WithExtension(Xz(u), <<"part">>)
\* Mutant: xz writes straight to the image's final name.
ExpandedPartInPlace(u) == Expanded(u)
ExpandedPart(u) == WithExtension(Expanded(u), <<"qcow2", "part">>)

Published(u) == {Xz(u), Expanded(u)}
Temporary(u) == {Part(u), ExpandedPart(u)}
Footprint(u) == Published(u) \cup Temporary(u)
Names        == UNION {Footprint(u) : u \in Urls}

\* An inode is known by the (temporary) name it was made under and a serial number.
Inodes == (UNION {Temporary(u) : u \in Urls}) \X (1 .. MaxLinks)

\* What the names must satisfy for two images to be cached side by side.
NamesApart ==
  \A u, w \in Urls : /\ Published(u) \cap Temporary(w) = {}
                     /\ Xz(u) # Expanded(w)
                     /\ u # w => Footprint(u) \cap Footprint(w) = {}

ASSUME NAssumption ==
  /\ NChunks \in Nat \ {0}
  /\ MaxVersion \in Nat \ {0}
  /\ NoFile \notin Inodes /\ NoUrl \notin Urls
  /\ Overlap \in BOOLEAN /\ OrphanXz \in BOOLEAN /\ TruncatedBody \in BOOLEAN

-----------------------------------------------------------------------------
VARIABLES
  remote,   \* the version each URL serves now
  dir,      \* the cache directory: name -> inode
  data,     \* inode -> content
  pc, url, fresh,   \* where each run is, and its --image-url and --fresh
  got,      \* the version the run downloaded, 0 before it downloads one
  fd,       \* the inode the run (or its xz child) has open for writing
  off,      \* chunks it has written there
  src,      \* the chunk its stream consists of; Hole for input xz rejects
  vm,       \* the inode backing the run's VM
  orphans   \* xz children whose ktest is gone

vars == <<remote, dir, data, pc, url, fresh, got, fd, off, src, vm, orphans>>

PC == {"idle", "lookup", "create", "stream", "publish", "expand", "xzfile",
       "spawn", "xz", "install", "boot", "run"}

Orphan == [dst : Inodes, off : 0 .. NChunks, src : Chunk]

TypeOK ==
  /\ remote \in [Urls -> Versions]
  /\ dir \in [Names -> Inodes \cup {NoFile}]
  /\ data \in [Inodes -> Content]
  /\ pc \in [Procs -> PC]
  /\ url \in [Procs -> Urls \cup {NoUrl}]
  /\ fresh \in [Procs -> BOOLEAN]
  /\ got \in [Procs -> Versions \cup {0}]
  /\ fd \in [Procs -> Inodes \cup {NoFile}]
  /\ off \in [Procs -> 0 .. NChunks]
  /\ src \in [Procs -> Chunk \cup {Hole}]
  /\ vm \in [Procs -> Inodes \cup {NoFile}]
  /\ orphans \subseteq Orphan

Init ==
  /\ remote = [u \in Urls |-> 1]
  /\ dir = [n \in Names |-> NoFile]
  /\ data = [i \in Inodes |-> Empty]
  /\ pc = [p \in Procs |-> "idle"]
  /\ url = [p \in Procs |-> NoUrl]
  /\ fresh = [p \in Procs |-> FALSE]
  /\ got = [p \in Procs |-> 0]
  /\ fd = [p \in Procs |-> NoFile]
  /\ off = [p \in Procs |-> 0]
  /\ src = [p \in Procs |-> Hole]
  /\ vm = [p \in Procs |-> NoFile]
  /\ orphans = {}

-----------------------------------------------------------------------------
(* File system.                                                            *)

InUse == {dir[n] : n \in Names} \cup {fd[p] : p \in Procs}
           \cup {vm[p] : p \in Procs} \cup {o.dst : o \in orphans}
Spare(name) ==
  LET used == InUse
  IN  {k \in 1 .. MaxLinks : <<name, k>> \notin used}
NewInode(name) == <<name, CHOOSE k \in Spare(name) : TRUE>>

\* An inode nobody names or has open any more is freed.
FreeUnused ==
  LET used == InUse'
  IN  data' = [i \in Inodes |-> IF i \in used THEN data[i] ELSE Empty]

\* File::create: truncate the file if the name exists, else make a new one.
Create(p, name) ==
  IF dir[name] # NoFile
  THEN /\ data' = [data EXCEPT ![dir[name]] = Empty]
       /\ fd' = [fd EXCEPT ![p] = dir[name]]
       /\ UNCHANGED dir
  ELSE /\ Spare(name) # {}
       /\ fd' = [fd EXCEPT ![p] = NewInode(name)]
       /\ dir' = [dir EXCEPT ![name] = NewInode(name)]
       /\ UNCHANGED data

\* The next write through an open file, at the file's own offset.
Write(i, k, c) == data' = [data EXCEPT ![i][k + 1] = c]

\* fs::rename: replaces the target; fails if the source is not there.
Rename(from, to) ==
  /\ dir[from] # NoFile
  /\ dir' = [dir EXCEPT ![to] = dir[from], ![from] = NoFile]

-----------------------------------------------------------------------------
(* A run, from the command line to the exit of ktest.                      *)

Filling(p) == pc[p] \notin {"idle", "run"}

Goto(p, from, to) == pc[p] = from /\ pc' = [pc EXCEPT ![p] = to]

Start(p, u, f) ==
  /\ Goto(p, "idle", "lookup")
  /\ Overlap \/ \A q \in Procs : Filling(q) => Footprint(url[q]) \cap Footprint(u) = {}
  /\ url' = [url EXCEPT ![p] = u]
  /\ fresh' = [fresh EXCEPT ![p] = f]
  /\ UNCHANGED <<remote, dir, data, got, fd, off, src, vm, orphans>>

\* The process is over: every local is gone, the files stay.
Exit(p) ==
  /\ pc' = [pc EXCEPT ![p] = "idle"]
  /\ url' = [url EXCEPT ![p] = NoUrl]
  /\ fresh' = [fresh EXCEPT ![p] = FALSE]
  /\ got' = [got EXCEPT ![p] = 0]
  /\ fd' = [fd EXCEPT ![p] = NoFile]
  /\ off' = [off EXCEPT ![p] = 0]
  /\ src' = [src EXCEPT ![p] = Hole]
  /\ vm' = [vm EXCEPT ![p] = NoFile]
  /\ UNCHANGED <<remote, dir>>

UseCached(p) ==
  /\ Goto(p, "lookup", "expand")
  /\ dir[Xz(url[p])] # NoFile /\ ~fresh[p]
  /\ UNCHANGED <<remote, dir, data, url, fresh, got, fd, off, src, vm, orphans>>

\* Mutant: --fresh removes the cached download before it asks for another.
RequestClearing(p) ==
  /\ Goto(p, "lookup", "create")
  /\ dir[Xz(url[p])] = NoFile \/ fresh[p]
  /\ got' = [got EXCEPT ![p] = remote[url[p]]]
  /\ dir' = [dir EXCEPT ![Xz(url[p])] = NoFile]
  /\ UNCHANGED <<remote, url, fresh, fd, off, src, vm, orphans>>
  /\ FreeUnused
\* GET answered with a success status: the body is the release served now.
Request(p) ==
  /\ Goto(p, "lookup", "create")
  /\ dir[Xz(url[p])] = NoFile \/ fresh[p]
  /\ got' = [got EXCEPT ![p] = remote[url[p]]]
  /\ UNCHANGED <<remote, dir, data, url, fresh, fd, off, src, vm, orphans>>

CreatePart(p) ==
  /\ Goto(p, "create", "stream")
  /\ Create(p, Part(url[p]))
  /\ src' = [src EXCEPT ![p] = <<"xz", url[p], got[p]>>]
  /\ off' = [off EXCEPT ![p] = 0]
  /\ UNCHANGED <<remote, url, fresh, got, vm, orphans>>

\* Mutant: the loop writes once more after the stream has ended.
ReceiveOnceMore(p) ==
  /\ pc[p] = "stream" /\ off[p] <= NChunks
  /\ Write(fd[p], off[p], src[p])
  /\ off' = [off EXCEPT ![p] = @ + 1]
  /\ UNCHANGED <<remote, dir, pc, url, fresh, got, fd, src, vm, orphans>>
Receive(p) ==
  /\ pc[p] = "stream" /\ off[p] < NChunks
  /\ Write(fd[p], off[p], src[p])
  /\ off' = [off EXCEPT ![p] = @ + 1]
  /\ UNCHANGED <<remote, dir, pc, url, fresh, got, fd, src, vm, orphans>>

\* read returned 0; the file is dropped before the rename.
EndOfBody(p) ==
  /\ Goto(p, "stream", "publish")
  /\ off[p] = NChunks \/ TruncatedBody
  /\ fd' = [fd EXCEPT ![p] = NoFile]
  /\ UNCHANGED <<remote, dir, url, fresh, got, off, src, vm, orphans>>
  /\ FreeUnused

Publish(p) ==
  /\ Goto(p, "publish", "expand")
  /\ Rename(Part(url[p]), Xz(url[p]))
  /\ UNCHANGED <<remote, url, fresh, got, fd, off, src, vm, orphans>>
  /\ FreeUnused

\* Mutant: --fresh is not asked when the decompressed image is looked up.
UseExpandedAnyway(p) ==
  /\ Goto(p, "expand", "boot")
  /\ dir[Expanded(url[p])] # NoFile
  /\ UNCHANGED <<remote, dir, data, url, fresh, got, fd, off, src, vm, orphans>>
UseExpanded(p) ==
  /\ Goto(p, "expand", "boot")
  /\ dir[Expanded(url[p])] # NoFile /\ ~fresh[p]
  /\ UNCHANGED <<remote, dir, data, url, fresh, got, fd, off, src, vm, orphans>>

Expand(p) ==
  /\ Goto(p, "expand", "xzfile")
  /\ dir[Expanded(url[p])] = NoFile \/ fresh[p]
  /\ UNCHANGED <<remote, dir, data, url, fresh, got, fd, off, src, vm, orphans>>

CreateExpandedPart(p) ==
  /\ Goto(p, "xzfile", "spawn")
  /\ Create(p, ExpandedPart(url[p]))
  /\ UNCHANGED <<remote, url, fresh, got, off, src, vm, orphans>>

\* What `xz -dc` makes of a file: it verifies its input to the end.
Decompressed(content) ==
  IF content[1] # Hole /\ content[1][1] = "xz" /\ content = Whole(content[1])
  THEN <<"raw", content[1][2], content[1][3]>>
  ELSE Hole

SpawnXz(p) ==
  /\ Goto(p, "spawn", "xz")
  /\ dir[Xz(url[p])] # NoFile
  /\ src' = [src EXCEPT ![p] = Decompressed(data[dir[Xz(url[p])]])]
  /\ off' = [off EXCEPT ![p] = 0]
  /\ UNCHANGED <<remote, dir, data, url, fresh, got, fd, vm, orphans>>

XzWrite(p) ==
  /\ pc[p] = "xz" /\ src[p] # Hole /\ off[p] < NChunks
  /\ Write(fd[p], off[p], src[p])
  /\ off' = [off EXCEPT ![p] = @ + 1]
  /\ UNCHANGED <<remote, dir, pc, url, fresh, got, fd, src, vm, orphans>>

\* Mutant: the exit status of xz is not looked at.
XzExitUnchecked(p) ==
  /\ Goto(p, "xz", "install")
  /\ fd' = [fd EXCEPT ![p] = NoFile]
  /\ UNCHANGED <<remote, dir, url, fresh, got, off, src, vm, orphans>>
  /\ FreeUnused
\* xz exited with status 0.
XzExit(p) ==
  /\ Goto(p, "xz", "install")
  /\ src[p] # Hole /\ off[p] = NChunks
  /\ fd' = [fd EXCEPT ![p] = NoFile]
  /\ UNCHANGED <<remote, dir, url, fresh, got, off, src, vm, orphans>>
  /\ FreeUnused

Install(p) ==
  /\ Goto(p, "install", "boot")
  /\ Rename(ExpandedPart(url[p]), Expanded(url[p]))
  /\ UNCHANGED <<remote, url, fresh, got, fd, off, src, vm, orphans>>
  /\ FreeUnused

\* qemu opens the overlay's backing file by name and keeps it open.
Boot(p) ==
  /\ Goto(p, "boot", "run")
  /\ dir[Expanded(url[p])] # NoFile
  /\ vm' = [vm EXCEPT ![p] = dir[Expanded(url[p])]]
  /\ UNCHANGED <<remote, dir, data, url, fresh, got, fd, off, src, orphans>>

Finish(p) == pc[p] = "run" /\ Exit(p) /\ UNCHANGED orphans /\ FreeUnused

\* An error return: GET, a read, a write, File::create, a rename whose source
\* is gone, spawning xz, or xz exiting with a failure.
Fail(p) ==
  /\ pc[p] \notin {"idle", "expand", "run"}
  /\ pc[p] = "lookup" => (dir[Xz(url[p])] = NoFile \/ fresh[p])
  /\ Exit(p) /\ UNCHANGED orphans /\ FreeUnused

\* ktest is killed, and its xz child with it unless only ktest was signalled.
Kill(p) ==
  /\ pc[p] # "idle"
  /\ Exit(p)
  /\ \/ UNCHANGED orphans
     \/ /\ OrphanXz /\ orphans = {}   \* one at a time: bounds the model
        /\ pc[p] = "xz" /\ src[p] # Hole
        /\ orphans' = {[dst |-> fd[p], off |-> off[p], src |-> src[p]]}
  /\ FreeUnused

-----------------------------------------------------------------------------
(* The environment.                                                        *)

OrphanWrite(o) ==
  /\ o.off < NChunks
  /\ Write(o.dst, o.off, o.src)
  /\ orphans' = (orphans \ {o}) \cup {[o EXCEPT !.off = @ + 1]}
  /\ UNCHANGED <<remote, dir, pc, url, fresh, got, fd, off, src, vm>>

OrphanExit(o) ==
  /\ orphans' = orphans \ {o}
  /\ UNCHANGED <<remote, dir, pc, url, fresh, got, fd, off, src, vm>>
  /\ FreeUnused

NewRelease(u) ==
  /\ remote[u] < MaxVersion
  /\ remote' = [remote EXCEPT ![u] = @ + 1]
  /\ UNCHANGED <<dir, data, pc, url, fresh, got, fd, off, src, vm, orphans>>

Step(p) ==
  \/ \E u \in Urls, f \in BOOLEAN : Start(p, u, f)
  \/ UseCached(p) \/ Request(p) \/ CreatePart(p) \/ Receive(p)
  \/ EndOfBody(p) \/ Publish(p)
  \/ UseExpanded(p) \/ Expand(p) \/ CreateExpandedPart(p) \/ SpawnXz(p)
  \/ XzWrite(p) \/ XzExit(p) \/ Install(p)
  \/ Boot(p) \/ Finish(p) \/ Fail(p) \/ Kill(p)

Next ==
  \/ \E p \in Procs : Step(p)
  \/ \E o \in orphans : OrphanWrite(o) \/ OrphanExit(o)
  \/ \E u \in Urls : NewRelease(u)

Spec == Init /\ [][Next]_vars

-----------------------------------------------------------------------------
(* Properties.                                                             *)

\* "a half-finished download is never mistaken for a cached one"
\* (ktest.rs:241-243): whatever the cache holds under a download's final name
\* is one whole release of that URL, at every instant, crashes included.
CachedDownloadWhole ==
  \A u \in Urls : dir[Xz(u)] # NoFile =>
    \E v \in Versions : data[dir[Xz(u)]] = Whole(<<"xz", u, v>>)

\* The same for decompress_cached: what sits under the image's final name is
\* one whole image of that URL, whatever run or failure put it there.
CachedImageWhole ==
  \A u \in Urls : dir[Expanded(u)] # NoFile =>
    \E v \in Versions : data[dir[Expanded(u)]] = Whole(<<"raw", u, v>>)

\* --fresh re-downloads and re-decompresses (ktest.rs:125): the image such a
\* run boots is the release that very run downloaded.
FreshBootsDownload ==
  \A p \in Procs : pc[p] = "run" /\ fresh[p] =>
    data[vm[p]] = Whole(<<"raw", url[p], got[p]>>)

\* "the cache is never mutated" under a VM (README.md, ktest.rs:5-8): while a
\* VM runs, no other run, download or decompression changes its base image.
BaseNeverMutated ==
  [][\A p \in Procs : pc[p] = "run" /\ pc'[p] = "run" =>
       data'[vm[p]] = data[vm[p]]]_vars

\* Whatever overlaps, fails or is killed, a file that reached its final name
\* is only ever replaced, never removed: a lookup that found it stays true.
CacheNeverShrinks ==
  [][\A u \in Urls : \A n \in Published(u) :
       dir[n] # NoFile => dir'[n] # NoFile]_vars

\* The contract CacheContract states: files stand for releases, and a file that
\* is not one whole release of its kind and URL stands for none there ever was.
Release(kind, u, i) ==
  IF i = NoFile THEN 0
  ELSE IF \E v \in Versions : data[i] = Whole(<<kind, u, v>>)
       THEN CHOOSE v \in Versions : data[i] = Whole(<<kind, u, v>>)
       ELSE MaxVersion + 1
Downloaded == [u \in Urls |-> Release("xz", u, dir[Xz(u)])]
Images     == [u \in Urls |-> Release("raw", u, dir[Expanded(u)])]
Bases      == [p \in Procs |->
                 IF pc[p] = "run" THEN <<url[p], Release("raw", url[p], vm[p])>> ELSE << >>]

\* "the first run downloads and caches ... a VM-IMAGES image" (README.md:97-99) that
\* "is never mutated" (README.md:106-107): seen from outside the cache is a map from URL to whole releases that never goes back to an older
\* one, an image is made from the download beside it, and a VM's base stays.
Contract == INSTANCE CacheContract
              WITH served <- remote, downloaded <- Downloaded,
                   expanded <- Images, base <- Bases
ImplementsContract == Contract!Spec
=============================================================================
