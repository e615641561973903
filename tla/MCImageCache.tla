---------------------------- MODULE MCImageCache ----------------------------
(***************************************************************************)
(* Small instances of ImageCache.  The names are those of the release      *)
(* images, <stem>.qcow2.xz: here arm64's.                                  *)
(***************************************************************************)
EXTENDS ImageCache, TLC

CONSTANTS p1, p2, arm64

OneImage == arm64 :> <<"arm64", "qcow2", "xz">>

\* The processes are interchangeable, and only safety is checked here.
Symmetry == Permutations({p1, p2})
=============================================================================
