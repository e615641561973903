---------------------------- MODULE MCKldModule ----------------------------
(***************************************************************************)
(* Instances of KldModule around the boundaries of a version bucket.       *)
(***************************************************************************)
EXTENDS KldModule

\* Trees inside a bucket: its second version, a release, its last version.
InsideBucket == {1500001, 1501000, 1599999}
\* A tree at the version a bucket starts with, as after a branch point.
BucketStart  == {1500000}
Kernels      == {1499999, 1500000, 1500001, 1501000, 1599999, 1600000}
=============================================================================
