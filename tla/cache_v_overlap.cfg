CONSTANTS
  p1 = p1  p2 = p2  arm64 = arm64
  NoFile = NoFile  NoUrl = NoUrl
  Procs = {p1, p2}  Urls = {arm64}  FileName <- OneImage
  MaxVersion = 1  NChunks = 2  MaxLinks = 3
  Overlap = TRUE  OrphanXz = FALSE  TruncatedBody = FALSE
SYMMETRY Symmetry
SPECIFICATION Spec
CHECK_DEADLOCK FALSE
INVARIANTS CachedDownloadWhole
