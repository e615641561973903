CONSTANTS
  p1 = p1  p2 = p2  arm64 = arm64
  NoFile = NoFile  NoUrl = NoUrl
  Procs = {p1, p2}  Urls = {arm64}  FileName <- OneImage
  MaxVersion = 1  NChunks = 1  MaxLinks = 2
  Overlap = TRUE  OrphanXz = TRUE  TruncatedBody = TRUE
SYMMETRY Symmetry
SPECIFICATION Spec
CHECK_DEADLOCK FALSE
PROPERTIES CacheNeverShrinks
