CONSTANTS
  p1 = p1  p2 = p2  arm64 = arm64
  NoFile = NoFile  NoUrl = NoUrl
  Procs = {p1, p2}  Urls = {arm64}  FileName <- OneImage
  MaxVersion = 3  NChunks = 3  MaxLinks = 4
  Overlap = FALSE  OrphanXz = FALSE  TruncatedBody = FALSE
SYMMETRY Symmetry
SPECIFICATION Spec
CHECK_DEADLOCK FALSE
INVARIANTS TypeOK CachedDownloadWhole CachedImageWhole FreshBootsDownload
PROPERTIES BaseNeverMutated ImplementsContract
