SPECIFICATION Spec
CONSTANTS
  NBLOCKS = 7
  NDIRECT = 2
  NINDIRECT = 1
  BLKFILES = 1
  Names = {1, 2}
  Extents <- TwoFiles
  Sizes = {10}
  MaxCrashes = 1
  RestartAnyImage = FALSE
  MayEditRoot = FALSE
INVARIANTS
  TypeOK
  DirWhole
  BitmapExact
  DiskSafe
  ReadsBack
  Durable
  
VIEW UpToData
CHECK_DEADLOCK FALSE
