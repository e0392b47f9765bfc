SPECIFICATION Spec
CONSTANTS
  NULL = NULL
  f1 = f1
  Files = {f1}
  fd1 = fd1
  fd2 = fd2
  Fds = {fd1, fd2}
  Bytes = {1}
  NBlocks = 3
  SFS_BLKSIZE = 2
  SFS_NDIRECT = 1
  SFS_BLK_NENTRY = 2
  SFS_MAX_FILE_SIZE = 8
  MaxLen = 3
SYMMETRY Symmetry
INVARIANTS
  FreeMapOk
PROPERTIES
  ImplementsFiles
