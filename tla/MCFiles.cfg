SPECIFICATION Spec
CONSTANTS
  initproc = initproc
  p1 = p1
  p2 = p2
  Procs = {initproc, p1, p2}
  NULL = NULL
  f1 = f1
  f2 = f2
  RegFiles = {f1, f2}
  root = root
  d = d
  Dirs = {root, d}
  stdin = stdin
  OpenFlags <- AllFlags
  FILES_STRUCT_NENTRY = 2
  Kept = 1
  MaxLeaked = 1
SYMMETRY Symmetry
INVARIANTS
  RefsExact
  NoAssertionFails
CHECK_DEADLOCK FALSE
