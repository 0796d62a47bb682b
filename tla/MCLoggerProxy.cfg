CONSTANTS
  Threads = {t1, t2, t3}
  NoThread = NoThread
  Seconds = {s1, s2, s3}
  MaxFileSize = 1
  MaxWrites = 5
SPECIFICATION Spec
SYMMETRY Symmetry
CHECK_DEADLOCK FALSE
INVARIANTS
  OpensClosedHandle
  LinesKept
  FileBounded
