CONSTANTS
  p1 = p1
  p2 = p2
  p3 = p3
  e1 = e1
  e2 = e2
  r1 = r1
  h1 = h1
  h2 = h2
  d1 = d1
  Nil = Nil
  Putter = {p1, p2, p3}
  Deleter = {e1, e2}
  Reader = {r1}
  Hash = {h1, h2}
  Dir = {d1}
  DirOf <- MCDirOf
  Chunks = 2
SPECIFICATION CASSpec
INVARIANTS
  DirectoryPresent
  TempAccountedFor
PROPERTIES
  ImplementsBlobStore
CHECK_DEADLOCK FALSE
