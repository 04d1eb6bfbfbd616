\* Two writers and a reader of one path on a POSIX filesystem.
CONSTANTS
  small = small
  large = large
  torn = torn
  w1 = w1
  w2 = w2
  r1 = r1
  r2 = r2
  n1 = n1
  n2 = n2
  i1 = i1
  i2 = i2
  i3 = i3
  i4 = i4
  Writers = {w1, w2}
  Readers = {r1}
  Images = {small, large}
  Segments <- MCSegments
  Layout <- MCLayout
  Torn = torn
  Target = "texture.edds"
  TempNames = {n1, n2}
  Inodes = {i1, i2, i3, i4}
  None = None
  ReplaceWhileOpen = TRUE
SPECIFICATION Spec
INVARIANTS
  TypeOK
  TargetWhole
  TempIsOwn
  TempsAccounted
  ClosedWhenMoved
PROPERTIES
  OpenFilesFrozen
  ImplementsAtomicFile
SYMMETRY Symmetry
