\* A writer and a reader of one path on Windows, where an open file is neither
\* replaced nor renamed, and either may come back again and again under the other.
CONSTANTS
  small = small
  large = large
  torn = torn
  w1 = w1
  w2 = w2
  r1 = r1
  r2 = r2
  n1 = n1
  n2 = n2
  i1 = i1
  i2 = i2
  i3 = i3
  i4 = i4
  Writers = {w1}
  Readers = {r1}
  Images = {small, large}
  Segments <- MCSegments
  Layout <- MCLayout
  Torn = torn
  Target = "texture.edds"
  TempNames = {n1, n2}
  Inodes = {i1, i2, i3}
  None = None
  ReplaceWhileOpen = FALSE
SPECIFICATION FairSpec
PROPERTIES
  CallsReturn
  ReadsReturn
