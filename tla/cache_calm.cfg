\* Two processes that may store the same content at once; nothing fails.
SPECIFICATION CalmSpec
CONSTANTS
  Proc = {p1, p2}
  Content = {c1}
  Inode = {i1, i2, i3, i4, i5}
  Mode = {canon, exec}
  Canonical = canon
  Umasked = umasked
  N = 2
  None = None
SYMMETRY AllSymmetry
INVARIANTS StillBeingWritten LoserFindsEntry
