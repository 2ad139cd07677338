\* Two processes, one content, the writers take turns; faults and evictions.
SPECIFICATION SerialSpec
CONSTANTS
  Proc = {p1, p2}
  Content = {c1}
  Inode = {i1, i2, i3, i4, i5}
  Mode = {canon, exec}
  Canonical = canon
  Umasked = umasked
  N = 2
  None = None
SYMMETRY AllSymmetry
INVARIANTS TypeOK PublishedComplete PlacedFaithful
PROPERTY ImplementsContentStore
