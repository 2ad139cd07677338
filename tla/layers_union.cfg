\* Every image of up to three layers and five entries.
SPECIFICATION Spec
CONSTANTS
  Path = {d, s, f}
  Above <- Nested
  Entry <- Entries3
  MaxLayers = 3
  MaxEntries = 5
  LayerFaults = {"layer"}
  d = d
  s = s
  f = f
INVARIANTS TypeOK AsDeclared
