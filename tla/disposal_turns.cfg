\* Three executions, two workspaces, everything that can fail.
SPECIFICATION Spec
CONSTANTS
  MaxExecutions = 3
  Dir = {d1, d2}
  Faults = {"prepare", "mount", "umount", "remove", "kill"}
  None = None
SYMMETRY DirSymmetry
INVARIANTS TypeOK FreshRoot NothingLeft
PROPERTY OwnMountsOnly
