\* A job that is traced from its first call to its last, or dies at the gate.
SPECIFICATION Spec
CONSTANTS
  Path = {a, b, g}
  Garbled = {g}
  Probe = {"chroot", "exec", "open"}
  RingSize = 2
  Faults = {"attach", "kill"}
  a = a
  b = b
  g = g
INVARIANTS TypeOK NothingUnseen KeptIfLooked
PROPERTY Returns
