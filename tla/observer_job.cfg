\* A job that forks, starts threads and execs next to host processes; ids that are
\* reused, maps that fill up, a chroot that fails.
SPECIFICATION Spec
CONSTANTS
  Tid = {t1, t2, t3, t4}
  First = t1
  Cap = 3
  Faults = {"chroot", "exec"}
  None = None
SYMMETRY TidSymmetry
INVARIANTS TypeOK HostUnseen JobSeen ReportedFollowed
