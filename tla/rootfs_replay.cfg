\* Runs on an image whose tag moves from a link /bin to a directory /bin and back, jobs
\* that replace the shell, reads that fail, profiles that are started over.
SPECIFICATION Spec
CONSTANTS
  Name <- Names
  Pseudo <- PseudoRoots
  Content <- Contents
  Loader <- Loaders
  Image <- AllTrees
  Left <- Upgraded
  Observed <- Refs
  MaxHops = 2
  MaxDepth = 1
  Faults = {"read"}
  None = None
INVARIANTS TypeOK RecordedResolves LoadersThere ReplayUnhindered
