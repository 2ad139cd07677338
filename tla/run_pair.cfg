\* Two overlapping runs of one pipeline on two images: evictions, jobs that fail or
\* go on without a file, aborted runs.
SPECIFICATION FixedSpec
CONSTANTS
  Run = {r1, r2}
  Path = {a, b}
  Content = {c1, c2}
  Tag = {t1, t2}
  Upstream <- TwoImages
  Branch <- OneOrBoth
  Behaviour = {"fail", "degrade"}
  Options <- EitherImage
  MaxRuns = 1
  None = None
  a = a
  b = b
  c1 = c1
  c2 = c2
  t1 = t1
  t2 = t2
SYMMETRY RunSymmetry
INVARIANTS TypeOK Backed FailuresAreReal EntriesFromImage
