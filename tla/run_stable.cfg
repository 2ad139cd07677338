\* A job that always wants the same files, invoked again and again.
SPECIFICATION StableSpec
CONSTANTS
  Run = {r1, r2}
  Path = {a, b}
  Content = {c1, c2}
  Tag = {t1}
  Upstream <- FullImage
  Branch <- BothPaths
  Behaviour = {}
  Options <- PlainRun
  MaxRuns = 2
  None = None
  a = a
  b = b
  c1 = c1
  c2 = c2
  t1 = t1
  t2 = t2
PROPERTY Converges
