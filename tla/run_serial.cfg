\* One run after another: jobs that write, tags that move, evictions, with and without the tracer.
SPECIFICATION Spec
CONSTANTS
  Run = {r1}
  Path = {a, b}
  Content = {c1, c2}
  Tag = {t1}
  Upstream <- FullImage
  Branch <- AnyBranch
  Behaviour = {"fail", "degrade", "write"}
  Options <- AnyRun
  MaxRuns = 2
  None = None
  a = a
  b = b
  c1 = c1
  c2 = c2
  t1 = t1
  t2 = t2
PROPERTIES Improving UntracedKeeps StartsOver
