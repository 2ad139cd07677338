\* Two runs whose pipelines share a profile and whose images share a layer, which the
\* first one has twice, and one who reads the profile; everything that can fail.
SPECIFICATION Spec
CONSTANTS
  Proc = {p1, p2, p3}
  Shows = {p3}
  Pipeline = {ci, nightly}
  PipelineOf <- OnePipelineEach
  sanitize <- OneFile
  Blob = {b1}
  File = {b1, json}
  Pulls <- TwiceAndOnce
  Size <- Sizes
  Writer <- AllWriters
  Faults = {"download", "write", "kill", "evict"}
  None = None
  p1 = p1
  p2 = p2
  p3 = p3
  b1 = b1
  json = json
  ci = ci
  nightly = nightly
INVARIANTS TypeOK PublishedWhole JoinedWhole
