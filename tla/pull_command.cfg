\* An image whose tag moves, a registry that wants tokens, an engine that may report
\* early, refuse or die.
SPECIFICATION PullSpec
CONSTANTS
  List = {l1, l2}
  Manifest = {m1, m2}
  Blob = {c, b1}
  SelectOf <- Select
  BlobsOf <- Blobs
  ReqCap = 1
  RespCap = 2
  MaxEarly = 2
  Faults = {"registry", "token", "cache", "torn", "engine"}
  None = None
  l1 = l1
  l2 = l2
  m1 = m1
  m2 = m2
  c = c
  b1 = b1
INVARIANTS PullTypeOK OkMeansLoaded EndedWhole FailsForAReason
PROPERTY Returns
