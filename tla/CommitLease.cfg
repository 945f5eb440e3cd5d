\* Commits may outlast the TTL of their lock.
SPECIFICATION Spec
CONSTANTS
  None = None
  NodeIds = {n1, n2}
  Rids = {r1}
  Users = {alice}
  Snaps = {s1, s2, s3}
  Editors = {e1}
  Committers = {c1, c2}
  ApiName <- DistinctNames
  EditOps = {"create", "update", "submit", "acquire"}
  PublishOps = {"commit"}
  MaxRetries = 1
  Faults = {}
  ForeignSnaps = {}
  CommitsFitLease = FALSE
  Serial = FALSE
SYMMETRY Symmetry
INVARIANT CommitExclusion
