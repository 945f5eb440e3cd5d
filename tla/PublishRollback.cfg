\* One entity, commits and rollbacks one at a time; f1 is another tenant's.
SPECIFICATION Spec
CONSTANTS
  None = None
  NodeIds = {n1, n2, n3, n4}
  Rids = {r1}
  Users = {alice, bob}
  Snaps = {s1, s2, s3, f1}
  Editors = {e1}
  Committers = {c1}
  ApiName <- DistinctNames
  EditOps = {"create", "update", "delete", "submit", "discard_draft", "acquire"}
  PublishOps = {"commit", "rollback"}
  MaxRetries = 1
  Faults = {}
  ForeignSnaps = {f1}
  CommitsFitLease = TRUE
  Serial = TRUE
SYMMETRY Symmetry
INVARIANT GraphMatchesPointer
PROPERTIES
  LinearHistory
  HistoricalKept
