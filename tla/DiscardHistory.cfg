\* A staged version of a deleted entity is discarded.
SPECIFICATION Spec
CONSTANTS
  None = None
  NodeIds = {n1, n2, n3}
  Rids = {r1}
  Users = {alice, bob}
  Snaps = {s1, s2}
  Editors = {e1}
  Committers = {c1}
  ApiName <- DistinctNames
  EditOps = {"update", "delete", "submit", "discard_staging", "acquire"}
  PublishOps = {"commit"}
  MaxRetries = 1
  Faults = {}
  ForeignSnaps = {}
  CommitsFitLease = TRUE
  Serial = TRUE
SYMMETRY Symmetry
PROPERTY HistoricalKept
