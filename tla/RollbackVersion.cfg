\* Rollback of a tenant with two entities, one of them changed since.
SPECIFICATION Spec
CONSTANTS
  None = None
  NodeIds = {n1, n2, n3}
  Rids = {r1, r2}
  Users = {alice}
  Snaps = {s1, s2}
  Editors = {e1}
  Committers = {c1}
  ApiName <- DistinctNames
  EditOps = {"update", "submit", "acquire"}
  PublishOps = {"commit", "rollback"}
  MaxRetries = 1
  Faults = {}
  ForeignSnaps = {}
  CommitsFitLease = TRUE
  Serial = TRUE
SYMMETRY Symmetry
INVARIANT GraphMatchesPointer
