\* One author edits an entity that is already staged.
SPECIFICATION Spec
CONSTANTS
  None = None
  NodeIds = {n1, n2}
  Rids = {r1}
  Users = {alice}
  Snaps = {s1, s2}
  Editors = {e1}
  Committers = {c1}
  ApiName <- DistinctNames
  EditOps = {"create", "update", "submit", "acquire"}
  PublishOps = {"commit"}
  MaxRetries = 1
  Faults = {}
  ForeignSnaps = {}
  CommitsFitLease = TRUE
  Serial = TRUE
SYMMETRY Symmetry
INVARIANT OneActivePerEntity
