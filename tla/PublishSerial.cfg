\* One request at a time; two users, two entities, up to two commits.
SPECIFICATION Spec
CONSTANTS
  None = None
  NodeIds = {n1, n2, n3}
  Rids = {r1, r2}
  Users = {alice, bob}
  Snaps = {s1, s2, s3}
  Editors = {e1}
  Committers = {c1}
  ApiName <- DistinctNames
  EditOps = {"create", "update", "delete", "submit", "discard_draft",
             "discard_staging", "discard_all", "acquire"}
  PublishOps = {"commit"}
  MaxRetries = 1
  Faults = {"transient"}
  ForeignSnaps = {}
  CommitsFitLease = TRUE
  Serial = TRUE
SYMMETRY Symmetry
INVARIANTS
  GraphMatchesPointer
  PublishedHasRow
