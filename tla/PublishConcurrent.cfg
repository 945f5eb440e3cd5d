\* Two administrators publish while an author edits; every kind of failure,
\* no rollback, every commit shorter than the lock's TTL.
SPECIFICATION FairSpec
CONSTANTS
  None = None
  NodeIds = {n1, n2}
  Rids = {r1}
  Users = {alice}
  Snaps = {s1, s2, s3}
  Editors = {e1}
  Committers = {c1, c2}
  ApiName <- DistinctNames
  EditOps = {"create", "update", "submit", "acquire"}
  PublishOps = {"commit"}
  MaxRetries = 1
  Faults = {"crash", "error", "transient"}
  ForeignSnaps = {}
  CommitsFitLease = TRUE
  Serial = FALSE
INVARIANTS
  PubTypeOK
  CommitExclusion
PROPERTIES
  LinearHistory
  CommitLockFreed
