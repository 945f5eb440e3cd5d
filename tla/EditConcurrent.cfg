\* Two users, two requests in flight, two entities of one name, published or not yet created.
SPECIFICATION EditSpec
CONSTANTS
  None = None
  NodeIds = {n1, n2, n3}
  Rids = {r1, r2}
  Users = {alice, bob}
  Snaps = {s1}
  Editors = {e1, e2}
  ApiName <- SameName
  EditOps = {"create", "update", "delete", "submit", "discard_draft",
             "discard_staging", "discard_all", "acquire", "release"}
SYMMETRY Symmetry
INVARIANTS
  EditTypeOK
  StagesExclusive
  BaseVersionKept
PROPERTY EditsKeepPublished
