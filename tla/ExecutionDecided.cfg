\* Two handlers, four identifiers; decisions overlap and handlers fail anywhere.
SPECIFICATION ExecSpec
CONSTANTS
  None = None
  ExecIds = {x1, x2, x3, x4}
  Handlers = {h1, h2}
  Outputs = 1
  Faults = {"error", "stop"}
SYMMETRY Symmetry
CHECK_DEADLOCK FALSE
INVARIANTS
  ExecTypeOK
  SuccessComplete
PROPERTY LedgerKept
