\* A confirmation and a cancellation of one execution overlap.
SPECIFICATION ExecSpec
CONSTANTS
  None = None
  ExecIds = {x1, x2}
  Handlers = {h1, h2}
  Outputs = 1
  Faults = {}
SYMMETRY Symmetry
CHECK_DEADLOCK FALSE
INVARIANT CancelledNotRun
