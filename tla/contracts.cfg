\* Three executions of two contracts; signatures and contracts fail.
SPECIFICATION Spec
CONSTANTS
  Addresses = {a1, a2}
  Executions = {e1, e2, e3}
  None = None
  Codes = {good, better, bad}
  Safe = {good, better}
SYMMETRY Symmetry
INVARIANTS TypeOK UpdatesKept FailuresLeaveNothing
