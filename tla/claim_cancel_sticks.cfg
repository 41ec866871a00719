SPECIFICATION Spec
CONSTANTS
  Executions = {e1}
  OneShots = {}
  Recurrings = {}
  Requests = {r1, r2}
  Operations = {"run", "cancel"}
  Steps = 1
  MaxOccurrences = 0
  MaxCrashes = 0
  MaxFaults = 0
  None = None
CHECK_DEADLOCK FALSE
PROPERTY CancelledStaysCancelled
