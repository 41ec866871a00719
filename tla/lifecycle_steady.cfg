SPECIFICATION Spec
CONSTANTS
  Executions = {e1, e2}
  OneShots = {tonight}
  Recurrings = {}
  Requests = {r1, r2, r3}
  Operations = {"run", "schedule", "cancel", "delete"}
  Steps = 2
  MaxOccurrences = 0
  MaxCrashes = 0
  MaxFaults = 1
  None = None
CHECK_DEADLOCK FALSE
SYMMETRY Interchangeable
INVARIANTS QueuedRowsBacked QueuedScheduleHasRun NoSilentFailure OwnFailureRescued CancelStopsPromptly
PROPERTIES FollowsTransitions
