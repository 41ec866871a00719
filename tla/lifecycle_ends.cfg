SPECIFICATION FairSpec
CONSTANTS
  Executions = {e1}
  OneShots = {tonight}
  Recurrings = {}
  Requests = {r1, r2}
  Operations = {"run", "schedule", "cancel", "delete"}
  Steps = 1
  MaxOccurrences = 0
  MaxCrashes = 1
  MaxFaults = 1
  None = None
CHECK_DEADLOCK FALSE
PROPERTIES StartedRunsEnd QueuedRunsEnd SchedulesSettle
