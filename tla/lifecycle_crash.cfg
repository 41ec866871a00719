SPECIFICATION Spec
CONSTANTS
  Executions = {e1, e2}
  OneShots = {tonight}
  Recurrings = {weekly}
  Requests = {r1, r2}
  Operations = {"run", "schedule", "cancel", "delete"}
  Steps = 2
  MaxOccurrences = 2
  MaxCrashes = 1
  MaxFaults = 1
  None = None
CHECK_DEADLOCK FALSE
SYMMETRY Interchangeable
INVARIANTS TypeOK RunsOnceInv StartedRowsAccountedFor OneOccurrenceInFlight
PROPERTIES KeepsPromiseToSite EachStepOnce StoppedSchedulesStayStopped StoppedRunsDoNothing
