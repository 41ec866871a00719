SPECIFICATION SchemaSpec
CONSTANTS
  Volatile <- MCVolatile
  GeneratedIds <- MCGeneratedIds
  Elements <- MCElements
  MaxPage = 1
  Actions <- MCActions
  MaxActions = 1
  Repetitions <- MCRepetitions
  Times <- MCTimes
  MaxText = 9
INVARIANT NumberNeverMisread
CHECK_DEADLOCK FALSE
