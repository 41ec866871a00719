SPECIFICATION SchemaSpec
CONSTANTS
  Volatile <- MCVolatile
  GeneratedIds <- MCGeneratedIds
  Elements <- MCElements
  MaxPage = 2
  Actions <- MCActions
  MaxActions = 4
  Repetitions <- MCRepetitions
  Times <- MCTimes
  MaxText = 11
INVARIANTS
  FindsItsElement
  RecordedAsDone
  CronMeansWhatWasPicked
  AmbiguousNeverGuessed
CHECK_DEADLOCK FALSE
