SPECIFICATION Spec
CONSTANTS
  MaxLen = 4
  Batch = 2
  Timespan = 6
  Lookbacks = {2, 4}
  Month = 4
  Runnables = {r1}
  ini = ini
  toml = toml
  other = other
  Items = {ini, toml, other}
  Ini <- OneMoves
  Changes <- SomeChanges
  TrainShare <- HalfTrains
  MaxPushes = 6
  None = None
INVARIANTS TotalsExact WindowsMissNothing LeaksHaveTwoCauses
CHECK_DEADLOCK FALSE
