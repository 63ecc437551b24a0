SPECIFICATION OutboxSpec
CONSTANTS
  Item = {i1, i2}
  Scheduled = {i2}
  Worker = {w1, w2}
  Id = {d1, d2}
  NoItem = NoItem
  NoWorker = NoWorker
  NoId = NoId
  MaxAttempts = 2
  AttemptsCap = 2
  BatchSize = 2
  Exclusive = TRUE
SYMMETRY Symmetry
INVARIANTS
  OutboxTypeOK
  RoundKeepsRows
  StatusesAgree
PROPERTY LifecycleKept
