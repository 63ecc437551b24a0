SPECIFICATION FairSpec
CONSTANTS
  Item = {i1}
  Scheduled = {}
  Worker = {w1, w2}
  Id = {d1}
  NoItem = NoItem
  NoWorker = NoWorker
  NoId = NoId
  MaxAttempts = 2
  AttemptsCap = 2
  BatchSize = 2
  Exclusive = TRUE
  MaxCrashes = 0
  MaxUnconfirmed = 0
  OwnEvents = TRUE
PROPERTY AcceptedSettles
