SPECIFICATION Spec
CONSTANTS
  Item = {i1}
  Scheduled = {}
  Worker = {w1, w2}
  Id = {d1, d2, d3}
  NoItem = NoItem
  NoWorker = NoWorker
  NoId = NoId
  MaxAttempts = 2
  AttemptsCap = 2
  BatchSize = 2
  Exclusive = FALSE
  MaxCrashes = 1
  MaxUnconfirmed = 1
  OwnEvents = FALSE
SYMMETRY Symmetry
INVARIANTS
  ReceiptInv
  DuplicatesExplained
  CompletedWasDelivered
PROPERTY PromiseKept
