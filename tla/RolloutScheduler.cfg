\* Two batches of three tasks with one retry each.
CONSTANTS
  a = a
  b = b
  c = c
  shared = shared
  NoId = NoId
  Tasks <- MCTasks
  Ids = {shared}
  IdOf <- MCIdOf
  MaxRetries = 1
  MaxBatches = 2
SPECIFICATION Spec
INVARIANTS CountersAgree
PROPERTIES NoStartAfterCancel Returns
