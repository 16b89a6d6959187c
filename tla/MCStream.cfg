SPECIFICATION Spec
CONSTANTS
  Lengths = {1, 2}
  MinLength = 1
  MaxLength = 2
  BufferSize = 4
  Interfaces = {0}
  Values = {1, 2}
  FirstValue = 1
  Streams <- MCStreams
  Budgets <- MCBudgets
INVARIANTS
  Delivered InStep AddressAgrees
CHECK_DEADLOCK FALSE
