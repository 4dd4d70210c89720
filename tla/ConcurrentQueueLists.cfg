CONSTANTS
  Dummy = Dummy
  Null = Null
  Blank = Blank
  Producers = {p1, p2}
  Consumers = {c1, c2}
  BulkPoppers = {c1}
  Items = {i1, i2, i3}
  PushSizes = {1, 2}
  MaxLength = 1
  Modulus = 8
SPECIFICATION Spec
INVARIANTS MemorySafe LengthExact
PROPERTY ImplementsFifo
CHECK_DEADLOCK FALSE
