CONSTANTS
  Dummy = Dummy
  Null = Null
  Blank = Blank
  Producers = {p1}
  Consumers = {c1}
  BulkPoppers = {c1}
  Items = {i1, i2}
  PushSizes = {2}
  MaxLength = 4
  Modulus = 8
SPECIFICATION Spec
PROPERTY BulkPopDelivers
CHECK_DEADLOCK FALSE
