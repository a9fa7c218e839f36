SPECIFICATION ResponseSpec
CONSTANTS
  Garbage = Garbage
  Empty = Empty
  v1 = v1
  v2 = v2
  Value <- MCValue
  Size <- MCSize
  NullValue = NullValue
  Least <- MCLeast
  Message <- MCMessage
  Iterator = {i1, i2}
  None = None
INVARIANTS
  ResponseAsSent
  GotAsSent
  WasNullOfLast
