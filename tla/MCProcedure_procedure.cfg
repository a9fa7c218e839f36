SPECIFICATION Spec
CONSTANTS
  Garbage = Garbage
  Empty = Empty
  v1 = v1
  Name = Name
  NameSize = 2
  Value <- MCValue
  Size <- MCSize
  Signature <- MCSignature
  Type <- MCType
  MaxItems = 2
  MaxGiven = 2
  MaxMessages = 2
  Capacity = 8
INVARIANTS
  MessageReadable
  KeyIsFirst
PROPERTIES
  EndsOnlyAtEdges
CHECK_DEADLOCK FALSE
