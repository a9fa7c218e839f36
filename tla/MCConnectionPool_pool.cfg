CONSTANTS
  Thread = {t1, t2}
  NoThread = NoThread
  ClientStuff = {s1, s2}
  NoClient = NoClient
  Identifier = {i1, i2}
  NoIdentifier = NoIdentifier
  MaxHandles = 2
SPECIFICATION FairSpec
INVARIANTS
  OneOwner
  ListenerIsBorrower
PROPERTIES
  LockReleased
