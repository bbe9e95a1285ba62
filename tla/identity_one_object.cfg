SPECIFICATION FairSpec
CONSTANTS
  c1 = c1 c2 = c2 c3 = c3 c4 = c4
  sA = sA sB = sB kDisk = kDisk kMem = kMem
  i1 = i1 i2 = i2 i3 = i3 i4 = i4
  None = None
  Call = {c1, c2, c3, c4}
  Store = {sA, sB}
  Key = {kDisk, kMem}
  Identity = {i1, i2, i3, i4}
  Durable = {kDisk}
  StoreOf <- MCStoreOf
  KeyOf <- MCOneObjectPerKey
  GivenTo <- MCOneGiven
  Damages <- MCDamaged
INVARIANT ResolvedIsPersisted
PROPERTY EveryCallSettles
PROPERTY ImplementsCell
CHECK_DEADLOCK FALSE
