CONSTANTS
  a1 = a1
  a2 = a2
  a3 = a3
  i = i
  j = j
  k = k
  s1 = s1
  s2 = s2
  NULL = NULL
  Height <- MCHeight
  Insns <- MCInsns
  States <- MCStates
  Addresses <- MCAddresses
  Exit <- MCExit
  Off <- OffEverywhere
  OffMem <- MCOffMem
  Settings <- MCSettings
  Published <- MCPublished
SYMMETRY AddressSymmetry
SPECIFICATION Spec
INVARIANTS
  RowsRendered
  KeysLive
  MemoryBounded
PROPERTY
  RollbackRestores
