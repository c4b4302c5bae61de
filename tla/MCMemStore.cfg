\* Three keys, a cap of two, entries of two sizes that expire.
SPECIFICATION Spec
SYMMETRY KeySymmetry
CONSTANTS
  k1 = k1
  k2 = k2
  k3 = k3
  small = small
  large = large
  Absent = Absent
  Keys = {k1, k2, k3}
  Values = {small, large}
  MaxEntries = 2
  TTL = 1
  MaxTime = 2
  MaxUses = 5
  SizeOf <- MCSizeOf
INVARIANT MapListAndBytesAgree
PROPERTIES EvictsLeastRecent ImplementsStoreContract
