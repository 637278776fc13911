\* Three keys in a cache of two, entries that expire, six uses.
SPECIFICATION HSpec
CONSTANTS
  Keys = {k1, k2, k3}
  Capacity = 2
  TTL = 2
  MaxTime = 3
  MaxUses = 6
SYMMETRY Symmetry
INVARIANTS MapMatchesList WithinCapacity RecencyOrder
CHECK_DEADLOCK FALSE
