\* Two calls and two flows of one source port, a cache of one entry.
SPECIFICATION Spec
CONSTANTS
  Uids = {10, 20}
  AllowedUids = {10}
  CustomDenies <- NoVeto
  Srcs = {s1}
  Dsts = {d1, d2}
  Protos = {17}
  Calls = {v1, v2}
  Capacity = 1
  TTL = 2
  MaxTime = 3
  MaxLatency = 1
SYMMETRY Symmetry
INVARIANTS VerdictFresh
CHECK_DEADLOCK FALSE
