SPECIFICATION Spec
CONSTANTS
  p1 = p1
  p2 = p2
  p3 = p3
  p4 = p4
  Procs = {p1, p2, p3, p4}
  Timeout = 6
  MaxLapses = 2
INVARIANTS TypeOK InstancesCounted
PROPERTIES SoleHolderStays
