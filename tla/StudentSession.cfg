CONSTANTS
  Devices = {d1, d2, d3}
  SessionIds = {s1, s2, s3, s4, s5}
  Empty = empty
  NoToken = noToken
  MaxOrphans = 2
SPECIFICATION Spec
SYMMETRY SessionSymmetry
INVARIANTS
  SessionTypeOK
  AtMostOneSession
PROPERTY SupersededStaysOut
PROPERTY ImplementsSingleSession
