CONSTANTS
  Newcomer = ann
  Regular = bob
  Nobody = nobody
  MaxSessions = 2
  MaxAuthCalls = 2
  Courses = {c1, c2}
  Pathway = {c1, c2}
  Requests = {r1, r2}
  Teachers = {t1}
  NoCourse = noCourse
SPECIFICATION AccountAppSpec
SYMMETRY CertificateSymmetry
INVARIANTS
  SavedAndTold
  CertificateTypeOK
  IssuedWasEarned
  BundleWasEarned
PROPERTY ImplementsDiplomas
CHECK_DEADLOCK FALSE
