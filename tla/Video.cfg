CONSTANTS
  Lessons = {l1, l2}
  Uploads = {u1, u2}
  Checks = {c1}
  Hooks = {h1}
  Deletes = {d1}
  NoVideo = noVideo
  NoLesson = noLesson
  Prod = TRUE
  MaxRepeats = 1
  MaxReceives = 2
SPECIFICATION Spec
SYMMETRY VideoSymmetry
INVARIANTS
  OneUploadWins
  StatusIsVerified
  PublishedHadVideo
  PromisedVideoIsKept
  InUseIsStored
  FinishedJobCleaned
CHECK_DEADLOCK FALSE
