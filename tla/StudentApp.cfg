CONSTANTS
  LastLesson = 2
  MaxCalls = 2
  MaxFailures = 1
  LastNoted = 2
  NoteLimit = 1
  MaxNotes = 2
  MaxNoteCalls = 2
  LastModule = 3
  LessonModules = {2, 3}
  OfferedCourses = {c1}
  BundleOffer = bundle
  MaxOrders = 2
  MaxShopCalls = 2
  Prefs = {autoplay}
  DefaultPrefs = {autoplay}
  Credentials = {x1, x2}
  NoCredential = none
  MaxMemberCalls = 2
SPECIFICATION StudentAppSpec
INVARIANTS
  CompletionIsEarned
  VideoIsRouted
  NeverStranded
  PaidAsShown
  VerifiedAsRouted
PROPERTY NotesStayPut
CHECK_DEADLOCK FALSE
