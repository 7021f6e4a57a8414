CONSTANTS
  QuizTabs = {1, 2}
  Questions = {q1, q2}
  ServedN = 1
  Scores = {0, 1}
  MaxAttempts = 2
  WorkTabs = {1, 2}
  Graders = {1, 2}
  PassMarks = {1, 2}
  MaxSubmissions = 2
  MaxFiles = 1
  Uses <- EveryUse
  Banks = {b1, b2}
  NoBank = nobank
  QuizModules = {m1}
  MaxQuestions = 1
  MaxStudioCalls = 2
SPECIFICATION QuizAppSpec
INVARIANTS
  OpenAttemptIsBound
  GradedAsShown
  OneDraft
  WorkIsUnlocked
  ServesItsCount
PROPERTIES
  ImplementsAttemptBook
  ImplementsGradebook
SYMMETRY QuizSymmetry
CHECK_DEADLOCK FALSE
