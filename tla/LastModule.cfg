CONSTANTS
  Fields = {details}
  MaxSections = 2
  MaxLessons = 2
  MaxEditorCalls = 2
SPECIFICATION EditorSpec
INVARIANT CourseKeepsModule
CHECK_DEADLOCK FALSE
