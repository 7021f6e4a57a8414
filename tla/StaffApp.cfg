CONSTANTS
  Applicant = ann
  Admins = {ad1}
  MaxApplications = 2
  MaxTeamCalls = 2
  Fields = {details}
  MaxSections = 2
  MaxLessons = 2
  MaxEditorCalls = 2
SPECIFICATION StaffSpec
INVARIANTS
  OneOpenApplication
  LessonsStayFiled
CHECK_DEADLOCK FALSE
