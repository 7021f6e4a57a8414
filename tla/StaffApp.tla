------------------------------- MODULE StaffApp -------------------------------
(* The rows that administrators and teachers decide: the applications to the *)
(* research team, with the applicant's page, and the sections and lessons of *)
(* a course. Each area has its own routes and its own rows; a tab is in one  *)
(* of them.                                                                  *)
EXTENDS ResearchTeam, CourseEditor

VARIABLE staffArea   \* the area the tab is in

staffVars == <<staffArea, teamVars, editorVars>>

StaffInit ==
  /\ staffArea \in {"team", "course"}
  /\ TeamInit /\ EditorInit

StaffNext ==
  \/ /\ staffArea = "team" /\ TeamNext
     /\ UNCHANGED <<staffArea, editorVars>>
  \/ /\ staffArea = "course" /\ EditorNext
     /\ UNCHANGED <<staffArea, teamVars>>

StaffSpec == StaffInit /\ [][StaffNext]_staffVars

=============================================================================
