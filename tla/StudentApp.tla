------------------------------ MODULE StudentApp ------------------------------
(* The student application behind the sign-in, area by area: the lesson page  *)
(* with its player and its notes, the dashboard, the shop, and the pages about*)
(* oneself. The areas have their own routes, requests and rows; the tab is in *)
(* one of them.                                                              *)
EXTENDS LessonPlayer, LessonNotes, Dashboard, Shop, MemberPages

VARIABLE area   \* the area the tab is in

studentVars == <<area, watchVars, noteVars, dashboardVars, shopVars,
                 memberVars>>

StudentInit ==
  /\ area \in {"lessons", "notes", "dashboard", "shop", "member"}
  /\ WatchInit /\ NotesInit /\ DashboardInit
  /\ ShopInit /\ MemberInit
  /\ area # "dashboard" => quizzes = [m \in Modules |-> "none"]

StudentNext ==
  \/ /\ area = "lessons" /\ WatchNext
     /\ UNCHANGED <<area, noteVars, dashboardVars, shopVars, memberVars>>
  \/ /\ area = "notes" /\ NotesNext
     /\ UNCHANGED <<area, watchVars, dashboardVars, shopVars, memberVars>>
  \/ /\ area = "dashboard" /\ DashboardNext
     /\ UNCHANGED <<area, watchVars, noteVars, shopVars, memberVars>>
  \/ /\ area = "shop" /\ ShopNext
     /\ UNCHANGED <<area, watchVars, noteVars, dashboardVars, memberVars>>
  \/ /\ area = "member" /\ MemberNext
     /\ UNCHANGED <<area, watchVars, noteVars, dashboardVars, shopVars>>

StudentAppSpec == StudentInit /\ [][StudentNext]_studentVars

=============================================================================
