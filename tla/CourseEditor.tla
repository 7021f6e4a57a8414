---------------------------- MODULE CourseEditor ----------------------------
(* The page on which a teacher builds one course, and the service behind it: *)
(* its modules, here sections, and their lessons, each with a place in its   *)
(* list. Requests run concurrently, those of pages that were left too.       *)
EXTENDS Naturals, FiniteSets

CONSTANTS
  Fields,           \* the forms of the page that touch no section and no lesson
  MaxSections,      \* bound on the sections ever created
  MaxLessons,       \* bound on the lessons ever created
  MaxEditorCalls    \* bound on the requests under way

ASSUME EditorAssumption ==
  /\ "upload" \notin Fields /\ "none" \notin Fields
  /\ MaxSections \in Nat \ {0}
  /\ MaxLessons \in Nat
  /\ MaxEditorCalls \in Nat \ {0}

VARIABLES
  courseStatus,   \* the course's row
  sections,       \* the rows of its modules
  lessons,        \* the rows of their lessons
  editor,         \* the page that is open
  editorCalls     \* slot -> a handler of the page with its request under way

editorVars == <<courseStatus, sections, lessons, editor, editorCalls>>
courseRows == <<courseStatus, sections, lessons>>

SectionIds == 1 .. MaxSections
LessonIds == 1 .. MaxLessons
Status == {"DRAFT", "PUBLISHED"}
Rows == {"free", "kept", "gone"}    \* an id is not used twice

Section == [is : Rows, place : 0 .. MaxSections]
Lesson == [is : Rows, section : 0 .. MaxSections, place : 0 .. MaxLessons, ready : BOOLEAN]
FreeLesson == [is |-> "free", section |-> 0, place |-> 0, ready |-> FALSE]

(* What a load reads; the course that could not be read has no sections.     *)
Outline == [status : Status, sections : SUBSET SectionIds, lessons : SUBSET LessonIds,
            ready : BOOLEAN]
NoOutline == [status |-> "DRAFT", sections |-> {}, lessons |-> {}, ready |-> FALSE]

(* at: the course page, or the dashboard with its list of courses.           *)
Editor == [at : {"dashboard", "course"}, phase : {"loading", "ready", "error"},
           shown : Outline, busy : SUBSET (Fields \cup {"upload"})]
NoEditor == [at |-> "dashboard", phase |-> "loading",
             shown |-> NoOutline, busy |-> {}]

(* place: what the request read as the next place. places: the renumbering a *)
(* deletion has computed, 0 where it changes nothing.                        *)
EditorCall == [kind : {"none", "load", "save", "addSection", "dropSection",
                       "addLesson", "dropLesson", "publish"},
               step : {"asked", "read", "stored", "done"},
               section : 0 .. MaxSections, lesson : 0 .. MaxLessons,
               place : 0 .. MaxSections + MaxLessons + 1,
               places : [LessonIds -> 0 .. MaxLessons],
               field : Fields \cup {"upload", "none"},
               leads : BOOLEAN,    \* to the dashboard, after the reload
               heard : BOOLEAN, outline : Outline]
NoEditorCall == [kind |-> "none", step |-> "asked", section |-> 0, lesson |-> 0,
                 place |-> 0, places |-> [l \in LessonIds |-> 0], field |-> "none",
                 leads |-> FALSE, heard |-> FALSE, outline |-> NoOutline]

(* create_course inserts the course with its first module.                   *)
EditorInit ==
  /\ courseStatus = "DRAFT"
  /\ sections = [s \in SectionIds |-> [is |-> IF s = 1 THEN "kept" ELSE "free", place |-> 0]]
  /\ lessons = [l \in LessonIds |-> FreeLesson]
  /\ editor = NoEditor
  /\ editorCalls = [i \in 1 .. MaxEditorCalls |-> NoEditorCall]

KeptSections == {s \in SectionIds : sections[s].is = "kept"}
KeptLessons == {l \in LessonIds : lessons[l].is = "kept"}
LessonsOf(s) == {l \in KeptLessons : lessons[l].section = s}

-----------------------------------------------------------------------------
(* Requests.                                                                 *)

Asks(calls, call) ==
  {[calls EXCEPT ![i] = [call EXCEPT !.heard = TRUE]] :
    i \in {j \in DOMAIN calls : calls[j].kind = "none"
             /\ \A k \in 1 .. (j - 1) : calls[k].kind # "none"}}
AsksFor(kind, s, l, field) == editorCalls' \in Asks(editorCalls,
  [NoEditorCall EXCEPT !.kind = kind, !.section = s, !.lesson = l, !.field = field])

CallIs(i, kind, step) == editorCalls[i].kind = kind /\ editorCalls[i].step = step
Ended(i) == [editorCalls EXCEPT ![i] = NoEditorCall]
GoesOn(i, step) == editorCalls' = [editorCalls EXCEPT ![i].step = step]
Succeeds(i) == editorCalls' = [editorCalls EXCEPT ![i] = [NoEditorCall EXCEPT
  !.kind = editorCalls[i].kind, !.step = "done", !.field = editorCalls[i].field,
  !.heard = editorCalls[i].heard]]

(* What was sent goes on without the page. What only the page waits for does *)
(* not matter any more.                                                      *)
Unlistened == [i \in DOMAIN editorCalls |->
  IF editorCalls[i].kind = "load" /\ ~editorCalls[i].leads THEN NoEditorCall
  ELSE [editorCalls[i] EXCEPT !.heard = FALSE]]

-----------------------------------------------------------------------------
(* The page.                                                                 *)

OpensEditor ==
  /\ editor.at # "course"
  /\ editor' = [NoEditor EXCEPT !.at = "course"]
  /\ AsksFor("load", 0, 0, "none")
  /\ UNCHANGED courseRows

LeavesEditor ==
  /\ editor.at = "course"
  /\ editor' = NoEditor
  /\ editorCalls' = Unlistened
  /\ UNCHANGED courseRows

(* The page is a skeleton while it loads, and without buttons if it failed.  *)
Editing == editor.at = "course" /\ editor.phase = "ready"

Saves(field) ==
  /\ Editing /\ field \notin editor.busy
  /\ editor' = [editor EXCEPT !.busy = @ \cup {field}]
  /\ AsksFor("save", 0, 0, field)
  /\ UNCHANGED courseRows

(* The lists and their buttons are those of a draft.                         *)
ChangesSections ==
  /\ Editing /\ editor.shown.status = "DRAFT"
  /\ \/ AsksFor("addSection", 0, 0, "none")
     \/ \E s \in editor.shown.sections : AsksFor("dropSection", s, 0, "none")
     \/ \E l \in editor.shown.lessons : AsksFor("dropLesson", 0, l, "none")
     \/ editor.shown.ready /\ AsksFor("publish", 0, 0, "none")
  /\ UNCHANGED <<courseRows, editor>>

AddsLesson ==
  /\ Editing /\ editor.shown.status = "DRAFT" /\ "upload" \notin editor.busy
  /\ editor' = [editor EXCEPT !.busy = @ \cup {"upload"}]
  /\ \E s \in editor.shown.sections : AsksFor("addLesson", s, 0, "upload")
  /\ UNCHANGED courseRows

-----------------------------------------------------------------------------
(* Reading the course.                                                       *)

ReadsCourse(i) ==
  /\ CallIs(i, "load", "asked")
  /\ editorCalls' = [editorCalls EXCEPT ![i].step = "read", ![i].outline =
       [status |-> courseStatus, sections |-> KeptSections, lessons |-> KeptLessons,
        ready |-> \E l \in KeptLessons : lessons[l].ready]]
  /\ UNCHANGED <<courseRows, editor>>

(* A page that has published goes to the dashboard, even one that was left.  *)
ShowsCourse(i) ==
  LET call == editorCalls[i] IN
  /\ CallIs(i, "load", "read")
  /\ IF call.leads
     THEN editor' = NoEditor /\ editorCalls' = [Unlistened EXCEPT ![i] = NoEditorCall]
     ELSE /\ editor' = IF ~call.heard THEN editor
               ELSE [editor EXCEPT !.phase = "ready", !.shown = call.outline,
                                   !.busy = @ \ {call.field}]
          /\ editorCalls' = Ended(i)
  /\ UNCHANGED courseRows

-----------------------------------------------------------------------------
(* Sections. The next place is one more than the last one read.              *)

PlacesOf(s) == {lessons[l].place : l \in LessonsOf(s)}
NextPlace(places, first) == IF places = {} THEN first
  ELSE (CHOOSE p \in places : \A q \in places : q <= p) + 1
FirstFree(ids, rows) == {x \in ids : /\ rows[x].is = "free"
                                     /\ \A y \in ids : rows[y].is = "free" => x <= y}

ReadsSectionPlace(i) ==
  /\ CallIs(i, "addSection", "asked")
  /\ editorCalls' = [editorCalls EXCEPT ![i].step = "read",
       ![i].place = NextPlace({sections[s].place : s \in KeptSections}, 0)]
  /\ UNCHANGED <<courseRows, editor>>

InsertsSection(i) ==
  /\ CallIs(i, "addSection", "read")
  /\ \A s \in KeptSections : sections[s].place # editorCalls[i].place
  /\ \E s \in FirstFree(SectionIds, sections) :
       sections' = [sections EXCEPT ![s] = [is |-> "kept", place |-> editorCalls[i].place]]
  /\ Succeeds(i)
  /\ UNCHANGED <<courseStatus, lessons, editor>>

(* A section that is gone counts as removed; the last one stays.             *)
CountsSections(i) ==
  /\ CallIs(i, "dropSection", "asked")
  /\ \/ editorCalls[i].section \notin KeptSections /\ Succeeds(i)
     \/ editorCalls[i].section \in KeptSections /\ Cardinality(KeptSections) > 1 /\ GoesOn(i, "read")
  /\ UNCHANGED <<courseRows, editor>>

GoneSection == [is |-> "gone", place |-> 0]
GoneLesson == [FreeLesson EXCEPT !.is = "gone"]

WithoutLessonsOf(s) ==
  [l \in LessonIds |-> IF l \in LessonsOf(s) THEN GoneLesson ELSE lessons[l]]

DeletesSection(i) ==
  /\ CallIs(i, "dropSection", "read")
  /\ sections' = [sections EXCEPT ![editorCalls[i].section] = GoneSection]
  /\ lessons' = WithoutLessonsOf(editorCalls[i].section)
  /\ Succeeds(i)
  /\ UNCHANGED <<courseStatus, editor>>

-----------------------------------------------------------------------------
(* Lessons.                                                                  *)

ReadsLessonPlace(i) ==
  /\ CallIs(i, "addLesson", "asked") /\ editorCalls[i].section \in KeptSections
  /\ editorCalls' = [editorCalls EXCEPT ![i].step = "read",
       ![i].place = NextPlace(PlacesOf(editorCalls[i].section), 1)]
  /\ UNCHANGED <<courseRows, editor>>

(* FAULT: no unique index on the places of a module's lessons.               *)
AdmitsAnyPlace(rows, s, p) == s \in KeptSections

(* The foreign key and the unique index of the table.                        *)
AdmitsLesson(rows, s, p) ==
  /\ s \in KeptSections
  /\ \A l \in LessonIds : rows[l].is = "kept" /\ rows[l].section = s => rows[l].place # p

InsertsLesson(i) ==
  LET call == editorCalls[i] IN
  /\ CallIs(i, "addLesson", "read")
  /\ AdmitsLesson(lessons, call.section, call.place)
  /\ \E l \in FirstFree(LessonIds, lessons) :
       /\ lessons' = [lessons EXCEPT ![l] = [is |-> "kept", section |-> call.section,
                                             place |-> call.place, ready |-> FALSE]]
       /\ editorCalls' = [editorCalls EXCEPT ![i].step = "stored", ![i].lesson = l]
  /\ UNCHANGED <<courseStatus, sections, editor>>

(* The video goes up, and is ready at the end of the upload or some time     *)
(* after the page has given up asking.                                       *)
UploadsVideo(i) ==
  /\ CallIs(i, "addLesson", "stored") /\ editorCalls[i].lesson \in KeptLessons
  /\ \E ready \in BOOLEAN : lessons' = [lessons EXCEPT ![editorCalls[i].lesson].ready = ready]
  /\ Succeeds(i)
  /\ UNCHANGED <<courseStatus, sections, editor>>

DeletesLesson(i) ==
  /\ CallIs(i, "dropLesson", "asked") /\ editorCalls[i].lesson \in KeptLessons
  /\ lessons' = [lessons EXCEPT ![editorCalls[i].lesson] = GoneLesson]
  /\ GoesOn(i, "read")
  /\ UNCHANGED <<courseStatus, sections, editor>>

(* What is left is to be numbered from 1 in each section, in the same order. *)
Compacted(l) == Cardinality({k \in LessonsOf(lessons[l].section) :
                               lessons[k].place <= lessons[l].place})

ListsLessons(i) ==
  LET places == [l \in LessonIds |->
        IF l \in KeptLessons /\ lessons[l].place # Compacted(l) THEN Compacted(l) ELSE 0] IN
  /\ CallIs(i, "dropLesson", "read")
  /\ IF \A l \in LessonIds : places[l] = 0 THEN Succeeds(i)
     ELSE editorCalls' = [editorCalls EXCEPT ![i].step = "stored", ![i].places = places]
  /\ UNCHANGED <<courseRows, editor>>

(* One transaction with an UPDATE per lesson, in the order of their places:  *)
(* while it runs, those below p have their new place.                        *)
Renumbered(places, p) == [l \in LessonIds |->
  IF lessons[l].is = "kept" /\ places[l] \in 1 .. p
  THEN [lessons[l] EXCEPT !.place = places[l]] ELSE lessons[l]]

NumbersLessons(i) ==
  LET places == editorCalls[i].places IN
  /\ CallIs(i, "dropLesson", "stored")
  /\ \A l \in KeptLessons : places[l] # 0 =>
       \A k \in LessonsOf(lessons[l].section) \ {l} :
         Renumbered(places, places[l] - 1)[k].place # places[l]
  /\ lessons' = Renumbered(places, MaxLessons)
  /\ Succeeds(i)
  /\ UNCHANGED <<courseStatus, sections, editor>>

-----------------------------------------------------------------------------
(* Publication, and the forms.                                               *)

FindsReady(i) ==
  /\ CallIs(i, "publish", "asked") /\ \E l \in KeptLessons : lessons[l].ready
  /\ GoesOn(i, "read")
  /\ UNCHANGED <<courseRows, editor>>

PublishesCourse(i) ==
  /\ CallIs(i, "publish", "read")
  /\ courseStatus' = "PUBLISHED"
  /\ Succeeds(i)
  /\ UNCHANGED <<sections, lessons, editor>>

SavesField(i) ==
  /\ CallIs(i, "save", "asked")
  /\ Succeeds(i)
  /\ UNCHANGED <<courseRows, editor>>

-----------------------------------------------------------------------------
(* Answers.                                                                  *)

(* The page reads the course again after every change but those of the price,*)
(* the research team's requirement and a lesson's files; one that has        *)
(* published, also after it was left.                                        *)
Reloads(i) ==
  LET call == editorCalls[i] IN
  /\ call.step = "done"
  /\ editorCalls' = [editorCalls EXCEPT ![i] =
       IF ~call.heard /\ call.kind # "publish" THEN NoEditorCall
       ELSE [NoEditorCall EXCEPT !.kind = "load", !.field = call.field,
               !.heard = call.heard, !.leads = call.kind = "publish"]]
  /\ editor' = IF call.heard THEN [editor EXCEPT !.phase = "loading", !.shown = NoOutline]
               ELSE editor
  /\ UNCHANGED courseRows

FieldSaved(i) ==
  LET call == editorCalls[i] IN
  /\ CallIs(i, "save", "done")
  /\ editor' = IF call.heard THEN [editor EXCEPT !.busy = @ \ {call.field}] ELSE editor
  /\ editorCalls' = Ended(i)
  /\ UNCHANGED courseRows

(* Refused, or lost before or after it took effect. Without the course the   *)
(* page shows nothing else.                                                  *)
EditorCallFails(i) ==
  LET call == editorCalls[i] IN
  /\ call.kind # "none"
  /\ editor' = IF ~call.heard THEN editor
       ELSE IF call.kind = "load" THEN [editor EXCEPT !.phase = "error",
              !.shown = NoOutline, !.busy = @ \ {call.field}]
       ELSE [editor EXCEPT !.busy = @ \ {call.field}]
  /\ editorCalls' = Ended(i)
  /\ UNCHANGED courseRows

EditorNext ==
  \/ OpensEditor \/ LeavesEditor \/ ChangesSections \/ AddsLesson
  \/ \E field \in Fields : Saves(field)
  \/ \E i \in 1 .. MaxEditorCalls :
       \/ ReadsCourse(i) \/ ShowsCourse(i)
       \/ ReadsSectionPlace(i) \/ InsertsSection(i) \/ CountsSections(i) \/ DeletesSection(i)
       \/ ReadsLessonPlace(i) \/ InsertsLesson(i) \/ UploadsVideo(i)
       \/ DeletesLesson(i) \/ ListsLessons(i) \/ NumbersLessons(i)
       \/ FindsReady(i) \/ PublishesCourse(i) \/ SavesField(i)
       \/ Reloads(i) \/ FieldSaved(i) \/ EditorCallFails(i)

EditorSpec == EditorInit /\ [][EditorNext]_editorVars

-----------------------------------------------------------------------------
(* The values of the rows, the page and the requests.                        *)
EditorTypeOK ==
  /\ courseStatus \in Status
  /\ sections \in [SectionIds -> Section]
  /\ lessons \in [LessonIds -> Lesson]
  /\ editor \in Editor
  /\ editorCalls \in [1 .. MaxEditorCalls -> EditorCall]

(* Every lesson is in a section of the course, and no two of a section have  *)
(* the same place, whatever additions, deletions and renumberings overlap.   *)
LessonsStayFiled == \A l \in KeptLessons :
  /\ lessons[l].section \in KeptSections
  /\ \A k \in LessonsOf(lessons[l].section) \ {l} : lessons[k].place # lessons[l].place

(* design.md: a course keeps at least one module. Two deletions that both    *)
(* count two modules delete them both.                                       *)
CourseKeepsModule == KeptSections # {}

=============================================================================
