---------------------------- MODULE StaffAppProofs ----------------------------
(* Proofs about the decisions of the staff: the rows of the research team and*)
(* the sections and lessons of a course.                                     *)
EXTENDS StaffApp, FiniteSetTheorems, WellFoundedInduction, TLAPS

-----------------------------------------------------------------------------
(* The research team *)

\* In every run a student has at most one application under way and one accepted.
THEOREM OneAlwaysOpen == TeamSpec => []OneOpenApplication
<1>1. TeamInit => OneOpenApplication
  BY DEF TeamInit, OneOpenApplication
<1>2. OneOpenApplication /\ [TeamNext]_teamVars => OneOpenApplication'
  <2>. SUFFICES ASSUME OneOpenApplication, [TeamNext]_teamVars PROVE OneOpenApplication'
    OBVIOUS
  <2>1. applications' = applications \/ Admits(applications')
    BY DEF TeamNext, teamVars, OpensTeamPage, OpensForm, LeavesTeam, Applies, OpensReview, Decides,
       AllowsReapply, Reads, Writes, ShowsForm, ShowsStanding, LearnsOutcome, ShowsReview, TeamCallFails
  <2>. QED
    BY <2>1 DEF OneOpenApplication, Admits, OneOpen, OneAccepted
<1>. QED
  BY <1>1, <1>2, PTL DEF TeamSpec

-----------------------------------------------------------------------------
(* The next place *)

LEMMA LeastPlace == ASSUME NEW S \in SUBSET Nat, S # {}
                    PROVE  \E n \in S : \A m \in S : n <= m
<1>. DEFINE Less == OpToRel(<, Nat)
<1>1. \A x, y \in Nat : <<x, y>> \in Less <=> x < y
  BY DEF OpToRel
<1>2. IsWellFoundedOn(Less, Nat)
  BY NatLessThanWellFounded
<1>. HIDE DEF Less
<1>3. PICK n \in S : \A m \in S : ~ (<<m, n>> \in Less)
  BY <1>2, WFMin
<1>4. ASSUME NEW m \in S PROVE n <= m
  <2>1. ~ (m < n)
    BY <1>1, <1>3
  <2>. QED
    BY <2>1
<1>. QED
  BY <1>4

\* The next place is a number beyond those that are taken.
LEMMA NextPlaceIsBeyond ==
  ASSUME NEW places \in SUBSET Nat, NEW B \in Nat, \A p \in places : p <= B, NEW first \in Nat
  PROVE  NextPlace(places, first) \in Nat /\ \A p \in places : p < NextPlace(places, first)
<1>1. CASE places = {}
  BY <1>1 DEF NextPlace
<1>2. CASE places # {}
  <2>. DEFINE Turned == {B - p : p \in places}
  <2>1. Turned \in SUBSET Nat /\ Turned # {}
    BY <1>2
  <2>2. PICK k \in Turned : \A l \in Turned : k <= l
    BY <2>1, LeastPlace
  <2>3. PICK p \in places : k = B - p
    BY <2>2
  <2>4. \A q \in places : q <= p
    <3>. SUFFICES ASSUME NEW q \in places PROVE q <= p
      OBVIOUS
    <3>1. B - p <= B - q
      BY <2>2, <2>3
    <3>. QED
      BY <3>1
  <2>. QED
    BY <1>2, <2>4 DEF NextPlace
<1>. QED
  BY <1>1, <1>2

-----------------------------------------------------------------------------
(* The sections and the lessons *)

EditorSlots == 1 .. MaxEditorCalls

\* The values of EditorTypeOK, with no bound on the places.
PlacedSection == [is : Rows, place : Nat]
PlacedLesson == [is : Rows, section : 0 .. MaxSections, place : Nat, ready : BOOLEAN]
EditorRequest ==
  [kind : {"none", "load", "save", "addSection", "dropSection", "addLesson", "dropLesson", "publish"},
   step : {"asked", "read", "stored", "done"},
   section : 0 .. MaxSections, lesson : 0 .. MaxLessons, place : Nat,
   places : [LessonIds -> Nat], field : Fields \cup {"upload", "none"},
   leads : BOOLEAN, heard : BOOLEAN, outline : Outline]

EditorTypes ==
  /\ courseStatus \in Status
  /\ sections \in [SectionIds -> PlacedSection]
  /\ lessons \in [LessonIds -> PlacedLesson]
  /\ editor \in Editor
  /\ editorCalls \in [EditorSlots -> EditorRequest]

PlacesAreBounded == \E B \in Nat :
  /\ \A s \in SectionIds : sections[s].place <= B
  /\ \A l \in LessonIds : lessons[l].place <= B

Numbering(call) == call.kind = "dropLesson" /\ call.step = "stored"

\* A renumbering gives no two lessons of a section the same place, nor any to a
\* lesson that was made after it was computed.
PlacesFit(places) ==
  /\ \A l \in LessonIds : lessons[l].is = "free" => places[l] = 0
  /\ \A l, k \in KeptLessons :
       l # k /\ lessons[l].section = lessons[k].section /\ places[l] # 0 => places[l] # places[k]

EditorInv ==
  /\ EditorTypes
  /\ PlacesAreBounded
  /\ \A i \in EditorSlots : Numbering(editorCalls[i]) => PlacesFit(editorCalls[i].places)
  /\ LessonsStayFiled

LEMMA EditorConstants ==
  /\ MaxSections \in Nat /\ MaxSections # 0 /\ MaxLessons \in Nat
  /\ NoOutline \in Outline /\ NoEditor \in Editor /\ ~ Numbering(NoEditorCall)
  /\ NoEditorCall \in EditorRequest
<1>1. MaxSections \in Nat /\ MaxSections # 0 /\ MaxLessons \in Nat
  BY EditorAssumption
<1>2. NoOutline \in Outline
  BY DEF NoOutline, Outline, Status
<1>3. NoEditor \in Editor
  BY <1>2 DEF NoEditor, Editor
<1>4. [l \in LessonIds |-> 0] \in [LessonIds -> Nat]
  OBVIOUS
<1>5. NoEditorCall \in EditorRequest
  BY <1>1, <1>2, <1>4 DEF NoEditorCall, EditorRequest
<1>6. ~ Numbering(NoEditorCall)
  BY DEF NoEditorCall, Numbering
<1>. QED
  BY <1>1, <1>2, <1>3, <1>5, <1>6

LEMMA EditorInitInv == EditorInit => EditorInv
<1>. SUFFICES ASSUME EditorInit PROVE EditorInv
  OBVIOUS
<1>. USE EditorConstants
<1>1. \A s \in SectionIds : sections[s] \in PlacedSection /\ sections[s].place = 0
  BY DEF EditorInit, PlacedSection, Rows
<1>2. /\ FreeLesson \in PlacedLesson /\ FreeLesson.place = 0 /\ FreeLesson.is = "free"
      /\ lessons = [l \in LessonIds |-> FreeLesson]
  BY DEF EditorInit, FreeLesson, PlacedLesson, Rows
<1>3. EditorTypes
  BY <1>1, <1>2 DEF EditorInit, EditorTypes, EditorSlots, Status
<1>4. PlacesAreBounded
  <2>1. \A s \in SectionIds : sections[s].place <= 0
    BY <1>1
  <2>2. \A l \in LessonIds : lessons[l].place <= 0
    BY <1>2
  <2>. QED
    BY <2>1, <2>2 DEF PlacesAreBounded
<1>5. LessonsStayFiled
  BY <1>2 DEF LessonsStayFiled, KeptLessons
<1>6. \A i \in EditorSlots : ~ Numbering(editorCalls[i])
  BY DEF EditorInit, EditorSlots
<1>. QED
  BY <1>3, <1>4, <1>5, <1>6 DEF EditorInv

\* The lessons' rows go on: a kept lesson stays in its section, and a new one
\* takes an id that was free.
LessonRowsGoOn == \A l \in LessonIds :
  /\ lessons'[l].is = "kept" /\ lessons[l].is # "free" =>
       lessons[l].is = "kept" /\ lessons'[l].section = lessons[l].section
  /\ lessons'[l].is = "free" => lessons[l].is = "free"

\* What was computed before still fits.
LEMMA PlacesStillFit ==
  ASSUME LessonRowsGoOn, NEW places, PlacesFit(places)
  PROVE  /\ \A l \in LessonIds : lessons'[l].is = "free" => places[l] = 0
         /\ \A l, k \in LessonIds :
              lessons'[l].is = "kept" /\ lessons'[k].is = "kept" /\ l # k
                /\ lessons'[l].section = lessons'[k].section /\ places[l] # 0 => places[l] # places[k]
<1>1. \A l \in LessonIds : lessons'[l].is = "free" => places[l] = 0
  BY DEF LessonRowsGoOn, PlacesFit
<1>2. ASSUME NEW l \in LessonIds, NEW k \in LessonIds,
             lessons'[l].is = "kept", lessons'[k].is = "kept", l # k,
             lessons'[l].section = lessons'[k].section, places[l] # 0
      PROVE  places[l] # places[k]
  <2>1. lessons[l].is = "kept" /\ lessons'[l].section = lessons[l].section
    BY <1>2 DEF LessonRowsGoOn, PlacesFit
  <2>2. CASE lessons[k].is = "free"
    BY <1>2, <2>2 DEF PlacesFit
  <2>3. CASE lessons[k].is # "free"
    <3>1. lessons[k].is = "kept" /\ lessons[k].section = lessons[l].section
      BY <1>2, <2>1, <2>3 DEF LessonRowsGoOn
    <3>. QED
      BY <1>2, <2>1, <3>1 DEF PlacesFit, KeptLessons
  <2>. QED
    BY <2>2, <2>3
<1>. QED
  BY <1>1, <1>2

\* The rows go on, and every request that has computed a renumbering still has it.
LEMMA EditorMoves ==
  ASSUME EditorInv, LessonRowsGoOn,
         courseStatus' \in Status, sections' \in [SectionIds -> PlacedSection],
         lessons' \in [LessonIds -> PlacedLesson], PlacesAreBounded', LessonsStayFiled',
         editor' \in Editor, editorCalls' \in [EditorSlots -> EditorRequest],
         \A i \in EditorSlots : Numbering(editorCalls'[i]) =>
           \/ PlacesFit(editorCalls'[i].places)
           \/ Numbering(editorCalls[i]) /\ editorCalls'[i].places = editorCalls[i].places
  PROVE  EditorInv'
<1>1. EditorTypes'
  BY DEF EditorTypes
<1>2. ASSUME NEW i \in EditorSlots, Numbering(editorCalls[i])' PROVE PlacesFit(editorCalls[i].places)'
  <2>1. PlacesFit(editorCalls'[i].places)
    BY <1>2 DEF EditorInv, Numbering
  <2>. QED
    BY <2>1, PlacesStillFit DEF PlacesFit, KeptLessons
<1>. QED
  BY <1>1, <1>2 DEF EditorInv

\* Without a write of the lessons and sections.
LEMMA EditorAsksOn ==
  ASSUME EditorInv, UNCHANGED <<sections, lessons>>, courseStatus' \in Status,
         editor' \in Editor, editorCalls' \in [EditorSlots -> EditorRequest],
         \A i \in EditorSlots : Numbering(editorCalls'[i]) =>
           \/ PlacesFit(editorCalls'[i].places)
           \/ Numbering(editorCalls[i]) /\ editorCalls'[i].places = editorCalls[i].places
  PROVE  EditorInv'
<1>1. sections' \in [SectionIds -> PlacedSection] /\ lessons' \in [LessonIds -> PlacedLesson]
  BY DEF EditorInv, EditorTypes
<1>2. PlacesAreBounded' /\ LessonsStayFiled'
  BY DEF EditorInv, PlacesAreBounded, LessonsStayFiled, KeptLessons, KeptSections, LessonsOf
<1>3. LessonRowsGoOn
  BY DEF LessonRowsGoOn
<1>. QED
  BY <1>1, <1>2, <1>3, EditorMoves

\* One request goes on.
LEMMA EditorCallMoves ==
  ASSUME EditorInv, NEW i \in EditorSlots, NEW after \in EditorRequest,
         editorCalls' = [editorCalls EXCEPT ![i] = after],
         Numbering(after) => PlacesFit(after.places)
  PROVE  /\ editorCalls' \in [EditorSlots -> EditorRequest]
         /\ \A j \in EditorSlots : Numbering(editorCalls'[j]) =>
              \/ PlacesFit(editorCalls'[j].places)
              \/ Numbering(editorCalls[j]) /\ editorCalls'[j].places = editorCalls[j].places
<1>1. editorCalls \in [EditorSlots -> EditorRequest]
  BY DEF EditorInv, EditorTypes
<1>2. ASSUME NEW j \in EditorSlots, Numbering(editorCalls'[j])
      PROVE  \/ PlacesFit(editorCalls'[j].places)
             \/ Numbering(editorCalls[j]) /\ editorCalls'[j].places = editorCalls[j].places
  <2>1. CASE j = i
    BY <1>1, <1>2, <2>1
  <2>2. CASE j # i
    BY <1>1, <1>2, <2>2
  <2>. QED
    BY <2>1, <2>2
<1>. QED
  BY <1>1, <1>2

\* A new request has computed nothing.
LEMMA EditorAsks ==
  ASSUME EditorInv, UNCHANGED courseRows, editor' \in Editor,
         NEW kind \in {"load", "save", "addSection", "dropSection", "addLesson", "dropLesson", "publish"},
         NEW s \in 0 .. MaxSections, NEW l \in 0 .. MaxLessons,
         NEW field \in Fields \cup {"upload", "none"},
         AsksFor(kind, s, l, field)
  PROVE  EditorInv'
<1>. DEFINE asked == [NoEditorCall EXCEPT !.kind = kind, !.section = s, !.lesson = l, !.field = field]
            call == [asked EXCEPT !.heard = TRUE]
<1>1. asked \in EditorRequest /\ asked.step = "asked"
  BY EditorConstants DEF EditorRequest, NoEditorCall
<1>2. PICK i \in DOMAIN editorCalls : editorCalls' = [editorCalls EXCEPT ![i] = call]
  BY DEF AsksFor, Asks
<1>. HIDE DEF asked
<1>3. call \in EditorRequest /\ ~ Numbering(call)
  BY <1>1 DEF EditorRequest, Numbering
<1>. HIDE DEF call
<1>4. i \in EditorSlots
  BY <1>2 DEF EditorInv, EditorTypes
<1>5. UNCHANGED <<sections, lessons>> /\ courseStatus' \in Status
  BY DEF courseRows, EditorInv, EditorTypes
<1>. QED
  BY <1>2, <1>3, <1>4, <1>5, EditorCallMoves, EditorAsksOn

\* The page asks for what it shows.
LEMMA EditorPageKeeps ==
  ASSUME EditorInv,
         OpensEditor \/ LeavesEditor \/ ChangesSections \/ AddsLesson \/ \E field \in Fields : Saves(field)
  PROVE  EditorInv'
<1>. USE EditorConstants
<1>1. /\ editor \in Editor /\ editorCalls \in [EditorSlots -> EditorRequest]
      /\ courseStatus \in Status
  BY DEF EditorInv, EditorTypes
<1>2. 0 \in 0 .. MaxSections /\ 0 \in 0 .. MaxLessons
  OBVIOUS
<1>3. editor.shown.sections \subseteq 0 .. MaxSections /\ editor.shown.lessons \subseteq 0 .. MaxLessons
  BY <1>1 DEF Editor, Outline, SectionIds, LessonIds
<1>4. ASSUME NEW field \in Fields \cup {"upload"}
      PROVE  [editor EXCEPT !.busy = @ \cup {field}] \in Editor
  BY <1>1 DEF Editor
<1>5. CASE OpensEditor
  <2>1. editor' \in Editor /\ UNCHANGED courseRows /\ AsksFor("load", 0, 0, "none")
    BY <1>5 DEF OpensEditor, Editor
  <2>. QED
    BY <1>2, <2>1, EditorAsks
<1>6. CASE LeavesEditor
  <2>1. /\ editor' \in Editor /\ courseStatus' \in Status /\ UNCHANGED <<sections, lessons>>
        /\ editorCalls' = Unlistened
    BY <1>1, <1>6 DEF LeavesEditor, courseRows
  <2>2. ASSUME NEW c \in EditorRequest
        PROVE  LET unheard == [c EXCEPT !.heard = FALSE]
               IN  unheard \in EditorRequest /\ unheard.places = c.places /\ Numbering(unheard) = Numbering(c)
    BY DEF EditorRequest, Numbering
  <2>3. \A i \in EditorSlots :
          \/ editorCalls'[i] = NoEditorCall
          \/ editorCalls'[i] = [editorCalls[i] EXCEPT !.heard = FALSE]
    BY <1>1, <2>1 DEF Unlistened
  <2>4. DOMAIN editorCalls' = EditorSlots /\ editorCalls' = [i \in EditorSlots |-> editorCalls'[i]]
    BY <1>1, <2>1 DEF Unlistened
  <2>5. editorCalls' \in [EditorSlots -> EditorRequest]
    BY <1>1, <2>2, <2>3, <2>4
  <2>6. \A i \in EditorSlots : Numbering(editorCalls'[i]) =>
          Numbering(editorCalls[i]) /\ editorCalls'[i].places = editorCalls[i].places
    BY <1>1, <2>2, <2>3
  <2>. QED
    BY <2>1, <2>5, <2>6, EditorAsksOn
<1>7. CASE ChangesSections
  <2>1. editor' \in Editor /\ UNCHANGED courseRows
    BY <1>1, <1>7 DEF ChangesSections
  <2>2. \/ AsksFor("addSection", 0, 0, "none") \/ AsksFor("publish", 0, 0, "none")
        \/ \E s \in editor.shown.sections : AsksFor("dropSection", s, 0, "none")
        \/ \E l \in editor.shown.lessons : AsksFor("dropLesson", 0, l, "none")
    BY <1>7 DEF ChangesSections
  <2>. QED
    BY <1>2, <1>3, <2>1, <2>2, EditorAsks
<1>8. CASE AddsLesson
  <2>1. editor' \in Editor /\ UNCHANGED courseRows
    BY <1>4, <1>8 DEF AddsLesson
  <2>2. \E s \in editor.shown.sections : AsksFor("addLesson", s, 0, "upload")
    BY <1>8 DEF AddsLesson
  <2>. QED
    BY <1>2, <1>3, <2>1, <2>2, EditorAsks
<1>9. ASSUME NEW field \in Fields, Saves(field) PROVE EditorInv'
  <2>1. editor' \in Editor /\ UNCHANGED courseRows /\ AsksFor("save", 0, 0, field)
    BY <1>4, <1>9 DEF Saves
  <2>. QED
    BY <1>2, <2>1, EditorAsks
<1>. QED
  BY <1>5, <1>6, <1>7, <1>8, <1>9

\* The steps of a request that neither write the lessons and sections nor compute
\* a renumbering.
LEMMA EditorReads ==
  ASSUME EditorInv, NEW i \in EditorSlots,
         \/ ReadsCourse(i) \/ ShowsCourse(i) \/ ReadsSectionPlace(i) \/ CountsSections(i)
         \/ ReadsLessonPlace(i) \/ FindsReady(i) \/ PublishesCourse(i) \/ SavesField(i)
         \/ Reloads(i) \/ FieldSaved(i) \/ EditorCallFails(i)
  PROVE  EditorInv'
<1>. USE EditorConstants
<1>. DEFINE call == editorCalls[i]
<1>1. /\ editor \in Editor /\ editorCalls \in [EditorSlots -> EditorRequest]
      /\ courseStatus \in Status /\ call \in EditorRequest
      /\ sections \in [SectionIds -> PlacedSection] /\ lessons \in [LessonIds -> PlacedLesson]
  BY DEF EditorInv, EditorTypes
<1>2. ASSUME UNCHANGED <<sections, lessons>>, courseStatus' \in Status, editor' \in Editor,
             NEW after \in EditorRequest, ~ Numbering(after),
             editorCalls' = [editorCalls EXCEPT ![i] = after]
      PROVE  EditorInv'
  BY <1>2, EditorCallMoves, EditorAsksOn
<1>3. ASSUME UNCHANGED <<sections, lessons>>, courseStatus' \in Status, editor' \in Editor,
             Succeeds(i) \/ editorCalls' = Ended(i)
      PROVE  EditorInv'
  <2>. DEFINE done == [NoEditorCall EXCEPT !.kind = call.kind, !.step = "done", !.field = call.field,
                                           !.heard = call.heard]
  <2>1. done \in EditorRequest /\ done.step = "done"
    BY <1>1 DEF EditorRequest, NoEditorCall
  <2>2. editorCalls' = [editorCalls EXCEPT ![i] = done] \/ editorCalls' = [editorCalls EXCEPT ![i] = NoEditorCall]
    BY <1>3 DEF Succeeds, Ended
  <2>. HIDE DEF done
  <2>3. ~ Numbering(done)
    BY <2>1 DEF Numbering
  <2>. QED
    BY <1>2, <1>3, <2>1, <2>2, <2>3
<1>4. ASSUME UNCHANGED <<sections, lessons>>, courseStatus' \in Status, editor' \in Editor, GoesOn(i, "read")
      PROVE  EditorInv'
  <2>. DEFINE after == [call EXCEPT !.step = "read"]
  <2>1. after \in EditorRequest /\ after.step = "read" /\ editorCalls' = [editorCalls EXCEPT ![i] = after]
    BY <1>1, <1>4 DEF EditorRequest, GoesOn
  <2>. HIDE DEF after
  <2>2. ~ Numbering(after)
    BY <2>1 DEF Numbering
  <2>. QED
    BY <1>2, <1>4, <2>1, <2>2
<1>5. ASSUME UNCHANGED <<sections, lessons>>, courseStatus' \in Status, editor' \in Editor,
             NEW place \in Nat, editorCalls' = [editorCalls EXCEPT ![i].step = "read", ![i].place = place]
      PROVE  EditorInv'
  <2>. DEFINE after == [call EXCEPT !.step = "read", !.place = place]
  <2>1. after \in EditorRequest /\ after.step = "read" /\ editorCalls' = [editorCalls EXCEPT ![i] = after]
    BY <1>1, <1>5 DEF EditorRequest
  <2>. HIDE DEF after
  <2>2. ~ Numbering(after)
    BY <2>1 DEF Numbering
  <2>. QED
    BY <1>2, <1>5, <2>1, <2>2
<1>6. PICK B \in Nat : /\ \A s \in SectionIds : sections[s].place <= B
                       /\ \A l \in LessonIds : lessons[l].place <= B
  BY DEF EditorInv, PlacesAreBounded
<1>7. CASE ReadsSectionPlace(i)
  <2>. DEFINE places == {sections[s].place : s \in KeptSections}
  <2>1. places \in SUBSET Nat /\ \A p \in places : p <= B
    BY <1>1, <1>6 DEF KeptSections, PlacedSection
  <2>2. NextPlace(places, 0) \in Nat
    BY <2>1, NextPlaceIsBeyond
  <2>3. /\ editorCalls' = [editorCalls EXCEPT ![i].step = "read", ![i].place = NextPlace(places, 0)]
        /\ UNCHANGED <<sections, lessons>> /\ courseStatus' \in Status /\ editor' \in Editor
    BY <1>1, <1>7 DEF ReadsSectionPlace, courseRows
  <2>. QED
    BY <1>5, <2>2, <2>3
<1>8. CASE ReadsLessonPlace(i)
  <2>. DEFINE places == PlacesOf(call.section)
  <2>1. places \in SUBSET Nat /\ \A p \in places : p <= B
    BY <1>1, <1>6 DEF PlacesOf, LessonsOf, KeptLessons, PlacedLesson
  <2>2. NextPlace(places, 1) \in Nat
    BY <2>1, NextPlaceIsBeyond
  <2>3. /\ editorCalls' = [editorCalls EXCEPT ![i].step = "read", ![i].place = NextPlace(places, 1)]
        /\ UNCHANGED <<sections, lessons>> /\ courseStatus' \in Status /\ editor' \in Editor
    BY <1>1, <1>8 DEF ReadsLessonPlace, courseRows
  <2>. QED
    BY <1>5, <2>2, <2>3
<1>9. CASE ReadsCourse(i)
  <2>. DEFINE read == [status |-> courseStatus, sections |-> KeptSections, lessons |-> KeptLessons,
                       ready |-> \E l \in KeptLessons : lessons[l].ready]
              after == [call EXCEPT !.step = "read", !.outline = read]
  <2>1. (\E l \in KeptLessons : lessons[l].ready) \in BOOLEAN
    OBVIOUS
  <2>2. read \in Outline
    BY <1>1, <2>1 DEF Outline, KeptSections, KeptLessons
  <2>3. /\ editorCalls' = [editorCalls EXCEPT ![i].step = "read", ![i].outline = read]
        /\ UNCHANGED <<sections, lessons>> /\ courseStatus' \in Status /\ editor' \in Editor
    BY <1>1, <1>9 DEF ReadsCourse, courseRows
  <2>. HIDE DEF read
  <2>4. after \in EditorRequest /\ after.step = "read" /\ editorCalls' = [editorCalls EXCEPT ![i] = after]
    BY <1>1, <2>2, <2>3 DEF EditorRequest
  <2>. HIDE DEF after
  <2>5. ~ Numbering(after)
    BY <2>4 DEF Numbering
  <2>. QED
    BY <1>2, <2>3, <2>4, <2>5
<1>10. CASE CountsSections(i) \/ SavesField(i) \/ FindsReady(i) \/ PublishesCourse(i)
  <2>1. UNCHANGED <<sections, lessons>> /\ courseStatus' \in Status /\ editor' \in Editor
    BY <1>1, <1>10 DEF CountsSections, SavesField, FindsReady, PublishesCourse, courseRows, Status
  <2>2. Succeeds(i) \/ GoesOn(i, "read")
    BY <1>10 DEF CountsSections, SavesField, FindsReady, PublishesCourse
  <2>3. CASE Succeeds(i)
    BY <1>3, <2>1, <2>3
  <2>4. CASE GoesOn(i, "read")
    BY <1>4, <2>1, <2>4
  <2>. QED
    BY <2>2, <2>3, <2>4
<1>11. CASE Reloads(i)
  <2>. DEFINE load == [NoEditorCall EXCEPT !.kind = "load", !.field = call.field,
                         !.heard = call.heard, !.leads = call.kind = "publish"]
  <2>1. load \in EditorRequest /\ load.step = "asked"
    <3>1. CASE call.kind = "publish"
      BY <1>1, <3>1 DEF EditorRequest, NoEditorCall
    <3>2. CASE call.kind # "publish"
      BY <1>1, <3>2 DEF EditorRequest, NoEditorCall
    <3>. QED
      BY <3>1, <3>2
  <2>2. \/ editorCalls' = [editorCalls EXCEPT ![i] = NoEditorCall]
        \/ editorCalls' = [editorCalls EXCEPT ![i] = load]
    BY <1>11 DEF Reloads
  <2>. HIDE DEF load
  <2>3. /\ UNCHANGED <<sections, lessons>> /\ courseStatus' \in Status
        /\ editor' \in {editor, [editor EXCEPT !.phase = "loading", !.shown = NoOutline]}
    BY <1>1, <1>11 DEF Reloads, courseRows
  <2>4. editor' \in Editor
    BY <1>1, <2>3 DEF Editor
  <2>5. ~ Numbering(load)
    BY <2>1 DEF Numbering
  <2>. QED
    BY <1>2, <2>1, <2>2, <2>3, <2>4, <2>5
<1>12. CASE FieldSaved(i) \/ EditorCallFails(i)
  <2>1. /\ UNCHANGED <<sections, lessons>> /\ courseStatus' \in Status /\ editorCalls' = Ended(i)
    BY <1>1, <1>12 DEF FieldSaved, EditorCallFails, courseRows
  <2>2. editor' \in {editor, [editor EXCEPT !.busy = @ \ {call.field}],
                     [editor EXCEPT !.phase = "error", !.shown = NoOutline, !.busy = @ \ {call.field}]}
    BY <1>12 DEF FieldSaved, EditorCallFails
  <2>3. editor' \in Editor
    BY <1>1, <2>2 DEF Editor
  <2>. QED
    BY <1>3, <2>1, <2>3
<1>13. CASE ShowsCourse(i)
  <2>1. UNCHANGED <<sections, lessons>> /\ courseStatus' \in Status
    BY <1>1, <1>13 DEF ShowsCourse, courseRows
  <2>2. CASE call.leads
    <3>1. editor' \in Editor /\ editorCalls' = [Unlistened EXCEPT ![i] = NoEditorCall]
      BY <1>13, <2>2 DEF ShowsCourse
    <3>2. ASSUME NEW c \in EditorRequest
          PROVE  LET unheard == [c EXCEPT !.heard = FALSE]
                 IN  unheard \in EditorRequest /\ unheard.places = c.places /\ Numbering(unheard) = Numbering(c)
      BY DEF EditorRequest, Numbering
    <3>3. Unlistened = [j \in EditorSlots |-> Unlistened[j]]
      BY <1>1 DEF Unlistened
    <3>4. \A j \in EditorSlots :
            \/ editorCalls'[j] = NoEditorCall
            \/ editorCalls'[j] = [editorCalls[j] EXCEPT !.heard = FALSE]
      BY <1>1, <3>1 DEF Unlistened
    <3>5. editorCalls' = [j \in EditorSlots |-> editorCalls'[j]]
      BY <3>1, <3>3
    <3>6. editorCalls' \in [EditorSlots -> EditorRequest]
      BY <1>1, <3>2, <3>4, <3>5
    <3>7. \A j \in EditorSlots : Numbering(editorCalls'[j]) =>
            Numbering(editorCalls[j]) /\ editorCalls'[j].places = editorCalls[j].places
      BY <1>1, <3>2, <3>4
    <3>. QED
      BY <2>1, <3>1, <3>6, <3>7, EditorAsksOn
  <2>3. CASE ~ call.leads
    <3>1. editor' \in {editor, [editor EXCEPT !.phase = "ready", !.shown = call.outline,
                                              !.busy = @ \ {call.field}]}
      BY <1>13, <2>3 DEF ShowsCourse
    <3>. DEFINE shown == call.outline
                busy == editor.busy \ {call.field}
    <3>0. shown \in Outline /\ busy \subseteq Fields \cup {"upload"}
      BY <1>1 DEF EditorRequest, Editor
    <3>2. editor' \in {editor, [editor EXCEPT !.phase = "ready", !.shown = shown, !.busy = busy]}
      BY <3>1
    <3>. HIDE DEF shown, busy
    <3>4. editor' \in Editor
      BY <1>1, <3>0, <3>2 DEF Editor
    <3>3. editorCalls' = Ended(i)
      BY <1>13, <2>3 DEF ShowsCourse
    <3>. QED
      BY <1>3, <2>1, <3>3, <3>4
  <2>. QED
    BY <2>2, <2>3
<1>. QED
  BY <1>7, <1>8, <1>9, <1>10, <1>11, <1>12, <1>13

-----------------------------------------------------------------------------
(* What is written                                                           *)

\* A request that ends or goes on has computed no renumbering.
LEMMA EditorWrites ==
  ASSUME EditorInv, NEW i \in EditorSlots, LessonRowsGoOn, UNCHANGED <<courseStatus, editor>>,
         sections' \in [SectionIds -> PlacedSection], lessons' \in [LessonIds -> PlacedLesson],
         PlacesAreBounded', LessonsStayFiled',
         \/ Succeeds(i)
         \/ GoesOn(i, "read")
         \/ \E l \in LessonIds : /\ editorCalls[i].kind = "addLesson"
                                 /\ editorCalls' = [editorCalls EXCEPT ![i].step = "stored", ![i].lesson = l]
  PROVE  EditorInv'
<1>. USE EditorConstants
<1>. DEFINE call == editorCalls[i]
            done == [NoEditorCall EXCEPT !.kind = call.kind, !.step = "done", !.field = call.field,
                                         !.heard = call.heard]
<1>1. /\ editor' \in Editor /\ courseStatus' \in Status
      /\ editorCalls \in [EditorSlots -> EditorRequest] /\ call \in EditorRequest
  BY DEF EditorInv, EditorTypes
<1>2. ASSUME NEW after \in EditorRequest, ~ Numbering(after),
             editorCalls' = [editorCalls EXCEPT ![i] = after]
      PROVE  EditorInv'
  BY <1>1, <1>2, EditorCallMoves, EditorMoves
<1>3. CASE Succeeds(i)
  <2>1. done \in EditorRequest /\ done.step = "done" /\ editorCalls' = [editorCalls EXCEPT ![i] = done]
    BY <1>1, <1>3 DEF EditorRequest, NoEditorCall, Succeeds
  <2>. HIDE DEF done
  <2>. QED
    BY <1>2, <2>1 DEF Numbering
<1>4. CASE GoesOn(i, "read")
  <2>. DEFINE after == [call EXCEPT !.step = "read"]
  <2>1. after \in EditorRequest /\ after.step = "read" /\ editorCalls' = [editorCalls EXCEPT ![i] = after]
    BY <1>1, <1>4 DEF EditorRequest, GoesOn
  <2>. HIDE DEF after
  <2>. QED
    BY <1>2, <2>1 DEF Numbering
<1>5. ASSUME NEW l \in LessonIds, call.kind = "addLesson",
             editorCalls' = [editorCalls EXCEPT ![i].step = "stored", ![i].lesson = l]
      PROVE  EditorInv'
  <2>. DEFINE after == [call EXCEPT !.step = "stored", !.lesson = l]
  <2>1. l \in 0 .. MaxLessons
    BY DEF LessonIds
  <2>2. after \in EditorRequest /\ after.kind = "addLesson" /\ editorCalls' = [editorCalls EXCEPT ![i] = after]
    BY <1>1, <1>5, <2>1 DEF EditorRequest
  <2>. HIDE DEF after
  <2>. QED
    BY <1>2, <2>2 DEF Numbering
<1>. QED
  BY <1>3, <1>4, <1>5

LEMMA GoneRows ==
  /\ GoneSection \in PlacedSection /\ GoneLesson \in PlacedLesson /\ GoneLesson.is = "gone"
  /\ GoneSection.place = 0 /\ GoneLesson.place = 0
<1>1. FreeLesson \in PlacedLesson /\ FreeLesson.place = 0
  BY EditorConstants DEF FreeLesson, PlacedLesson, Rows
<1>2. GoneLesson \in PlacedLesson /\ GoneLesson.is = "gone" /\ GoneLesson.place = 0
  BY <1>1 DEF GoneLesson, PlacedLesson, Rows
<1>3. GoneSection \in PlacedSection /\ GoneSection.place = 0
  BY DEF GoneSection, PlacedSection, Rows
<1>. QED
  BY <1>2, <1>3

\* A section is added, or removed with its lessons.
LEMMA SectionsKeep ==
  ASSUME EditorInv, NEW i \in EditorSlots, InsertsSection(i) \/ DeletesSection(i)
  PROVE  EditorInv'
<1>. USE EditorConstants
<1>. DEFINE call == editorCalls[i]
<1>1. /\ editorCalls \in [EditorSlots -> EditorRequest] /\ call \in EditorRequest
      /\ sections \in [SectionIds -> PlacedSection] /\ lessons \in [LessonIds -> PlacedLesson]
      /\ LessonsStayFiled
  BY DEF EditorInv, EditorTypes
<1>2. PICK B \in Nat : /\ \A s \in SectionIds : sections[s].place <= B
                       /\ \A l \in LessonIds : lessons[l].place <= B
  BY DEF EditorInv, PlacesAreBounded
<1>3. UNCHANGED <<courseStatus, editor>> /\ Succeeds(i)
  BY DEF InsertsSection, DeletesSection
<1>4. CASE InsertsSection(i)
  <2>. DEFINE new == [is |-> "kept", place |-> call.place]
  <2>1. PICK s \in SectionIds : /\ sections[s].is = "free" /\ lessons' = lessons
                                /\ sections' = [sections EXCEPT ![s] = new]
    BY <1>4 DEF InsertsSection, FirstFree
  <2>2. call.place \in Nat /\ new \in PlacedSection /\ new.is = "kept" /\ new.place = call.place
    BY <1>1 DEF EditorRequest, PlacedSection, Rows
  <2>. HIDE DEF new
  <2>3. /\ sections' \in [SectionIds -> PlacedSection] /\ lessons' \in [LessonIds -> PlacedLesson]
        /\ \A x \in SectionIds : sections'[x] = IF x = s THEN new ELSE sections[x]
    BY <1>1, <2>1, <2>2
  <2>4. PlacesAreBounded'
    <3>1. \A x \in SectionIds : sections'[x].place <= B + call.place
      BY <1>1, <1>2, <2>2, <2>3 DEF PlacedSection
    <3>2. \A l \in LessonIds : lessons'[l].place <= B + call.place
      BY <1>1, <1>2, <2>1, <2>2 DEF PlacedLesson
    <3>. QED
      BY <2>2, <3>1, <3>2 DEF PlacesAreBounded
  <2>5. LessonsStayFiled'
    <3>1. KeptSections \subseteq KeptSections'
      BY <2>2, <2>3 DEF KeptSections
    <3>2. KeptLessons' = KeptLessons /\ \A x : LessonsOf(x)' = LessonsOf(x)
      BY <2>1 DEF KeptLessons, LessonsOf
    <3>. QED
      BY <1>1, <2>1, <3>1, <3>2 DEF LessonsStayFiled
  <2>6. LessonRowsGoOn
    BY <2>1 DEF LessonRowsGoOn
  <2>. QED
    BY <1>3, <2>3, <2>4, <2>5, <2>6, EditorWrites
<1>5. CASE DeletesSection(i)
  <2>1. GoneSection \in PlacedSection /\ GoneLesson \in PlacedLesson /\ GoneLesson.is = "gone"
        /\ GoneSection.place = 0 /\ GoneLesson.place = 0
    BY GoneRows
  <2>2. /\ sections' = [sections EXCEPT ![call.section] = GoneSection]
        /\ lessons' = [l \in LessonIds |-> IF l \in LessonsOf(call.section) THEN GoneLesson ELSE lessons[l]]
    BY <1>5 DEF DeletesSection, WithoutLessonsOf
  <2>3. /\ sections' \in [SectionIds -> PlacedSection]
        /\ \A x \in SectionIds : sections'[x] = IF x = call.section THEN GoneSection ELSE sections[x]
    BY <1>1, <2>1, <2>2
  <2>4. lessons' \in [LessonIds -> PlacedLesson]
    BY <1>1, <2>1, <2>2
  <2>5. \A l \in LessonIds : lessons'[l] = IF l \in LessonsOf(call.section) THEN GoneLesson ELSE lessons[l]
    BY <2>2
  <2>6. PlacesAreBounded'
    <3>1. \A x \in SectionIds : sections'[x].place <= B
      BY <1>2, <2>1, <2>3
    <3>2. \A l \in LessonIds : lessons'[l].place <= B
      BY <1>2, <2>1, <2>5
    <3>. QED
      BY <3>1, <3>2 DEF PlacesAreBounded
  <2>7. LessonRowsGoOn
    BY <2>1, <2>5 DEF LessonRowsGoOn, LessonsOf, KeptLessons
  <2>8. \A l \in KeptLessons' : /\ l \in KeptLessons /\ lessons'[l] = lessons[l]
                                /\ lessons[l].section # call.section
    BY <2>1, <2>5 DEF KeptLessons, LessonsOf
  <2>9. LessonsStayFiled'
    <3>. SUFFICES ASSUME NEW l \in KeptLessons'
                  PROVE  /\ lessons'[l].section \in KeptSections'
                         /\ \A k \in KeptLessons' : k # l /\ lessons'[k].section = lessons'[l].section =>
                              lessons'[k].place # lessons'[l].place
      BY DEF LessonsStayFiled, LessonsOf
    <3>1. /\ lessons[l].section \in KeptSections
          /\ \A k \in KeptLessons : k # l /\ lessons[k].section = lessons[l].section =>
               lessons[k].place # lessons[l].place
      BY <1>1, <2>8 DEF LessonsStayFiled, LessonsOf
    <3>2. lessons'[l].section \in KeptSections'
      BY <2>3, <2>8, <3>1 DEF KeptSections
    <3>. QED
      BY <2>8, <3>1, <3>2
  <2>. QED
    BY <1>3, <2>3, <2>4, <2>6, <2>7, <2>9, EditorWrites
<1>. QED
  BY <1>4, <1>5

\* A lesson is inserted where its section admits it, or deleted, or gets its video.
LEMMA LessonsKeep ==
  ASSUME EditorInv, NEW i \in EditorSlots,
         InsertsLesson(i) \/ DeletesLesson(i) \/ UploadsVideo(i)
  PROVE  EditorInv'
<1>. USE EditorConstants
<1>. DEFINE call == editorCalls[i]
<1>1. /\ editorCalls \in [EditorSlots -> EditorRequest] /\ call \in EditorRequest
      /\ sections \in [SectionIds -> PlacedSection] /\ lessons \in [LessonIds -> PlacedLesson]
      /\ LessonsStayFiled
  BY DEF EditorInv, EditorTypes
<1>2. PICK B \in Nat : /\ \A s \in SectionIds : sections[s].place <= B
                       /\ \A l \in LessonIds : lessons[l].place <= B
  BY DEF EditorInv, PlacesAreBounded
<1>3. UNCHANGED <<courseStatus, editor, sections>> /\ sections' \in [SectionIds -> PlacedSection]
  BY <1>1 DEF InsertsLesson, DeletesLesson, UploadsVideo
<1>4. ASSUME NEW l \in LessonIds, NEW new \in PlacedLesson, lessons' = [lessons EXCEPT ![l] = new],
             lessons[l].is # "free" /\ new.is = "kept" =>
               /\ lessons[l].is = "kept" /\ new.section = lessons[l].section
               /\ new.place = lessons[l].place,
             new.is # "free",
             new.is = "kept" /\ lessons[l].is = "free" =>
               /\ new.section \in KeptSections
               /\ \A k \in KeptLessons : lessons[k].section = new.section => lessons[k].place # new.place
      PROVE  /\ lessons' \in [LessonIds -> PlacedLesson] /\ LessonRowsGoOn
             /\ PlacesAreBounded' /\ LessonsStayFiled'
  <2>1. /\ lessons' \in [LessonIds -> PlacedLesson]
        /\ \A k \in LessonIds : lessons'[k] = IF k = l THEN new ELSE lessons[k]
    BY <1>1, <1>4
  <2>2. LessonRowsGoOn
    BY <1>4, <2>1 DEF LessonRowsGoOn
  <2>3. PlacesAreBounded'
    <3>1. new.place \in Nat /\ \A k \in LessonIds : lessons[k].place \in Nat
      BY <1>1 DEF PlacedLesson
    <3>2. \A k \in LessonIds : lessons'[k].place <= B + new.place
      BY <1>2, <2>1, <3>1
    <3>3. \A s \in SectionIds : sections'[s].place <= B + new.place
      BY <1>1, <1>2, <1>3, <3>1 DEF PlacedSection
    <3>. QED
      BY <3>1, <3>2, <3>3 DEF PlacesAreBounded
  <2>4. KeptSections' = KeptSections
    BY <1>3 DEF KeptSections
  <2>5. \A k \in KeptLessons : /\ lessons[k].section \in KeptSections
                               /\ \A j \in KeptLessons : j # k /\ lessons[j].section = lessons[k].section =>
                                    lessons[j].place # lessons[k].place
    BY <1>1 DEF LessonsStayFiled, LessonsOf
  <2>6. ASSUME NEW k \in KeptLessons', k # l PROVE k \in KeptLessons /\ lessons'[k] = lessons[k]
    BY <2>1, <2>6 DEF KeptLessons
  <2>7. ASSUME l \in KeptLessons'
        PROVE  /\ lessons'[l].section \in KeptSections
               /\ \A j \in KeptLessons : j # l /\ lessons[j].section = lessons'[l].section =>
                    lessons[j].place # lessons'[l].place
    <3>1. lessons'[l] = new /\ new.is = "kept"
      BY <2>1, <2>7 DEF KeptLessons
    <3>2. CASE lessons[l].is = "free"
      BY <1>4, <3>1, <3>2
    <3>3. CASE lessons[l].is # "free"
      <4>1. l \in KeptLessons /\ new.section = lessons[l].section /\ new.place = lessons[l].place
        BY <1>4, <3>1, <3>3 DEF KeptLessons
      <4>. QED
        BY <2>5, <3>1, <4>1
    <3>. QED
      BY <3>2, <3>3
  <2>8. LessonsStayFiled'
    <3>. SUFFICES ASSUME NEW k \in KeptLessons'
                  PROVE  /\ lessons'[k].section \in KeptSections
                         /\ \A j \in KeptLessons' : j # k /\ lessons'[j].section = lessons'[k].section =>
                              lessons'[j].place # lessons'[k].place
      BY <2>4 DEF LessonsStayFiled, LessonsOf
    <3>1. CASE k = l
      BY <2>6, <2>7, <3>1
    <3>2. CASE k # l
      <4>1. lessons'[k].section \in KeptSections
        BY <2>5, <2>6, <3>2
      <4>2. ASSUME NEW j \in KeptLessons', j # k, lessons'[j].section = lessons'[k].section
            PROVE  lessons'[j].place # lessons'[k].place
        <5>1. CASE j = l
          BY <2>6, <2>7, <3>2, <4>2, <5>1
        <5>2. CASE j # l
          BY <2>5, <2>6, <3>2, <4>2, <5>2
        <5>. QED
          BY <5>1, <5>2
      <4>. QED
        BY <4>1, <4>2
    <3>. QED
      BY <3>1, <3>2
  <2>. QED
    BY <2>1, <2>2, <2>3, <2>8
<1>5. CASE InsertsLesson(i)
  <2>. DEFINE new == [is |-> "kept", section |-> call.section, place |-> call.place, ready |-> FALSE]
  <2>1. PICK l \in LessonIds :
          /\ lessons[l].is = "free" /\ lessons' = [lessons EXCEPT ![l] = new]
          /\ editorCalls' = [editorCalls EXCEPT ![i].step = "stored", ![i].lesson = l]
    BY <1>5 DEF InsertsLesson, FirstFree
  <2>2. /\ call.section \in KeptSections /\ call.kind = "addLesson"
        /\ \A k \in KeptLessons : lessons[k].section = call.section => lessons[k].place # call.place
    BY <1>5 DEF InsertsLesson, AdmitsLesson, CallIs, KeptLessons
  <2>3. /\ new \in PlacedLesson /\ new.is = "kept" /\ new.section = call.section
        /\ new.place = call.place
    BY <1>1 DEF EditorRequest, PlacedLesson, Rows
  <2>. HIDE DEF new
  <2>. QED
    BY <1>3, <1>4, <2>1, <2>2, <2>3, EditorWrites
<1>6. CASE DeletesLesson(i)
  <2>1. GoneLesson \in PlacedLesson /\ GoneLesson.is = "gone"
    BY GoneRows
  <2>2. /\ call.lesson \in LessonIds /\ GoesOn(i, "read")
        /\ lessons' = [lessons EXCEPT ![call.lesson] = GoneLesson]
    BY <1>6 DEF DeletesLesson, KeptLessons
  <2>. QED
    BY <1>3, <1>4, <2>1, <2>2, EditorWrites
<1>7. CASE UploadsVideo(i)
  <2>1. /\ call.lesson \in LessonIds /\ lessons[call.lesson].is = "kept" /\ Succeeds(i)
    BY <1>7 DEF UploadsVideo, KeptLessons
  <2>2. PICK ready \in BOOLEAN : lessons' = [lessons EXCEPT ![call.lesson].ready = ready]
    BY <1>7 DEF UploadsVideo
  <2>. DEFINE new == [lessons[call.lesson] EXCEPT !.ready = ready]
  <2>3. /\ new \in PlacedLesson /\ new.is = "kept" /\ new.section = lessons[call.lesson].section
        /\ new.place = lessons[call.lesson].place
        /\ lessons' = [lessons EXCEPT ![call.lesson] = new]
    BY <1>1, <2>1, <2>2 DEF PlacedLesson
  <2>. HIDE DEF new
  <2>. QED
    BY <1>3, <1>4, <2>1, <2>3, EditorWrites
<1>. QED
  BY <1>5, <1>6, <1>7

\* The numbers of a list that is read give no two lessons of a section one place.
LEMMA CompactedFit ==
  ASSUME EditorInv,
         NEW places \in [LessonIds -> Nat],
         \A l \in LessonIds : places[l] # 0 => l \in KeptLessons /\ places[l] = Compacted(l)
  PROVE  PlacesFit(places)
<1>. DEFINE Upto(l) == {k \in LessonsOf(lessons[l].section) : lessons[k].place <= lessons[l].place}
<1>1. IsFiniteSet(LessonIds)
  BY EditorConstants, FS_Interval DEF LessonIds
<1>2. \A l : IsFiniteSet(Upto(l)) /\ Cardinality(Upto(l)) \in Nat
  <2>1. \A l : Upto(l) \in SUBSET LessonIds
    BY DEF LessonsOf, KeptLessons
  <2>. QED
    BY <1>1, <2>1, FS_Subset, FS_CardinalityType
<1>3. lessons \in [LessonIds -> PlacedLesson]
  BY DEF EditorInv, EditorTypes
\* Of two lessons in one section, the later one counts the other and itself.
<1>4. ASSUME NEW l \in KeptLessons, NEW k \in KeptLessons,
             lessons[l].section = lessons[k].section, lessons[l].place < lessons[k].place
      PROVE  Compacted(l) # Compacted(k)
  <2>1. lessons[l].place \in Nat /\ lessons[k].place \in Nat /\ k \in LessonIds
    BY <1>3 DEF KeptLessons, PlacedLesson
  <2>2. Upto(l) \in SUBSET Upto(k)
    BY <1>3, <1>4, <2>1 DEF LessonsOf, KeptLessons, PlacedLesson
  <2>3. k \in Upto(k) /\ k \notin Upto(l)
    BY <1>4, <2>1 DEF LessonsOf
  <2>. HIDE DEF Upto
  <2>4. Cardinality(Upto(k)) # Cardinality(Upto(l))
    BY <1>2, <2>2, <2>3, FS_Subset
  <2>. QED
    BY <2>4 DEF Compacted, Upto
<1>5. ASSUME NEW l \in KeptLessons, NEW k \in KeptLessons, l # k,
             lessons[l].section = lessons[k].section, places[l] # 0
      PROVE  places[l] # places[k]
  <2>1. /\ lessons[l].place \in Nat /\ lessons[k].place \in Nat
        /\ l \in LessonIds /\ k \in LessonIds
    BY <1>3 DEF KeptLessons, PlacedLesson
  <2>2. lessons[l].place # lessons[k].place
    BY <1>5 DEF EditorInv, LessonsStayFiled, LessonsOf
  <2>3. Compacted(l) # Compacted(k)
    <3>1. CASE lessons[l].place < lessons[k].place
      BY <1>4, <1>5, <3>1
    <3>2. CASE lessons[k].place < lessons[l].place
      BY <1>4, <1>5, <3>2
    <3>. QED
      BY <2>1, <2>2, <3>1, <3>2
  <2>4. CASE places[k] = 0
    BY <1>5, <2>4
  <2>5. CASE places[k] # 0
    BY <1>5, <2>1, <2>3, <2>5
  <2>. QED
    BY <2>4, <2>5
<1>6. \A l \in LessonIds : lessons[l].is = "free" => places[l] = 0
  BY DEF KeptLessons
<1>. QED
  BY <1>5, <1>6 DEF PlacesFit

\* What the request computes fits the list it reads.
LEMMA ListKeeps == ASSUME EditorInv, NEW i \in EditorSlots, ListsLessons(i) PROVE EditorInv'
<1>. USE EditorConstants
<1>. DEFINE call == editorCalls[i]
            places == [l \in LessonIds |->
              IF l \in KeptLessons /\ lessons[l].place # Compacted(l) THEN Compacted(l) ELSE 0]
            after == [call EXCEPT !.step = "stored", !.places = places]
<1>1. /\ editor' \in Editor /\ courseStatus' \in Status /\ UNCHANGED <<courseRows, editor>>
      /\ editorCalls \in [EditorSlots -> EditorRequest] /\ call \in EditorRequest
      /\ sections \in [SectionIds -> PlacedSection] /\ lessons \in [LessonIds -> PlacedLesson]
  BY DEF EditorInv, EditorTypes, ListsLessons, courseRows
<1>2. \A l \in LessonIds : Compacted(l) \in Nat
  <2>1. IsFiniteSet(LessonIds)
    BY FS_Interval DEF LessonIds
  <2>2. \A l : {k \in LessonsOf(lessons[l].section) : lessons[k].place <= lessons[l].place}
                 \in SUBSET LessonIds
    BY DEF LessonsOf, KeptLessons
  <2>. QED
    BY <2>1, <2>2, FS_Subset, FS_CardinalityType DEF Compacted
<1>3. places \in [LessonIds -> Nat]
  BY <1>2
<1>4. \A l \in LessonIds : places[l] # 0 => l \in KeptLessons /\ places[l] = Compacted(l)
  OBVIOUS
<1>5. \/ Succeeds(i)
      \/ editorCalls' = [editorCalls EXCEPT ![i].step = "stored", ![i].places = places]
  BY DEF ListsLessons
<1>. HIDE DEF places
<1>6. PlacesFit(places)
  BY <1>3, <1>4, CompactedFit
<1>7. CASE Succeeds(i)
  <2>1. UNCHANGED <<courseStatus, editor, sections, lessons>>
    BY <1>1 DEF courseRows
  <2>2. /\ PlacesAreBounded' /\ LessonsStayFiled' /\ LessonRowsGoOn
    BY <2>1 DEF EditorInv, PlacesAreBounded, LessonsStayFiled, LessonRowsGoOn, KeptLessons, KeptSections,
       LessonsOf
  <2>. QED
    BY <1>1, <1>7, <2>1, <2>2, EditorWrites
<1>8. CASE editorCalls' = [editorCalls EXCEPT ![i].step = "stored", ![i].places = places]
  <2>1. /\ after \in EditorRequest /\ after.places = places
        /\ editorCalls' = [editorCalls EXCEPT ![i] = after]
    BY <1>1, <1>3, <1>8 DEF EditorRequest
  <2>2. UNCHANGED <<sections, lessons>>
    BY <1>1 DEF courseRows
  <2>. HIDE DEF after
  <2>. QED
    BY <1>1, <1>6, <2>1, <2>2, EditorCallMoves, EditorAsksOn
<1>. QED
  BY <1>5, <1>7, <1>8

\* The renumbering that was computed still gives no two lessons one place, and its
\* updates stop at a place that is taken by a lesson it does not move.
LEMMA NumbersKeep == ASSUME EditorInv, NEW i \in EditorSlots, NumbersLessons(i) PROVE EditorInv'
<1>. USE EditorConstants
<1>. DEFINE places == editorCalls[i].places
            moved(l) == lessons[l].is = "kept" /\ places[l] \in 1 .. MaxLessons
<1>1. /\ UNCHANGED <<courseStatus, editor, sections>> /\ Succeeds(i)
      /\ sections' \in [SectionIds -> PlacedSection] /\ lessons \in [LessonIds -> PlacedLesson]
      /\ sections \in [SectionIds -> PlacedSection]
      /\ places \in [LessonIds -> Nat] /\ PlacesFit(places)
      /\ LessonsStayFiled
  BY DEF EditorInv, EditorTypes, NumbersLessons, EditorRequest, CallIs, Numbering
<1>2. lessons' = [l \in LessonIds |-> IF moved(l) THEN [lessons[l] EXCEPT !.place = places[l]]
                                      ELSE lessons[l]]
  BY DEF NumbersLessons, Renumbered
<1>3. ASSUME NEW l \in LessonIds
      PROVE  /\ lessons'[l] \in PlacedLesson /\ lessons'[l].is = lessons[l].is
             /\ lessons'[l].section = lessons[l].section
             /\ lessons'[l].place = IF moved(l) THEN places[l] ELSE lessons[l].place
  BY <1>1, <1>2 DEF PlacedLesson
<1>4. lessons' \in [LessonIds -> PlacedLesson]
  BY <1>2, <1>3
<1>5. LessonRowsGoOn
  BY <1>3 DEF LessonRowsGoOn
<1>6. PlacesAreBounded'
  <2>1. PICK B \in Nat : /\ \A s \in SectionIds : sections[s].place <= B
                         /\ \A l \in LessonIds : lessons[l].place <= B
    BY DEF EditorInv, PlacesAreBounded
  <2>2. \A l \in LessonIds : lessons[l].place \in Nat
    BY <1>1 DEF PlacedLesson
  <2>3. \A l \in LessonIds : lessons'[l].place <= B + MaxLessons
    BY <1>1, <1>3, <2>1, <2>2
  <2>4. \A s \in SectionIds : sections'[s].place <= B + MaxLessons
    BY <1>1, <2>1 DEF PlacedSection
  <2>5. B + MaxLessons \in Nat
    BY <2>1
  <2>. HIDE DEF places
  <2>. QED
    BY <2>3, <2>4, <2>5 DEF PlacesAreBounded
<1>7. KeptLessons' = KeptLessons /\ KeptSections' = KeptSections
  BY <1>1, <1>3 DEF KeptLessons, KeptSections
\* A lesson that is moved does not meet one that is not.
<1>8. ASSUME NEW l \in KeptLessons, NEW k \in KeptLessons, k # l,
             lessons[l].section = lessons[k].section, moved(l), ~ moved(k)
      PROVE  places[l] # lessons[k].place
  <2>1. places[l] # 0 /\ places[l] \in 1 .. MaxLessons /\ k \in LessonsOf(lessons[l].section) \ {l}
    BY <1>8 DEF LessonsOf
  <2>2. Renumbered(places, places[l] - 1)[k].place # places[l]
    BY <2>1 DEF NumbersLessons
  <2>3. ~ (lessons[k].is = "kept" /\ places[k] \in 1 .. (places[l] - 1))
    BY <1>8, <2>1
  <2>4. Renumbered(places, places[l] - 1)[k] = lessons[k]
    BY <2>3 DEF Renumbered, KeptLessons
  <2>. QED
    BY <2>2, <2>4
<1>9. LessonsStayFiled'
  <2>. SUFFICES ASSUME NEW l \in KeptLessons
                PROVE  /\ lessons'[l].section \in KeptSections
                       /\ \A k \in KeptLessons : k # l /\ lessons'[k].section = lessons'[l].section =>
                            lessons'[k].place # lessons'[l].place
    BY <1>7 DEF LessonsStayFiled, LessonsOf
  <2>1. lessons'[l].section \in KeptSections
    BY <1>1, <1>3 DEF LessonsStayFiled, KeptLessons
  <2>2. ASSUME NEW k \in KeptLessons, k # l, lessons'[k].section = lessons'[l].section
        PROVE  lessons'[k].place # lessons'[l].place
    <3>1. /\ l \in LessonIds /\ k \in LessonIds /\ lessons[l].section = lessons[k].section
      BY <1>3, <2>2 DEF KeptLessons
    <3>2. /\ lessons'[l].place = IF moved(l) THEN places[l] ELSE lessons[l].place
          /\ lessons'[k].place = IF moved(k) THEN places[k] ELSE lessons[k].place
      BY <1>3, <3>1
    <3>3. lessons[k].place # lessons[l].place
      BY <1>1, <2>2, <3>1 DEF LessonsStayFiled, LessonsOf
    <3>4. places[l] # 0 => places[l] # places[k]
      BY <1>1, <2>2, <3>1 DEF PlacesFit
    <3>5. moved(l) => places[l] # 0
      OBVIOUS
    <3>6. moved(l) /\ ~ moved(k) => places[l] # lessons[k].place
      BY <1>8, <2>2, <3>1
    <3>7. moved(k) /\ ~ moved(l) => places[k] # lessons[l].place
      BY <1>8, <2>2, <3>1
    <3>. HIDE DEF moved, places
    <3>. QED
      BY <3>2, <3>3, <3>4, <3>5, <3>6, <3>7
  <2>. QED
    BY <2>1, <2>2
<1>. QED
  BY <1>1, <1>4, <1>5, <1>6, <1>9, EditorWrites

LEMMA EditorStepInv == EditorInv /\ [EditorNext]_editorVars => EditorInv'
<1>. SUFFICES ASSUME EditorInv, [EditorNext]_editorVars PROVE EditorInv'
  OBVIOUS
<1>1. CASE UNCHANGED editorVars
  BY <1>1 DEF editorVars, EditorInv, EditorTypes, PlacesAreBounded, Numbering, PlacesFit,
     LessonsStayFiled, KeptLessons, KeptSections, LessonsOf
<1>2. CASE EditorNext
  BY <1>2, EditorPageKeeps, EditorReads, SectionsKeep, LessonsKeep, ListKeeps, NumbersKeep
  DEF EditorNext, EditorSlots
<1>. QED
  BY <1>1, <1>2

\* In every run of the editor a lesson is in a section of the course, and alone at
\* its place, for any number of sections, lessons and requests.
THEOREM LessonsAlwaysFiled == EditorSpec => []LessonsStayFiled
<1>1. EditorInv => LessonsStayFiled
  BY DEF EditorInv
<1>. QED
  BY EditorInitInv, EditorStepInv, <1>1, PTL DEF EditorSpec

-----------------------------------------------------------------------------
(* The two areas together *)

LEMMA StaffAreasAreKept ==
  /\ StaffInit => TeamInit /\ EditorInit
  /\ [StaffNext]_staffVars => [TeamNext]_teamVars /\ [EditorNext]_editorVars
<1>1. StaffInit => TeamInit /\ EditorInit
  BY DEF StaffInit
<1>2. ASSUME [StaffNext]_staffVars PROVE [TeamNext]_teamVars /\ [EditorNext]_editorVars
  BY <1>2 DEF StaffNext, staffVars
<1>. QED
  BY <1>1, <1>2

\* In every run of the staff's pages both areas keep what they keep alone.
THEOREM StaffAppIsSafe == StaffSpec => [](OneOpenApplication /\ LessonsStayFiled)
<1>1. StaffSpec => TeamSpec /\ EditorSpec
  BY StaffAreasAreKept, PTL DEF StaffSpec, TeamSpec, EditorSpec
<1>. QED
  BY <1>1, OneAlwaysOpen, LessonsAlwaysFiled, PTL

=============================================================================
