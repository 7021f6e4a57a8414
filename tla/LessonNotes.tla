----------------------------- MODULE LessonNotes -----------------------------
(* A student's private notes on the lessons of a course: the rows, and the   *)
(* tabs under the video that list and change them. The tabs stay mounted when*)
(* the player goes to another lesson, nothing cancels a request of the lesson*)
(* before, and the list stays on the screen until another one answers.       *)
EXTENDS Naturals, Sequences, FiniteSets

CONSTANTS
  LastNoted,      \* the lessons are 1 .. LastNoted
  NoteLimit,      \* MAX_NOTES_PER_USER_LESSON, 50 in the code
  MaxNotes,       \* bound on the notes ever written
  MaxNoteCalls    \* bound on the requests under way

ASSUME NotesAssumption ==
  /\ LastNoted \in Nat \ {0}
  /\ NoteLimit \in Nat \ {0}
  /\ MaxNotes \in Nat
  /\ MaxNoteCalls \in Nat \ {0}

VARIABLES
  notes,      \* the rows ever inserted, in that order
  noteTabs,   \* what the tabs hold
  noteCalls   \* slot -> a request under way

noteVars == <<notes, noteTabs, noteCalls>>

NoteIds == 1 .. MaxNotes
Note == [lesson : 1 .. LastNoted, body : {"written", "edited"}, deleted : BOOLEAN]

NoteTabs == [lesson : 0 .. LastNoted,   \* 0 away from the player
             enabled : BOOLEAN,         \* contentEnabled
             shown : SUBSET NoteIds, busy : BOOLEAN]
NoTabs == [lesson |-> 0, enabled |-> FALSE, shown |-> {}, busy |-> FALSE]

NoteCall == [kind : {"none", "list", "create", "update", "delete"},
             step : {"asked", "checked", "answered"},
             lesson : 0 .. LastNoted, note : 0 .. MaxNotes,
             listed : SUBSET NoteIds, heard : BOOLEAN]
NoNoteCall == [kind |-> "none", step |-> "asked", lesson |-> 0, note |-> 0,
               listed |-> {}, heard |-> FALSE]

NotesInit ==
  /\ notes = <<>>
  /\ noteTabs = NoTabs
  /\ noteCalls = [i \in 1 .. MaxNoteCalls |-> NoNoteCall]

SendNote(kind, lesson, n, rest) ==
  \E i \in DOMAIN rest :
    /\ rest[i].kind = "none" /\ \A j \in 1 .. (i - 1) : rest[j].kind # "none"
    /\ noteCalls' = [rest EXCEPT ![i] = [NoNoteCall EXCEPT
         !.kind = kind, !.lesson = lesson, !.note = n, !.heard = TRUE]]

NoteCallIs(i, kinds, step) == noteCalls[i].kind \in kinds /\ noteCalls[i].step = step
NoteCallEnds(i) == [noteCalls EXCEPT ![i] = NoNoteCall]
NotesUnheard == [i \in DOMAIN noteCalls |-> [noteCalls[i] EXCEPT !.heard = FALSE]]

-----------------------------------------------------------------------------
(* The tabs.                                                                 *)

(* The player opens a lesson, or goes to another one, or learns or loses that*)
(* the student may see the content. The tabs ask for the notes if so; if not,*)
(* they are cleared.                                                         *)
ShowsLesson(l, enabled) ==
  LET kept == noteTabs.lesson # 0 IN
  /\ <<l, enabled>> # <<noteTabs.lesson, noteTabs.enabled>>
  /\ noteTabs' = [(IF kept THEN noteTabs ELSE NoTabs) EXCEPT
       !.lesson = l, !.enabled = enabled, !.shown = IF enabled THEN @ ELSE {}]
  /\ IF enabled THEN SendNote("list", l, 0, noteCalls) ELSE UNCHANGED noteCalls
  /\ UNCHANGED notes

LeavesNotes ==
  /\ noteTabs.lesson # 0
  /\ noteTabs' = NoTabs
  /\ noteCalls' = NotesUnheard
  /\ UNCHANGED notes

(* The buttons send the address's lesson, whose ever the note shown is. Only *)
(* the saving of texts waits for the request before.                         *)
ChangesNote(kind, n) ==
  /\ noteTabs.lesson # 0 /\ noteTabs.enabled
  /\ kind # "delete" => ~noteTabs.busy
  /\ noteTabs' = [noteTabs EXCEPT !.busy = TRUE]
  /\ SendNote(kind, noteTabs.lesson, n, noteCalls)
  /\ UNCHANGED notes

-----------------------------------------------------------------------------
(* The catalog.                                                              *)

NotesOf(l) == {n \in DOMAIN notes : notes[n].lesson = l /\ ~notes[n].deleted}

ListsNotes(i) ==
  /\ NoteCallIs(i, {"list"}, "asked")
  /\ noteCalls' = [noteCalls EXCEPT ![i].step = "answered",
                                   ![i].listed = NotesOf(noteCalls[i].lesson)]
  /\ UNCHANGED <<notes, noteTabs>>

HasRoomForNote(l) == Cardinality(NotesOf(l)) < NoteLimit

(* FAULT: any note of the student's is found, under any lesson.              *)
OwnsAnyNote(l, n) == n \in DOMAIN notes /\ ~notes[n].deleted

(* _get_owned_note: the note's own lesson is the one of the address.         *)
OwnsNote(l, n) == n \in NotesOf(l)

ChecksNote(i) ==
  LET call == noteCalls[i] IN
  /\ NoteCallIs(i, {"create", "update", "delete"}, "asked")
  /\ IF call.kind = "create" THEN HasRoomForNote(call.lesson)
     ELSE OwnsNote(call.lesson, call.note)
  /\ noteCalls' = [noteCalls EXCEPT ![i].step = "checked"]
  /\ UNCHANGED <<notes, noteTabs>>

InsertsNote(i) ==
  /\ NoteCallIs(i, {"create"}, "checked")
  /\ Len(notes) < MaxNotes
  /\ notes' = Append(notes, [lesson |-> noteCalls[i].lesson, body |-> "written",
                             deleted |-> FALSE])
  /\ noteCalls' = [noteCalls EXCEPT ![i].step = "answered", ![i].note = Len(notes')]
  /\ UNCHANGED noteTabs

(* By the note's id alone; an update that finds no row fails.                *)
WritesNote(i) ==
  LET call == noteCalls[i] IN
  /\ NoteCallIs(i, {"update", "delete"}, "checked")
  /\ call.kind = "update" => ~notes[call.note].deleted
  /\ notes' = IF call.kind = "update" THEN [notes EXCEPT ![call.note].body = "edited"]
              ELSE [notes EXCEPT ![call.note].deleted = TRUE]
  /\ noteCalls' = [noteCalls EXCEPT ![i].step = "answered"]
  /\ UNCHANGED noteTabs

-----------------------------------------------------------------------------
(* Answers, whatever lesson the tabs have gone to.                           *)

ShowsNotes(i) ==
  /\ NoteCallIs(i, {"list"}, "answered")
  /\ noteTabs' = IF noteCalls[i].heard
                 THEN [noteTabs EXCEPT !.shown = noteCalls[i].listed] ELSE noteTabs
  /\ noteCalls' = NoteCallEnds(i)
  /\ UNCHANGED notes

ShowsChange(i) ==
  LET call == noteCalls[i] IN
  /\ NoteCallIs(i, {"create", "update", "delete"}, "answered")
  /\ noteTabs' = IF ~call.heard THEN noteTabs
       ELSE [noteTabs EXCEPT !.busy = FALSE,
              !.shown = CASE call.kind = "create" -> @ \cup {call.note}
                          [] call.kind = "delete" -> @ \ {call.note}
                          [] OTHER -> @]
  /\ noteCalls' = NoteCallEnds(i)
  /\ UNCHANGED notes

(* Refused, or lost before or after it took effect. A list that fails shows  *)
(* as no notes.                                                              *)
NoteCallFails(i) ==
  LET call == noteCalls[i] IN
  /\ call.kind # "none"
  /\ noteTabs' = IF ~call.heard THEN noteTabs
       ELSE IF call.kind = "list" THEN [noteTabs EXCEPT !.shown = {}]
       ELSE [noteTabs EXCEPT !.busy = FALSE]
  /\ noteCalls' = NoteCallEnds(i)
  /\ UNCHANGED notes

NotesNext ==
  \/ \E l \in 1 .. LastNoted, enabled \in BOOLEAN : ShowsLesson(l, enabled)
  \/ LeavesNotes
  \/ ChangesNote("create", 0)
  \/ \E n \in noteTabs.shown, kind \in {"update", "delete"} : ChangesNote(kind, n)
  \/ \E i \in 1 .. MaxNoteCalls :
       \/ ListsNotes(i) \/ ChecksNote(i) \/ InsertsNote(i) \/ WritesNote(i)
       \/ ShowsNotes(i) \/ ShowsChange(i) \/ NoteCallFails(i)

NotesSpec == NotesInit /\ [][NotesNext]_noteVars

-----------------------------------------------------------------------------
(* The values of the rows, the tabs and the requests.                        *)
NotesTypeOK ==
  /\ notes \in Seq(Note) /\ Len(notes) <= MaxNotes
  /\ noteTabs \in NoteTabs
  /\ noteCalls \in [1 .. MaxNoteCalls -> NoteCall]

(* A stored note changes only by a request that was sent from its own lesson.*)
(* The tabs may list the notes of the lesson before, with their buttons: what*)
(* such a button does is refused.                                            *)
NotesStayPut == [][\A n \in DOMAIN notes : notes'[n] # notes[n] =>
  \E i \in DOMAIN noteCalls :
    /\ noteCalls[i].kind \in {"update", "delete"} /\ noteCalls[i].note = n
    /\ noteCalls[i].lesson = notes[n].lesson]_noteVars

=============================================================================
