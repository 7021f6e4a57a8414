---------------------------- MODULE LessonPlayer ----------------------------
(* One student in one tab on the pages of a course: the course page, the     *)
(* lesson player, and the progress rows they read and write. Requests may    *)
(* overtake each other, and outlive the page that sent them.                 *)
EXTENDS Naturals, FiniteSets

CONSTANTS
  LastLesson,    \* the lessons of the course are 1 .. LastLesson
  MaxCalls,      \* bound on the requests under way
  MaxFailures    \* failed saves in a row that open the circuit, 10 in the code

ASSUME PlayerAssumption ==
  /\ LastLesson \in Nat \ {0}
  /\ MaxCalls \in Nat \ {0}
  /\ MaxFailures \in Nat \ {0}

VARIABLES
  progress,   \* the lessons whose progress row is completed
  earned,     \* lessons watched to the end or marked complete by the student
  session,    \* "valid", "superseded" at the catalog, "noticed" by the page
  calls,      \* slot -> a request under way
  player      \* what the page holds

watchVars == <<progress, earned, session, calls, player>>

Lessons == 1 .. LastLesson
Slots == 1 .. MaxCalls

(* A position is the start, the middle or the end of the lesson. The row also*)
(* keeps it, for a resume that is here one of the seeks.                     *)
Positions == 0 .. 2
EndPosition == 2

Updates == {"beat", "save", "ended", "complete", "incomplete"}
Rereading == {"ended", "complete", "incomplete"}
Call == [kind : {"none", "load", "progress"} \cup Updates,
         step : {"asked", "granted", "applied", "reread", "read"},
         lesson : 0 .. LastLesson, position : Positions,
         seen : SUBSET Lessons,    \* completed lessons in the answer
         heard : BOOLEAN]          \* its effect or component is still there
NoCall == [kind |-> "none", step |-> "asked", lesson |-> 0, position |-> 0,
           seen |-> {}, heard |-> FALSE]

Player == [at : {"away", "course", "lesson"}, lesson : 0 .. LastLesson,
           loading : BOOLEAN, playback : 0 .. LastLesson,
           signIn : BOOLEAN, subscribe : BOOLEAN,   \* needsSignIn, needsSubscription
           position : Positions, done : SUBSET Lessons, marking : BOOLEAN,
           failures : 0 .. MaxFailures]
NoPlayer == [at |-> "away", lesson |-> 0, loading |-> FALSE, playback |-> 0,
             signIn |-> FALSE, subscribe |-> FALSE, position |-> 0,
             done |-> {}, marking |-> FALSE, failures |-> 0]

WatchInit ==
  /\ progress = {}
  /\ earned = {}
  /\ session = "valid"
  /\ calls = [i \in Slots |-> NoCall]
  /\ player = NoPlayer

FreeSlot == {i \in Slots : /\ calls[i].kind = "none"
                           /\ \A j \in 1 .. (i - 1) : calls[j].kind # "none"}

(* Nobody waits for what a page that is gone asked to read. Updates go on.   *)
Abandoned(kinds) == [i \in Slots |->
  IF calls[i].kind \notin kinds THEN calls[i]
  ELSE IF calls[i].kind \in Updates THEN [calls[i] EXCEPT !.heard = FALSE] ELSE NoCall]

(* FAULT: the cleanup of the load effect does not set cancelled.             *)
SwitchKeepsLoads == calls

(* Another lesson in the mounted player cancels its load effect.             *)
AfterSwitch == Abandoned({"load", "progress"})

AfterUnmount == Abandoned({"load", "progress"} \cup Updates)

Asked(kind, lesson, position) ==
  [NoCall EXCEPT !.kind = kind, !.lesson = lesson, !.position = position,
                 !.heard = TRUE]

(* Sends a request from a page that has put the others in the state "rest".  *)
Send(rest, call) ==
  \E i \in FreeSlot : calls' = [rest EXCEPT ![i] = call]

-----------------------------------------------------------------------------
(* Navigation.                                                               *)

AskProgress == [Asked("progress", 0, 0) EXCEPT !.step = "reread"]

OpensCourse ==
  /\ player.at # "course"
  /\ player' = [NoPlayer EXCEPT !.at = "course", !.loading = TRUE]
  /\ Send(AfterUnmount, AskProgress)
  /\ UNCHANGED <<progress, earned, session>>

OpenedLesson(l) ==
  [NoPlayer EXCEPT !.at = "lesson", !.lesson = l, !.loading = TRUE]

(* From the course page, the curriculum, the navigation under the video or   *)
(* the link Up Next. The refs of a mounted player stay.                      *)
OpensLesson(l) ==
  /\ player.at # "away"
  /\ player.at = "lesson" => player.lesson # l
  /\ player' = IF player.at = "lesson"
               THEN [OpenedLesson(l) EXCEPT !.failures = player.failures]
               ELSE OpenedLesson(l)
  /\ Send(IF player.at = "lesson" THEN AfterSwitch ELSE AfterUnmount,
          Asked("load", l, 0))
  /\ UNCHANGED <<progress, earned, session>>

LeavesCourse ==
  /\ player.at # "away"
  /\ player' = NoPlayer
  /\ calls' = AfterUnmount
  /\ UNCHANGED <<progress, earned, session>>

-----------------------------------------------------------------------------
(* Loading. The progress is asked for along with the playback and awaited    *)
(* after it.                                                                 *)

GrantsPlayback(i) ==
  /\ calls[i].kind = "load" /\ calls[i].step = "asked"
  /\ session = "valid"
  /\ calls' = [calls EXCEPT ![i].step = "granted"]
  /\ UNCHANGED <<progress, earned, session, player>>

ShowsPlayback(i) ==
  /\ calls[i].kind = "load" /\ calls[i].step = "granted"
  /\ calls' = [calls EXCEPT ![i] = AskProgress]
  /\ player' = [player EXCEPT !.loading = FALSE, !.playback = calls[i].lesson]
  /\ UNCHANGED <<progress, earned, session>>

(* Denied access, a session that is gone, or any other failure.              *)
RefusesPlayback(i) ==
  /\ calls[i].kind = "load" /\ calls[i].step = "asked"
  /\ calls' = [calls EXCEPT ![i] = NoCall]
  /\ \E subscribe, signIn \in BOOLEAN :
       /\ ~(subscribe /\ signIn)
       /\ player' = [player EXCEPT !.loading = FALSE, !.playback = 0,
             !.subscribe = @ \/ subscribe, !.signIn = @ \/ signIn]
  /\ UNCHANGED <<progress, earned, session>>

(* Another sign-in takes the session; some later answer tells the page, which*)
(* takes the video off, whatever it is doing.                                *)
SupersedesSession ==
  /\ session = "valid"
  /\ session' = "superseded"
  /\ UNCHANGED <<progress, earned, calls, player>>

RevokesPlayback ==
  /\ session = "superseded"
  /\ session' = "noticed"
  /\ player' = IF player.at = "lesson"
               THEN [player EXCEPT !.playback = 0, !.signIn = TRUE,
                                   !.subscribe = FALSE]
               ELSE player
  /\ UNCHANGED <<progress, earned, calls>>

NavLocked == player.signIn \/ player.subscribe

GuardedPlayback == IF NavLocked THEN 0 ELSE player.playback

-----------------------------------------------------------------------------
(* Watching. Every save is an update; only Mark as Complete and the end of   *)
(* the video say so, the others leave it to the position.                    *)

Circuit == IF player.failures = MaxFailures THEN "open" ELSE "closed"

Watching == player.at = "lesson" /\ GuardedPlayback # 0

PlaysOn ==
  /\ Watching
  /\ player.position < EndPosition
  /\ player' = [player EXCEPT !.position = @ + 1]
  /\ UNCHANGED <<progress, earned, session, calls>>

(* Seeking, or the resume to the saved position when the metadata arrive.    *)
Seeks ==
  /\ Watching
  /\ \E p \in Positions \ {player.position} :
       player' = [player EXCEPT !.position = p]
  /\ UNCHANGED <<progress, earned, session, calls>>

Earns(l, position) ==
  earned' = IF position = EndPosition THEN earned \cup {l} ELSE earned

Beating == \E i \in Slots : calls[i].kind = "beat" /\ calls[i].heard

Heartbeat ==
  /\ Watching
  /\ Circuit = "closed"
  /\ ~Beating
  /\ player.lesson \notin player.done
  /\ Send(calls, Asked("beat", player.lesson, player.position))
  /\ Earns(player.lesson, player.position)
  /\ UNCHANGED <<progress, session, player>>

(* The video pauses, or the tab is hidden, also before there is a video.     *)
SavesCheckpoint ==
  /\ player.at = "lesson"
  /\ Circuit = "closed"
  /\ Send(calls, Asked("save", player.lesson, player.position))
  /\ Earns(player.lesson, player.position)
  /\ UNCHANGED <<progress, session, player>>

VideoEnds ==
  /\ Watching
  /\ player.position = EndPosition
  /\ Circuit = "closed"
  /\ Send(calls, Asked("ended", player.lesson, EndPosition))
  /\ Earns(player.lesson, EndPosition)
  /\ UNCHANGED <<progress, session, player>>

(* The button below the video. It reads the page, which answers late.        *)
Marks ==
  /\ player.at = "lesson"
  /\ ~player.loading /\ ~NavLocked
  /\ Circuit = "closed"
  /\ IF player.lesson \in player.done
     THEN /\ Send(calls, Asked("incomplete", player.lesson, 0))
          /\ UNCHANGED earned
     ELSE /\ Send(calls, Asked("complete", player.lesson, EndPosition))
          /\ Earns(player.lesson, EndPosition)
  /\ UNCHANGED <<progress, session, player>>

(* The menu of a lesson on the course page; one change at a time.            *)
TogglesLesson(l) ==
  /\ player.at = "course"
  /\ ~player.loading /\ ~player.marking
  /\ IF l \in player.done
     THEN /\ Send(calls, Asked("incomplete", l, 0))
          /\ UNCHANGED earned
     ELSE /\ Send(calls, Asked("complete", l, 0))
          /\ Earns(l, EndPosition)
  /\ player' = [player EXCEPT !.marking = TRUE]
  /\ UNCHANGED <<progress, session>>

-----------------------------------------------------------------------------
(* The progress handlers, and what the pages do with the answers.            *)

(* FAULT: a lesson counts as watched from its middle on.                     *)
HalfIsEnough(position) == position > 0

AutoCompletes(position) == position = EndPosition

(* An update without a mark sets completed from the position alone.          *)
CompletedBy(call) ==
  CASE call.kind \in {"ended", "complete"} -> TRUE
    [] call.kind = "incomplete" -> FALSE
    [] OTHER -> AutoCompletes(call.position)

(* The end of the video waits for the heartbeat before it. Updates reach the *)
(* catalog in any order; the last one wins.                                  *)
AppliesUpdate(i) ==
  /\ calls[i].kind \in Updates /\ calls[i].step = "asked"
  /\ session = "valid"
  /\ calls[i].kind = "ended" => ~Beating
  /\ progress' = IF CompletedBy(calls[i]) THEN progress \cup {calls[i].lesson}
                  ELSE progress \ {calls[i].lesson}
  /\ calls' = [calls EXCEPT ![i].step = "applied"]
  /\ UNCHANGED <<earned, session, player>>

(* The player marks the lesson complete at once and reads the progress again,*)
(* after the end of a video even when it was left; the course page takes the *)
(* answer's row.                                                             *)
AnswersUpdate(i) ==
  /\ calls[i].kind \in Updates /\ calls[i].step = "applied"
  /\ LET call == calls[i]
         completed == call.heard /\ call.kind = "complete"
         incomplete == call.heard /\ call.kind = "incomplete" /\ player.at = "course"
     IN
     /\ calls' = [calls EXCEPT ![i] =
          IF call.kind = "ended"
             \/ (call.kind \in Rereading /\ call.heard /\ player.at = "lesson")
          THEN [call EXCEPT !.step = "reread"] ELSE NoCall]
     /\ player' = IF ~call.heard THEN player
                  ELSE [player EXCEPT
                    !.failures = 0, !.marking = FALSE,
                    !.done = IF completed THEN @ \cup {call.lesson}
                             ELSE IF incomplete THEN @ \ {call.lesson} ELSE @]
  /\ UNCHANGED <<progress, earned, session>>

UpdateFails(i) ==
  /\ calls[i].kind \in Updates /\ calls[i].step \in {"asked", "applied"}
  /\ calls' = [calls EXCEPT ![i] = NoCall]
  /\ player' = IF ~calls[i].heard THEN player
               ELSE IF player.at = "course" THEN [player EXCEPT !.marking = FALSE]
               ELSE [player EXCEPT
                      !.failures = IF @ < MaxFailures THEN @ + 1 ELSE @]
  /\ UNCHANGED <<progress, earned, session>>

ReadsProgress(i) ==
  /\ calls[i].step = "reread"
  /\ session = "valid"
  /\ calls' = [calls EXCEPT ![i].step = "read", ![i].seen = progress]
  /\ UNCHANGED <<progress, earned, session, player>>

(* Of a mark, the answer is completed by what was just marked. After the end *)
(* of a video the player goes on to the next lesson if the student wants it, *)
(* even when the student has left the player meanwhile.                      *)
ShowsProgress(i) ==
  /\ calls[i].step = "read"
  /\ LET call == calls[i]
         seen == IF call.kind = "complete" THEN call.seen \cup {call.lesson}
                 ELSE call.seen
         shown == IF call.heard
                  THEN [player EXCEPT !.done = seen, !.loading = FALSE]
                  ELSE player
     IN
     \/ /\ player' = shown
        /\ calls' = [calls EXCEPT ![i] = NoCall]
     \/ /\ call.kind = "ended" /\ call.lesson < LastLesson
        /\ ~(call.heard /\ NavLocked)
        /\ ~(player.at = "lesson" /\ player.lesson = call.lesson + 1)
        /\ player' = OpenedLesson(call.lesson + 1)
        /\ calls' = [IF player.at = "lesson" THEN AfterSwitch ELSE AfterUnmount
                     EXCEPT ![i] = Asked("load", call.lesson + 1, 0)]
  /\ UNCHANGED <<progress, earned, session>>

(* A failed read leaves the page as it is, the course page without progress. *)
ProgressFails(i) ==
  /\ calls[i].step \in {"reread", "read"}
  /\ calls' = [calls EXCEPT ![i] = NoCall]
  /\ player' = IF calls[i].heard THEN [player EXCEPT !.loading = FALSE] ELSE player
  /\ UNCHANGED <<progress, earned, session>>

WatchNext ==
  \/ OpensCourse \/ LeavesCourse \/ SupersedesSession \/ RevokesPlayback
  \/ PlaysOn \/ Seeks \/ Heartbeat \/ SavesCheckpoint \/ VideoEnds \/ Marks
  \/ \E l \in Lessons : OpensLesson(l) \/ TogglesLesson(l)
  \/ \E i \in Slots :
       \/ GrantsPlayback(i) \/ ShowsPlayback(i) \/ RefusesPlayback(i)
       \/ AppliesUpdate(i) \/ AnswersUpdate(i) \/ UpdateFails(i)
       \/ ReadsProgress(i) \/ ShowsProgress(i) \/ ProgressFails(i)

WatchSpec == WatchInit /\ [][WatchNext]_watchVars

-----------------------------------------------------------------------------
(* The values of the rows, the requests and the page.                        *)
WatchTypeOK ==
  /\ progress \in SUBSET Lessons
  /\ earned \in SUBSET Lessons
  /\ session \in {"valid", "superseded", "noticed"}
  /\ calls \in [Slots -> Call]
  /\ player \in Player

(* A lesson reads as completed only if the student watched it to the end or  *)
(* marked it, whichever lesson the player had moved to when a save arrived.  *)
CompletionIsEarned == progress \subseteq earned

(* The video shown is the one of the lesson in the address, whichever load   *)
(* answered last, and none once the page has noticed that its session is     *)
(* gone, even if a load granted before that answers after it.                *)
VideoIsRouted == GuardedPlayback # 0 =>
  GuardedPlayback = player.lesson /\ session # "noticed"

=============================================================================
