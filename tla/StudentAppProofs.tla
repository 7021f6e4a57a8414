--------------------------- MODULE StudentAppProofs ---------------------------
(***************************************************************************)
(* Proofs about the areas of StudentApp, for any lessons, notes, products, *)
(* credentials and requests under way: each area's inductive invariant,    *)
(* and that StudentApp only does what its areas do.                        *)
(***************************************************************************)
EXTENDS StudentApp, WellFoundedInduction, TLAPS

-----------------------------------------------------------------------------
(* The lesson player *)

\* A page on a lesson, a load and an update name a lesson.
LessonsAreNamed ==
  /\ player.at = "lesson" => player.lesson # 0
  /\ \A i \in Slots : calls[i].kind \in Updates \cup {"load"} => calls[i].lesson # 0

\* An update that will complete a lesson was earned when it was sent.
CallsAreEarned ==
  \A i \in Slots : calls[i].kind \in Updates /\ CompletedBy(calls[i]) =>
    calls[i].lesson \in earned

\* Only the open lesson is being loaded, and only it may be playing.
LoadsAreRouted ==
  /\ player.playback # 0 => player.at = "lesson" /\ player.playback = player.lesson
  /\ \A i \in Slots : calls[i].kind = "load" =>
       player.at = "lesson" /\ calls[i].lesson = player.lesson

\* A page that has noticed the loss of its session shows nothing, and nothing
\* that was granted to it before may still be shown.
NoticedIsLocked == session = "noticed" =>
  \/ NavLocked
  \/ /\ player.playback = 0
     /\ \A i \in Slots : ~(calls[i].kind = "load" /\ calls[i].step = "granted")

WatchInv ==
  /\ WatchTypeOK
  /\ LessonsAreNamed
  /\ CallsAreEarned
  /\ LoadsAreRouted
  /\ NoticedIsLocked
  /\ CompletionIsEarned

LEMMA WatchInitInv == WatchInit => WatchInv
  BY PlayerAssumption
  DEF WatchInit, WatchInv, WatchTypeOK, LessonsAreNamed, CallsAreEarned,
      LoadsAreRouted, NoticedIsLocked, CompletionIsEarned, NoPlayer, NoCall,
      Player, Call, Slots, Lessons, Positions, Updates

\* What the pages keep of the requests under way when one is opened or left.
LEMMA AbandonedType ==
  ASSUME calls \in [Slots -> Call], NEW kinds
  PROVE  /\ Abandoned(kinds) \in [Slots -> Call]
         /\ \A i \in Slots :
              \/ Abandoned(kinds)[i] = calls[i] /\ calls[i].kind \notin kinds
              \/ Abandoned(kinds)[i] = NoCall
              \/ /\ calls[i].kind \in kinds \cap Updates
                 /\ Abandoned(kinds)[i] = [calls[i] EXCEPT !.heard = FALSE]
<1>1. NoCall \in Call
  BY PlayerAssumption DEF NoCall, Call, Positions
<1>. QED
  BY <1>1 DEF Abandoned, Call

LEMMA AskedType ==
  ASSUME NEW kind \in {"load", "progress"} \cup Updates, NEW l \in 0 .. LastLesson, NEW p \in Positions
  PROVE  /\ Asked(kind, l, p) \in Call
         /\ Asked(kind, l, p).kind = kind /\ Asked(kind, l, p).lesson = l
         /\ Asked(kind, l, p).position = p /\ Asked(kind, l, p).step = "asked"
  BY DEF Asked, NoCall, Call, Updates

LEMMA PlayersType ==
  /\ NoPlayer \in Player /\ NoPlayer.playback = 0 /\ NoPlayer.at = "away"
  /\ [NoPlayer EXCEPT !.at = "course", !.loading = TRUE] \in Player
  /\ \A l \in Lessons, f \in 0 .. MaxFailures :
       /\ OpenedLesson(l) \in Player
       /\ OpenedLesson(l).at = "lesson" /\ OpenedLesson(l).lesson = l
       /\ OpenedLesson(l).playback = 0 /\ l # 0
       /\ [OpenedLesson(l) EXCEPT !.failures = f] \in Player
<1>1. NoPlayer \in Player
  BY PlayerAssumption DEF NoPlayer, Player, Positions
<1>2. [NoPlayer EXCEPT !.at = "course", !.loading = TRUE] \in Player
  BY <1>1 DEF Player
<1>3. ASSUME NEW l \in Lessons, NEW f \in 0 .. MaxFailures
      PROVE  /\ OpenedLesson(l) \in Player /\ OpenedLesson(l).at = "lesson"
             /\ OpenedLesson(l).lesson = l /\ OpenedLesson(l).playback = 0 /\ l # 0
             /\ [OpenedLesson(l) EXCEPT !.failures = f] \in Player
  <2>1. OpenedLesson(l) \in Player
    <3>1. l \in 0 .. LastLesson
      BY PlayerAssumption DEF Lessons
    <3>. QED
      BY <1>1, <3>1 DEF OpenedLesson, Player
  <2>2. /\ OpenedLesson(l).at = "lesson" /\ OpenedLesson(l).lesson = l
        /\ OpenedLesson(l).playback = 0 /\ l # 0
    BY DEF OpenedLesson, NoPlayer, Lessons
  <2>3. [OpenedLesson(l) EXCEPT !.failures = f] \in Player
    BY <2>1 DEF Player
  <2>. QED
    BY <2>1, <2>2, <2>3
<1>. QED
  BY <1>1, <1>2, <1>3 DEF NoPlayer

LEMMA WatchStep == WatchInv /\ [WatchNext]_watchVars => WatchInv'
<1>. SUFFICES ASSUME WatchInv, [WatchNext]_watchVars PROVE WatchInv'
  OBVIOUS
<1>. USE PlayerAssumption
     DEF WatchInv, WatchTypeOK, LessonsAreNamed, CallsAreEarned, LoadsAreRouted,
         NoticedIsLocked, CompletionIsEarned, CompletedBy, NavLocked
<1>. NoCall \in Call /\ NoCall.kind = "none" /\ NoPlayer \in Player /\ NoCall.lesson = 0
  BY DEF NoCall, Call, Positions, NoPlayer, Player
<1>. 0 \in 0 .. LastLesson /\ Lessons \subseteq 0 .. LastLesson /\ \A l \in Lessons : l # 0
  BY DEF Lessons
<1>. EndPosition \in Positions /\ 0 \in Positions
  BY DEF EndPosition, Positions
<1>. AskProgress \in Call /\ AskProgress.kind = "progress" /\ AskProgress.step = "reread"
  BY DEF AskProgress, Asked, NoCall, Call, Positions
<1>. DEFINE Kept(rest) == /\ rest \in [Slots -> Call]
                          /\ \A i \in Slots : \/ rest[i].kind = "none"
                               \/ /\ rest[i].kind \in Updates
                                  /\ rest[i].kind = calls[i].kind /\ rest[i].lesson = calls[i].lesson
                                  /\ rest[i].position = calls[i].position
<1>a. ASSUME NEW kinds, {"load", "progress"} \subseteq kinds PROVE Kept(Abandoned(kinds))
  <2>1. ASSUME NEW i \in Slots PROVE calls[i].kind \in {"none", "load", "progress"} \cup Updates
    BY <2>1 DEF Call
  <2>2. ASSUME NEW i \in Slots PROVE
          [calls[i] EXCEPT !.heard = FALSE] \in Call
          /\ [calls[i] EXCEPT !.heard = FALSE].kind = calls[i].kind
          /\ [calls[i] EXCEPT !.heard = FALSE].lesson = calls[i].lesson
          /\ [calls[i] EXCEPT !.heard = FALSE].position = calls[i].position
    BY <2>2 DEF Call
  <2>. QED
    <3>1. Abandoned(kinds) \in [Slots -> Call]
      BY AbandonedType
    <3>2. ASSUME NEW i \in Slots
          PROVE  \/ Abandoned(kinds)[i].kind = "none"
                 \/ /\ Abandoned(kinds)[i].kind \in Updates
                    /\ Abandoned(kinds)[i].kind = calls[i].kind
                    /\ Abandoned(kinds)[i].lesson = calls[i].lesson
                    /\ Abandoned(kinds)[i].position = calls[i].position
      <4>1. CASE Abandoned(kinds)[i] = calls[i] /\ calls[i].kind \notin kinds
        BY <1>a, <2>1, <4>1
      <4>2. CASE Abandoned(kinds)[i] = NoCall
        BY <4>2
      <4>3. CASE calls[i].kind \in kinds \cap Updates
                 /\ Abandoned(kinds)[i] = [calls[i] EXCEPT !.heard = FALSE]
        BY <2>2, <4>3
      <4>. QED
        BY <4>1, <4>2, <4>3, AbandonedType
    <3>. QED
      BY <3>1, <3>2
<1>b. Kept(AfterUnmount) /\ Kept(AfterSwitch)
  BY <1>a DEF AfterUnmount, AfterSwitch
<1>1. CASE OpensCourse
  <2>1. player' \in Player /\ player'.at = "course" /\ player'.playback = 0
    BY <1>1, PlayersType DEF OpensCourse, NoPlayer
  <2>2. PICK i \in Slots : calls' = [AfterUnmount EXCEPT ![i] = AskProgress]
    BY <1>1 DEF OpensCourse, Send, FreeSlot
  <2>. QED
    BY <1>1, <1>b, <2>1, <2>2 DEF OpensCourse, Updates
<1>2. ASSUME NEW l \in Lessons, OpensLesson(l) PROVE WatchInv'
  <2>1. /\ player' \in Player /\ player'.at = "lesson" /\ player'.playback = 0
        /\ player'.lesson = l /\ l # 0
    <3>1. player.failures \in 0 .. MaxFailures
      BY DEF Player
    <3>2. player' \in {OpenedLesson(l), [OpenedLesson(l) EXCEPT !.failures = player.failures]}
      BY <1>2 DEF OpensLesson
    <3>3. OpenedLesson(l) \in Player
      BY PlayersType, <3>1
    <3>4. [OpenedLesson(l) EXCEPT !.failures = player.failures].at = OpenedLesson(l).at
          /\ [OpenedLesson(l) EXCEPT !.failures = player.failures].playback = OpenedLesson(l).playback
          /\ [OpenedLesson(l) EXCEPT !.failures = player.failures].lesson = OpenedLesson(l).lesson
      BY <3>3 DEF Player
    <3>. QED
      <4>1. CASE player' = OpenedLesson(l)
        BY <3>1, <4>1, PlayersType
      <4>2. CASE player' = [OpenedLesson(l) EXCEPT !.failures = player.failures]
        BY <3>1, <3>4, <4>2, PlayersType
      <4>. QED
        BY <3>2, <4>1, <4>2
  <2>2. PICK rest \in {AfterUnmount, AfterSwitch}, i \in Slots :
          calls' = [rest EXCEPT ![i] = Asked("load", l, 0)]
    <3>1. PICK i \in Slots : calls' = [IF player.at = "lesson" THEN AfterSwitch ELSE AfterUnmount
                                        EXCEPT ![i] = Asked("load", l, 0)]
      BY <1>2, Zenon DEF OpensLesson, Send, FreeSlot
    <3>. QED
      BY <3>1
  <2>3. /\ Asked("load", l, 0) \in Call /\ Asked("load", l, 0).kind = "load"
        /\ Asked("load", l, 0).lesson = l /\ Asked("load", l, 0).step = "asked"
    BY AskedType
  <2>4. Kept(rest)
    BY <1>b
  <2>. QED
    BY <1>2, <2>1, <2>2, <2>3, <2>4 DEF OpensLesson, Updates
<1>3. CASE LeavesCourse
  BY <1>3, <1>b, PlayersType DEF LeavesCourse, Updates
<1>4. CASE SupersedesSession \/ RevokesPlayback
  <2>1. CASE SupersedesSession
    BY <2>1 DEF SupersedesSession
  <2>2. CASE RevokesPlayback
    <3>1. player' \in Player /\ player'.at = player.at /\ player'.lesson = player.lesson
      <4>1. CASE player.at = "lesson"
        BY <2>2, <4>1 DEF RevokesPlayback, Player
      <4>. QED
        BY <2>2, <4>1 DEF RevokesPlayback
    <3>2. player.at = "lesson" => player'.signIn /\ player'.playback = 0
      BY <2>2 DEF RevokesPlayback, Player
    <3>3. player.at # "lesson" => player' = player
      BY <2>2 DEF RevokesPlayback
    <3>. QED
      BY <2>2, <3>1, <3>2, <3>3 DEF RevokesPlayback
  <2>. QED
    BY <1>4, <2>1, <2>2
<1>5. CASE PlaysOn \/ Seeks
  <2>1. player' \in Player
    BY <1>5 DEF PlaysOn, Seeks, Player, Positions, EndPosition
  <2>. QED
    BY <1>5, <2>1 DEF PlaysOn, Seeks, Player
<1>6. CASE Heartbeat \/ SavesCheckpoint \/ VideoEnds
  <2>1. PICK kind \in {"beat", "save", "ended"}, p \in Positions, i \in Slots :
          /\ calls' = [calls EXCEPT ![i] = Asked(kind, player.lesson, p)]
          /\ kind = "ended" => p = EndPosition
          /\ earned' = IF p = EndPosition THEN earned \cup {player.lesson} ELSE earned
          /\ player.at = "lesson"
    BY <1>6 DEF Heartbeat, SavesCheckpoint, VideoEnds, Send, FreeSlot, Earns, Watching, Player
  <2>2. /\ Asked(kind, player.lesson, p) \in Call /\ Asked(kind, player.lesson, p).kind = kind
        /\ Asked(kind, player.lesson, p).lesson = player.lesson
        /\ Asked(kind, player.lesson, p).position = p
    BY AskedType DEF Player, Updates
  <2>3. UNCHANGED <<progress, session, player>>
    BY <1>6 DEF Heartbeat, SavesCheckpoint, VideoEnds
  <2>4. player.lesson \in Lessons
    BY <2>1 DEF Player, Lessons
  <2>. QED
    BY <2>1, <2>2, <2>3, <2>4 DEF AutoCompletes, Updates
<1>7. ASSUME Marks \/ \E l \in Lessons : TogglesLesson(l) PROVE WatchInv'
  <2>1. PICK kind \in {"complete", "incomplete"}, l \in Lessons, p \in Positions, i \in Slots :
          /\ calls' = [calls EXCEPT ![i] = Asked(kind, l, p)]
          /\ earned' = IF kind = "complete" THEN earned \cup {l} ELSE earned
    <3>1. CASE Marks
      <4>1. player.lesson \in Lessons
        BY <3>1 DEF Marks, Player, Lessons
      <4>. QED
        BY <3>1, <4>1 DEF Marks, Send, FreeSlot, Earns
    <3>2. CASE \E l \in Lessons : TogglesLesson(l)
      BY <3>2 DEF TogglesLesson, Send, FreeSlot, Earns
    <3>. QED
      BY <1>7, <3>1, <3>2
  <2>2. /\ Asked(kind, l, p) \in Call /\ Asked(kind, l, p).kind = kind
        /\ Asked(kind, l, p).lesson = l
    BY AskedType DEF Updates
  <2>3. UNCHANGED <<progress, session>>
    BY <1>7 DEF Marks, TogglesLesson
  <2>4. player' \in {player, [player EXCEPT !.marking = TRUE]}
    BY <1>7 DEF Marks, TogglesLesson
  <2>5. /\ player' \in Player /\ player'.at = player.at /\ player'.lesson = player.lesson
        /\ player'.playback = player.playback /\ player'.signIn = player.signIn
        /\ player'.subscribe = player.subscribe
    BY <2>4 DEF Player
  <2>. QED
    BY <2>1, <2>2, <2>3, <2>5 DEF Updates
<1>8. ASSUME NEW i \in Slots, GrantsPlayback(i) PROVE WatchInv'
  <2>1. /\ calls' \in [Slots -> Call]
        /\ \A j \in Slots : /\ calls'[j].kind = calls[j].kind /\ calls'[j].lesson = calls[j].lesson
                             /\ calls'[j].position = calls[j].position
    BY <1>8 DEF GrantsPlayback, Call
  <2>. QED
    BY <1>8, <2>1 DEF GrantsPlayback
<1>9. ASSUME NEW i \in Slots, ShowsPlayback(i) PROVE WatchInv'
  <2>1. calls[i].lesson \in 0 .. LastLesson
    BY DEF Call
  <2>2. /\ player' \in Player /\ player'.at = player.at /\ player'.lesson = player.lesson
        /\ player'.playback = calls[i].lesson /\ player'.signIn = player.signIn
        /\ player'.subscribe = player.subscribe
    BY <1>9, <2>1 DEF ShowsPlayback, Player
  <2>. QED
    BY <1>9, <2>2 DEF ShowsPlayback, Updates
<1>10. ASSUME NEW i \in Slots, RefusesPlayback(i) PROVE WatchInv'
  <2>1. /\ player' \in Player /\ player'.at = player.at /\ player'.lesson = player.lesson
        /\ player'.playback = 0 /\ player.signIn => player'.signIn
        /\ player.subscribe => player'.subscribe
    BY <1>10 DEF RefusesPlayback, Player
  <2>. QED
    BY <1>10, <2>1 DEF RefusesPlayback, Updates
<1>11. ASSUME NEW i \in Slots, AppliesUpdate(i) PROVE WatchInv'
  <2>1. /\ calls' \in [Slots -> Call]
        /\ \A j \in Slots : /\ calls'[j].kind = calls[j].kind /\ calls'[j].lesson = calls[j].lesson
                             /\ calls'[j].position = calls[j].position
                             /\ calls[j].kind = "load" => calls'[j] = calls[j]
    BY <1>11 DEF AppliesUpdate, Call, Updates
  <2>. QED
    BY <1>11, <2>1 DEF AppliesUpdate
<1>12. ASSUME NEW i \in Slots, AnswersUpdate(i) PROVE WatchInv'
  <2>1. calls[i].lesson \in Lessons
    BY <1>12 DEF AnswersUpdate, Call, Lessons
  <2>2. /\ [calls[i] EXCEPT !.step = "reread"] \in Call
        /\ [calls[i] EXCEPT !.step = "reread"].kind = calls[i].kind
        /\ [calls[i] EXCEPT !.step = "reread"].lesson = calls[i].lesson
        /\ [calls[i] EXCEPT !.step = "reread"].position = calls[i].position
    BY DEF Call
  <2>3. calls' \in {[calls EXCEPT ![i] = NoCall], [calls EXCEPT ![i] = [calls[i] EXCEPT !.step = "reread"]]}
    BY <1>12 DEF AnswersUpdate
  <2>4. /\ player' \in Player /\ player'.at = player.at /\ player'.lesson = player.lesson
        /\ player'.playback = player.playback /\ player'.signIn = player.signIn
        /\ player'.subscribe = player.subscribe
    <3>1. PICK done \in SUBSET Lessons : player' \in {player,
            [player EXCEPT !.failures = 0, !.marking = FALSE, !.done = done]}
      <4>1. player.done \cup {calls[i].lesson} \in SUBSET Lessons
            /\ player.done \ {calls[i].lesson} \in SUBSET Lessons /\ player.done \in SUBSET Lessons
        BY <2>1 DEF Player
      <4>. QED
        BY <1>12, <4>1 DEF AnswersUpdate
    <3>2. 0 \in 0 .. MaxFailures
      OBVIOUS
    <3>. QED
      BY <3>1, <3>2 DEF Player
  <2>. QED
    BY <1>12, <2>2, <2>3, <2>4 DEF AnswersUpdate, Updates
<1>13. ASSUME NEW i \in Slots, UpdateFails(i) \/ ProgressFails(i) PROVE WatchInv'
  <2>1. calls' = [calls EXCEPT ![i] = NoCall]
    BY <1>13 DEF UpdateFails, ProgressFails
  <2>2. /\ player' \in Player /\ player'.at = player.at /\ player'.lesson = player.lesson
        /\ player'.playback = player.playback /\ player'.signIn = player.signIn
        /\ player'.subscribe = player.subscribe
    <3>1. PICK f \in 0 .. MaxFailures : player' \in {player, [player EXCEPT !.marking = FALSE],
            [player EXCEPT !.failures = f], [player EXCEPT !.loading = FALSE]}
      <4>1. player.failures \in 0 .. MaxFailures
            /\ (player.failures < MaxFailures => player.failures + 1 \in 0 .. MaxFailures)
        BY DEF Player
      <4>. QED
        BY <1>13, <4>1 DEF UpdateFails, ProgressFails
    <3>2. /\ [player EXCEPT !.marking = FALSE] \in Player /\ [player EXCEPT !.failures = f] \in Player
          /\ [player EXCEPT !.loading = FALSE] \in Player
      BY DEF Player
    <3>3. player' \in Player
      BY <3>1, <3>2
    <3>. QED
      BY <3>1, <3>3 DEF Player
  <2>. QED
    BY <1>13, <2>1, <2>2 DEF UpdateFails, ProgressFails, Updates
<1>14. ASSUME NEW i \in Slots, ReadsProgress(i) PROVE WatchInv'
  <2>. DEFINE answered == [calls[i] EXCEPT !.step = "read", !.seen = progress]
  <2>1. /\ answered \in Call /\ answered.kind = calls[i].kind /\ answered.lesson = calls[i].lesson
        /\ answered.position = calls[i].position /\ answered.step = "read"
    BY DEF Call
  <2>2. calls' = [calls EXCEPT ![i] = answered]
    BY <1>14 DEF ReadsProgress
  <2>. QED
    BY <1>14, <2>1, <2>2 DEF ReadsProgress
<1>15. ASSUME NEW i \in Slots, ShowsProgress(i) PROVE WatchInv'
  <2>1. CASE /\ calls' = [calls EXCEPT ![i] = NoCall]
             /\ \E done \in SUBSET Lessons :
                  player' \in {player, [player EXCEPT !.done = done, !.loading = FALSE]}
    <3>1. PICK done \in SUBSET Lessons : player' \in {player, [player EXCEPT !.done = done, !.loading = FALSE]}
      BY <2>1
    <3>2. [player EXCEPT !.done = done, !.loading = FALSE] \in Player
      BY DEF Player
    <3>3. /\ player' \in Player /\ player'.at = player.at /\ player'.lesson = player.lesson
          /\ player'.playback = player.playback /\ player'.signIn = player.signIn
          /\ player'.subscribe = player.subscribe
      BY <3>1, <3>2 DEF Player
    <3>. QED
      BY <1>15, <2>1, <3>3 DEF ShowsProgress, Updates
  <2>2. CASE \E l \in Lessons :
               /\ player' = OpenedLesson(l)
               /\ calls' = [IF player.at = "lesson" THEN AfterSwitch ELSE AfterUnmount
                               EXCEPT ![i] = Asked("load", l, 0)]
    <3>1. PICK l \in Lessons, rest \in {AfterSwitch, AfterUnmount} :
               /\ player' = OpenedLesson(l)
               /\ calls' = [rest EXCEPT ![i] = Asked("load", l, 0)]
      BY <2>2
    <3>2. /\ player' \in Player /\ player'.at = "lesson" /\ player'.lesson = l
          /\ player'.playback = 0
      <4>1. player.failures \in 0 .. MaxFailures
        BY DEF Player
      <4>. QED
        BY <3>1, <4>1, PlayersType
    <3>3. /\ Asked("load", l, 0) \in Call /\ Asked("load", l, 0).kind = "load"
          /\ Asked("load", l, 0).lesson = l /\ Asked("load", l, 0).step = "asked"
      BY AskedType
    <3>4. Kept(rest)
      BY <1>b
    <3>. QED
      BY <1>15, <3>1, <3>2, <3>3, <3>4 DEF ShowsProgress, Updates
  <2>3. calls[i].lesson < LastLesson => calls[i].lesson + 1 \in Lessons
    BY DEF Call, Lessons
  <2>4. calls[i].seen \in SUBSET Lessons
        /\ (calls[i].kind = "complete" => calls[i].seen \cup {calls[i].lesson} \in SUBSET Lessons)
    BY DEF Call, Updates, Lessons
  <2>5. CASE calls' = [calls EXCEPT ![i] = NoCall]
    <3>. DEFINE seen == IF calls[i].kind = "complete"
                        THEN calls[i].seen \cup {calls[i].lesson} ELSE calls[i].seen
    <3>1. player' \in {player, [player EXCEPT !.done = seen, !.loading = FALSE]}
      <4>1. CASE player' = IF calls[i].heard
                           THEN [player EXCEPT !.done = seen, !.loading = FALSE] ELSE player
        BY <4>1
      <4>2. CASE \E l \in Lessons : calls' = [IF player.at = "lesson" THEN AfterSwitch ELSE AfterUnmount
                               EXCEPT ![i] = Asked("load", l, 0)]
        <5>1. \A l \in Lessons : Asked("load", l, 0).kind = "load"
          BY AskedType
        <5>. QED
          BY <2>5, <4>2, <5>1, <1>b
      <4>. QED
        BY <1>15, <2>3, <4>1, <4>2 DEF ShowsProgress
    <3>. QED
      <4>1. seen \in SUBSET Lessons
        BY <2>4
      <4>. HIDE DEF seen
      <4>2. \E done \in SUBSET Lessons :
              player' \in {player, [player EXCEPT !.done = done, !.loading = FALSE]}
        BY <3>1, <4>1
      <4>. QED
        BY <2>1, <2>5, <4>2, Zenon
  <2>6. CASE calls' # [calls EXCEPT ![i] = NoCall]
    BY <1>15, <2>2, <2>3, <2>6 DEF ShowsProgress
  <2>. QED
    BY <2>5, <2>6
<1>16. CASE UNCHANGED watchVars
  BY <1>16 DEF watchVars
<1>. QED
  BY <1>1, <1>2, <1>3, <1>4, <1>5, <1>6, <1>7, <1>8, <1>9, <1>10, <1>11, <1>12, <1>13, <1>14,
     <1>15, <1>16 DEF WatchNext

LEMMA WatchInvImplies == WatchInv => VideoIsRouted
  BY DEF WatchInv, LoadsAreRouted, NoticedIsLocked, VideoIsRouted, GuardedPlayback

\* The rows, the requests and the page of a course are always what they should be.
THEOREM WatchTypeCorrect == WatchSpec => []WatchTypeOK
<1>1. WatchInv => WatchTypeOK
  BY DEF WatchInv
<1>. QED
  BY WatchInitInv, WatchStep, <1>1, PTL DEF WatchSpec

\* No lesson ever reads as completed that was not watched to its end or marked,
\* however late and in whatever order the updates of earlier lessons arrive.
THEOREM CompletionAlwaysEarned == WatchSpec => []CompletionIsEarned
<1>1. WatchInv => CompletionIsEarned
  BY DEF WatchInv
<1>. QED
  BY WatchInitInv, WatchStep, <1>1, PTL DEF WatchSpec

\* The player never shows another lesson's video than the one it is on, nor any
\* once it has noticed that its session is gone, whatever load answers last.
THEOREM VideoAlwaysRouted == WatchSpec => []VideoIsRouted
  BY WatchInitInv, WatchStep, WatchInvImplies, PTL DEF WatchSpec

-----------------------------------------------------------------------------
(* The lesson notes *)

\* A change that passed its check is of a note of its own lesson; every request
\* has a lesson, and an answer to a new note its id.
ChecksStand ==
  \A i \in DOMAIN noteCalls :
    noteCalls[i].kind \in {"update", "delete"} /\ noteCalls[i].step = "checked" =>
      /\ noteCalls[i].note \in DOMAIN notes
      /\ notes[noteCalls[i].note].lesson = noteCalls[i].lesson

RequestsNameLesson ==
  \A i \in DOMAIN noteCalls :
    /\ noteCalls[i].kind # "none" => noteCalls[i].lesson # 0
    /\ noteCalls[i].kind = "create" /\ noteCalls[i].step = "answered" => noteCalls[i].note # 0

NotesInv == NotesTypeOK /\ ChecksStand /\ RequestsNameLesson

LEMMA NotesInitInv == NotesInit => NotesInv
  BY NotesAssumption
  DEF NotesInit, NotesInv, NotesTypeOK, ChecksStand, RequestsNameLesson, NoTabs, NoteTabs, NoNoteCall, NoteCall,
      NoteIds, Note

LEMMA NotesStep ==
  ASSUME NotesInv, [NotesNext]_noteVars
  PROVE  /\ NotesInv'
         /\ \A n \in DOMAIN notes : notes'[n] # notes[n] =>
              \E i \in DOMAIN noteCalls :
                /\ noteCalls[i].kind \in {"update", "delete"} /\ noteCalls[i].note = n
                /\ noteCalls[i].lesson = notes[n].lesson
<1>. USE NotesAssumption DEF NotesInv, NotesTypeOK, RequestsNameLesson
<1>. DEFINE Slot == 1 .. MaxNoteCalls
            Only == \A n \in DOMAIN notes : notes'[n] # notes[n] =>
              \E i \in DOMAIN noteCalls :
                /\ noteCalls[i].kind \in {"update", "delete"} /\ noteCalls[i].note = n
                /\ noteCalls[i].lesson = notes[n].lesson
<1>0. /\ 0 \in 0 .. LastNoted /\ 1 .. LastNoted \subseteq 0 .. LastNoted
      /\ 0 \in 0 .. MaxNotes /\ NoteIds \subseteq 0 .. MaxNotes /\ DOMAIN notes \subseteq NoteIds
      /\ NoNoteCall \in NoteCall /\ NoNoteCall.kind = "none" /\ NoTabs \in NoteTabs
      /\ DOMAIN noteCalls = Slot /\ DOMAIN notes = 1 .. Len(notes)
  BY DEF NoteIds, NoNoteCall, NoteCall, NoTabs, NoteTabs
<1>1. ASSUME NEW kind \in {"list", "create", "update", "delete"}, NEW l \in 1 .. LastNoted,
             NEW n \in 0 .. MaxNotes, SendNote(kind, l, n, noteCalls),
             UNCHANGED notes, noteTabs' \in NoteTabs
      PROVE  NotesInv' /\ Only
  <2>. DEFINE call == [NoNoteCall EXCEPT !.kind = kind, !.lesson = l, !.note = n, !.heard = TRUE]
  <2>1. call \in NoteCall /\ call.step = "asked" /\ call.lesson = l /\ l # 0
    <3>1. l \in 0 .. LastNoted /\ l # 0
      BY <1>0
    <3>2. call \in NoteCall
      BY <1>0, <3>1 DEF NoteCall
    <3>. QED
      BY <3>1, <3>2 DEF NoNoteCall
  <2>2. PICK i \in Slot : noteCalls' = [noteCalls EXCEPT ![i] = call]
    BY <1>0, <1>1 DEF SendNote
  <2>. HIDE DEF call
  <2>. QED
    BY <1>0, <1>1, <2>1, <2>2 DEF ChecksStand
<1>2. ASSUME NEW l \in 1 .. LastNoted, NEW enabled \in BOOLEAN, ShowsLesson(l, enabled)
      PROVE  NotesInv' /\ Only
  <2>1. noteTabs' \in NoteTabs
    BY <1>0, <1>2 DEF ShowsLesson, NoteTabs
  <2>2. CASE enabled
    BY <1>0, <1>1, <1>2, <2>1, <2>2 DEF ShowsLesson
  <2>3. CASE ~enabled
    BY <1>2, <2>1, <2>3 DEF ShowsLesson, ChecksStand
  <2>. QED
    BY <2>2, <2>3
<1>3. CASE LeavesNotes
  <2>1. /\ noteCalls' \in [Slot -> NoteCall]
        /\ \A i \in Slot : /\ noteCalls'[i].kind = noteCalls[i].kind
                           /\ noteCalls'[i].step = noteCalls[i].step
                           /\ noteCalls'[i].note = noteCalls[i].note
                           /\ noteCalls'[i].lesson = noteCalls[i].lesson
    BY <1>0, <1>3 DEF LeavesNotes, NotesUnheard, NoteCall
  <2>. QED
    <3>1. ChecksStand'
      BY <1>0, <1>3, <2>1 DEF LeavesNotes, ChecksStand
    <3>2. RequestsNameLesson'
      BY <1>0, <2>1
    <3>. QED
      BY <1>0, <1>3, <2>1, <3>1, <3>2 DEF LeavesNotes
<1>4. ASSUME NEW kind \in {"create", "update", "delete"}, NEW n \in 0 .. MaxNotes,
             ChangesNote(kind, n)
      PROVE  NotesInv' /\ Only
  <2>1. noteTabs' \in NoteTabs
    BY <1>4 DEF ChangesNote, NoteTabs
  <2>2. noteTabs.lesson \in 0 .. LastNoted /\ noteTabs.lesson # 0
    BY <1>4 DEF ChangesNote, NoteTabs
  <2>. QED
    <3>1. noteTabs.lesson \in 1 .. LastNoted
      BY <2>2
    <3>2. SendNote(kind, noteTabs.lesson, n, noteCalls) /\ UNCHANGED notes
      BY <1>4 DEF ChangesNote
    <3>. QED
      BY <1>1, <2>1, <3>1, <3>2
<1>5. ASSUME NEW i \in Slot, ListsNotes(i) \/ ChecksNote(i) PROVE NotesInv' /\ Only
  <2>1. PICK step \in {"answered", "checked"}, listed \in SUBSET NoteIds :
          /\ noteCalls' = [noteCalls EXCEPT ![i] = [@ EXCEPT !.step = step, !.listed = listed]]
          /\ step = "answered" => noteCalls[i].kind = "list"
          /\ step = "checked" /\ noteCalls[i].kind \in {"update", "delete"} =>
               /\ noteCalls[i].note \in DOMAIN notes
               /\ notes[noteCalls[i].note].lesson = noteCalls[i].lesson
    <3>1. CASE ListsNotes(i)
      <4>1. NotesOf(noteCalls[i].lesson) \in SUBSET NoteIds
        BY <1>0 DEF NotesOf
      <4>. QED
        BY <3>1, <4>1 DEF ListsNotes, NoteCallIs
    <3>2. CASE ChecksNote(i)
      <4>1. noteCalls[i].listed \in SUBSET NoteIds
        BY DEF NoteCall
      <4>2. noteCalls' = [noteCalls EXCEPT ![i] = [@ EXCEPT !.step = "checked", !.listed = noteCalls[i].listed]]
        BY <3>2 DEF ChecksNote, NoteCall
      <4>. QED
        BY <3>2, <4>1, <4>2 DEF ChecksNote, NoteCallIs, OwnsNote, NotesOf
    <3>. QED
      BY <1>5, <3>1, <3>2
  <2>. DEFINE call == [noteCalls[i] EXCEPT !.step = step, !.listed = listed]
  <2>2. /\ call \in NoteCall /\ call.kind = noteCalls[i].kind /\ call.lesson = noteCalls[i].lesson
        /\ call.note = noteCalls[i].note /\ call.step = step
    BY DEF NoteCall
  <2>3. noteCalls' = [noteCalls EXCEPT ![i] = call]
    BY <2>1
  <2>4. UNCHANGED <<notes, noteTabs>>
    BY <1>5 DEF ListsNotes, ChecksNote
  <2>. HIDE DEF call
  <2>. QED
    BY <1>0, <2>1, <2>2, <2>3, <2>4 DEF ChecksStand
<1>6. ASSUME NEW i \in Slot, InsertsNote(i) PROVE NotesInv' /\ Only
  <2>. DEFINE row == [lesson |-> noteCalls[i].lesson, body |-> "written", deleted |-> FALSE]
              call == [noteCalls[i] EXCEPT !.step = "answered", !.note = Len(notes')]
  <2>1. row \in Note /\ notes' = Append(notes, row) /\ Len(notes) < MaxNotes
    <3>1. noteCalls[i].lesson \in 0 .. LastNoted /\ noteCalls[i].lesson # 0
      BY <1>6 DEF InsertsNote, NoteCallIs, NoteCall
    <3>. QED
      BY <1>6, <3>1 DEF InsertsNote, Note
  <2>2. /\ notes' \in Seq(Note) /\ Len(notes') <= MaxNotes /\ Len(notes') \in 1 .. MaxNotes
        /\ \A n \in DOMAIN notes : n \in DOMAIN notes' /\ notes'[n] = notes[n]
    BY <2>1
  <2>3. /\ call \in NoteCall /\ call.step = "answered" /\ call.lesson = noteCalls[i].lesson
        /\ noteCalls' = [noteCalls EXCEPT ![i] = call] /\ noteCalls[i].kind # "none"
        /\ call.note # 0
    <3>1. noteCalls' = [noteCalls EXCEPT ![i] = call] /\ noteCalls[i].kind # "none"
      BY <1>6, Zenon DEF InsertsNote, NoteCallIs
    <3>2. Len(notes') \in 0 .. MaxNotes /\ Len(notes') # 0 /\ noteCalls[i] \in NoteCall
      BY <2>2
    <3>. QED
      BY <3>1, <3>2 DEF NoteCall
  <2>. HIDE DEF call, row
  <2>. QED
    <3>1. ChecksStand'
      BY <1>0, <2>2, <2>3 DEF ChecksStand
    <3>2. RequestsNameLesson'
      BY <1>0, <2>3
    <3>3. noteTabs' = noteTabs
      BY <1>6 DEF InsertsNote
    <3>. QED
      BY <1>0, <2>2, <2>3, <3>1, <3>2, <3>3
<1>7. ASSUME NEW i \in Slot, WritesNote(i) PROVE NotesInv' /\ Only
  <2>. DEFINE n == noteCalls[i].note
              call == [noteCalls[i] EXCEPT !.step = "answered"]
  <2>1. n \in DOMAIN notes /\ notes[n].lesson = noteCalls[i].lesson
        /\ noteCalls[i].kind \in {"update", "delete"}
    BY <1>7 DEF WritesNote, NoteCallIs, ChecksStand
  <2>2. PICK row \in {[notes[n] EXCEPT !.body = "edited"], [notes[n] EXCEPT !.deleted = TRUE]} :
          notes' = [notes EXCEPT ![n] = row]
    BY <1>7 DEF WritesNote
  <2>3. row \in Note /\ row.lesson = notes[n].lesson
    <3>1. notes[n] \in Note
      BY <2>1
    <3>. HIDE DEF n
    <3>. QED
      BY <2>2, <3>1 DEF Note
  <2>4. notes' \in Seq(Note) /\ Len(notes') = Len(notes) /\ DOMAIN notes' = DOMAIN notes
    BY <2>1, <2>2, <2>3
  <2>5. /\ call \in NoteCall /\ call.step = "answered" /\ call.kind = noteCalls[i].kind /\ call.lesson = noteCalls[i].lesson
        /\ noteCalls' = [noteCalls EXCEPT ![i] = call]
    <3>1. noteCalls[i] \in NoteCall
      OBVIOUS
    <3>2. noteCalls' = [noteCalls EXCEPT ![i] = call]
      BY <1>7, Zenon DEF WritesNote
    <3>. QED
      BY <3>1, <3>2 DEF NoteCall
  <2>. HIDE DEF call
  <2>6. NotesInv'
    <3>1. ChecksStand'
      BY <1>0, <2>1, <2>2, <2>3, <2>4, <2>5 DEF ChecksStand
    <3>2. noteTabs' = noteTabs
      BY <1>7 DEF WritesNote
    <3>. QED
      BY <1>0, <2>1, <2>4, <2>5, <3>1, <3>2
  <2>7. Only
    BY <1>0, <2>1, <2>2
  <2>. QED
    BY <2>6, <2>7
<1>8. ASSUME NEW i \in Slot, ShowsNotes(i) \/ ShowsChange(i) \/ NoteCallFails(i)
      PROVE  NotesInv' /\ Only
  <2>1. noteCalls' = [noteCalls EXCEPT ![i] = NoNoteCall] /\ notes' = notes
    BY <1>8 DEF ShowsNotes, ShowsChange, NoteCallFails, NoteCallEnds
  <2>2. noteTabs' \in NoteTabs
    <3>1. PICK shown \in SUBSET NoteIds : noteTabs' \in {noteTabs, [noteTabs EXCEPT !.shown = shown],
                  [noteTabs EXCEPT !.busy = FALSE], [noteTabs EXCEPT !.busy = FALSE, !.shown = shown]}
      <4>1. /\ noteCalls[i].listed \in SUBSET NoteIds /\ {} \in SUBSET NoteIds
            /\ noteTabs.shown \in SUBSET NoteIds
            /\ noteTabs.shown \ {noteCalls[i].note} \in SUBSET NoteIds
        BY DEF NoteCall, NoteTabs
      <4>2. CASE ShowsNotes(i)
        BY <4>1, <4>2 DEF ShowsNotes
      <4>3. CASE NoteCallFails(i)
        BY <4>1, <4>3 DEF NoteCallFails
      <4>4. CASE ShowsChange(i)
        <5>1. noteCalls[i].kind = "create" => noteTabs.shown \cup {noteCalls[i].note} \in SUBSET NoteIds
          <6>1. noteCalls[i].kind = "create" => noteCalls[i].note # 0
            BY <4>4 DEF ShowsChange, NoteCallIs
          <6>2. noteCalls[i].note \in 0 .. MaxNotes
            BY DEF NoteCall
          <6>. QED
            BY <4>1, <6>1, <6>2 DEF NoteIds
        <5>. QED
          BY <4>1, <4>4, <5>1 DEF ShowsChange
      <4>. QED
        BY <1>8, <4>2, <4>3, <4>4
    <3>. QED
      BY <3>1 DEF NoteTabs
  <2>. QED
    BY <1>0, <2>1, <2>2 DEF ChecksStand
<1>9. CASE UNCHANGED noteVars
  BY <1>9 DEF noteVars, ChecksStand
<1>10. noteTabs.shown \subseteq 0 .. MaxNotes
  BY <1>0 DEF NoteTabs
<1>. QED
  BY <1>0, <1>2, <1>3, <1>4, <1>5, <1>6, <1>7, <1>8, <1>9, <1>10 DEF NotesNext

\* The notes, the tabs that list them and their requests are always of the declared
\* types.
THEOREM NotesTypeCorrect == NotesSpec => []NotesTypeOK
<1>1. NotesInv => NotesTypeOK
  BY DEF NotesInv
<1>2. NotesInv /\ [NotesNext]_noteVars => NotesInv'
  BY NotesStep
<1>. QED
  BY NotesInitInv, <1>1, <1>2, PTL DEF NotesSpec

\* A stored note only changes by a request sent from its own lesson, whichever
\* lesson's notes the tabs list meanwhile.
THEOREM NotesAlwaysStayPut == NotesSpec => NotesStayPut
<1>1. NotesInv /\ [NotesNext]_noteVars => NotesInv'
  BY NotesStep
<1>2. NotesInv /\ [NotesNext]_noteVars => [\A n \in DOMAIN notes : notes'[n] # notes[n] =>
        \E i \in DOMAIN noteCalls :
          /\ noteCalls[i].kind \in {"update", "delete"} /\ noteCalls[i].note = n
          /\ noteCalls[i].lesson = notes[n].lesson]_noteVars
  BY NotesStep
<1>. QED
  BY NotesInitInv, <1>1, <1>2, PTL DEF NotesSpec, NotesStayPut

-----------------------------------------------------------------------------
(* The pages about oneself *)

\* Only the open verification page is being answered, and truly; a page of
\* verification loads nothing else.
QuestionsAreRouted == \A i \in DOMAIN memberCalls :
  /\ memberCalls[i].kind = "verify" =>
       /\ memberPage.at = "verify" /\ memberCalls[i].id = memberPage.route
       /\ memberCalls[i].id \in Credentials
  /\ memberCalls[i].kind = "verify" /\ memberCalls[i].step = "answered"
       /\ memberCalls[i].verdict # "none" => credentials[memberCalls[i].id] # "none"
  /\ memberCalls[i].kind = "load" => memberPage.at # "verify"

\* A certificate is verified under its own address.
VerdictsAreRouted ==
  memberPage.at = "verify" /\ memberPage.phase = "ready" =>
    /\ memberPage.shown = memberPage.route /\ memberPage.route \in Credentials
    /\ memberPage.verdict # "none" => credentials[memberPage.route] # "none"

MemberInv == MemberTypeOK /\ QuestionsAreRouted /\ VerdictsAreRouted

LEMMA MemberInitInv == MemberInit => MemberInv
  BY MemberAssumption
  DEF MemberInit, MemberInv, MemberTypeOK, QuestionsAreRouted, VerdictsAreRouted, Names,
      CredentialStatus, MemberPage, NoMemberPage, MemberCall, NoMemberCall, Ids

LEMMA MemberStep == MemberInv /\ [MemberNext]_memberVars => MemberInv'
<1>. SUFFICES ASSUME MemberInv, [MemberNext]_memberVars PROVE MemberInv'
  OBVIOUS
<1>. USE MemberAssumption DEF MemberInv, MemberTypeOK, VerdictsAreRouted
<1>0. /\ NoMemberPage \in MemberPage /\ NoMemberPage.phase = "idle" /\ NoMemberPage.at = "away"
      /\ NoMemberCall \in MemberCall /\ NoMemberCall.kind = "none"
      /\ NoMemberCall.step = "asked"
  BY DEF NoMemberPage, MemberPage, NoMemberCall, MemberCall, Ids, Names, CredentialStatus
<1>. DEFINE Slot == 1 .. MaxMemberCalls
            Left == LeftBehind(memberCalls)
<1>1. /\ Left \in [Slot -> MemberCall]
      /\ \A i \in Slot : Left[i].kind \notin {"load", "verify"}
  <2>1. ASSUME NEW i \in Slot PROVE [memberCalls[i] EXCEPT !.heard = FALSE] \in MemberCall
                /\ [memberCalls[i] EXCEPT !.heard = FALSE].kind = memberCalls[i].kind
    BY <2>1 DEF MemberCall
  <2>. QED
    BY <1>0, <2>1 DEF LeftBehind
<1>. HIDE DEF Left
<1>2. ASSUME NEW from \in [Slot -> MemberCall], NEW call \in MemberCall,
             memberCalls' \in Sent(from, call)
      PROVE  \E i \in Slot : /\ memberCalls' = [from EXCEPT ![i] = [call EXCEPT !.heard = TRUE]]
                             /\ [call EXCEPT !.heard = TRUE] \in MemberCall
                             /\ [call EXCEPT !.heard = TRUE].kind = call.kind
                             /\ [call EXCEPT !.heard = TRUE].step = call.step
                             /\ [call EXCEPT !.heard = TRUE].id = call.id
  <2>1. /\ [call EXCEPT !.heard = TRUE] \in MemberCall
        /\ [call EXCEPT !.heard = TRUE].kind = call.kind
        /\ [call EXCEPT !.heard = TRUE].step = call.step
        /\ [call EXCEPT !.heard = TRUE].id = call.id
    BY DEF MemberCall
  <2>2. DOMAIN from = Slot
    OBVIOUS
  <2>3. \E i \in DOMAIN from : memberCalls' = [from EXCEPT ![i] = [call EXCEPT !.heard = TRUE]]
    BY <1>2 DEF Sent
  <2>. QED
    BY <2>1, <2>2, <2>3
<1>3. ASSUME NEW at \in {"profile", "settings", "certificates", "contact"}, OpensPage(at)
      PROVE  MemberInv'
  <2>1. memberPage' \in MemberPage /\ memberPage'.at = at
    BY <1>0, <1>3 DEF OpensPage, MemberPage
  <2>2. CASE memberCalls' = Left
    BY <1>1, <1>3, <2>1, <2>2 DEF OpensPage, memberRows, QuestionsAreRouted, Left
  <2>3. CASE memberCalls' \in Sent(Left, [NoMemberCall EXCEPT !.kind = "load"])
    <3>1. /\ [NoMemberCall EXCEPT !.kind = "load"] \in MemberCall
          /\ [NoMemberCall EXCEPT !.kind = "load"].kind = "load"
      BY <1>0 DEF MemberCall
    <3>2. UNCHANGED memberRows
      BY <1>3 DEF OpensPage
    <3>. DEFINE sent == [[NoMemberCall EXCEPT !.kind = "load"] EXCEPT !.heard = TRUE]
    <3>4. Left \in [Slot -> MemberCall]
      BY <1>1
    <3>5. PICK i \in Slot : /\ memberCalls' = [Left EXCEPT ![i] = sent]
              /\ sent \in MemberCall /\ sent.kind = [NoMemberCall EXCEPT !.kind = "load"].kind
              /\ sent.step = [NoMemberCall EXCEPT !.kind = "load"].step /\ sent.id = [NoMemberCall EXCEPT !.kind = "load"].id
      BY <1>2, <3>4, <2>3, <3>1
    <3>. HIDE DEF sent
    <3>6. QuestionsAreRouted'
      BY <1>1, <2>1, <3>1, <3>2, <3>5 DEF QuestionsAreRouted, memberRows
    <3>7. VerdictsAreRouted' /\ UNCHANGED <<names, prefs, credentials>>
      BY <1>1, <2>1, <3>1, <3>2, <3>5 DEF memberRows
    <3>8. memberCalls' \in [Slot -> MemberCall]
      BY <1>1, <2>1, <3>1, <3>2, <3>5
    <3>. QED
      BY <1>1, <2>1, <3>1, <3>2, <3>5, <3>6, <3>7, <3>8
  <2>. QED
    BY <1>3, <2>2, <2>3 DEF OpensPage, Left
<1>4. CASE LoadsAgain
  <2>1. memberPage' \in MemberPage /\ memberPage'.at = "certificates"
    BY <1>4 DEF LoadsAgain, MemberPage
  <2>2. /\ [NoMemberCall EXCEPT !.kind = "load"] \in MemberCall
        /\ [NoMemberCall EXCEPT !.kind = "load"].kind = "load"
    BY <1>0 DEF MemberCall
  <2>3. memberCalls' \in Sent(Left, [NoMemberCall EXCEPT !.kind = "load"]) /\ UNCHANGED memberRows
    BY <1>4 DEF LoadsAgain, Left
  <2>. QED
    <3>. DEFINE sent == [[NoMemberCall EXCEPT !.kind = "load"] EXCEPT !.heard = TRUE]
    <3>4. Left \in [Slot -> MemberCall]
      BY <1>1
    <3>5. PICK i \in Slot : /\ memberCalls' = [Left EXCEPT ![i] = sent]
              /\ sent \in MemberCall /\ sent.kind = [NoMemberCall EXCEPT !.kind = "load"].kind
              /\ sent.step = [NoMemberCall EXCEPT !.kind = "load"].step /\ sent.id = [NoMemberCall EXCEPT !.kind = "load"].id
      BY <1>2, <3>4, <2>2, <2>3
    <3>. HIDE DEF sent
    <3>6. QuestionsAreRouted'
      BY <1>1, <2>1, <2>2, <2>3, <3>5 DEF QuestionsAreRouted, memberRows
    <3>7. VerdictsAreRouted' /\ UNCHANGED <<names, prefs, credentials>>
      BY <1>1, <2>1, <2>2, <2>3, <3>5 DEF memberRows
    <3>8. memberCalls' \in [Slot -> MemberCall]
      BY <1>1, <2>1, <2>2, <2>3, <3>5
    <3>. QED
      BY <1>1, <2>1, <2>2, <2>3, <3>5, <3>6, <3>7, <3>8
<1>5. ASSUME NEW c \in Credentials, Verifies(c) PROVE MemberInv'
  <2>. DEFINE call == [NoMemberCall EXCEPT !.kind = "verify", !.id = c]
  <2>1. call \in MemberCall /\ call.kind = "verify" /\ call.id = c /\ call.step = "asked"
    <3>1. c \in Ids
      BY DEF Ids
    <3>. QED
      BY <1>0, <3>1 DEF MemberCall
  <2>2. /\ memberPage' \in MemberPage /\ memberPage'.at = "verify"
        /\ memberPage'.phase = "loading" /\ memberPage'.route = c
    BY <1>0, <1>5 DEF Verifies, Verifying, MemberPage, Ids
  <2>3. memberCalls' \in Sent(Left, call) /\ UNCHANGED <<names, prefs, credentials>>
    BY <1>5 DEF Verifies, memberRows, Left
  <2>. HIDE DEF call
  <2>. QED
    <3>. DEFINE sent == [call EXCEPT !.heard = TRUE]
    <3>4. Left \in [Slot -> MemberCall]
      BY <1>1
    <3>5. PICK i \in Slot : /\ memberCalls' = [Left EXCEPT ![i] = sent]
              /\ sent \in MemberCall /\ sent.kind = call.kind
              /\ sent.step = call.step /\ sent.id = call.id
      BY <1>2, <3>4, <2>1, <2>3
    <3>. HIDE DEF sent
    <3>6. QuestionsAreRouted'
      BY <1>1, <2>1, <2>2, <2>3, <3>5 DEF QuestionsAreRouted, memberRows
    <3>7. VerdictsAreRouted' /\ UNCHANGED <<names, prefs, credentials>>
      BY <1>1, <2>1, <2>2, <2>3, <3>5 DEF memberRows
    <3>8. memberCalls' \in [Slot -> MemberCall]
      BY <1>1, <2>1, <2>2, <2>3, <3>5
    <3>. QED
      BY <1>1, <2>1, <2>2, <2>3, <3>5, <3>6, <3>7, <3>8
<1>6. CASE ClearsVerdict
  <2>1. memberPage' \in MemberPage /\ memberPage'.phase = "idle"
    BY <1>0, <1>6 DEF ClearsVerdict, MemberPage
  <2>. QED
    BY <1>1, <1>6, <2>1 DEF ClearsVerdict, memberRows, QuestionsAreRouted, Left
<1>7. ASSUME NEW call \in MemberCall, call.kind \notin {"load", "verify"},
             memberCalls' \in Sent(memberCalls, call), memberPage' \in MemberPage,
             memberPage.at # "verify", memberPage'.at = memberPage.at, UNCHANGED memberRows
      PROVE  MemberInv'
  <3>. DEFINE sent == [call EXCEPT !.heard = TRUE]
  <3>5. PICK i \in Slot : /\ memberCalls' = [memberCalls EXCEPT ![i] = sent]
            /\ sent \in MemberCall /\ sent.kind = call.kind
            /\ sent.step = call.step /\ sent.id = call.id
    BY <1>2, <1>7
  <3>. HIDE DEF sent
  <3>6. QuestionsAreRouted'
    BY <1>7, <3>5 DEF QuestionsAreRouted, memberRows
  <3>7. VerdictsAreRouted' /\ UNCHANGED <<names, prefs, credentials>>
    BY <1>7, <3>5 DEF memberRows
  <3>8. memberCalls' \in [Slot -> MemberCall]
    BY <1>7, <3>5
  <3>. QED
    BY <1>7, <3>5, <3>6, <3>7, <3>8
<1>8. CASE ChangesPassword \/ SendsMessage \/ \E n \in Names : SavesName(n)
  <2>1. PICK call \in MemberCall : call.kind \in {"password", "message", "name"}
                                  /\ memberCalls' \in Sent(memberCalls, call)
    <3>1. \A n \in Names, kind \in {"password", "message", "name"} :
            /\ [NoMemberCall EXCEPT !.kind = kind] \in MemberCall
            /\ [NoMemberCall EXCEPT !.kind = kind].kind = kind
            /\ [NoMemberCall EXCEPT !.kind = kind, !.name = n] \in MemberCall
            /\ [NoMemberCall EXCEPT !.kind = kind, !.name = n].kind = kind
      BY <1>0 DEF MemberCall
    <3>2. CASE ChangesPassword \/ SendsMessage
      BY <3>1, <3>2 DEF ChangesPassword, SendsMessage, Names
    <3>3. CASE \E n \in Names : SavesName(n)
      BY <3>1, <3>3 DEF SavesName
    <3>. QED
      BY <1>8, <3>2, <3>3
  <2>2. memberPage' \in MemberPage /\ memberPage.at # "verify" /\ memberPage'.at = memberPage.at
    <3>1. CASE ChangesPassword
      BY <3>1 DEF ChangesPassword, MemberPage
    <3>2. CASE SendsMessage
      BY <3>2 DEF SendsMessage, MemberPage
    <3>3. CASE \E n \in Names : SavesName(n)
      BY <3>3 DEF SavesName, MemberPage
    <3>. QED
      BY <1>8, <3>1, <3>2, <3>3
  <2>. QED
    BY <1>7, <1>8, <2>1, <2>2 DEF ChangesPassword, SendsMessage, SavesName
<1>9. CASE ResetsPrefs \/ \E p \in Prefs : TogglesPref(p)
  <2>0. memberPage.prefs \in SUBSET Prefs
    BY DEF MemberPage
  <2>1. PICK call \in MemberCall : call.kind \in {"prefs", "reset"}
                                  /\ memberCalls' \in Sent(memberCalls, call)
    <3>1. CASE ResetsPrefs
      <4>1. /\ [NoMemberCall EXCEPT !.kind = "reset", !.prefs = memberPage.prefs] \in MemberCall
            /\ [NoMemberCall EXCEPT !.kind = "reset", !.prefs = memberPage.prefs].kind = "reset"
        BY <1>0, <2>0 DEF MemberCall
      <4>. QED
        BY <3>1, <4>1 DEF ResetsPrefs
    <3>2. ASSUME NEW p \in Prefs, TogglesPref(p)
          PROVE  \E call \in MemberCall : call.kind \in {"prefs", "reset"}
                                         /\ memberCalls' \in Sent(memberCalls, call)
      <4>. DEFINE call == [NoMemberCall EXCEPT !.kind = "prefs", !.flips = {p}, !.prefs = memberPage.prefs]
      <4>1. call \in MemberCall /\ call.kind = "prefs"
        BY <1>0, <2>0 DEF MemberCall
      <4>. QED
        BY <3>2, <4>1 DEF TogglesPref
    <3>. QED
      BY <1>9, <3>1, <3>2
  <2>2. memberPage' \in MemberPage /\ memberPage.at # "verify" /\ memberPage'.at = memberPage.at
    <3>1. CASE ResetsPrefs
      BY <3>1 DEF ResetsPrefs, MemberPage
    <3>2. ASSUME NEW p \in Prefs, TogglesPref(p)
          PROVE  memberPage' \in MemberPage /\ memberPage.at # "verify" /\ memberPage'.at = memberPage.at
      <4>1. Flip(memberPage.prefs, p) \in SUBSET Prefs
        BY <2>0 DEF Flip
      <4>. QED
        BY <3>2, <4>1 DEF TogglesPref, MemberPage
    <3>. QED
      BY <1>9, <3>1, <3>2
  <2>. QED
    BY <1>7, <1>9, <2>1, <2>2 DEF ResetsPrefs, TogglesPref
<1>10. ASSUME NEW i \in Slot, NEW call \in MemberCall, call.kind \in {memberCalls[i].kind, "none"},
              call.kind # "verify", memberCalls' = [memberCalls EXCEPT ![i] = call],
              memberPage' \in MemberPage, memberPage'.at = memberPage.at,
              memberPage.at = "verify" => memberPage' = memberPage \/ memberPage'.phase # "ready",
              memberPage'.route = memberPage.route,
              UNCHANGED credentials, names' \in [pool : Names, profile : Names], prefs' \in SUBSET Prefs
       PROVE  MemberInv'
  <2>1. QuestionsAreRouted'
    BY <1>10 DEF QuestionsAreRouted
  <2>2. VerdictsAreRouted'
    BY <1>10
  <2>. QED
    BY <1>10, <2>1, <2>2
<1>11. ASSUME NEW i \in Slot PROVE
         /\ [memberCalls[i] EXCEPT !.step = "going"] \in MemberCall
         /\ [memberCalls[i] EXCEPT !.step = "going"].kind = memberCalls[i].kind
         /\ [memberCalls[i] EXCEPT !.step = "answered"] \in MemberCall
         /\ [memberCalls[i] EXCEPT !.step = "answered"].kind = memberCalls[i].kind
  BY DEF MemberCall
<1>12. ASSUME NEW i \in Slot, ReadsRows(i) PROVE MemberInv'
  <2>1. PICK shown \in SUBSET Prefs, listed \in SUBSET Credentials :
          memberCalls' = [memberCalls EXCEPT ![i] =
            [memberCalls[i] EXCEPT !.step = "answered", !.prefs = shown, !.listed = listed]]
    <3>1. Earned \in SUBSET Credentials
      BY DEF Earned
    <3>. QED
      BY <1>12, <3>1 DEF ReadsRows
  <2>. DEFINE call == [memberCalls[i] EXCEPT !.step = "answered", !.prefs = shown, !.listed = listed]
  <2>2. call \in MemberCall /\ call.kind = memberCalls[i].kind
    BY DEF MemberCall
  <2>. HIDE DEF call
  <2>3. memberCalls' = [memberCalls EXCEPT ![i] = call]
    BY <2>1 DEF call
  <2>. QED
    BY <1>10, <1>12, <2>2, <2>3 DEF ReadsRows, memberRows
<1>13. ASSUME NEW i \in Slot, ShowsRows(i) PROVE MemberInv'
  <2>1. memberPage.at # "verify"
    BY <1>13 DEF ShowsRows, QuestionsAreRouted
  <2>2. memberCalls[i].prefs \in SUBSET Prefs /\ memberCalls[i].listed \in SUBSET Credentials
    BY DEF MemberCall
  <2>3. memberPage' \in MemberPage /\ memberPage'.at = memberPage.at /\ memberPage'.route = memberPage.route
    BY <1>13, <2>2 DEF ShowsRows, MemberPage
  <2>4. memberCalls' = [memberCalls EXCEPT ![i] = NoMemberCall] /\ UNCHANGED memberRows
    BY <1>13 DEF ShowsRows, Ends
  <2>. QED
    BY <1>0, <1>10, <2>1, <2>3, <2>4 DEF memberRows
<1>14. ASSUME NEW i \in Slot, WritesPoolName(i) \/ WritesProfileName(i) PROVE MemberInv'
  <2>1. names' \in [pool : Names, profile : Names]
    <3>1. memberCalls[i].name \in Names
      BY DEF MemberCall
    <3>. QED
      BY <1>14, <3>1 DEF WritesPoolName, WritesProfileName
  <2>2. PICK call \in {NoMemberCall, [memberCalls[i] EXCEPT !.step = "going"],
                       [memberCalls[i] EXCEPT !.step = "answered"]} :
          memberCalls' = [memberCalls EXCEPT ![i] = call]
    BY <1>14 DEF WritesPoolName, WritesProfileName, Answered, Ends
  <2>3. call \in MemberCall /\ call.kind \in {memberCalls[i].kind, "none"}
    BY <1>0, <1>11, <2>2
  <2>. QED
    BY <1>10, <1>14, <2>1, <2>2, <2>3 DEF WritesPoolName, WritesProfileName
<1>15. ASSUME NEW i \in Slot, ReadsPrefs(i) PROVE MemberInv'
  <2>1. PICK shown \in SUBSET Prefs, flips \in SUBSET Prefs :
          memberCalls' = [memberCalls EXCEPT ![i] =
            [memberCalls[i] EXCEPT !.step = "going", !.prefs = shown, !.flips = flips]]
    <3>1. memberCalls[i].prefs \in SUBSET Prefs
      BY DEF MemberCall
    <3>. QED
      BY <1>15, <3>1 DEF ReadsPrefs
  <2>. DEFINE call == [memberCalls[i] EXCEPT !.step = "going", !.prefs = shown, !.flips = flips]
  <2>2. call \in MemberCall /\ call.kind = memberCalls[i].kind
    BY DEF MemberCall
  <2>. HIDE DEF call
  <2>3. memberCalls' = [memberCalls EXCEPT ![i] = call]
    BY <2>1 DEF call
  <2>. QED
    BY <1>10, <1>15, <2>2, <2>3 DEF ReadsPrefs, memberRows
<1>16. ASSUME NEW i \in Slot, WritesPrefs(i) PROVE MemberInv'
  <2>1. prefs' \in SUBSET Prefs
    BY <1>16 DEF WritesPrefs, MemberCall
  <2>. DEFINE call == [memberCalls[i] EXCEPT !.step = "answered", !.flips = prefs']
  <2>2. call \in MemberCall /\ call.kind = memberCalls[i].kind
    BY <2>1 DEF MemberCall
  <2>. HIDE DEF call
  <2>3. memberCalls' \in {[memberCalls EXCEPT ![i] = call], [memberCalls EXCEPT ![i] = NoMemberCall]}
        /\ memberCalls[i].kind # "verify" /\ UNCHANGED <<names, credentials, memberPage>>
    BY <1>16 DEF WritesPrefs, Ends, call
  <2>. QED
    BY <1>0, <1>10, <2>1, <2>2, <2>3
<1>17. ASSUME NEW c \in Credentials, CredentialChanges(c) PROVE MemberInv'
  <2>1. credentials' \in [Credentials -> CredentialStatus]
    BY <1>17 DEF CredentialChanges, CredentialStatus
  <2>2. \A d \in Credentials : credentials[d] # "none" => credentials'[d] # "none"
    BY <1>17 DEF CredentialChanges
  <2>3. UNCHANGED <<names, prefs, memberPage, memberCalls>>
    BY <1>17 DEF CredentialChanges
  <2>4. QuestionsAreRouted'
    BY <2>2, <2>3 DEF QuestionsAreRouted
  <2>. QED
    BY <2>1, <2>2, <2>3, <2>4
<1>18. ASSUME NEW i \in Slot, ReadsCredential(i) PROVE MemberInv'
  <2>1. memberCalls[i].kind = "verify" /\ memberCalls[i].id \in Credentials
    BY <1>18 DEF ReadsCredential, QuestionsAreRouted
  <2>. DEFINE call == [memberCalls[i] EXCEPT !.step = "answered",
                                             !.verdict = credentials[memberCalls[i].id]]
  <2>2. /\ call \in MemberCall /\ call.kind = memberCalls[i].kind /\ call.id = memberCalls[i].id
        /\ call.verdict = credentials[memberCalls[i].id]
    BY <2>1 DEF MemberCall
  <2>. HIDE DEF call
  <2>3. memberCalls' = [memberCalls EXCEPT ![i] = call] /\ UNCHANGED <<names, prefs, credentials, memberPage>>
    BY <1>18 DEF ReadsCredential, memberRows, call
  <2>4. QuestionsAreRouted'
    BY <2>2, <2>3 DEF QuestionsAreRouted
  <2>. QED
    BY <2>2, <2>3, <2>4
<1>19. ASSUME NEW i \in Slot, ShowsVerdict(i) PROVE MemberInv'
  <2>1. /\ memberPage.at = "verify" /\ memberCalls[i].id = memberPage.route
        /\ memberCalls[i].id \in Credentials
        /\ memberCalls[i].verdict # "none" => credentials[memberCalls[i].id] # "none"
    BY <1>19 DEF ShowsVerdict, QuestionsAreRouted
  <2>2. memberCalls[i].id \in Ids /\ memberCalls[i].verdict \in CredentialStatus
    BY DEF MemberCall
  <2>3. /\ memberPage' \in MemberPage /\ memberPage'.at = "verify" /\ memberPage'.route = memberPage.route
        /\ memberPage'.shown = memberCalls[i].id /\ memberPage'.verdict = memberCalls[i].verdict
    BY <1>19, <2>1, <2>2 DEF ShowsVerdict, MemberPage
  <2>4. memberCalls' = [memberCalls EXCEPT ![i] = NoMemberCall] /\ UNCHANGED <<names, prefs, credentials>>
    BY <1>19 DEF ShowsVerdict, Ends, memberRows
  <2>5. QuestionsAreRouted'
    BY <1>0, <2>3, <2>1, <2>4 DEF QuestionsAreRouted
  <2>. QED
    BY <1>0, <2>1, <2>3, <2>4, <2>5
<1>20. ASSUME NEW i \in Slot, QueuesMessage(i) PROVE MemberInv'
  <2>1. PICK call \in {NoMemberCall, [memberCalls[i] EXCEPT !.step = "answered"]} :
          memberCalls' = [memberCalls EXCEPT ![i] = call]
    BY <1>20 DEF QueuesMessage, Answered, Ends
  <2>2. call \in MemberCall /\ call.kind \in {"message", "none"} /\ memberCalls[i].kind = "message"
    BY <1>0, <1>11, <1>20, <2>1 DEF QueuesMessage
  <2>3. UNCHANGED <<names, prefs, credentials, memberPage>>
    BY <1>20 DEF QueuesMessage, memberRows
  <2>. QED
    BY <1>10, <2>1, <2>2, <2>3
<1>21. ASSUME NEW i \in Slot, ShowsSaved(i) \/ PasswordEnds(i) \/ MemberCallFails(i)
       PROVE  MemberInv'
  <2>1. memberCalls' = [memberCalls EXCEPT ![i] = NoMemberCall] /\ UNCHANGED <<names, prefs, credentials>>
    BY <1>21 DEF ShowsSaved, PasswordEnds, MemberCallFails, Ends, memberRows
  <2>2. PICK shown \in SUBSET Prefs, phase \in {"idle", "error", memberPage.phase} :
          memberPage' \in {memberPage, [memberPage EXCEPT !.changing = FALSE],
            [memberPage EXCEPT !.saving = FALSE, !.prefs = shown, !.phase = phase],
            [memberPage EXCEPT !.phase = "error"]}
    <3>1. /\ memberCalls[i].flips \in SUBSET Prefs /\ memberCalls[i].prefs \in SUBSET Prefs
          /\ memberPage.prefs \in SUBSET Prefs
      BY DEF MemberCall, MemberPage
    <3>2. CASE ShowsSaved(i)
      BY <3>1, <3>2 DEF ShowsSaved
    <3>3. CASE PasswordEnds(i)
      BY <3>3 DEF PasswordEnds
    <3>4. CASE MemberCallFails(i)
      BY <3>1, <3>4 DEF MemberCallFails
    <3>. QED
      BY <1>21, <3>2, <3>3, <3>4
  <2>3. /\ memberPage' \in MemberPage /\ memberPage'.at = memberPage.at
        /\ memberPage'.route = memberPage.route /\ memberPage'.shown = memberPage.shown
        /\ memberPage'.verdict = memberPage.verdict
        /\ memberPage'.phase \in {"idle", "error", memberPage.phase}
    <3>. DEFINE after == [memberPage EXCEPT !.saving = FALSE, !.prefs = shown, !.phase = phase]
    <3>1. phase \in {"idle", "loading", "ready", "error"}
      BY DEF MemberPage
    <3>2. /\ after \in MemberPage /\ after.at = memberPage.at /\ after.route = memberPage.route
          /\ after.shown = memberPage.shown /\ after.verdict = memberPage.verdict
          /\ after.phase = phase
      BY <3>1 DEF MemberPage
    <3>3. memberPage' = after \/ memberPage' \in {memberPage, [memberPage EXCEPT !.changing = FALSE],
            [memberPage EXCEPT !.phase = "error"]}
      BY <2>2
    <3>. HIDE DEF after
    <3>4. CASE memberPage' = after
      BY <3>2, <3>4
    <3>5. CASE memberPage' \in {memberPage, [memberPage EXCEPT !.changing = FALSE],
            [memberPage EXCEPT !.phase = "error"]}
      BY <3>5 DEF MemberPage
    <3>. QED
      BY <3>3, <3>4, <3>5
  <2>4. QuestionsAreRouted'
    BY <1>0, <2>1, <2>3 DEF QuestionsAreRouted
  <2>. QED
    BY <1>0, <2>1, <2>3, <2>4
<1>22. CASE UNCHANGED memberVars
  BY <1>22 DEF memberVars, QuestionsAreRouted
<1>. QED
  BY <1>3, <1>4, <1>5, <1>6, <1>8, <1>9, <1>12, <1>13, <1>14, <1>15, <1>16, <1>17, <1>18, <1>19,
     <1>20, <1>21, <1>22 DEF MemberNext

\* The accounts, the certificates, the member's pages and their requests are always
\* of the declared types.
THEOREM MemberTypeCorrect == MemberSpec => []MemberTypeOK
<1>1. MemberInv => MemberTypeOK
  BY DEF MemberInv
<1>. QED
  BY MemberInitInv, MemberStep, <1>1, PTL DEF MemberSpec

\* The verification page never shows one certificate's verdict under another
\* one's address, in whatever order the questions are asked and answered, and
\* calls none valid that was never issued.
THEOREM AlwaysVerifiedAsRouted == MemberSpec => []VerifiedAsRouted
<1>1. MemberInv => VerifiedAsRouted
  BY DEF MemberInv, VerdictsAreRouted, VerifiedAsRouted
<1>. QED
  BY MemberInitInv, MemberStep, <1>1, PTL DEF MemberSpec

-----------------------------------------------------------------------------
(* The shop *)

\* A number that is kept with a product is that of a purchase of it.
Bought(n, p) == n # 0 => orders[n].status # "none" /\ orders[n].product = p

PurchasesAreKept ==
  /\ \A n \in Orders : orders[n].status = "paid" => n \in everPaid
  /\ \A n \in everPaid : orders[n].status # "none"
  /\ Bought(saved.order, saved.product)
  /\ Bought(shopper.tracked.order, shopper.tracked.product)

\* What is on its way to a page: purchases that were made, rows that were paid,
\* and the status of the purchase the result page waits for.
AnswersAreTrue == \A i \in DOMAIN shopCalls :
  /\ shopCalls[i].kind = "session" => Bought(shopCalls[i].order, shopCalls[i].product)
  /\ shopCalls[i].rows \subseteq everPaid
  /\ shopCalls[i].kind = "status" =>
       /\ shopCalls[i].order # 0
       /\ shopCalls[i].step = "answered" /\ shopCalls[i].status = "paid" =>
            shopCalls[i].order \in everPaid
       /\ shopCalls[i].heard => shopCalls[i].order = shopper.tracked.order

\* Without a purchase the result page congratulates on none.
ShopInv == ShopTypeOK /\ PurchasesAreKept /\ AnswersAreTrue /\ PaidAsShown

LEMMA ShopInitInv == ShopInit => ShopInv
  BY ShopAssumption
  DEF ShopInit, ShopInv, ShopTypeOK, PurchasesAreKept, Bought, AnswersAreTrue, PaidAsShown,
      NoOrder, NothingSaved, NoShopCall, NoShopper, Orders, Offers, OrderStatus, Saved,
      ShopCall, Shopper

LEMMA ShopStep == ShopInv /\ [ShopNext]_shopVars => ShopInv'
<1>. SUFFICES ASSUME ShopInv, [ShopNext]_shopVars PROVE ShopInv'
  OBVIOUS
<1>. USE ShopAssumption DEF ShopInv, ShopTypeOK
<1>. DEFINE Slot == 1 .. MaxShopCalls
            Row == [status : OrderStatus, product : Offers]
<1>0. /\ NoShopCall \in ShopCall /\ NoShopCall.kind = "none" /\ NoShopCall.rows = {}
      /\ NoShopCall.order = 0
      /\ NoShopper \in Shopper /\ NoShopper.tracked = NothingSaved /\ NoShopper.rows = {}
      /\ NoShopper.phase = "confirming"
      /\ NothingSaved \in Saved /\ NothingSaved.order = 0
      /\ BundleOffer \in Offers /\ 0 \in 0 .. MaxOrders /\ Orders \subseteq 0 .. MaxOrders
      /\ DOMAIN shopCalls = Slot
  BY DEF NoShopCall, ShopCall, NoShopper, Shopper, NothingSaved, Saved, OrderStatus, Orders, Offers
<1>1. ASSUME NEW kinds PROVE
        /\ UnheardOf(kinds) \in [Slot -> ShopCall]
        /\ \A i \in Slot : /\ UnheardOf(kinds)[i].kind = shopCalls[i].kind
                           /\ UnheardOf(kinds)[i].order = shopCalls[i].order
                           /\ UnheardOf(kinds)[i].product = shopCalls[i].product
                           /\ UnheardOf(kinds)[i].rows = shopCalls[i].rows
                           /\ UnheardOf(kinds)[i].step = shopCalls[i].step
                           /\ UnheardOf(kinds)[i].status = shopCalls[i].status
                           /\ UnheardOf(kinds)[i].heard => shopCalls[i].heard
                           /\ shopCalls[i].kind \in kinds => ~UnheardOf(kinds)[i].heard
  <2>1. ASSUME NEW i \in Slot PROVE
          LET call == [shopCalls[i] EXCEPT !.heard = FALSE] IN
          /\ call \in ShopCall /\ call.kind = shopCalls[i].kind /\ call.order = shopCalls[i].order
          /\ call.product = shopCalls[i].product /\ call.rows = shopCalls[i].rows
          /\ call.step = shopCalls[i].step /\ call.status = shopCalls[i].status /\ ~call.heard
    BY DEF ShopCall
  <2>. QED
    BY <1>0, <2>1 DEF UnheardOf
\* The rows and the storage stay; the page keeps what it tracks and has read, or
\* nobody hears the answers to it any more.
<1>2. ASSUME shopCalls' \in [Slot -> ShopCall], shopper' \in Shopper,
             UNCHANGED <<orders, everPaid, saved>>, AnswersAreTrue',
             Bought(shopper'.tracked.order, shopper'.tracked.product),
             shopper'.rows \subseteq everPaid,
             shopper'.phase = "enrolled" => shopper'.tracked.order \in everPaid /\ shopper'.tracked.order # 0
      PROVE  ShopInv'
  <2>1. PurchasesAreKept'
    BY <1>2 DEF PurchasesAreKept, Bought
  <2>2. PaidAsShown'
    BY <1>2 DEF PaidAsShown, Bought
  <2>. QED
    BY <1>2, <2>1, <2>2
<1>. DEFINE Fainter(rest) ==
        /\ rest \in [Slot -> ShopCall]
        /\ \A i \in Slot : /\ rest[i].kind = shopCalls[i].kind /\ rest[i].order = shopCalls[i].order
                           /\ rest[i].product = shopCalls[i].product /\ rest[i].rows = shopCalls[i].rows
                           /\ rest[i].step = shopCalls[i].step /\ rest[i].status = shopCalls[i].status
                           /\ rest[i].heard => shopCalls[i].heard
      Same(page) == /\ page \in Shopper /\ page.tracked = shopper.tracked
                    /\ page.rows = shopper.rows /\ page.phase = shopper.phase
      Fresh(page) == /\ page \in Shopper /\ page.tracked = NothingSaved /\ page.rows = {}
                     /\ page.phase = "confirming"
<1>3. ASSUME NEW rest, Fainter(rest), NEW kind \in {"offers", "course", "owned", "session", "list"},
             NEW p \in Offers, AskShop(rest, kind, p, 0) \/ shopCalls' = rest,
             ShopDataUnchanged,
             \/ Same(shopper')
             \/ /\ Fresh(shopper')
                /\ \A i \in Slot : rest[i].kind = "status" => ~rest[i].heard
      PROVE  ShopInv'
  <2>. DEFINE call == [NoShopCall EXCEPT !.kind = kind, !.product = p, !.order = 0, !.heard = TRUE]
  <2>1. /\ call \in ShopCall /\ call.kind = kind /\ call.rows = {} /\ call.order = 0
    <3>1. call \in ShopCall
      BY <1>0 DEF ShopCall
    <3>. QED
      BY <3>1, <1>0 DEF NoShopCall
  <2>. HIDE DEF call
  <2>2. \/ shopCalls' = rest
        \/ \E i \in Slot : shopCalls' = [rest EXCEPT ![i] = call]
    BY <1>0, <1>3 DEF AskShop, FreeShopSlots, call
  <2>3. UNCHANGED <<orders, everPaid, saved>>
    BY <1>3 DEF ShopDataUnchanged
  <2>4. AnswersAreTrue'
    <3>1. ASSUME NEW i \in Slot PROVE
            /\ rest[i].kind = "session" => Bought(rest[i].order, rest[i].product)
            /\ rest[i].rows \subseteq everPaid
            /\ rest[i].kind = "status" =>
                 /\ rest[i].order # 0
                 /\ rest[i].step = "answered" /\ rest[i].status = "paid" => rest[i].order \in everPaid
                 /\ rest[i].heard => rest[i].order = shopper'.tracked.order
      BY <1>0, <1>3 DEF AnswersAreTrue
    <3>. QED
      <4>1. CASE shopCalls' = rest
        BY <1>0, <1>3, <2>3, <3>1, <4>1 DEF AnswersAreTrue, Bought
      <4>2. ASSUME NEW j \in Slot, shopCalls' = [rest EXCEPT ![j] = call] PROVE AnswersAreTrue'
        <5>1. ASSUME NEW i \in Slot PROVE shopCalls'[i] = call \/ shopCalls'[i] = rest[i]
          BY <1>3, <4>2
        <5>2. DOMAIN shopCalls' = Slot
          BY <1>3, <4>2
        <5>. QED
          BY <1>3, <2>1, <2>3, <3>1, <5>1, <5>2 DEF AnswersAreTrue, Bought
      <4>. QED
        BY <2>2, <4>1, <4>2
  <2>5. shopCalls' \in [Slot -> ShopCall]
    BY <1>3, <2>1, <2>2
  <2>6. /\ Bought(shopper'.tracked.order, shopper'.tracked.product)
        /\ shopper'.rows \subseteq everPaid
        /\ shopper'.phase = "enrolled" => shopper'.tracked.order \in everPaid /\ shopper'.tracked.order # 0
    BY <1>0, <1>3 DEF PurchasesAreKept, PaidAsShown, Bought, Orders
  <2>. QED
    BY <1>2, <1>3, <2>3, <2>4, <2>5, <2>6
<1>4. Fainter(PageLeft) /\ Fainter(shopCalls) /\ Fainter(UnheardOf({"offers"}))
      /\ Fainter(UnheardOf({"course"}))
      /\ \A i \in Slot : PageLeft[i].kind = "status" => ~PageLeft[i].heard
  BY <1>1 DEF PageLeft
<1>. HIDE DEF Fainter, Fresh, Same
<1>5. /\ \A at \in {"away", "catalog", "checkout", "purchases"} :
           Fresh([NoShopper EXCEPT !.at = at])
      /\ \A p \in Offers : Fresh([NoShopper EXCEPT !.at = "checkout", !.product = p])
      /\ Fresh(NoShopper)
  <2>1. ASSUME NEW at \in {"away", "catalog", "checkout", "purchases"}, NEW p \in Offers
        PROVE  /\ [NoShopper EXCEPT !.at = at] \in Shopper
               /\ [NoShopper EXCEPT !.at = "checkout", !.product = p] \in Shopper
    BY <1>0 DEF Shopper
  <2>. QED
    BY <1>0, <2>1 DEF Fresh, NoShopper
<1>6. CASE BrowsesCatalog \/ OpensPurchases \/ LeavesShop
  <2>1. Fresh(shopper') /\ ShopDataUnchanged
    BY <1>5, <1>6 DEF BrowsesCatalog, OpensPurchases, LeavesShop
  <2>2. \/ AskShop(PageLeft, "offers", BundleOffer, 0) \/ AskShop(PageLeft, "list", BundleOffer, 0)
        \/ shopCalls' = PageLeft
    BY <1>6 DEF BrowsesCatalog, OpensPurchases, LeavesShop
  <2>. QED
    BY <1>0, <1>3, <1>4, <2>1, <2>2
<1>7. ASSUME NEW p \in Offers, OpensCheckout(p) PROVE ShopInv'
  <2>1. Fresh(shopper') /\ ShopDataUnchanged
    BY <1>5, <1>7 DEF OpensCheckout
  <2>2. shopCalls' = PageLeft \/ AskShop(PageLeft, "course", p, 0)
    BY <1>7 DEF OpensCheckout
  <2>. QED
    BY <1>3, <1>4, <2>1, <2>2
<1>8. ASSUME NEW p \in Offers, SelectsProduct(p) PROVE ShopInv'
  <2>1. Same(shopper') /\ ShopDataUnchanged
    BY <1>8 DEF SelectsProduct, Same, Shopper
  <2>2. shopCalls' = UnheardOf({"course"}) \/ AskShop(UnheardOf({"course"}), "course", p, 0)
    BY <1>8 DEF SelectsProduct
  <2>. QED
    BY <1>3, <1>4, <2>1, <2>2
<1>9. CASE RetriesCatalog
  <2>1. Same(shopper') /\ ShopDataUnchanged /\ AskShop(UnheardOf({"offers"}), "offers", BundleOffer, 0)
    BY <1>9 DEF RetriesCatalog, Same, Shopper
  <2>. QED
    BY <1>0, <1>3, <1>4, <2>1
<1>10. CASE LearnsSignIn \/ FillsForm \/ SubmitsCheckout
  <2>1. Same(shopper')
    <3>1. CASE LearnsSignIn
      BY <3>1 DEF LearnsSignIn, Same, Shopper
    <3>2. CASE FillsForm
      BY <3>2 DEF FillsForm, Same, Shopper
    <3>3. CASE SubmitsCheckout
      BY <3>3 DEF SubmitsCheckout, Same, Shopper
    <3>. QED
      BY <1>10, <3>1, <3>2, <3>3
  <2>2. /\ ShopDataUnchanged
        /\ \/ shopCalls' = shopCalls
           \/ AskShop(shopCalls, "owned", BundleOffer, 0)
           \/ AskShop(shopCalls, "session", shopper.product, 0)
    BY <1>10 DEF LearnsSignIn, FillsForm, SubmitsCheckout
  <2>3. shopper.product \in Offers
    BY DEF Shopper
  <2>4. ASSUME NEW rest, rest = shopCalls, NEW kind \in {"offers", "course", "owned", "session", "list"},
               NEW p \in Offers, AskShop(rest, kind, p, 0) \/ shopCalls' = rest
        PROVE  ShopInv'
    <3>1. Fainter(rest)
      BY <1>4, <2>4
    <3>2. ShopDataUnchanged
      BY <2>2
    <3>. QED
      BY <1>3, <2>1, <2>4, <3>1, <3>2
  <2>5. CASE shopCalls' = shopCalls
    BY <1>0, <2>4, <2>5
  <2>6. CASE AskShop(shopCalls, "owned", BundleOffer, 0)
    BY <1>0, <2>4, <2>6
  <2>7. CASE AskShop(shopCalls, "session", shopper.product, 0)
    BY <2>3, <2>4, <2>7
  <2>. QED
    BY <2>2, <2>5, <2>6, <2>7
\* An answer that leaves the rows alone, ends or is put into its request.
<1>11. ASSUME NEW i \in Slot, NEW call \in ShopCall, shopCalls' = [shopCalls EXCEPT ![i] = call],
              \/ call = NoShopCall
              \/ /\ call.kind = shopCalls[i].kind /\ call.order = shopCalls[i].order
                 /\ call.product = shopCalls[i].product /\ call.heard = shopCalls[i].heard
                 /\ call.rows \subseteq everPaid
                 /\ call.kind = "status" /\ call.step = "answered" /\ call.status = "paid" =>
                      call.order \in everPaid
       PROVE  /\ shopCalls' \in [Slot -> ShopCall]
              /\ orders' = orders /\ everPaid' = everPaid /\ shopper'.tracked = shopper.tracked =>
                   AnswersAreTrue'
  <2>1. ASSUME orders' = orders, everPaid' = everPaid, shopper'.tracked = shopper.tracked
        PROVE  AnswersAreTrue'
    <3>1. ASSUME NEW j \in Slot PROVE shopCalls'[j] = IF j = i THEN call ELSE shopCalls[j]
      BY <1>11
    <3>2. DOMAIN shopCalls' = Slot
      BY <1>11
    <3>3. ASSUME NEW j \in Slot, j # i PROVE
            /\ shopCalls[j].kind = "session" => Bought(shopCalls[j].order, shopCalls[j].product)
            /\ shopCalls[j].rows \subseteq everPaid
            /\ shopCalls[j].kind = "status" =>
                 /\ shopCalls[j].order # 0
                 /\ shopCalls[j].step = "answered" /\ shopCalls[j].status = "paid" =>
                      shopCalls[j].order \in everPaid
                 /\ shopCalls[j].heard => shopCalls[j].order = shopper.tracked.order
      BY <1>0 DEF AnswersAreTrue
    <3>4. /\ call.kind = "session" => Bought(call.order, call.product)
          /\ call.rows \subseteq everPaid
          /\ call.kind = "status" =>
               /\ call.order # 0
               /\ call.step = "answered" /\ call.status = "paid" => call.order \in everPaid
               /\ call.heard => call.order = shopper.tracked.order
      <4>1. CASE call = NoShopCall
        BY <1>0, <4>1
      <4>2. CASE call # NoShopCall
        BY <1>0, <1>11, <4>2 DEF AnswersAreTrue
      <4>. QED
        BY <4>1, <4>2
    <3>. QED
      BY <2>1, <3>1, <3>2, <3>3, <3>4 DEF AnswersAreTrue, Bought
  <2>. QED
    BY <1>11, <2>1
<1>12. ASSUME shopCalls' \in [Slot -> ShopCall], AnswersAreTrue', Same(shopper'), ShopDataUnchanged
       PROVE  ShopInv'
  BY <1>2, <1>12 DEF ShopDataUnchanged, Same, PurchasesAreKept, PaidAsShown, Bought, Orders
<1>13. ASSUME NEW i \in Slot, SessionFails(i) \/ ShowsOffer(i) \/ ReadFails(i) PROVE ShopInv'
  <2>1. shopCalls' = [shopCalls EXCEPT ![i] = NoShopCall] /\ ShopDataUnchanged
    BY <1>13 DEF SessionFails, ShowsOffer, ReadFails
  <2>2. Same(shopper')
    <3>1. shopper' \in {shopper, [shopper EXCEPT !.submitting = FALSE], [shopper EXCEPT !.view = "ready"],
                         [shopper EXCEPT !.view = "error"]}
      BY <1>13 DEF SessionFails, ShowsOffer, ReadFails
    <3>2. Same(shopper) /\ Same([shopper EXCEPT !.submitting = FALSE])
      BY DEF Same, Shopper
    <3>3. Same([shopper EXCEPT !.view = "ready"]) /\ Same([shopper EXCEPT !.view = "error"])
      BY DEF Same, Shopper
    <3>. QED
      BY <3>1, <3>2, <3>3
  <2>. QED
    BY <1>0, <1>11, <1>12, <2>1, <2>2 DEF ShopDataUnchanged, Same
<1>14. ASSUME NEW i \in Slot, ReadsOrders(i) PROVE ShopInv'
  <2>. DEFINE n == shopCalls[i].order
              told == [shopCalls[i] EXCEPT !.step = "answered", !.status = orders[n].status]
              read == [shopCalls[i] EXCEPT !.step = "answered", !.rows = PaidRows]
  <2>1. PaidRows \in SUBSET Orders /\ PaidRows \subseteq everPaid
    BY DEF PaidRows, With, PurchasesAreKept
  <2>2. CASE n # 0
    <3>1. n \in Orders /\ orders[n].status \in OrderStatus
      BY <2>2 DEF ShopCall, Orders
    <3>2. /\ told \in ShopCall /\ told.kind = shopCalls[i].kind /\ told.order = n
          /\ told.product = shopCalls[i].product /\ told.heard = shopCalls[i].heard
          /\ told.rows = shopCalls[i].rows /\ told.status = orders[n].status
      BY <3>1 DEF ShopCall
    <3>3. shopCalls' = [shopCalls EXCEPT ![i] = told] /\ shopper' = shopper /\ ShopDataUnchanged
      BY <1>14, <2>2 DEF ReadsOrders
    <3>4. told.rows \subseteq everPaid /\ (told.status = "paid" => told.order \in everPaid)
      BY <1>0, <3>1, <3>2 DEF AnswersAreTrue, PurchasesAreKept
    <3>. HIDE DEF told, n
    <3>. QED
      BY <1>11, <1>12, <3>2, <3>3, <3>4 DEF ShopDataUnchanged, Same, n
  <2>3. CASE n = 0
    <3>1. /\ read \in ShopCall /\ read.kind = shopCalls[i].kind /\ read.order = n
          /\ read.product = shopCalls[i].product /\ read.heard = shopCalls[i].heard
          /\ read.rows = PaidRows
      BY <2>1 DEF ShopCall
    <3>2. shopCalls' = [shopCalls EXCEPT ![i] = read] /\ shopper' = shopper /\ ShopDataUnchanged
      BY <1>14, <2>3 DEF ReadsOrders
    <3>3. shopCalls[i].kind # "status"
      BY <1>0, <2>3 DEF AnswersAreTrue
    <3>. HIDE DEF read
    <3>. QED
      BY <1>11, <1>12, <2>1, <3>1, <3>2, <3>3 DEF ShopDataUnchanged, Same
  <2>. QED
    BY <2>2, <2>3
<1>15. ASSUME NEW i \in Slot, ShowsOrders(i) PROVE ShopInv'
  <2>1. shopCalls' = [shopCalls EXCEPT ![i] = NoShopCall] /\ ShopDataUnchanged
    BY <1>15 DEF ShowsOrders
  <2>2. shopCalls' \in [Slot -> ShopCall] /\ (shopper'.tracked = shopper.tracked => AnswersAreTrue')
    BY <1>0, <1>11, <2>1 DEF ShopDataUnchanged
  <2>. DEFINE rows == shopCalls[i].rows
  <2>3. rows \in SUBSET Orders /\ rows \subseteq everPaid
    BY <1>0 DEF AnswersAreTrue, ShopCall
  <2>4. shopper' \in {shopper, [shopper EXCEPT !.rows = rows, !.view = "ready"],
                       [shopper EXCEPT !.rows = rows]}
    BY <1>15 DEF ShowsOrders
  <2>. HIDE DEF rows
  <2>5. /\ shopper' \in Shopper /\ shopper'.tracked = shopper.tracked
        /\ shopper'.phase = shopper.phase /\ shopper'.rows \in {shopper.rows, rows}
    <3>1. CASE shopper' = shopper
      BY <3>1
    <3>2. CASE shopper' = [shopper EXCEPT !.rows = rows, !.view = "ready"]
      BY <2>3, <3>2 DEF Shopper
    <3>3. CASE shopper' = [shopper EXCEPT !.rows = rows]
      BY <2>3, <3>3 DEF Shopper
    <3>. QED
      BY <2>4, <3>1, <3>2, <3>3
  <2>6. /\ Bought(shopper'.tracked.order, shopper'.tracked.product)
        /\ shopper'.rows \subseteq everPaid
        /\ shopper'.phase = "enrolled" => shopper'.tracked.order \in everPaid /\ shopper'.tracked.order # 0
    <3>1. /\ Bought(shopper.tracked.order, shopper.tracked.product)
          /\ shopper.rows \subseteq everPaid
          /\ shopper.phase = "enrolled" => shopper.tracked.order \in everPaid
          /\ 0 \notin everPaid
      BY DEF PurchasesAreKept, PaidAsShown, Orders
    <3>. QED
      BY <2>3, <2>5, <3>1
  <2>. QED
    BY <1>2, <2>1, <2>2, <2>5, <2>6 DEF ShopDataUnchanged
<1>16. ASSUME NEW i \in Slot, ShowsWidget(i) PROVE ShopInv'
  <2>. DEFINE kept == [order |-> shopCalls[i].order, product |-> shopCalls[i].product]
  <2>1. /\ shopCalls' = [shopCalls EXCEPT ![i] = NoShopCall]
        /\ saved' = kept /\ orders' = orders /\ everPaid' = everPaid
    BY <1>16 DEF ShowsWidget, BoughtProduct
  <2>2. /\ kept \in Saved /\ kept.order = shopCalls[i].order /\ kept.product = shopCalls[i].product
        /\ shopCalls[i].order \in 0 .. MaxOrders
    BY DEF ShopCall, Saved
  <2>3. Same(shopper')
    <3>1. shopper' \in {shopper, [shopper EXCEPT !.submitting = FALSE, !.widget = shopCalls[i].order]}
      BY <1>16 DEF ShowsWidget
    <3>2. Same(shopper) /\ Same([shopper EXCEPT !.submitting = FALSE, !.widget = shopCalls[i].order])
      BY <2>2 DEF Same, Shopper
    <3>. QED
      BY <3>1, <3>2
  <2>4. shopCalls' \in [Slot -> ShopCall] /\ AnswersAreTrue'
    BY <1>0, <1>11, <2>1, <2>3 DEF Same
  <2>5. Bought(kept.order, kept.product)
    BY <1>0, <1>16, <2>2 DEF AnswersAreTrue, ShowsWidget
  <2>. HIDE DEF kept
  <2>6. PurchasesAreKept'
    BY <2>1, <2>3, <2>5 DEF PurchasesAreKept, Bought, Same
  <2>7. PaidAsShown'
    BY <2>1, <2>3 DEF PaidAsShown, Same
  <2>. QED
    BY <2>1, <2>2, <2>3, <2>4, <2>6, <2>7 DEF Same
<1>17. ASSUME NEW i \in Slot, ShowsStatus(i) PROVE ShopInv'
  <2>. DEFINE again == [shopCalls[i] EXCEPT !.step = "asked"]
  <2>1. /\ shopCalls[i].kind = "status" /\ shopCalls[i].step = "answered"
        /\ orders' = orders /\ everPaid' = everPaid /\ saved' \in {saved, NothingSaved}
        /\ \/ shopCalls' = [shopCalls EXCEPT ![i] = NoShopCall]
           \/ shopCalls' = [shopCalls EXCEPT ![i] = again]
    BY <1>17 DEF ShowsStatus
  <2>2. /\ again \in ShopCall /\ again.kind = shopCalls[i].kind /\ again.order = shopCalls[i].order
        /\ again.product = shopCalls[i].product /\ again.heard = shopCalls[i].heard
        /\ again.rows = shopCalls[i].rows /\ again.step = "asked"
    BY DEF ShopCall
  <2>3. /\ shopper' \in Shopper /\ shopper'.tracked = shopper.tracked /\ shopper'.rows = shopper.rows
        /\ shopper'.phase = "enrolled" =>
             shopper.phase = "enrolled" \/ (shopCalls[i].heard /\ shopCalls[i].status = "paid")
    <3>1. \/ shopper' = shopper
          \/ shopper' = [shopper EXCEPT !.phase = "enrolled"] /\ shopCalls[i].heard /\ shopCalls[i].status = "paid"
          \/ shopper' = [shopper EXCEPT !.phase = "failed"]
      BY <1>17 DEF ShowsStatus, Confirms
    <3>2. CASE shopper' = shopper
      BY <3>2
    <3>3. CASE shopper' = [shopper EXCEPT !.phase = "enrolled"] /\ shopCalls[i].heard /\ shopCalls[i].status = "paid"
      BY <3>3 DEF Shopper
    <3>4. CASE shopper' = [shopper EXCEPT !.phase = "failed"]
      BY <3>4 DEF Shopper
    <3>. QED
      BY <3>1, <3>2, <3>3, <3>4
  <2>4. /\ shopCalls[i].rows \subseteq everPaid /\ shopCalls[i].order # 0
        /\ shopCalls[i].heard /\ shopCalls[i].status = "paid" =>
             shopper.tracked.order \in everPaid /\ shopper.tracked.order # 0
    BY <1>0, <2>1 DEF AnswersAreTrue
  <2>5. shopCalls' \in [Slot -> ShopCall] /\ AnswersAreTrue'
    <3>. HIDE DEF again
    <3>1. CASE shopCalls' = [shopCalls EXCEPT ![i] = NoShopCall]
      BY <1>0, <1>11, <2>1, <2>3, <3>1
    <3>2. CASE shopCalls' = [shopCalls EXCEPT ![i] = again]
      BY <1>0, <1>11, <2>1, <2>2, <2>3, <2>4, <3>2
    <3>. QED
      BY <2>1, <3>1, <3>2
  <2>6. PurchasesAreKept'
    BY <1>0, <2>1, <2>3 DEF PurchasesAreKept, Bought
  <2>7. PaidAsShown'
    BY <2>1, <2>3, <2>4 DEF PaidAsShown, PurchasesAreKept, Bought
  <2>. QED
    BY <1>0, <2>1, <2>3, <2>5, <2>6, <2>7
<1>18. CASE OpensResult
  <2>. DEFINE asked == [NoShopCall EXCEPT !.kind = "status", !.order = saved.order, !.heard = TRUE]
              page == [NoShopper EXCEPT !.at = "result", !.tracked = saved]
  <2>0. saved.order \in 0 .. MaxOrders
    BY DEF Saved
  <2>1. /\ asked \in ShopCall /\ asked.kind = "status" /\ asked.order = saved.order
        /\ asked.rows = {} /\ asked.step = "asked"
    <3>1. asked \in ShopCall
      BY <1>0, <2>0 DEF ShopCall
    <3>. QED
      BY <3>1, <1>0 DEF NoShopCall
  <2>2. /\ page \in Shopper /\ page.tracked = saved /\ page.rows = {} /\ page.phase = "confirming"
    <3>1. page \in Shopper
      BY <1>0 DEF Shopper
    <3>. QED
      BY <3>1, <1>0 DEF NoShopper
  <2>3. /\ shopper' = page /\ orders' = orders /\ everPaid' = everPaid /\ saved' = saved
        /\ shopCalls' = [i \in Slot |-> IF i = 1 /\ saved.order # 0 THEN asked ELSE NoShopCall]
    BY <1>0, <1>18 DEF OpensResult, ShopDataUnchanged
  <2>. HIDE DEF asked, page
  <2>4. shopCalls' \in [Slot -> ShopCall]
    BY <1>0, <2>1, <2>3
  <2>5. AnswersAreTrue'
    <3>1. DOMAIN shopCalls' = Slot
      BY <2>3
    <3>2. ASSUME NEW i \in Slot PROVE
            shopCalls'[i] = NoShopCall \/ (shopCalls'[i] = asked /\ saved.order # 0)
      <4>1. shopCalls'[i] = IF i = 1 /\ saved.order # 0 THEN asked ELSE NoShopCall
        BY <2>3
      <4>. QED
        BY <4>1
    <3>. QED
      BY <1>0, <2>1, <2>2, <2>3, <3>1, <3>2 DEF AnswersAreTrue
  <2>6. PurchasesAreKept' /\ PaidAsShown'
    BY <2>2, <2>3 DEF PurchasesAreKept, PaidAsShown, Bought
  <2>. QED
    BY <2>2, <2>3, <2>4, <2>5, <2>6
\* A step that adds to the rows: no purchase ceases to be one, or changes product.
<1>19. ASSUME orders' \in [Orders -> Row], everPaid' \in SUBSET Orders, everPaid \subseteq everPaid',
              \A n \in Orders : orders[n].status # "none" =>
                orders'[n].status # "none" /\ orders'[n].product = orders[n].product
       PROVE  /\ \A n \in 0 .. MaxOrders : \A p : Bought(n, p) => (n # 0 => n \in Orders /\ orders'[n].status # "none" /\ orders'[n].product = p)
              /\ \A n \in everPaid : orders'[n].status # "none" /\ orders'[n].product = orders[n].product
  BY <1>19 DEF Bought, Orders, PurchasesAreKept
<1>20. ASSUME NEW i \in Slot, CreatesOrder(i) PROVE ShopInv'
  <2>1. PICK n \in Orders :
          /\ orders[n].status = "none"
          /\ orders' = [orders EXCEPT ![n] = [status |-> "pending", product |-> shopCalls[i].product]]
          /\ shopCalls' = [shopCalls EXCEPT ![i].step = "answered", ![i].order = n]
    BY <1>20 DEF CreatesOrder, With
  <2>. DEFINE row == [status |-> "pending", product |-> shopCalls[i].product]
              call == [shopCalls[i] EXCEPT !.step = "answered", !.order = n]
  <2>2. /\ shopCalls[i].kind = "session" /\ everPaid' = everPaid /\ saved' = saved
        /\ shopper' = shopper
    BY <1>20 DEF CreatesOrder
  <2>3. /\ row \in Row /\ row.status = "pending" /\ row.product = shopCalls[i].product
    BY DEF ShopCall, OrderStatus
  <2>4. /\ call \in ShopCall /\ call.kind = "session" /\ call.order = n
        /\ call.product = shopCalls[i].product /\ call.rows = shopCalls[i].rows
    BY <1>0, <2>2 DEF ShopCall
  <2>5. shopCalls' = [shopCalls EXCEPT ![i] = call] /\ orders' = [orders EXCEPT ![n] = row]
    BY <2>1
  <2>. HIDE DEF row, call
  <2>6. /\ orders' \in [Orders -> Row]
        /\ \A m \in Orders : orders'[m] = IF m = n THEN row ELSE orders[m]
        /\ shopCalls' \in [Slot -> ShopCall] /\ DOMAIN shopCalls' = Slot
        /\ \A j \in Slot : shopCalls'[j] = IF j = i THEN call ELSE shopCalls[j]
    BY <2>3, <2>4, <2>5
  <2>7. /\ \A m \in 0 .. MaxOrders : \A p : Bought(m, p) => (m # 0 => m \in Orders /\ orders'[m].status # "none" /\ orders'[m].product = p)
        /\ \A m \in everPaid : orders'[m].status # "none" /\ orders'[m].product = orders[m].product
    BY <1>19, <2>1, <2>2, <2>6
  <2>8. saved.order \in 0 .. MaxOrders /\ shopper.tracked.order \in 0 .. MaxOrders
    BY DEF Saved, Shopper
  <2>9. PurchasesAreKept'
    BY <2>2, <2>3, <2>6, <2>7, <2>8 DEF PurchasesAreKept, Bought
  <2>10. PaidAsShown'
    BY <2>2, <2>7 DEF PaidAsShown
  <2>11. AnswersAreTrue'
    <3>1. ASSUME NEW j \in Slot PROVE
            /\ shopCalls'[j].kind = "session" => Bought(shopCalls[j].order, shopCalls[j].product)'
            /\ shopCalls'[j].rows \subseteq everPaid'
            /\ shopCalls'[j].kind = "status" =>
                 /\ shopCalls'[j].order # 0
                 /\ shopCalls'[j].step = "answered" /\ shopCalls'[j].status = "paid" =>
                      shopCalls'[j].order \in everPaid'
                 /\ shopCalls'[j].heard => shopCalls'[j].order = shopper'.tracked.order
      <4>1. CASE j = i
        <5>1. shopCalls'[j] = call /\ orders'[n] = row
          BY <2>6, <4>1
        <5>2. shopCalls[i].rows \subseteq everPaid
          BY <1>0 DEF AnswersAreTrue
        <5>. QED
          BY <2>2, <2>3, <2>4, <5>1, <5>2 DEF Bought
      <4>2. CASE j # i
        <5>1. shopCalls[j].order \in 0 .. MaxOrders /\ shopCalls'[j] = shopCalls[j]
          BY <2>6, <4>2 DEF ShopCall
        <5>2. /\ shopCalls[j].kind = "session" => Bought(shopCalls[j].order, shopCalls[j].product)
              /\ shopCalls[j].rows \subseteq everPaid
              /\ shopCalls[j].kind = "status" =>
                   /\ shopCalls[j].order # 0
                   /\ shopCalls[j].step = "answered" /\ shopCalls[j].status = "paid" =>
                        shopCalls[j].order \in everPaid
                   /\ shopCalls[j].heard => shopCalls[j].order = shopper.tracked.order
          BY <1>0 DEF AnswersAreTrue
        <5>3. ASSUME shopCalls[j].kind = "session"
              PROVE  Bought(shopCalls[j].order, shopCalls[j].product)'
          <6>1. ASSUME shopCalls[j].order # 0
                PROVE  /\ orders'[shopCalls[j].order].status # "none"
                       /\ orders'[shopCalls[j].order].product = shopCalls[j].product
            BY <2>7, <5>1, <5>2, <5>3, <6>1
          <6>. QED
            BY <5>1, <6>1 DEF Bought
        <5>. QED
          BY <2>2, <5>1, <5>2, <5>3
      <4>. QED
        BY <4>1, <4>2
    <3>. QED
      BY <2>6, <3>1 DEF AnswersAreTrue
  <2>. QED
    BY <2>2, <2>6, <2>9, <2>10, <2>11
<1>21. ASSUME NEW n \in Orders, SettlesOrder(n) PROVE ShopInv'
  <2>1. PICK status \in {"revoked", "paid", "failed"} :
          /\ orders' = [orders EXCEPT ![n].status = status]
          /\ everPaid' = IF status = "paid" THEN everPaid \cup {n} ELSE everPaid
    BY <1>21 DEF SettlesOrder
  <2>2. saved' = saved /\ shopCalls' = shopCalls /\ shopper' = shopper
        /\ orders[n].status # "none"
    BY <1>21 DEF SettlesOrder, With
  <2>3. /\ orders' \in [Orders -> Row] /\ everPaid' \in SUBSET Orders /\ everPaid \subseteq everPaid'
        /\ \A m \in Orders : /\ orders'[m].product = orders[m].product
                             /\ orders'[m].status = IF m = n THEN status ELSE orders[m].status
    BY <2>1 DEF OrderStatus
  <2>4. /\ \A m \in 0 .. MaxOrders : \A p : Bought(m, p) => (m # 0 => m \in Orders /\ orders'[m].status # "none" /\ orders'[m].product = p)
        /\ \A m \in everPaid : orders'[m].status # "none" /\ orders'[m].product = orders[m].product
    BY <1>19, <2>3
  <2>5. saved.order \in 0 .. MaxOrders /\ shopper.tracked.order \in 0 .. MaxOrders
    BY DEF Saved, Shopper
  <2>6. PurchasesAreKept'
    BY <2>1, <2>2, <2>3, <2>4, <2>5 DEF PurchasesAreKept, Bought
  <2>7. PaidAsShown'
    BY <2>2, <2>3, <2>4 DEF PaidAsShown
  <2>8. AnswersAreTrue'
    <3>1. ASSUME NEW j \in Slot, shopCalls[j].kind = "session"
          PROVE  Bought(shopCalls[j].order, shopCalls[j].product)'
      <4>1. /\ shopCalls[j].order \in 0 .. MaxOrders
            /\ Bought(shopCalls[j].order, shopCalls[j].product)
        BY <1>0, <3>1 DEF ShopCall, AnswersAreTrue
      <4>2. ASSUME shopCalls[j].order # 0
            PROVE  /\ orders'[shopCalls[j].order].status # "none"
                   /\ orders'[shopCalls[j].order].product = shopCalls[j].product
        BY <2>4, <4>1, <4>2
      <4>. QED
        BY <2>2, <4>2 DEF Bought
    <3>. QED
      BY <1>0, <2>2, <2>3, <3>1 DEF AnswersAreTrue
  <2>. QED
    BY <2>2, <2>3, <2>6, <2>7, <2>8
<1>22. CASE UNCHANGED shopVars
  BY <1>22 DEF shopVars, PurchasesAreKept, AnswersAreTrue, PaidAsShown, Bought
<1>. QED
  BY <1>0, <1>6, <1>7, <1>8, <1>9, <1>10, <1>13, <1>14, <1>15, <1>16, <1>17, <1>18, <1>20, <1>21, <1>22
  DEF ShopNext

\* The orders, the pages of the shop and their requests are always of the declared
\* types.
THEOREM ShopTypeCorrect == ShopSpec => []ShopTypeOK
<1>1. ShopInv => ShopTypeOK
  BY DEF ShopInv
<1>. QED
  BY ShopInitInv, ShopStep, <1>1, PTL DEF ShopSpec

\* The result page congratulates only on a purchase that was paid and leads to
\* its product, and what the pages call bought was paid, in every run of the shop.
THEOREM AlwaysPaidAsShown == ShopSpec => []PaidAsShown
<1>1. ShopInv => PaidAsShown
  BY DEF ShopInv
<1>. QED
  BY ShopInitInv, ShopStep, <1>1, PTL DEF ShopSpec

-----------------------------------------------------------------------------
(* The dashboard *)

\* A load during which the teacher closed nothing: a quiz that is to be passed
\* now was so when it was read, a lock that was not found is not there, and a
\* lock that was found is that of a quiz the load has read is to be passed.
ReadsAgree == loading.step = "course" /\ ~loading.closed =>
  /\ ~loading.quizzesRead => loading.locksRead = 0 /\ loading.locked = {}
  /\ loading.quizzesRead => Unpassed \subseteq loading.toPass
  /\ \A m \in 1 .. loading.locksRead : m \notin loading.locked => ~LockedModule(m)
  /\ \A m \in loading.locked : \E k \in 1 .. (m - 1) : k \in loading.toPass

\* A load that waits for the purchases has read nothing of the course.
OwnedIsFresh == loading.step = "owned" =>
  loading.locksRead = 0 /\ loading.locked = {} /\ ~loading.quizzesRead

DashboardInv == DashboardTypeOK /\ ReadsAgree /\ OwnedIsFresh /\ NeverStranded

LEMMA DashboardInitInv == DashboardInit => DashboardInv
<1>. SUFFICES ASSUME DashboardInit PROVE DashboardInv
  OBVIOUS
<1>. USE DashboardAssumption DEF DashboardInit
<1>1. NoLoad \in Load /\ NoLoad.step = "idle"
  BY DEF NoLoad, Load, Modules
<1>2. NoPage \in Page /\ NoPage.view = "away"
  BY DEF NoPage, Page, Targets, Blocked
<1>. QED
  BY <1>1, <1>2 DEF DashboardInv, DashboardTypeOK, ReadsAgree, OwnedIsFresh, NeverStranded, QuizStates

\* A set of numbers that is not empty has a least one.
LEMMA LeastNumber == ASSUME NEW S \in SUBSET Nat, S # {}
                     PROVE  \E n \in S : \A m \in S : n <= m
<1>. DEFINE Less == OpToRel(<, Nat)
<1>1. \A x, y \in Nat : <<x, y>> \in Less <=> x < y
  BY DEF OpToRel
<1>2. IsWellFoundedOn(Less, Nat)
  BY NatLessThanWellFounded
<1>. HIDE DEF Less
<1>3. PICK n \in S : \A m \in S : ~ (<<m, n>> \in Less)
  BY <1>2, WFMin
<1>4. ASSUME NEW m \in S PROVE n <= m
  <2>1. ~ (m < n)
    BY <1>1, <1>3
  <2>. QED
    BY <2>1
<1>. QED
  BY <1>4

\* The least of some modules is one of them.
LEMMA LeastModule == ASSUME NEW S \in SUBSET Modules, S # {}
                     PROVE  Min(S) \in S /\ \A m \in S : Min(S) <= m
<1>1. S \in SUBSET Nat
  BY DashboardAssumption DEF Modules
<1>2. PICK n \in S : \A m \in S : n <= m
  BY <1>1, LeastNumber
<1>. QED
  BY <1>2 DEF Min

\* When the reads agree, the lesson to do or the quiz to pass is in a module that
\* is not locked, and there is none only in a course without lessons.
LEMMA WayOn ==
  ASSUME DashboardInv, loading.step = "course", ~loading.closed, loading.quizzesRead,
         loading.locksRead = LastModule
  PROVE  /\ ContinueTarget.kind \in {"lesson", "quiz"} => ~LockedModule(ContinueTarget.module)
         /\ ContinueTarget.kind = "blocked" => LessonModules = {}
<1>. USE DashboardAssumption
<1>. DEFINE incomplete == LessonModules \ loading.completed
            lessons == incomplete \ loading.locked
            open == loading.toPass \ loading.locked
<1>0. /\ LessonModules \subseteq Modules /\ loading.toPass \subseteq Modules
      /\ loading.locked \subseteq Modules
  BY DEF Modules, DashboardInv, DashboardTypeOK, Load
<1>1. \A m \in Modules : m \notin loading.locked => ~LockedModule(m)
  BY DEF DashboardInv, ReadsAgree, Modules
<1>2. CASE lessons # {}
  <2>1. Min(lessons) \in lessons
    BY <1>0, <1>2, LeastModule
  <2>2. ContinueTarget = [kind |-> "lesson", module |-> Min(lessons)]
    BY <1>2 DEF ContinueTarget
  <2>. QED
    BY <1>0, <1>1, <2>1, <2>2
<1>3. CASE lessons = {} /\ incomplete = {}
  <2>1. CASE LessonModules # {}
    <3>1. ContinueTarget = [kind |-> "replay", module |-> Min(LessonModules)]
      BY <1>3, <2>1 DEF ContinueTarget
    <3>. QED
      BY <3>1
  <2>2. CASE LessonModules = {}
    <3>1. ContinueTarget = Blocked
      BY <1>3, <2>2 DEF ContinueTarget
    <3>. QED
      BY <2>2, <3>1 DEF Blocked
  <2>. QED
    BY <2>1, <2>2
<1>4. CASE lessons = {} /\ incomplete # {}
  <2>1. PICK m \in Modules : m \in loading.locked
    BY <1>0, <1>4
  <2>2. PICK k \in 1 .. (m - 1) : k \in loading.toPass
    BY <2>1 DEF DashboardInv, ReadsAgree
  <2>. DEFINE least == Min(loading.toPass)
  <2>3. least \in loading.toPass /\ \A j \in loading.toPass : least <= j
    BY <1>0, <2>2, LeastModule
  <2>. HIDE DEF least
  <2>4. least \notin loading.locked
    <3>1. ASSUME least \in loading.locked PROVE FALSE
      <4>1. PICK j \in 1 .. (least - 1) : j \in loading.toPass
        BY <3>1 DEF DashboardInv, ReadsAgree
      <4>2. least <= j /\ least \in Nat
        BY <1>0, <2>3, <4>1 DEF Modules
      <4>. QED
        BY <4>1, <4>2
    <3>. QED
      BY <3>1
  <2>5. open # {}
    BY <2>3, <2>4
  <2>6. Min(open) \in open
    BY <1>0, <2>5, LeastModule
  <2>7. ContinueTarget = [kind |-> "quiz", module |-> Min(open)]
    BY <1>4, <2>5 DEF ContinueTarget
  <2>. QED
    BY <1>0, <1>1, <2>6, <2>7
<1>. QED
  BY <1>2, <1>3, <1>4

\* What the load offers is a lesson, again the first one, a quiz or nothing.
LEMMA TargetType == ASSUME loading \in Load PROVE ContinueTarget \in Targets
<1>. USE DashboardAssumption
<1>. DEFINE incomplete == LessonModules \ loading.completed
            lessons == incomplete \ loading.locked
            open == loading.toPass \ loading.locked
<1>1. \A kind \in {"lesson", "replay", "quiz"}, m \in Modules :
        [kind |-> kind, module |-> m] \in Targets
  BY DEF Targets
<1>2. Blocked \in Targets
  BY DEF Targets, Blocked
<1>3. LessonModules \subseteq Modules /\ loading.toPass \subseteq Modules
  BY DEF Load, Modules
<1>4. /\ lessons # {} => Min(lessons) \in Modules
      /\ LessonModules # {} => Min(LessonModules) \in Modules
      /\ open # {} => Min(open) \in Modules
  BY <1>3, LeastModule
<1>. QED
  BY <1>1, <1>2, <1>4 DEF ContinueTarget

LEMMA DashboardStep == DashboardInv /\ [DashboardNext]_dashboardVars => DashboardInv'
<1>. SUFFICES ASSUME DashboardInv, [DashboardNext]_dashboardVars PROVE DashboardInv'
  OBVIOUS
<1>. USE DashboardAssumption
<1>0. /\ quizzes \in [Modules -> QuizStates] /\ completed \in SUBSET Modules
      /\ loading \in Load /\ dashboard \in Page
      /\ NoLoad \in Load /\ NoLoad.step = "idle"
      /\ NoPage \in Page /\ NoPage.view = "away" /\ Modules \subseteq Nat
  BY DEF DashboardInv, DashboardTypeOK, NoLoad, Load, Modules, NoPage, Page, Targets, Blocked
\* The course stays, or fewer quizzes are to be passed.
<1>1. ASSUME quizzes' \in [Modules -> QuizStates], completed' \in SUBSET Modules,
             Unpassed' \subseteq Unpassed,
             loading' = loading, dashboard' = dashboard
      PROVE  DashboardInv'
  <2>1. \A m : LockedModule(m)' => LockedModule(m)
    BY <1>1 DEF LockedModule
  <2>3. ReadsAgree'
    <3>1. loading.locksRead \in 0 .. LastModule
      BY <1>0 DEF Load
    <3>2. 1 .. loading.locksRead \subseteq Modules
      BY <3>1 DEF Modules
    <3>. QED
      BY <1>1, <2>1, <3>2 DEF ReadsAgree, DashboardInv
  <2>4. NeverStranded'
    BY <1>1, <2>1 DEF NeverStranded, DashboardInv
  <2>5. OwnedIsFresh'
    BY <1>1 DEF OwnedIsFresh, DashboardInv
  <2>. QED
    BY <1>0, <1>1, <2>3, <2>4, <2>5 DEF DashboardInv, DashboardTypeOK
\* The course stays, and the load ends or begins with nothing shown.
<1>2. ASSUME UNCHANGED <<quizzes, completed>>, loading' \in Load, loading'.step # "course",
             OwnedIsFresh', dashboard' \in Page, dashboard'.view # "ready"
      PROVE  DashboardInv'
  BY <1>0, <1>2 DEF DashboardInv, DashboardTypeOK, ReadsAgree, NeverStranded
<1>3. CASE \E m \in Modules : CompletesLesson(m) \/ UncompletesLesson(m)
  <2>1. PICK m \in Modules : CompletesLesson(m) \/ UncompletesLesson(m)
    BY <1>3
  <2>2. /\ completed' \in SUBSET Modules
        /\ quizzes' = quizzes /\ loading' = loading /\ dashboard' = dashboard
    BY <1>0, <2>1 DEF CompletesLesson, UncompletesLesson
  <2>3. Unpassed' = Unpassed
    BY <2>2 DEF Unpassed
  <2>. QED
    BY <1>0, <1>1, <2>2, <2>3
<1>4. ASSUME NEW m \in Modules, SubmitsQuiz(m) \/ LowersPassMark(m) PROVE DashboardInv'
  <2>1. PICK outcome \in {"failed", "passed"} : quizzes' = [quizzes EXCEPT ![m] = outcome]
    BY <1>4 DEF SubmitsQuiz, LowersPassMark
  <2>2. m \in Unpassed
    BY <1>4 DEF SubmitsQuiz, LowersPassMark, Unpassed
  <2>3. Unpassed' \subseteq Unpassed
    BY <1>0, <2>1, <2>2 DEF Unpassed
  <2>4. quizzes' \in [Modules -> QuizStates]
    BY <1>0, <2>1 DEF QuizStates
  <2>. QED
    BY <1>0, <1>1, <1>4, <2>3, <2>4 DEF SubmitsQuiz, LowersPassMark
<1>5. ASSUME NEW m \in Modules, PublishesQuiz(m) \/ RaisesPassMark(m) PROVE DashboardInv'
  <2>0. PICK state \in {"open", "failed"} : ClosesAfter(m, state)
    BY <1>5 DEF PublishesQuiz, RaisesPassMark
  <2>1. /\ quizzes' \in [Modules -> QuizStates] /\ completed' = completed
    BY <1>0, <2>0 DEF ClosesAfter, QuizStates
  <2>2. /\ loading' \in Load /\ dashboard' \in Page
        /\ loading'.step = loading.step /\ dashboard'.stale
        /\ loading.step = "course" => loading'.closed
        /\ loading'.quizzesRead = loading.quizzesRead /\ loading'.locked = loading.locked
        /\ loading'.locksRead = loading.locksRead
    BY <1>0, <2>0 DEF ClosesAfter, Load, Page
  <2>. QED
    BY <1>0, <2>1, <2>2 DEF DashboardInv, DashboardTypeOK, ReadsAgree, OwnedIsFresh, NeverStranded
<1>6. CASE OpensDashboard
  <2>. DEFINE begun == [NoLoad EXCEPT !.step = "owned"]
  <2>1. begun \in Load /\ begun.step = "owned"
    BY <1>0 DEF Load
  <2>2. OwnedIsFresh'
    BY <1>6 DEF OpensDashboard, OwnedIsFresh, NoLoad
  <2>. QED
    BY <1>0, <1>2, <1>6, <2>1, <2>2 DEF OpensDashboard, CourseUnchanged, Page
<1>7. CASE LeavesDashboard
  BY <1>0, <1>2, <1>7 DEF LeavesDashboard, CourseUnchanged, OwnedIsFresh
<1>8. CASE ReadsOwned
  <2>. DEFINE begun == [loading EXCEPT !.step = "course"]
  <2>1. UNCHANGED <<quizzes, completed>>
    BY <1>8 DEF ReadsOwned, CourseUnchanged
  <2>2. CASE loading' = NoLoad /\ \E view \in {"empty", "error"} : dashboard' = [dashboard EXCEPT !.view = view]
    BY <1>0, <1>2, <2>1, <2>2 DEF Page, OwnedIsFresh
  <2>3. CASE loading' = begun /\ UNCHANGED dashboard
    <3>1. /\ begun \in Load /\ begun.toPass = loading.toPass /\ begun.locksRead = loading.locksRead
          /\ begun.locked = loading.locked /\ begun.closed = loading.closed
          /\ begun.quizzesRead = loading.quizzesRead
      BY <1>0 DEF Load
    <3>2. loading.step = "owned"
      BY <1>8 DEF ReadsOwned
    <3>3. OwnedIsFresh
      BY DEF DashboardInv
    <3>. QED
      BY <1>0, <2>1, <2>3, <3>1, <3>2, <3>3
      DEF DashboardInv, DashboardTypeOK, ReadsAgree, NeverStranded, OwnedIsFresh, Unpassed,
          LockedModule
  <2>. QED
    BY <1>8, <2>2, <2>3 DEF ReadsOwned
<1>9. ASSUME ReadsProgressRows PROVE DashboardInv'
  <2>. DEFINE read == [loading EXCEPT !.progressRead = TRUE, !.completed = completed]
  <2>1. /\ read \in Load /\ read.toPass = loading.toPass /\ read.locksRead = loading.locksRead
        /\ read.locked = loading.locked /\ read.closed = loading.closed /\ read.step = loading.step
        /\ read.quizzesRead = loading.quizzesRead
    BY <1>0 DEF Load
  <2>2. loading' = read /\ dashboard' = dashboard /\ quizzes' = quizzes /\ completed' = completed
    BY <1>9 DEF ReadsProgressRows, CourseUnchanged
  <2>. HIDE DEF read
  <2>. QED
    BY <1>0, <2>1, <2>2
    DEF DashboardInv, DashboardTypeOK, ReadsAgree, NeverStranded, OwnedIsFresh, Unpassed, LockedModule
<1>10. ASSUME ReadsQuizzes PROVE DashboardInv'
  <2>. DEFINE read == [loading EXCEPT !.quizzesRead = TRUE, !.toPass = Unpassed]
  <2>1. /\ read \in Load /\ read.toPass = Unpassed /\ read.locksRead = loading.locksRead
        /\ read.locked = loading.locked /\ read.closed = loading.closed /\ read.step = loading.step
        /\ read.quizzesRead
    BY <1>0 DEF Load, Unpassed
  <2>2. loading' = read /\ dashboard' = dashboard /\ quizzes' = quizzes /\ completed' = completed
        /\ ~loading.quizzesRead /\ loading.step = "course"
    BY <1>10 DEF ReadsQuizzes, CourseUnchanged
  <2>. HIDE DEF read
  <2>3. ~loading.closed => loading.locksRead = 0 /\ loading.locked = {}
    BY <2>2 DEF DashboardInv, ReadsAgree
  <2>4. Unpassed' = Unpassed
    BY <2>2 DEF Unpassed
  <2>5. ReadsAgree'
    BY <1>0, <2>1, <2>2, <2>3, <2>4 DEF ReadsAgree
  <2>. QED
    BY <1>0, <2>1, <2>2, <2>4, <2>5
    DEF DashboardInv, DashboardTypeOK, NeverStranded, OwnedIsFresh, LockedModule
<1>11. ASSUME ReadsLock PROVE DashboardInv'
  <2>. DEFINE m == loading.locksRead + 1
              locked == IF LockedModule(m) THEN loading.locked \cup {m} ELSE loading.locked
              read == [loading EXCEPT !.locksRead = m, !.locked = locked]
  <2>1. /\ dashboard' = dashboard /\ quizzes' = quizzes /\ completed' = completed
        /\ loading.quizzesRead /\ loading.step = "course" /\ loading.locksRead < LastModule
    BY <1>11 DEF ReadsLock, CourseUnchanged, LocksAfterQuizzes
  <2>2. loading' = read
    BY <1>11 DEF ReadsLock
  <2>3. /\ m \in Modules /\ locked \in SUBSET Modules /\ loading.locksRead \in 0 .. LastModule
        /\ m \in 0 .. LastModule
    BY <1>0, <2>1 DEF Load, Modules
  <2>. HIDE DEF locked
  <2>4. /\ read \in Load /\ read.toPass = loading.toPass /\ read.locksRead = m
        /\ read.locked = locked /\ read.closed = loading.closed /\ read.step = loading.step
        /\ read.quizzesRead = loading.quizzesRead
    BY <1>0, <2>3 DEF Load
  <2>. HIDE DEF read
  <2>5. Unpassed' = Unpassed
    BY <2>1 DEF Unpassed
  <2>6. ASSUME ~loading.closed PROVE
          /\ \A k \in 1 .. m : k \notin locked => ~LockedModule(k)
          /\ \A k \in locked : \E j \in 1 .. (k - 1) : j \in loading.toPass
    <3>1. /\ Unpassed \subseteq loading.toPass
          /\ \A k \in 1 .. loading.locksRead : k \notin loading.locked => ~LockedModule(k)
          /\ \A k \in loading.locked : \E j \in 1 .. (k - 1) : j \in loading.toPass
      BY <2>1, <2>6 DEF DashboardInv, ReadsAgree
    <3>2. LockedModule(m) => \E j \in 1 .. (m - 1) : j \in loading.toPass
      BY <3>1 DEF LockedModule
    <3>3. ASSUME NEW k \in 1 .. m, k \notin locked PROVE ~LockedModule(k)
      <4>1. CASE k = m
        BY <3>3, <4>1 DEF locked
      <4>2. CASE k # m
        BY <2>3, <3>1, <3>3, <4>2 DEF locked
      <4>. QED
        BY <4>1, <4>2
    <3>4. ASSUME NEW k \in locked PROVE \E j \in 1 .. (k - 1) : j \in loading.toPass
      BY <3>1, <3>2, <3>4 DEF locked
    <3>. QED
      BY <3>3, <3>4
  <2>7. \A k : LockedModule(k)' = LockedModule(k)
    BY <2>5 DEF LockedModule
  <2>8. ReadsAgree'
    BY <1>0, <2>1, <2>2, <2>4, <2>5, <2>6, <2>7 DEF DashboardInv, ReadsAgree
  <2>9. OwnedIsFresh' /\ NeverStranded'
    BY <2>1, <2>2, <2>4, <2>7 DEF DashboardInv, OwnedIsFresh, NeverStranded
  <2>. QED
    BY <1>0, <2>1, <2>2, <2>4, <2>8, <2>9 DEF DashboardInv, DashboardTypeOK
<1>12. ASSUME ShowsDashboard PROVE DashboardInv'
  <2>1. /\ loading.step = "course" /\ loading.quizzesRead /\ loading.locksRead = LastModule
        /\ dashboard' = [view |-> "ready", target |-> ContinueTarget, stale |-> loading.closed]
        /\ loading' = NoLoad /\ quizzes' = quizzes /\ completed' = completed
    BY <1>12 DEF ShowsDashboard, CourseUnchanged
  <2>2. ContinueTarget \in Targets
    BY <1>0, TargetType
  <2>3. ~loading.closed =>
          /\ ContinueTarget.kind \in {"lesson", "quiz"} => ~LockedModule(ContinueTarget.module)
          /\ ContinueTarget.kind = "blocked" => LessonModules = {}
    BY <2>1, WayOn
  <2>4. dashboard' \in Page
    BY <1>0, <2>1, <2>2 DEF Page, Load
  <2>5. NeverStranded'
    BY <2>1, <2>3 DEF NeverStranded, LockedModule, Unpassed
  <2>. QED
    BY <1>0, <2>1, <2>4, <2>5 DEF DashboardInv, DashboardTypeOK, ReadsAgree, OwnedIsFresh
<1>13. CASE CourseFails
  BY <1>0, <1>2, <1>13 DEF CourseFails, CourseUnchanged, Page, OwnedIsFresh
<1>14. CASE UNCHANGED dashboardVars
  <2>1. Unpassed' = Unpassed
    BY <1>14 DEF dashboardVars, Unpassed
  <2>. QED
    BY <1>0, <1>1, <1>14, <2>1 DEF dashboardVars
<1>. QED
  BY <1>3, <1>4, <1>5, <1>6, <1>7, <1>8, <1>9, <1>10, <1>11, <1>12, <1>13, <1>14 DEF DashboardNext

\* What the dashboard's reads found and what it shows are always of the declared types.
THEOREM DashboardTypeCorrect == DashboardSpec => []DashboardTypeOK
<1>1. DashboardInv => DashboardTypeOK
  BY DEF DashboardInv
<1>. QED
  BY DashboardInitInv, DashboardStep, <1>1, PTL DEF DashboardSpec

\* The lesson or the quiz the dashboard leads to is never in a locked module, and
\* there is a way on where there are lessons, for any modules with lessons or not,
\* unless a quiz was published or a pass mark raised during or after its reads.
THEOREM DashboardNeverStranded == DashboardSpec => []NeverStranded
<1>1. DashboardInv => NeverStranded
  BY DEF DashboardInv
<1>. QED
  BY DashboardInitInv, DashboardStep, <1>1, PTL DEF DashboardSpec

-----------------------------------------------------------------------------
(* The application *)

\* A step of the application is a step of one area and leaves the others alone,
\* so that the application does in each area what that area's specification says.
LEMMA AreasAreKept ==
  /\ StudentInit => WatchInit /\ NotesInit /\ DashboardInit /\ ShopInit /\ MemberInit
  /\ [StudentNext]_studentVars =>
       /\ [WatchNext]_watchVars /\ [NotesNext]_noteVars
       /\ [DashboardNext]_dashboardVars /\ [ShopNext]_shopVars /\ [MemberNext]_memberVars
<1>1. StudentInit => WatchInit /\ NotesInit /\ DashboardInit /\ ShopInit /\ MemberInit
  BY DEF StudentInit
<1>2. ASSUME [StudentNext]_studentVars
      PROVE  /\ [WatchNext]_watchVars /\ [NotesNext]_noteVars
             /\ [DashboardNext]_dashboardVars /\ [ShopNext]_shopVars /\ [MemberNext]_memberVars
  BY <1>2 DEF StudentNext, studentVars
<1>. QED
  BY <1>1, <1>2

\* The application does what its lesson player, its notes, its dashboard, its shop
\* and its pages about the member do alone.
THEOREM ApplicationImplementsAreas ==
  StudentAppSpec => WatchSpec /\ NotesSpec /\ DashboardSpec /\ ShopSpec /\ MemberSpec
BY AreasAreKept, PTL
DEF StudentAppSpec, WatchSpec, NotesSpec, DashboardSpec, ShopSpec, MemberSpec

\* In every run of the application a completed lesson was earned, the player is
\* on the routed lesson, the dashboard leads on, a confirmed purchase was paid, a
\* verdict is that of the routed certificate, and a note never changes its lesson.
THEOREM ApplicationIsSafe ==
  StudentAppSpec =>
    [](CompletionIsEarned /\ VideoIsRouted /\ NeverStranded /\ PaidAsShown /\ VerifiedAsRouted)
    /\ NotesStayPut
BY ApplicationImplementsAreas, CompletionAlwaysEarned, VideoAlwaysRouted,
   DashboardNeverStranded, AlwaysPaidAsShown, AlwaysVerifiedAsRouted, NotesAlwaysStayPut, PTL

=============================================================================
