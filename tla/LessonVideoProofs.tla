-------------------------- MODULE LessonVideoProofs --------------------------
(***************************************************************************)
(* Proofs about LessonVideo, for any lessons, uploads, checks, webhooks    *)
(* and deletes.  Three inductive invariants, each resting on the one       *)
(* before: what uploads do to keys, what is known of a status on its way   *)
(* to a row, and which videos may be deleted.                              *)
(***************************************************************************)
EXTENDS LessonVideo, TLAPS

-----------------------------------------------------------------------------
(* Keys *)

\* A request under way names a lesson.
RequestsNameLessons ==
  /\ \A u \in Uploads : upload[u].pc # "idle" => upload[u].lesson \in Lessons
  /\ \A c \in Checks : check[c].pc # "idle" => check[c].lesson \in Lessons
  /\ \A h \in Hooks : hook[h].pc = "set" => hook[h].lesson \in Lessons
  /\ \A h \in Hooks : hook[h].pc # "idle" => hook[h].key \in Uploads

\* An attached video passed its commit, and a URL is handed out only after it.
AttachedWasCommitted ==
  /\ \A u \in attached : upload[u].pc \notin {"idle", "init"}
  /\ \A u \in Uploads : upload[u].pc \in {"answer", "ok"} => u \in attached

BelongsTo(key, l) == key = NoVideo \/ (key \in attached /\ upload[key].lesson = l)

\* A lesson names, and an upload expects, a video attached to that lesson.
KeysBelong ==
  /\ \A l \in Lessons : BelongsTo(lesson[l].key, l)
  /\ \A u \in Uploads : upload[u].pc # "idle" => BelongsTo(upload[u].expected, upload[u].lesson)

\* A key that was swapped out never comes back.
ReplacedIsGone ==
  \A u \in attached : upload[u].expected # lesson[upload[u].lesson].key

\* A message that comes back was not received too often.
QueuedCanBeReceived ==
  \A d \in Deletes : job[d].state = "queued" => job[d].receives < MaxReceives

KeyInv ==
  /\ VideoTypeOK
  /\ RequestsNameLessons
  /\ AttachedWasCommitted
  /\ KeysBelong
  /\ ReplacedIsGone
  /\ OneUploadWins
  /\ QueuedCanBeReceived

LEMMA InitKeyInv == Init => KeyInv
  BY VideoAssumption
  DEF Init, KeyInv, VideoTypeOK, RequestsNameLessons, AttachedWasCommitted, KeysBelong,
      BelongsTo, ReplacedIsGone, OneUploadWins, Keys, Row, NoUpload, NoCheck, NoHook,
      NoDelete, NoJob, QueuedCanBeReceived,
      UploadState, CheckState, HookState, DeleteState, JobState

LEMMA StepTypeOK == KeyInv /\ [Next]_vars => VideoTypeOK'
<1>. SUFFICES ASSUME KeyInv, [Next]_vars PROVE VideoTypeOK'
  OBVIOUS
<1>. USE VideoAssumption DEF KeyInv, VideoTypeOK, Catalog, Provider, Requests, Cleanup
<1>1. ASSUME NEW u \in Uploads, UploadStep(u) PROVE VideoTypeOK'
  <2>1. ASSUME NEW l \in Lessons, PrepareUpload(u, l) PROVE VideoTypeOK'
    BY <2>1 DEF PrepareUpload, UploadState, Keys, Row
  <2>2. CASE InitUpload(u)
    BY <2>2 DEF InitUpload, UploadAt, UploadState
  <2>3. CASE CommitPending(u)
    BY <2>3 DEF CommitPending, Attach, UploadAt, KeyMatches, RequestsNameLessons, UploadState, Keys, Row
  <2>4. CASE CommitConflicts(u)
    BY <2>4 DEF CommitConflicts, UploadAt, UploadState
  <2>5. CASE RepeatCommit(u)
    BY <2>5 DEF RepeatCommit, UploadAt, UploadState
  <2>6. CASE AnswerUpload(u)
    BY <2>6 DEF AnswerUpload, UploadAt, UploadState
  <2>7. CASE Discard(u)
    BY <2>7 DEF Discard, UploadAt, UploadState
  <2>8. CASE LoseUpload(u)
    BY <2>8 DEF LoseUpload, UploadAt, UploadState
  <2>9. ASSUME NEW outcome \in {"done", "failed"}, Transcode(u, outcome) PROVE VideoTypeOK'
    BY <2>9 DEF Transcode
  <2>. QED
    BY <1>1, <2>1, <2>2, <2>3, <2>4, <2>5, <2>6, <2>7, <2>8, <2>9 DEF UploadStep
<1>2. ASSUME NEW c \in Checks, MarkReadyStep(c) PROVE VideoTypeOK'
  <2>1. ASSUME NEW l \in Lessons, PrepareMarkReady(c, l) PROVE VideoTypeOK'
    BY <2>1 DEF PrepareMarkReady, CheckState, Row, Keys
  <2>2. CASE FetchMetadata(c)
    BY <2>2 DEF FetchMetadata, CheckState
  <2>3. CASE ApplyMarkReady(c)
    BY <2>3 DEF ApplyMarkReady, CheckState
  <2>4. CASE MarkReady(c)
    BY <2>4 DEF MarkReady, SetStatus, NoCheck, RequestsNameLessons, CheckState, Row, Keys
  <2>5. CASE RefuseMarkReady(c)
    BY <2>5 DEF RefuseMarkReady, NoCheck, CheckState, Keys
  <2>. QED
    BY <1>2, <2>1, <2>2, <2>3, <2>4, <2>5 DEF MarkReadyStep
<1>3. ASSUME NEW h \in Hooks, HookStep(h) PROVE VideoTypeOK'
  <2>1. ASSUME NEW u \in Uploads, NEW status \in {"ready", "failed"}, ReceiveHook(h, u, status)
        PROVE  VideoTypeOK'
    BY <2>1 DEF ReceiveHook, HookState, Keys
  <2>2. CASE VerifyHook(h)
    BY <2>2 DEF VerifyHook, HookState
  <2>3. ASSUME NEW l \in Lessons, FindLesson(h, l) PROVE VideoTypeOK'
    BY <2>3 DEF FindLesson, HookState
  <2>4. CASE ApplyHook(h)
    BY <2>4 DEF ApplyHook, SetStatus, NoHook, RequestsNameLessons, HookState, Row, Keys
  <2>5. CASE IgnoreHook(h)
    BY <2>5 DEF IgnoreHook, NoHook, HookState, Keys
  <2>. QED
    BY <1>3, <2>1, <2>2, <2>3, <2>4, <2>5 DEF HookStep
<1>4. CASE StartPublish \/ SetPublished
  BY <1>4 DEF StartPublish, SetPublished
<1>5. ASSUME NEW d \in Deletes, DeleteStep(d) PROVE VideoTypeOK'
  <2>1. ASSUME NEW ls \in SUBSET Lessons, NEW whole \in BOOLEAN, StartDelete(d, ls, whole)
        PROVE  VideoTypeOK'
    <3>1. KeysOf(ls) \in SUBSET Uploads
      BY DEF KeysOf, Present, Row, Keys
    <3>. QED
      BY <2>1, <3>1 DEF StartDelete, LoadKeys, DeleteState
  <2>2. CASE DeleteRows(d)
    <3>1. lesson' \in [Lessons -> Row]
      BY <2>2 DEF DeleteRows, Row
    <3>2. del' \in [Deletes -> DeleteState]
      BY <2>2 DEF DeleteRows, DeleteState
    <3>. QED
      BY <2>2, <3>1, <3>2 DEF DeleteRows
  <2>3. CASE SendJob(d)
    BY <2>3 DEF SendJob, Queued, DeleteState, JobState
  <2>4. CASE LoseDelete(d)
    BY <2>4 DEF LoseDelete, DeleteState
  <2>. QED
    BY <1>5, <2>1, <2>2, <2>3, <2>4 DEF DeleteStep
<1>6. ASSUME NEW d \in Deletes, WorkerStep(d) PROVE VideoTypeOK'
  <2>1. CASE ReceiveJob(d)
    BY <2>1 DEF ReceiveJob, JobState, QueuedCanBeReceived, DeleteState
  <2>2. ASSUME NEW u \in Uploads, DeleteVideo(d, u) PROVE VideoTypeOK'
    BY <2>2 DEF DeleteVideo, JobState
  <2>3. CASE FinishJob(d)
    BY <2>3 DEF FinishJob, JobState
  <2>4. CASE FailJob(d)
    BY <2>4 DEF FailJob, JobState
  <2>. QED
    BY <1>6, <2>1, <2>2, <2>3, <2>4 DEF WorkerStep
<1>7. CASE UNCHANGED vars
  BY <1>7 DEF vars
<1>. QED
  BY <1>1, <1>2, <1>3, <1>4, <1>5, <1>6, <1>7 DEF Next

\* Steps that move no key and no upload.
LEMMA KeysUnmoved ==
  ASSUME KeyInv, VideoTypeOK', RequestsNameLessons', QueuedCanBeReceived',
         \A l \in Lessons : lesson'[l].key = lesson[l].key,
         attached' = attached, upload' = upload
  PROVE  KeyInv'
<1>1. AttachedWasCommitted' /\ OneUploadWins'
  BY DEF KeyInv, AttachedWasCommitted, OneUploadWins
<1>2. KeysBelong'
  BY DEF KeyInv, KeysBelong, BelongsTo
<1>3. ReplacedIsGone'
  BY DEF KeyInv, ReplacedIsGone, RequestsNameLessons, AttachedWasCommitted, VideoTypeOK
<1>. QED
  BY <1>1, <1>2, <1>3 DEF KeyInv

\* Steps of an upload between its calls.
LEMMA UploadMoves ==
  ASSUME KeyInv, VideoTypeOK', RequestsNameLessons', QueuedCanBeReceived',
         lesson' = lesson, attached' = attached, NEW u \in Uploads, NEW pc, UploadAt(u, pc),
         upload[u].pc \notin {"idle"}, pc \notin {"idle", "init"},
         pc \in {"answer", "ok"} => u \in attached
  PROVE  KeyInv'
<1>1. \A w \in Uploads : /\ upload'[w].lesson = upload[w].lesson
                         /\ upload'[w].expected = upload[w].expected
                         /\ upload'[w].pc = IF w = u THEN pc ELSE upload[w].pc
  BY DEF UploadAt, KeyInv, VideoTypeOK, UploadState
<1>2. attached \subseteq Uploads
  BY DEF KeyInv, VideoTypeOK
<1>3. AttachedWasCommitted' /\ OneUploadWins'
  BY <1>1, <1>2 DEF KeyInv, AttachedWasCommitted, OneUploadWins
<1>4. KeysBelong'
  BY <1>1, <1>2 DEF KeyInv, KeysBelong, BelongsTo
<1>5. ReplacedIsGone'
  BY <1>1, <1>2 DEF KeyInv, ReplacedIsGone
<1>. QED
  BY <1>3, <1>4, <1>5 DEF KeyInv

LEMMA PrepareKeepsKeys ==
  ASSUME KeyInv, VideoTypeOK', NEW u \in Uploads, NEW l \in Lessons, PrepareUpload(u, l)
  PROVE  KeyInv'
<1>1. u \notin attached
  BY DEF KeyInv, AttachedWasCommitted, PrepareUpload
<1>2. /\ upload'[u] = [pc |-> "init", lesson |-> l, expected |-> lesson[l].key]
      /\ \A w \in Uploads \ {u} : upload'[w] = upload[w]
      /\ UNCHANGED <<lesson, attached, check, hook, job>>
  BY DEF PrepareUpload, KeyInv, VideoTypeOK, Catalog, Cleanup
<1>3. attached \subseteq Uploads
  BY DEF KeyInv, VideoTypeOK
<1>4. RequestsNameLessons' /\ QueuedCanBeReceived'
  BY <1>2 DEF KeyInv, RequestsNameLessons, QueuedCanBeReceived
<1>5. AttachedWasCommitted' /\ OneUploadWins' /\ ReplacedIsGone'
  BY <1>1, <1>2, <1>3 DEF KeyInv, AttachedWasCommitted, OneUploadWins, ReplacedIsGone
<1>6. KeysBelong'
  BY <1>1, <1>2, <1>3 DEF KeyInv, KeysBelong, BelongsTo
<1>. QED
  BY <1>4, <1>5, <1>6 DEF KeyInv

\* The commit: the key it replaces was attached to the lesson and not replaced
\* before, and the new one was never attached, since its own expectation holds.
LEMMA CommitKeepsKeys ==
  ASSUME KeyInv, VideoTypeOK', NEW u \in Uploads, CommitPending(u)
  PROVE  KeyInv'
<1>. DEFINE L == upload[u].lesson
<1>1. /\ L \in Lessons
      /\ lesson[L].key = upload[u].expected
  BY DEF CommitPending, Attach, KeyMatches, KeyInv, RequestsNameLessons
<1>2. u \notin attached
  BY <1>1 DEF KeyInv, ReplacedIsGone
<1>3. /\ \A w \in Uploads : /\ upload'[w].lesson = upload[w].lesson
                            /\ upload'[w].expected = upload[w].expected
                            /\ upload'[w].pc = IF w = u THEN "answer" ELSE upload[w].pc
      /\ \A l \in Lessons : lesson'[l].key = IF l = L THEN u ELSE lesson[l].key
      /\ attached' = attached \cup {u}
      /\ UNCHANGED <<check, hook, job>>
  BY <1>1 DEF CommitPending, Attach, UploadAt, KeyInv, VideoTypeOK, UploadState, Row, Cleanup
<1>4. attached \subseteq Uploads /\ upload[u].pc = "commit" /\ NoVideo \notin Uploads
  BY VideoAssumption DEF KeyInv, VideoTypeOK, CommitPending, Attach
<1>5. RequestsNameLessons' /\ QueuedCanBeReceived' /\ AttachedWasCommitted'
  BY <1>3, <1>4 DEF KeyInv, RequestsNameLessons, QueuedCanBeReceived, AttachedWasCommitted
<1>6. KeysBelong'
  BY <1>1, <1>3, <1>4 DEF KeyInv, KeysBelong, BelongsTo
<1>7. ReplacedIsGone'
  <2>. SUFFICES ASSUME NEW w \in attached', upload[w].lesson = L
                PROVE  upload[w].expected # u
    BY <1>1, <1>3, <1>4 DEF KeyInv, ReplacedIsGone, RequestsNameLessons, AttachedWasCommitted
  <2>1. upload[w].pc # "idle"
    BY <1>3, <1>4 DEF KeyInv, AttachedWasCommitted
  <2>. QED
    BY <1>2, <1>3, <1>4, <2>1 DEF KeyInv, KeysBelong, BelongsTo
<1>8. OneUploadWins'
  <2>1. \A w \in attached : upload[w].lesson = L => upload[w].expected # upload[u].expected
    BY <1>1 DEF KeyInv, ReplacedIsGone
  <2>. QED
    BY <1>3, <1>4, <2>1 DEF KeyInv, OneUploadWins
<1>. QED
  BY <1>5, <1>6, <1>7, <1>8 DEF KeyInv

LEMMA StepKeyInv == KeyInv /\ [Next]_vars => KeyInv'
<1>. SUFFICES ASSUME KeyInv, [Next]_vars PROVE KeyInv'
  OBVIOUS
<1>0. VideoTypeOK'
  BY StepTypeOK
<1>. DEFINE Unmoved == /\ \A l \in Lessons : lesson'[l].key = lesson[l].key
                       /\ UNCHANGED <<attached, upload>>
            Framed == RequestsNameLessons' /\ QueuedCanBeReceived'
<1>. USE DEF Catalog, Provider, Requests, Cleanup
<1>1. ASSUME NEW u \in Uploads, UploadStep(u) PROVE KeyInv'
  <2>1. ASSUME NEW l \in Lessons, PrepareUpload(u, l) PROVE KeyInv'
    BY <1>0, <2>1, PrepareKeepsKeys
  <2>2. CASE CommitPending(u)
    BY <1>0, <2>2, CommitKeepsKeys
  <2>3. ASSUME NEW pc, UploadAt(u, pc), pc \notin {"idle", "init"}, upload[u].pc # "idle",
               pc \in {"answer", "ok"} => u \in attached,
               UNCHANGED <<lesson, attached, check, hook, job>>
        PROVE  KeyInv'
    <3>1. Framed
      BY <2>3 DEF KeyInv, RequestsNameLessons, QueuedCanBeReceived, UploadAt, VideoTypeOK, UploadState
    <3>. QED
      BY <1>0, <2>3, <3>1, UploadMoves
  <2>4. CASE InitUpload(u)
    BY <2>3, <2>4 DEF InitUpload
  <2>5. CASE CommitConflicts(u)
    BY <2>3, <2>5 DEF CommitConflicts
  <2>6. CASE RepeatCommit(u)
    BY <2>3, <2>6 DEF RepeatCommit
  <2>7. CASE AnswerUpload(u)
    BY <2>3, <2>7 DEF AnswerUpload, KeyInv, AttachedWasCommitted
  <2>8. CASE Discard(u)
    BY <2>3, <2>8 DEF Discard
  <2>9. CASE LoseUpload(u)
    BY <2>3, <2>9 DEF LoseUpload
  <2>10. ASSUME NEW outcome \in {"done", "failed"}, Transcode(u, outcome) PROVE KeyInv'
    <3>1. Framed
      BY <2>10 DEF Transcode, KeyInv, RequestsNameLessons, QueuedCanBeReceived
    <3>. QED
      BY <1>0, <2>10, <3>1, KeysUnmoved DEF Transcode
  <2>. QED
    BY <1>1, <2>1, <2>2, <2>4, <2>5, <2>6, <2>7, <2>8, <2>9, <2>10 DEF UploadStep
<1>2. ASSUME NEW c \in Checks, MarkReadyStep(c) PROVE KeyInv'
  <2>1. UNCHANGED <<attached, upload, hook, job>>
    BY <1>2 DEF MarkReadyStep, PrepareMarkReady, FetchMetadata, ApplyMarkReady, MarkReady, RefuseMarkReady
  <2>2. \A l \in Lessons : lesson'[l].key = lesson[l].key
    BY <1>2 DEF MarkReadyStep, PrepareMarkReady, FetchMetadata, ApplyMarkReady, MarkReady, RefuseMarkReady,
                SetStatus, KeyInv, VideoTypeOK, Row
  <2>3. \A e \in Checks : check'[e].pc # "idle" => check'[e].lesson \in Lessons
    BY <1>2 DEF MarkReadyStep, PrepareMarkReady, FetchMetadata, ApplyMarkReady, MarkReady, RefuseMarkReady,
                NoCheck, KeyInv, VideoTypeOK, CheckState, RequestsNameLessons
  <2>4. Framed
    BY <2>1, <2>3 DEF KeyInv, RequestsNameLessons, QueuedCanBeReceived
  <2>. QED
    BY <1>0, <2>1, <2>2, <2>4, KeysUnmoved
<1>3. ASSUME NEW h \in Hooks, HookStep(h) PROVE KeyInv'
  <2>1. UNCHANGED <<attached, upload, check, job>>
    BY <1>3 DEF HookStep, ReceiveHook, VerifyHook, FindLesson, ApplyHook, IgnoreHook
  <2>2. \A l \in Lessons : lesson'[l].key = lesson[l].key
    <3>1. CASE ApplyHook(h)
      BY <3>1 DEF ApplyHook, SetStatus, KeyInv, VideoTypeOK, Row
    <3>. QED
      BY <1>3, <3>1 DEF HookStep, ReceiveHook, VerifyHook, FindLesson, IgnoreHook
  <2>. DEFINE HooksNamed == \A g \in Hooks : /\ hook'[g].pc = "set" => hook'[g].lesson \in Lessons
                                             /\ hook'[g].pc # "idle" => hook'[g].key \in Uploads
  <2>3. HooksNamed
    <3>. USE DEF KeyInv, VideoTypeOK, HookState, RequestsNameLessons
    <3>1. ASSUME NEW u \in Uploads, NEW status \in {"ready", "failed"}, ReceiveHook(h, u, status)
          PROVE  HooksNamed
      BY <3>1 DEF ReceiveHook
    <3>2. CASE VerifyHook(h)
      BY <3>2 DEF VerifyHook
    <3>3. ASSUME NEW l \in Lessons, FindLesson(h, l) PROVE HooksNamed
      BY <3>3 DEF FindLesson
    <3>4. CASE ApplyHook(h) \/ IgnoreHook(h)
      BY <3>4 DEF ApplyHook, IgnoreHook, NoHook
    <3>. QED
      BY <1>3, <3>1, <3>2, <3>3, <3>4 DEF HookStep
  <2>4. Framed
    BY <2>1, <2>3 DEF KeyInv, RequestsNameLessons, QueuedCanBeReceived
  <2>. QED
    BY <1>0, <2>1, <2>2, <2>4, KeysUnmoved
<1>4. CASE StartPublish \/ SetPublished
  <2>1. UNCHANGED <<lesson, attached, upload, check, hook, job>>
    BY <1>4 DEF StartPublish, SetPublished
  <2>2. Framed
    BY <2>1 DEF KeyInv, RequestsNameLessons, QueuedCanBeReceived
  <2>. QED
    BY <1>0, <2>1, <2>2, KeysUnmoved
<1>5. ASSUME NEW d \in Deletes, DeleteStep(d) \/ WorkerStep(d) PROVE KeyInv'
  <2>1. UNCHANGED <<attached, upload, check, hook>>
    BY <1>5 DEF DeleteStep, StartDelete, LoadKeys, DeleteRows, SendJob, LoseDelete,
                WorkerStep, ReceiveJob, DeleteVideo, FinishJob, FailJob
  <2>2. \A l \in Lessons : lesson'[l].key = lesson[l].key
    BY <1>5 DEF DeleteStep, StartDelete, LoadKeys, DeleteRows, SendJob, LoseDelete,
                WorkerStep, ReceiveJob, DeleteVideo, FinishJob, FailJob, KeyInv, VideoTypeOK, Row
  <2>3. QueuedCanBeReceived'
    <3>1. CASE DeleteStep(d)
      BY <3>1, VideoAssumption DEF DeleteStep, StartDelete, LoadKeys, DeleteRows, SendJob, LoseDelete, Queued,
                  KeyInv, VideoTypeOK, QueuedCanBeReceived
    <3>2. CASE WorkerStep(d)
      BY <3>2, VideoAssumption DEF WorkerStep, ReceiveJob, DeleteVideo, FinishJob, FailJob,
                  KeyInv, VideoTypeOK, JobState, QueuedCanBeReceived
    <3>. QED
      BY <1>5, <3>1, <3>2
  <2>4. Framed
    BY <2>1, <2>3 DEF KeyInv, RequestsNameLessons
  <2>. QED
    BY <1>0, <2>1, <2>2, <2>4, KeysUnmoved
<1>6. CASE UNCHANGED vars
  <2>1. Framed
    BY <1>6 DEF vars, KeyInv, RequestsNameLessons, QueuedCanBeReceived
  <2>. QED
    BY <1>0, <1>6, <2>1, KeysUnmoved DEF vars
<1>. QED
  BY <1>1, <1>2, <1>3, <1>4, <1>5, <1>6 DEF Next

LEMMA AlwaysKeyInv == Spec => []KeyInv
  BY InitKeyInv, StepKeyInv, PTL DEF Spec

\* Every reachable state is of the declared types.
THEOREM VideoTypeCorrect == Spec => []VideoTypeOK
<1>. KeyInv => VideoTypeOK
  BY DEF KeyInv
<1>. QED
  BY AlwaysKeyInv, PTL

\* Of the uploads prepared against one key of a lesson one at most gets in.
THEOREM OneUploadAlwaysWins == Spec => []OneUploadWins
<1>. KeyInv => OneUploadWins
  BY DEF KeyInv
<1>. QED
  BY AlwaysKeyInv, PTL

-----------------------------------------------------------------------------
(* What is known of a status on its way to a row *)

Verdict(status) == IF status = "ready" THEN "done" ELSE "failed"

\* Only a file that was sent has an outcome.
OutcomeNeedsUrl == \A u \in Uploads : video[u] \in {"done", "failed"} => upload[u].pc = "ok"

Known(key, l) == key \in attached /\ upload[key].lesson = l

ChecksKnow ==
  \A c \in Checks :
    /\ check[c].pc # "idle" => Known(check[c].key, check[c].lesson)
    /\ Prod /\ check[c].pc \in {"apply", "set"} => video[check[c].key] = "done"

HooksKnow ==
  \A h \in Hooks :
    /\ hook[h].pc \in {"find", "set"} => video[hook[h].key] = Verdict(hook[h].status)
    /\ hook[h].pc = "set" => Known(hook[h].key, hook[h].lesson)

PublisherKnows ==
  Prod /\ publisher = "set" => \E u \in attached : video[u] = "done"

StatusInv ==
  /\ OutcomeNeedsUrl
  /\ ChecksKnow
  /\ HooksKnow
  /\ PublisherKnows
  /\ StatusIsVerified
  /\ PublishedHadVideo

LEMMA InitStatusInv == Init => StatusInv
  BY DEF Init, StatusInv, OutcomeNeedsUrl, ChecksKnow, HooksKnow, PublisherKnows, StatusIsVerified,
         PublishedHadVideo, NoUpload, NoCheck, NoHook

\* What was known stays true: nothing is detached from its lesson and no
\* outcome changes.
LEMMA KnowledgeStays ==
  ASSUME KeyInv, [Next]_vars
  PROVE  /\ \A u \in attached : u \in attached' /\ upload'[u].lesson = upload[u].lesson
         /\ \A u \in Uploads : video[u] \in {"done", "failed"} /\ upload[u].pc = "ok" =>
              video'[u] = video[u] /\ upload'[u].pc = "ok"
<1>. DEFINE Stays == /\ \A u \in attached : u \in attached' /\ upload'[u].lesson = upload[u].lesson
                     /\ \A u \in Uploads : video[u] \in {"done", "failed"} /\ upload[u].pc = "ok" =>
                          video'[u] = video[u] /\ upload'[u].pc = "ok"
<1>. USE DEF Catalog, Provider, Requests, Cleanup
<1>0. attached \subseteq Uploads
  BY DEF KeyInv, VideoTypeOK
<1>1. ASSUME NEW u \in Uploads, UploadStep(u) PROVE Stays
  <2>. USE <1>0 DEF KeyInv, VideoTypeOK, UploadState, UploadAt
  <2>1. ASSUME NEW l \in Lessons, PrepareUpload(u, l) PROVE Stays
    BY <2>1 DEF PrepareUpload, AttachedWasCommitted
  <2>2. CASE InitUpload(u)
    BY <2>2 DEF InitUpload
  <2>3. CASE CommitPending(u)
    BY <2>3 DEF CommitPending, Attach
  <2>4. CASE CommitConflicts(u) \/ RepeatCommit(u) \/ AnswerUpload(u)
    BY <2>4 DEF CommitConflicts, RepeatCommit, AnswerUpload
  <2>5. CASE Discard(u)
    BY <2>5 DEF Discard
  <2>6. CASE LoseUpload(u)
    BY <2>6 DEF LoseUpload
  <2>7. ASSUME NEW outcome \in {"done", "failed"}, Transcode(u, outcome) PROVE Stays
    BY <2>7 DEF Transcode
  <2>. QED
    BY <1>1, <2>1, <2>2, <2>3, <2>4, <2>5, <2>6, <2>7 DEF UploadStep
<1>2. ASSUME UNCHANGED <<attached, upload, video>> PROVE Stays
  BY <1>2
<1>3. ASSUME NEW c \in Checks, MarkReadyStep(c) PROVE Stays
  BY <1>2, <1>3 DEF MarkReadyStep, PrepareMarkReady, FetchMetadata, ApplyMarkReady, MarkReady, RefuseMarkReady
<1>4. ASSUME NEW h \in Hooks, HookStep(h) PROVE Stays
  BY <1>2, <1>4 DEF HookStep, ReceiveHook, VerifyHook, FindLesson, ApplyHook, IgnoreHook
<1>5. CASE StartPublish \/ SetPublished
  BY <1>2, <1>5 DEF StartPublish, SetPublished
<1>6. ASSUME NEW d \in Deletes, DeleteStep(d) \/ WorkerStep(d) PROVE Stays
  BY <1>2, <1>6 DEF DeleteStep, StartDelete, LoadKeys, DeleteRows, SendJob, LoseDelete,
                    WorkerStep, ReceiveJob, DeleteVideo, FinishJob, FailJob
<1>7. CASE UNCHANGED vars
  BY <1>2, <1>7 DEF vars
<1>. QED
  BY <1>1, <1>3, <1>4, <1>5, <1>6, <1>7 DEF Next

\* A step that makes nothing known and decides nothing.
LEMMA NothingDecided ==
  ASSUME KeyInv, StatusInv, [Next]_vars, OutcomeNeedsUrl',
         UNCHANGED <<check, hook, publisher>>,
         course' \in {course, "gone"},
         \A l \in Lessons : lesson'[l].status \in {lesson[l].status, "pending"}
  PROVE  StatusInv'
<1>1. ChecksKnow' /\ HooksKnow'
  BY KnowledgeStays, VideoAssumption
  DEF StatusInv, KeyInv, VideoTypeOK, CheckState, HookState, RequestsNameLessons,
      ChecksKnow, HooksKnow, Known, Verdict, OutcomeNeedsUrl
<1>2. PublisherKnows' /\ PublishedHadVideo'
  BY KnowledgeStays DEF StatusInv, KeyInv, VideoTypeOK, PublisherKnows, PublishedHadVideo, OutcomeNeedsUrl
<1>3. StatusIsVerified'
  BY KnowledgeStays DEF StatusInv, KeyInv, VideoTypeOK, StatusIsVerified, OutcomeNeedsUrl
<1>. QED
  BY <1>1, <1>2, <1>3 DEF StatusInv

LEMMA StepStatusInv == KeyInv /\ StatusInv /\ [Next]_vars => StatusInv'
<1>. SUFFICES ASSUME KeyInv, StatusInv, [Next]_vars PROVE StatusInv'
  OBVIOUS
<1>. USE DEF Catalog, Provider, Requests, Cleanup
<1>0. attached \subseteq Uploads
  BY DEF KeyInv, VideoTypeOK
<1>1. ASSUME NEW u \in Uploads, UploadStep(u) PROVE StatusInv'
  <2>1. OutcomeNeedsUrl'
    <3>. USE DEF KeyInv, VideoTypeOK, UploadState, UploadAt, StatusInv, OutcomeNeedsUrl
    <3>1. ASSUME NEW l \in Lessons, PrepareUpload(u, l) PROVE OutcomeNeedsUrl'
      BY <3>1 DEF PrepareUpload
    <3>2. CASE InitUpload(u)
      BY <3>2 DEF InitUpload
    <3>3. CASE CommitPending(u) \/ CommitConflicts(u) \/ RepeatCommit(u)
      BY <3>3 DEF CommitPending, Attach, CommitConflicts, RepeatCommit
    <3>4. CASE AnswerUpload(u) \/ Discard(u) \/ LoseUpload(u)
      BY <3>4 DEF AnswerUpload, Discard, LoseUpload
    <3>5. ASSUME NEW outcome \in {"done", "failed"}, Transcode(u, outcome) PROVE OutcomeNeedsUrl'
      BY <3>5 DEF Transcode
    <3>. QED
      BY <1>1, <3>1, <3>2, <3>3, <3>4, <3>5 DEF UploadStep
  <2>2. UNCHANGED <<course, publisher, check, hook>>
    BY <1>1 DEF UploadStep, PrepareUpload, InitUpload, CommitPending, Attach, CommitConflicts,
                RepeatCommit, AnswerUpload, Discard, LoseUpload, Transcode
  <2>3. \A l \in Lessons : lesson'[l].status \in {lesson[l].status, "pending"}
    <3>1. CASE CommitPending(u)
      BY <3>1 DEF CommitPending, Attach, KeyInv, VideoTypeOK, Row
    <3>. QED
      BY <1>1, <3>1 DEF UploadStep, PrepareUpload, InitUpload, CommitConflicts,
                RepeatCommit, AnswerUpload, Discard, LoseUpload, Transcode
  <2>. QED
    BY <2>1, <2>2, <2>3, NothingDecided
<1>2. ASSUME UNCHANGED <<upload, video, attached>> PROVE OutcomeNeedsUrl'
  BY <1>2 DEF StatusInv, OutcomeNeedsUrl
<1>3. ASSUME NEW c \in Checks, MarkReadyStep(c) PROVE StatusInv'
  <2>1. UNCHANGED <<course, publisher, video, attached, upload, hook>>
    BY <1>3 DEF MarkReadyStep, PrepareMarkReady, FetchMetadata, ApplyMarkReady, MarkReady, RefuseMarkReady
  <2>2. ChecksKnow'
    <3>. USE <2>1 DEF KeyInv, VideoTypeOK, CheckState, StatusInv, ChecksKnow, Known
    <3>1. ASSUME NEW l \in Lessons, PrepareMarkReady(c, l) PROVE ChecksKnow'
      BY <3>1 DEF PrepareMarkReady, KeysBelong, BelongsTo
    <3>2. CASE FetchMetadata(c)
      BY <3>2 DEF FetchMetadata, SaysDone
    <3>3. CASE ApplyMarkReady(c)
      BY <3>3 DEF ApplyMarkReady
    <3>4. CASE MarkReady(c) \/ RefuseMarkReady(c)
      BY <3>4 DEF MarkReady, RefuseMarkReady, NoCheck
    <3>. QED
      BY <1>3, <3>1, <3>2, <3>3, <3>4 DEF MarkReadyStep
  <2>3. StatusIsVerified'
    <3>1. CASE MarkReady(c)
      BY <2>1, <3>1 DEF MarkReady, SetStatus, KeyInv, VideoTypeOK, Row, StatusInv, StatusIsVerified,
                        ChecksKnow, Known
    <3>2. CASE UNCHANGED lesson
      BY <2>1, <3>2 DEF StatusInv, StatusIsVerified
    <3>. QED
      BY <1>3, <3>1, <3>2 DEF MarkReadyStep, PrepareMarkReady, FetchMetadata, ApplyMarkReady, RefuseMarkReady
  <2>4. OutcomeNeedsUrl' /\ HooksKnow' /\ PublisherKnows' /\ PublishedHadVideo'
    BY <2>1 DEF StatusInv, OutcomeNeedsUrl, HooksKnow, Known, PublisherKnows, PublishedHadVideo
  <2>. QED
    BY <2>2, <2>3, <2>4 DEF StatusInv
<1>4. ASSUME NEW h \in Hooks, HookStep(h) PROVE StatusInv'
  <2>1. UNCHANGED <<course, publisher, video, attached, upload, check>>
    BY <1>4 DEF HookStep, ReceiveHook, VerifyHook, FindLesson, ApplyHook, IgnoreHook
  <2>2. HooksKnow'
    <3>. USE <2>1, VideoAssumption DEF KeyInv, VideoTypeOK, HookState, StatusInv, HooksKnow, Known, Verdict
    <3>1. ASSUME NEW u \in Uploads, NEW status \in {"ready", "failed"}, ReceiveHook(h, u, status)
          PROVE  HooksKnow'
      BY <3>1 DEF ReceiveHook
    <3>2. CASE VerifyHook(h)
      BY <3>2 DEF VerifyHook, Confirms, SaysDone
    <3>3. ASSUME NEW l \in Lessons, FindLesson(h, l) PROVE HooksKnow'
      BY <3>3 DEF FindLesson, KeysBelong, BelongsTo, RequestsNameLessons
    <3>4. CASE ApplyHook(h) \/ IgnoreHook(h)
      BY <3>4 DEF ApplyHook, IgnoreHook, NoHook
    <3>. QED
      BY <1>4, <3>1, <3>2, <3>3, <3>4 DEF HookStep
  <2>3. StatusIsVerified'
    <3>1. CASE ApplyHook(h)
      BY <2>1, <3>1 DEF ApplyHook, SetStatus, KeyInv, VideoTypeOK, Row, HookState, StatusInv,
                        StatusIsVerified, HooksKnow, Known, Verdict
    <3>2. CASE UNCHANGED lesson
      BY <2>1, <3>2 DEF StatusInv, StatusIsVerified
    <3>. QED
      BY <1>4, <3>1, <3>2 DEF HookStep, ReceiveHook, VerifyHook, FindLesson, IgnoreHook
  <2>4. OutcomeNeedsUrl' /\ ChecksKnow' /\ PublisherKnows' /\ PublishedHadVideo'
    BY <2>1 DEF StatusInv, OutcomeNeedsUrl, ChecksKnow, Known, PublisherKnows, PublishedHadVideo
  <2>. QED
    BY <2>2, <2>3, <2>4 DEF StatusInv
<1>5. CASE StartPublish \/ SetPublished
  <2>1. UNCHANGED <<lesson, video, attached, upload, check, hook>>
    BY <1>5 DEF StartPublish, SetPublished
  <2>2. OutcomeNeedsUrl' /\ ChecksKnow' /\ HooksKnow' /\ StatusIsVerified'
    BY <2>1 DEF StatusInv, OutcomeNeedsUrl, ChecksKnow, HooksKnow, Known, StatusIsVerified
  <2>3. PublisherKnows' /\ PublishedHadVideo'
    BY <1>5, <2>1 DEF StatusInv, StatusIsVerified, PublisherKnows, PublishedHadVideo,
                      StartPublish, SetPublished
  <2>. QED
    BY <2>2, <2>3 DEF StatusInv
<1>6. ASSUME NEW d \in Deletes, DeleteStep(d) \/ WorkerStep(d) PROVE StatusInv'
  <2>1. /\ UNCHANGED <<upload, video, attached, check, hook, publisher>>
        /\ course' \in {course, "gone"}
    BY <1>6 DEF DeleteStep, StartDelete, LoadKeys, DeleteRows, SendJob, LoseDelete,
                WorkerStep, ReceiveJob, DeleteVideo, FinishJob, FailJob
  <2>2. \A l \in Lessons : lesson'[l].status = lesson[l].status
    BY <1>6 DEF DeleteStep, StartDelete, LoadKeys, DeleteRows, SendJob, LoseDelete,
                WorkerStep, ReceiveJob, DeleteVideo, FinishJob, FailJob, KeyInv, VideoTypeOK, Row
  <2>. QED
    BY <1>2, <2>1, <2>2, NothingDecided
<1>7. CASE UNCHANGED vars
  BY <1>2, <1>7, NothingDecided DEF vars
<1>. QED
  BY <1>1, <1>3, <1>4, <1>5, <1>6, <1>7 DEF Next

LEMMA AlwaysStatusInv == Spec => []StatusInv
  BY InitStatusInv, StepStatusInv, AlwaysKeyInv, PTL DEF Spec

\* In prod every status in a row is the provider's word on a video of that row.
THEOREM StatusAlwaysVerified == Spec => []StatusIsVerified
<1>. StatusInv => StatusIsVerified
  BY DEF StatusInv
<1>. QED
  BY AlwaysStatusInv, PTL

\* In prod nothing is published that never had a finished video.
THEOREM PublishedAlwaysHadVideo == Spec => []PublishedHadVideo
<1>. StatusInv => PublishedHadVideo
  BY DEF StatusInv
<1>. QED
  BY AlwaysStatusInv, PTL

-----------------------------------------------------------------------------
(* Which videos may be deleted *)

Gone(u) == u \in attached /\ ~lesson[upload[u].lesson].present

\* A delete knows keys of its lessons only; once its rows are gone, so are the
\* lessons of those keys; a job is only sent then, and works on those keys.
DeletesKnow ==
  \A d \in Deletes :
    /\ del[d].pc = "idle" => del[d].keys = {}
    /\ \A u \in del[d].keys : u \in attached /\ upload[u].lesson \in del[d].lessons
    /\ del[d].pc = "send" \/ job[d].state # "none" => \A u \in del[d].keys : Gone(u)
    /\ job[d].state # "none" => del[d].pc = "done"
    /\ job[d].todo \subseteq del[d].keys

JobsDoTheirWork ==
  \A d \in Deletes :
    /\ job[d].state = "working" => del[d].keys \ job[d].todo \subseteq removed
    /\ job[d].state = "done" => del[d].keys \subseteq removed

\* Only the loser of a commit and the videos of deleted lessons are deleted.
RemovedIsUnused ==
  \A u \in removed : upload[u].pc = "refused" \/ Gone(u)

\* Until a commit is repeated, an upload that lost was never attached.
LosersWereNeverIn ==
  repeats = 0 =>
    \A u \in attached : upload[u].pc \notin {"commit", "discard", "refused"}

CleanupInv == DeletesKnow /\ JobsDoTheirWork /\ RemovedIsUnused /\ LosersWereNeverIn

LEMMA InitCleanupInv == Init => CleanupInv
  BY DEF Init, CleanupInv, DeletesKnow, JobsDoTheirWork, RemovedIsUnused, LosersWereNeverIn,
         NoUpload, NoDelete, NoJob

\* A video whose lesson is gone stays that way.
LEMMA GoneForGood ==
  ASSUME KeyInv, [Next]_vars, NEW u \in attached, Gone(u)
  PROVE  Gone(u)'
<1>. USE DEF Catalog, Provider, Requests, Cleanup
<1>1. u \in attached' /\ upload'[u].lesson = upload[u].lesson
  BY KnowledgeStays
<1>2. u \in Uploads /\ upload[u].lesson \in Lessons
  BY DEF KeyInv, VideoTypeOK, AttachedWasCommitted, RequestsNameLessons
<1>3. \A l \in Lessons : lesson'[l].present => lesson[l].present
  <2>. DEFINE Stays == \A l \in Lessons : lesson'[l].present => lesson[l].present
  <2>. USE DEF KeyInv, VideoTypeOK, Row
  <2>1. ASSUME UNCHANGED lesson PROVE Stays
    BY <2>1
  <2>2. ASSUME NEW w \in Uploads, CommitPending(w) PROVE Stays
    BY <2>2 DEF CommitPending, Attach
  <2>3. ASSUME NEW w \in Uploads, UploadStep(w), ~CommitPending(w) PROVE Stays
    BY <2>1, <2>3 DEF UploadStep, PrepareUpload, InitUpload, CommitConflicts,
                RepeatCommit, AnswerUpload, Discard, LoseUpload, Transcode
  <2>4. ASSUME NEW l \in Lessons, NEW status, SetStatus(l, status) PROVE Stays
    BY <2>4 DEF SetStatus
  <2>5. ASSUME NEW c \in Checks, MarkReady(c) PROVE Stays
    BY <2>4, <2>5 DEF MarkReady, RequestsNameLessons
  <2>6. ASSUME NEW c \in Checks, MarkReadyStep(c), ~MarkReady(c) PROVE Stays
    BY <2>1, <2>6 DEF MarkReadyStep, PrepareMarkReady, FetchMetadata, ApplyMarkReady, RefuseMarkReady
  <2>7. ASSUME NEW h \in Hooks, ApplyHook(h) PROVE Stays
    BY <2>4, <2>7 DEF ApplyHook, RequestsNameLessons
  <2>8. ASSUME NEW h \in Hooks, HookStep(h), ~ApplyHook(h) PROVE Stays
    BY <2>1, <2>8 DEF HookStep, ReceiveHook, VerifyHook, FindLesson, IgnoreHook
  <2>9. ASSUME NEW d \in Deletes, DeleteRows(d) PROVE Stays
    BY <2>9 DEF DeleteRows
  <2>10. ASSUME NEW d \in Deletes, DeleteStep(d) \/ WorkerStep(d), ~DeleteRows(d) PROVE Stays
    BY <2>1, <2>10 DEF DeleteStep, StartDelete, LoadKeys, SendJob, LoseDelete,
                WorkerStep, ReceiveJob, DeleteVideo, FinishJob, FailJob
  <2>11. CASE StartPublish \/ SetPublished \/ UNCHANGED vars
    BY <2>1, <2>11 DEF StartPublish, SetPublished, vars
  <2>. QED
    BY <2>2, <2>3, <2>5, <2>6, <2>7, <2>8, <2>9, <2>10, <2>11 DEF Next
<1>. QED
  BY <1>1, <1>2, <1>3 DEF Gone

\* Deletes and their jobs are disturbed by no other step.
LEMMA DeletesUnmoved ==
  ASSUME KeyInv, DeletesKnow, [Next]_vars, UNCHANGED <<del, job>>
  PROVE  DeletesKnow'
  BY GoneForGood, KnowledgeStays DEF KeyInv, VideoTypeOK, DeletesKnow, Gone

LEMMA CleanupUnmoved ==
  ASSUME KeyInv, CleanupInv, [Next]_vars, UNCHANGED <<del, job, removed, attached, upload, repeats>>
  PROVE  CleanupInv'
<1>1. DeletesKnow'
  BY DeletesUnmoved DEF CleanupInv
<1>2. RemovedIsUnused'
  BY GoneForGood DEF CleanupInv, RemovedIsUnused, Gone
<1>. QED
  BY <1>1, <1>2 DEF CleanupInv, JobsDoTheirWork, LosersWereNeverIn

LEMMA StepCleanupInv == KeyInv /\ CleanupInv /\ [Next]_vars => CleanupInv'
<1>. SUFFICES ASSUME KeyInv, CleanupInv, [Next]_vars PROVE CleanupInv'
  OBVIOUS
<1>. USE DEF Catalog, Provider, Requests, Cleanup
<1>0. attached \subseteq Uploads /\ removed \subseteq Uploads
  BY DEF KeyInv, VideoTypeOK
<1>1. ASSUME NEW u \in Uploads, UploadStep(u) PROVE CleanupInv'
  <2>1. UNCHANGED <<del, job>> /\ removed \subseteq removed'
    BY <1>1 DEF UploadStep, PrepareUpload, InitUpload, CommitPending, Attach, CommitConflicts,
                RepeatCommit, AnswerUpload, Discard, LoseUpload, Transcode
  <2>2. DeletesKnow'
    BY <2>1, DeletesUnmoved DEF CleanupInv
  <2>3. JobsDoTheirWork'
    BY <2>1 DEF CleanupInv, JobsDoTheirWork
  <2>4. RemovedIsUnused' /\ LosersWereNeverIn'
    <3>. DEFINE Goal == RemovedIsUnused' /\ LosersWereNeverIn'
    <3>. USE <1>0 DEF KeyInv, VideoTypeOK, UploadState, UploadAt, CleanupInv, RemovedIsUnused, LosersWereNeverIn
    <3>0. \A w \in removed : Gone(w) => Gone(w)'
      BY GoneForGood DEF Gone
    <3>1. ASSUME NEW l \in Lessons, PrepareUpload(u, l) PROVE Goal
      BY <3>0, <3>1 DEF PrepareUpload
    <3>2. CASE InitUpload(u)
      BY <3>0, <3>2 DEF InitUpload, AttachedWasCommitted
    <3>3. CASE CommitPending(u)
      BY <3>0, <3>3 DEF CommitPending, Attach
    <3>4. CASE CommitConflicts(u)
      BY <3>0, <3>4 DEF CommitConflicts
    <3>5. CASE RepeatCommit(u)
      BY <3>0, <3>5, VideoAssumption DEF RepeatCommit
    <3>6. CASE AnswerUpload(u)
      BY <3>0, <3>6 DEF AnswerUpload
    <3>7. CASE Discard(u)
      BY <3>0, <3>7 DEF Discard
    <3>8. CASE LoseUpload(u)
      BY <3>0, <3>8 DEF LoseUpload
    <3>9. ASSUME NEW outcome \in {"done", "failed"}, Transcode(u, outcome) PROVE Goal
      BY <3>0, <3>9 DEF Transcode
    <3>. QED
      BY <1>1, <3>1, <3>2, <3>3, <3>4, <3>5, <3>6, <3>7, <3>8, <3>9 DEF UploadStep
  <2>. QED
    BY <2>2, <2>3, <2>4 DEF CleanupInv
<1>2. ASSUME NEW c \in Checks, MarkReadyStep(c) PROVE CleanupInv'
  BY <1>2, CleanupUnmoved
  DEF MarkReadyStep, PrepareMarkReady, FetchMetadata, ApplyMarkReady, MarkReady, RefuseMarkReady
<1>3. ASSUME NEW h \in Hooks, HookStep(h) PROVE CleanupInv'
  BY <1>3, CleanupUnmoved DEF HookStep, ReceiveHook, VerifyHook, FindLesson, ApplyHook, IgnoreHook
<1>4. CASE StartPublish \/ SetPublished \/ UNCHANGED vars
  BY <1>4, CleanupUnmoved DEF StartPublish, SetPublished, vars
<1>5. ASSUME NEW d \in Deletes, DeleteStep(d) PROVE CleanupInv'
  <2>1. UNCHANGED <<removed, attached, upload, repeats>>
    BY <1>5 DEF DeleteStep, StartDelete, LoadKeys, DeleteRows, SendJob, LoseDelete
  <2>2. RemovedIsUnused' /\ LosersWereNeverIn'
    BY <2>1, GoneForGood DEF CleanupInv, RemovedIsUnused, LosersWereNeverIn, Gone
  <2>3. DeletesKnow' /\ JobsDoTheirWork'
    <3>. DEFINE Goal == DeletesKnow' /\ JobsDoTheirWork'
    <3>. USE <1>0, <2>1 DEF KeyInv, VideoTypeOK, DeleteState, JobState, CleanupInv, DeletesKnow, JobsDoTheirWork, Gone
    <3>1. ASSUME NEW ls \in SUBSET Lessons, NEW whole \in BOOLEAN, StartDelete(d, ls, whole) PROVE Goal
      <4>1. \A u \in KeysOf(ls) : u \in attached /\ upload[u].lesson \in ls
        BY DEF KeysOf, Present, KeysBelong, BelongsTo
      <4>. QED
        BY <3>1, <4>1 DEF StartDelete, LoadKeys
    <3>2. CASE DeleteRows(d)
      <4>1. \A u \in attached : upload[u].lesson \in Lessons
        BY DEF AttachedWasCommitted, RequestsNameLessons
      <4>2. \A l \in Lessons : lesson'[l].present = (lesson[l].present /\ l \notin del[d].lessons)
        BY <3>2 DEF DeleteRows, Row
      <4>3. \A u \in attached : Gone(u) => Gone(u)'
        BY GoneForGood
      <4>4. \A u \in del[d].keys : Gone(u)'
        BY <4>1, <4>2
      <4>. QED
        BY <3>2, <4>3, <4>4 DEF DeleteRows
    <3>3. CASE SendJob(d)
      BY <3>3 DEF SendJob, Queued
    <3>4. CASE LoseDelete(d)
      BY <3>4 DEF LoseDelete
    <3>. QED
      BY <1>5, <3>1, <3>2, <3>3, <3>4 DEF DeleteStep
  <2>. QED
    BY <2>2, <2>3 DEF CleanupInv
<1>6. ASSUME NEW d \in Deletes, WorkerStep(d) PROVE CleanupInv'
  <2>1. UNCHANGED <<lesson, attached, upload, del, repeats>>
    BY <1>6 DEF WorkerStep, ReceiveJob, DeleteVideo, FinishJob, FailJob
  <2>2. LosersWereNeverIn'
    BY <2>1 DEF CleanupInv, LosersWereNeverIn
  <2>3. DeletesKnow' /\ JobsDoTheirWork' /\ RemovedIsUnused'
    <3>. DEFINE Goal == DeletesKnow' /\ JobsDoTheirWork' /\ RemovedIsUnused'
    <3>. USE <1>0, <2>1 DEF KeyInv, VideoTypeOK, JobState, CleanupInv, DeletesKnow, JobsDoTheirWork, RemovedIsUnused, Gone
    <3>1. CASE ReceiveJob(d)
      BY <3>1 DEF ReceiveJob
    <3>2. ASSUME NEW u \in Uploads, DeleteVideo(d, u) PROVE Goal
      BY <3>2 DEF DeleteVideo
    <3>3. CASE FinishJob(d)
      BY <3>3 DEF FinishJob
    <3>4. CASE FailJob(d)
      BY <3>4 DEF FailJob
    <3>. QED
      BY <1>6, <3>1, <3>2, <3>3, <3>4 DEF WorkerStep
  <2>. QED
    BY <2>2, <2>3 DEF CleanupInv
<1>. QED
  BY <1>1, <1>2, <1>3, <1>4, <1>5, <1>6 DEF Next

LEMMA AlwaysCleanupInv == Spec => []CleanupInv
  BY InitCleanupInv, StepCleanupInv, AlwaysKeyInv, PTL DEF Spec

\* A browser that was given an upload URL can finish.
THEOREM PromisedVideoAlwaysKept == Spec => []PromisedVideoIsKept
<1>. CleanupInv => PromisedVideoIsKept
  BY DEF CleanupInv, RemovedIsUnused, Gone, PromisedVideoIsKept
<1>. QED
  BY AlwaysCleanupInv, PTL

\* A cleanup message that was acknowledged has deleted all it named.
THEOREM FinishedJobAlwaysCleaned == Spec => []FinishedJobCleaned
<1>. CleanupInv => FinishedJobCleaned
  BY DEF CleanupInv, JobsDoTheirWork, FinishedJobCleaned
<1>. QED
  BY AlwaysCleanupInv, PTL

\* As long as no commit is sent twice, what a lesson names exists at the provider.
THEOREM InUseAlwaysStored == Spec => []InUseIsStored
<1>. KeyInv /\ CleanupInv => InUseIsStored
  BY DEF KeyInv, KeysBelong, BelongsTo, CleanupInv, RemovedIsUnused, LosersWereNeverIn, Gone, InUseIsStored
<1>. QED
  BY AlwaysKeyInv, AlwaysCleanupInv, PTL

=============================================================================
