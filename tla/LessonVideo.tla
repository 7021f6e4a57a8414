----------------------------- MODULE LessonVideo -----------------------------
(***************************************************************************)
(* The videos of a course's lessons: lessons.video_key and video_status,   *)
(* and the Kinescope videos they name.  The video edge serves an upload in *)
(* three calls (read the key, create a video, swap the key) and a mark-    *)
(* ready in three (read, fetch the provider's status, apply); a provider's *)
(* webhook is verified by the edge and applied by the catalog; a delete    *)
(* reads the keys, deletes the rows and sends a cleanup job to a queue.    *)
(* Every database statement commits on its own, so all of them interleave. *)
(*                                                                         *)
(* An upload request creates one video, so the request names its video.    *)
(***************************************************************************)
EXTENDS Naturals, FiniteSets

CONSTANTS
  Lessons,      \* the lessons of one course
  Uploads,      \* upload-url requests, and the video each may create
  Checks,       \* mark-ready requests under way at once
  Hooks,        \* webhook calls under way at once
  Deletes,      \* delete requests
  NoVideo,      \* '' as a video key
  NoLesson,
  Prod,         \* DEPLOYMENT_ENVIRONMENT is prod
  MaxRepeats,   \* commits the edge may resend after a lost answer
  MaxReceives   \* maxReceiveCount of the cleanup queue

ASSUME VideoAssumption ==
  /\ NoVideo \notin Uploads
  /\ NoLesson \notin Lessons
  /\ Prod \in BOOLEAN
  /\ MaxRepeats \in Nat
  /\ MaxReceives \in Nat \ {0}

VARIABLES
  lesson,       \* the rows: present, video_key, video_status
  course,       \* courses.status, or "gone"
  video,        \* what Kinescope made of each video
  removed,      \* videos deleted at Kinescope
  attached,     \* history: the videos some lesson row ever named
  upload,       \* upload-url requests
  check,        \* mark-ready requests
  hook,         \* webhook calls
  publisher,    \* the publish request
  del,          \* delete requests
  job,          \* the cleanup message of each delete request
  repeats       \* commits resent so far

vars == <<lesson, course, video, removed, attached, upload, check, hook, publisher, del, job, repeats>>

Keys == Uploads \cup {NoVideo}

Row == [present : BOOLEAN, key : Keys, status : {"pending", "ready", "failed"}]

UploadState ==
  [pc : {"idle", "init", "commit", "answer", "discard", "ok", "refused", "lost"},
   lesson : Lessons \cup {NoLesson}, expected : Keys]
CheckState == [pc : {"idle", "fetch", "apply", "set"},
               lesson : Lessons \cup {NoLesson}, key : Keys]
HookState == [pc : {"idle", "verify", "find", "set"}, key : Keys,
              lesson : Lessons \cup {NoLesson}, status : {"ready", "failed"}]
DeleteState == [pc : {"idle", "rows", "send", "done"}, course : BOOLEAN,
                lessons : SUBSET Lessons, keys : SUBSET Uploads]
JobState == [state : {"none", "queued", "working", "done", "dead"},
             todo : SUBSET Uploads, receives : 0..MaxReceives]

VideoTypeOK ==
  /\ lesson \in [Lessons -> Row]
  /\ course \in {"DRAFT", "PUBLISHED", "gone"}
  /\ video \in [Uploads -> {"unborn", "uploading", "done", "failed"}]
  /\ removed \subseteq Uploads
  /\ attached \subseteq Uploads
  /\ upload \in [Uploads -> UploadState]
  /\ check \in [Checks -> CheckState]
  /\ hook \in [Hooks -> HookState]
  /\ publisher \in {"idle", "set"}
  /\ del \in [Deletes -> DeleteState]
  /\ job \in [Deletes -> JobState]
  /\ repeats \in 0..MaxRepeats

NoUpload == [pc |-> "idle", lesson |-> NoLesson, expected |-> NoVideo]
NoCheck == [pc |-> "idle", lesson |-> NoLesson, key |-> NoVideo]
NoHook == [pc |-> "idle", key |-> NoVideo, lesson |-> NoLesson, status |-> "failed"]
NoDelete == [pc |-> "idle", course |-> FALSE, lessons |-> {}, keys |-> {}]
NoJob == [state |-> "none", todo |-> {}, receives |-> 0]

\* Lessons that were just created: no key, 'pending' by default.
Init ==
  /\ lesson = [l \in Lessons |-> [present |-> TRUE, key |-> NoVideo, status |-> "pending"]]
  /\ course = "DRAFT"
  /\ video = [u \in Uploads |-> "unborn"]
  /\ removed = {}
  /\ attached = {}
  /\ upload = [u \in Uploads |-> NoUpload]
  /\ check = [c \in Checks |-> NoCheck]
  /\ hook = [h \in Hooks |-> NoHook]
  /\ publisher = "idle"
  /\ del = [d \in Deletes |-> NoDelete]
  /\ job = [d \in Deletes |-> NoJob]
  /\ repeats = 0

Catalog == <<lesson, course, publisher>>
Provider == <<video, removed>>
Requests == <<upload, check, hook>>
Cleanup == <<del, job>>

UploadAt(u, pc) == upload' = [upload EXCEPT ![u].pc = pc]

\* UPDATE lessons SET video_status ... WHERE id: no guard but the row's presence.
SetStatus(l, status) ==
  lesson' = [lesson EXCEPT ![l].status = IF lesson[l].present THEN status ELSE @]

-----------------------------------------------------------------------------
(* Upload *)

PrepareUpload(u, l) ==
  /\ upload[u].pc = "idle"
  /\ lesson[l].present
  /\ upload' = [upload EXCEPT ![u] = [pc |-> "init", lesson |-> l, expected |-> lesson[l].key]]
  /\ UNCHANGED <<Catalog, Provider, attached, check, hook, Cleanup, repeats>>

InitUpload(u) ==
  /\ upload[u].pc = "init"
  /\ video' = [video EXCEPT ![u] = "uploading"]
  /\ UploadAt(u, "commit")
  /\ UNCHANGED <<Catalog, removed, attached, check, hook, Cleanup, repeats>>

\* FAULT: the swap is by lesson id alone.
KeyMatchesAlways(u) == lesson[upload[u].lesson].present

KeyMatches(u) ==
  LET row == lesson[upload[u].lesson]
  IN  row.present /\ row.key = upload[u].expected

Attach(u) ==
  /\ upload[u].pc = "commit"
  /\ KeyMatches(u)
  /\ lesson' = [lesson EXCEPT ![upload[u].lesson].key = u,
                              ![upload[u].lesson].status = "pending"]
  /\ attached' = attached \cup {u}
  /\ UploadAt(u, "answer")
  /\ UNCHANGED <<course, publisher, check, hook, Cleanup, repeats>>

\* FAULT: the video that was replaced is deleted at once.
CommitPendingAndClean(u) ==
  /\ Attach(u)
  /\ LET old == upload[u].expected
     IN  removed' = removed \cup ({old} \ {NoVideo})
  /\ UNCHANGED video

CommitPending(u) ==
  /\ Attach(u)
  /\ UNCHANGED Provider

\* rowcount 0 is a conflict, and the edge deletes the video it created.
\* A course that is gone is a 404, and the edge deletes nothing.
CommitConflicts(u) ==
  /\ upload[u].pc = "commit"
  /\ ~KeyMatches(u)
  /\ UploadAt(u, IF course = "gone" THEN "lost" ELSE "discard")
  /\ UNCHANGED <<Catalog, Provider, attached, check, hook, Cleanup, repeats>>

\* The answer is lost on the way and the Lambda client sends the call again.
RepeatCommit(u) ==
  /\ upload[u].pc = "answer"
  /\ repeats < MaxRepeats
  /\ repeats' = repeats + 1
  /\ UploadAt(u, "commit")
  /\ UNCHANGED <<Catalog, Provider, attached, check, hook, Cleanup>>

AnswerUpload(u) ==
  /\ upload[u].pc = "answer"
  /\ UploadAt(u, "ok")
  /\ UNCHANGED <<Catalog, Provider, attached, check, hook, Cleanup, repeats>>

\* A failed DELETE is only logged.
Discard(u) ==
  /\ upload[u].pc = "discard"
  /\ removed' \in {removed, removed \cup {u}}
  /\ UploadAt(u, "refused")
  /\ UNCHANGED <<Catalog, video, attached, check, hook, Cleanup, repeats>>

\* A call fails or the edge dies: nothing is undone.
LoseUpload(u) ==
  /\ upload[u].pc \in {"init", "commit", "answer", "discard"}
  /\ UploadAt(u, "lost")
  /\ UNCHANGED <<Catalog, Provider, attached, check, hook, Cleanup, repeats>>

\* Only a browser that got the upload URL can send the file.
Transcode(u, outcome) ==
  /\ upload[u].pc = "ok"
  /\ video[u] = "uploading"
  /\ u \notin removed
  /\ video' = [video EXCEPT ![u] = outcome]
  /\ UNCHANGED <<Catalog, removed, attached, Requests, Cleanup, repeats>>

-----------------------------------------------------------------------------
(* Mark ready *)

PrepareMarkReady(c, l) ==
  /\ check[c].pc = "idle"
  /\ lesson[l].present
  /\ lesson[l].key # NoVideo
  /\ check' = [check EXCEPT ![c] = [pc |-> "fetch", lesson |-> l, key |-> lesson[l].key]]
  /\ UNCHANGED <<Catalog, Provider, attached, upload, hook, Cleanup, repeats>>

SaysDone(u) == video[u] = "done" /\ u \notin removed

\* FAULT: what the provider says is fetched and not looked at.
FetchUnread(c) ==
  /\ check[c].pc = "fetch"
  /\ check' = [check EXCEPT ![c].pc = "apply"]
  /\ UNCHANGED <<Catalog, Provider, attached, upload, hook, Cleanup, repeats>>

\* Outside prod a lesson may be marked ready without the provider's word.
FetchMetadata(c) ==
  /\ check[c].pc = "fetch"
  /\ Prod => SaysDone(check[c].key)
  /\ check' = [check EXCEPT ![c].pc = "apply"]
  /\ UNCHANGED <<Catalog, Provider, attached, upload, hook, Cleanup, repeats>>

ApplyMarkReady(c) ==
  /\ check[c].pc = "apply"
  /\ lesson[check[c].lesson].present
  /\ lesson[check[c].lesson].key = check[c].key
  /\ check' = [check EXCEPT ![c].pc = "set"]
  /\ UNCHANGED <<Catalog, Provider, attached, upload, hook, Cleanup, repeats>>

MarkReady(c) ==
  /\ check[c].pc = "set"
  /\ SetStatus(check[c].lesson, "ready")
  /\ check' = [check EXCEPT ![c] = NoCheck]
  /\ UNCHANGED <<course, publisher, Provider, attached, upload, hook, Cleanup, repeats>>

\* Still processing, another key, a lesson that is gone, or a failure.
RefuseMarkReady(c) ==
  /\ check[c].pc # "idle"
  /\ check' = [check EXCEPT ![c] = NoCheck]
  /\ UNCHANGED <<Catalog, Provider, attached, upload, hook, Cleanup, repeats>>

-----------------------------------------------------------------------------
(* Webhook *)

\* media.update.status with done, error or aborted; late, repeated or false.
\* Other statuses change nothing.
ReceiveHook(h, u, status) ==
  /\ hook[h].pc = "idle"
  /\ video[u] # "unborn"
  /\ hook' = [hook EXCEPT ![h] = [pc |-> "verify", key |-> u, lesson |-> NoLesson,
                                  status |-> status]]
  /\ UNCHANGED <<Catalog, Provider, attached, upload, check, Cleanup, repeats>>

\* FAULT: the webhook is taken at its word.
ConfirmsAlways(u, status) == status \in {"ready", "failed"}

Confirms(u, status) ==
  \/ status = "ready" /\ SaysDone(u)
  \/ status = "failed" /\ video[u] = "failed" /\ u \notin removed

VerifyHook(h) ==
  /\ hook[h].pc = "verify"
  /\ Confirms(hook[h].key, hook[h].status)
  /\ hook' = [hook EXCEPT ![h].pc = "find"]
  /\ UNCHANGED <<Catalog, Provider, attached, upload, check, Cleanup, repeats>>

FindLesson(h, l) ==
  /\ hook[h].pc = "find"
  /\ lesson[l].present
  /\ lesson[l].key = hook[h].key
  /\ hook' = [hook EXCEPT ![h] = [@ EXCEPT !.pc = "set", !.lesson = l]]
  /\ UNCHANGED <<Catalog, Provider, attached, upload, check, Cleanup, repeats>>

ApplyHook(h) ==
  /\ hook[h].pc = "set"
  /\ SetStatus(hook[h].lesson, hook[h].status)
  /\ hook' = [hook EXCEPT ![h] = NoHook]
  /\ UNCHANGED <<course, publisher, Provider, attached, upload, check, Cleanup, repeats>>

\* Not confirmed, an unknown video, or a failure.
IgnoreHook(h) ==
  /\ hook[h].pc # "idle"
  /\ hook' = [hook EXCEPT ![h] = NoHook]
  /\ UNCHANGED <<Catalog, Provider, attached, upload, check, Cleanup, repeats>>

-----------------------------------------------------------------------------
(* Publish *)

\* Needs at least one ready lesson.
StartPublish ==
  /\ publisher = "idle"
  /\ course # "gone"
  /\ \E l \in Lessons : lesson[l].present /\ lesson[l].status = "ready"
  /\ publisher' = "set"
  /\ UNCHANGED <<lesson, course, Provider, attached, Requests, Cleanup, repeats>>

SetPublished ==
  /\ publisher = "set"
  /\ publisher' = "idle"
  /\ course' = IF course = "gone" THEN course ELSE "PUBLISHED"
  /\ UNCHANGED <<lesson, Provider, attached, Requests, Cleanup, repeats>>

-----------------------------------------------------------------------------
(* Delete a lesson, a module or the course *)

Present(ls) == {l \in ls : lesson[l].present}

KeysOf(ls) == {lesson[l].key : l \in Present(ls)} \ {NoVideo}

LoadKeys(d, ls, whole) ==
  /\ del[d].pc = "idle"
  /\ IF whole THEN course # "gone" ELSE Present(ls) # {}
  /\ del' = [del EXCEPT ![d] = [pc |-> "rows", course |-> whole, lessons |-> ls,
                                keys |-> KeysOf(ls)]]
  /\ UNCHANGED <<Catalog, Provider, attached, Requests, repeats>>

Queued(keys) == [state |-> "queued", todo |-> keys, receives |-> 0]

\* FAULT: the cleanup job is sent before the rows are deleted.
LoadKeysAndSend(d, ls, whole) ==
  /\ LoadKeys(d, ls, whole)
  /\ job' = [job EXCEPT ![d] = Queued(KeysOf(ls))]

StartDelete(d, ls, whole) ==
  /\ LoadKeys(d, ls, whole)
  /\ UNCHANGED job

DeleteRows(d) ==
  /\ del[d].pc = "rows"
  /\ lesson' = [l \in Lessons |->
                  [lesson[l] EXCEPT !.present = @ /\ l \notin del[d].lessons]]
  /\ course' = IF del[d].course THEN "gone" ELSE course
  /\ del' = [del EXCEPT ![d].pc = IF del[d].keys = {} THEN "done" ELSE "send"]
  /\ UNCHANGED <<publisher, Provider, attached, Requests, job, repeats>>

SendJob(d) ==
  /\ del[d].pc = "send"
  /\ job' = [job EXCEPT ![d] = Queued(del[d].keys)]
  /\ del' = [del EXCEPT ![d].pc = "done"]
  /\ UNCHANGED <<Catalog, Provider, attached, Requests, repeats>>

\* The catalog dies, or SQS refuses the message: nobody knows the keys now.
LoseDelete(d) ==
  /\ del[d].pc \in {"rows", "send"}
  /\ del' = [del EXCEPT ![d].pc = "done"]
  /\ UNCHANGED <<Catalog, Provider, attached, Requests, job, repeats>>

-----------------------------------------------------------------------------
(* The cleanup worker *)

ReceiveJob(d) ==
  /\ job[d].state = "queued"
  /\ job' = [job EXCEPT ![d] = [state |-> "working", todo |-> del[d].keys,
                                receives |-> @.receives + 1]]
  /\ UNCHANGED <<Catalog, Provider, attached, Requests, del, repeats>>

\* A video that is gone already counts as deleted.
DeleteVideo(d, u) ==
  /\ job[d].state = "working"
  /\ u \in job[d].todo
  /\ removed' = removed \cup {u}
  /\ job' = [job EXCEPT ![d].todo = @ \ {u}]
  /\ UNCHANGED <<Catalog, video, attached, Requests, del, repeats>>

\* FAULT: a failed delete is logged and the message acknowledged.
FinishJobAnyway(d) ==
  /\ job[d].state = "working"
  /\ job' = [job EXCEPT ![d].state = "done"]
  /\ UNCHANGED <<Catalog, Provider, attached, Requests, del, repeats>>

FinishJob(d) ==
  /\ job[d].state = "working"
  /\ job[d].todo = {}
  /\ job' = [job EXCEPT ![d].state = "done"]
  /\ UNCHANGED <<Catalog, Provider, attached, Requests, del, repeats>>

\* FAULT: the queue has no dead-letter queue.
FailJobForever(d) ==
  /\ job[d].state = "working"
  /\ job' = [job EXCEPT ![d].state = "queued"]
  /\ UNCHANGED <<Catalog, Provider, attached, Requests, del, repeats>>

\* A delete fails or the worker dies: the whole message returns, until it has
\* been received maxReceiveCount times.
FailJob(d) ==
  /\ job[d].state = "working"
  /\ job' = [job EXCEPT ![d].state = IF job[d].receives = MaxReceives THEN "dead" ELSE "queued"]
  /\ UNCHANGED <<Catalog, Provider, attached, Requests, del, repeats>>

-----------------------------------------------------------------------------
UploadStep(u) ==
  \/ \E l \in Lessons : PrepareUpload(u, l)
  \/ InitUpload(u)
  \/ CommitPending(u)
  \/ CommitConflicts(u)
  \/ RepeatCommit(u)
  \/ AnswerUpload(u)
  \/ Discard(u)
  \/ LoseUpload(u)
  \/ \E outcome \in {"done", "failed"} : Transcode(u, outcome)

MarkReadyStep(c) ==
  \/ \E l \in Lessons : PrepareMarkReady(c, l)
  \/ FetchMetadata(c)
  \/ ApplyMarkReady(c)
  \/ MarkReady(c)
  \/ RefuseMarkReady(c)

HookStep(h) ==
  \/ \E u \in Uploads, status \in {"ready", "failed"} : ReceiveHook(h, u, status)
  \/ VerifyHook(h)
  \/ \E l \in Lessons : FindLesson(h, l)
  \/ ApplyHook(h)
  \/ IgnoreHook(h)

DeleteStep(d) ==
  \/ \E ls \in SUBSET Lessons : StartDelete(d, ls, FALSE)
  \/ StartDelete(d, Lessons, TRUE)
  \/ DeleteRows(d)
  \/ SendJob(d)
  \/ LoseDelete(d)

WorkerStep(d) ==
  \/ ReceiveJob(d)
  \/ \E u \in Uploads : DeleteVideo(d, u)
  \/ FinishJob(d)
  \/ FailJob(d)

Next ==
  \/ \E u \in Uploads : UploadStep(u)
  \/ \E c \in Checks : MarkReadyStep(c)
  \/ \E h \in Hooks : HookStep(h)
  \/ StartPublish
  \/ SetPublished
  \/ \E d \in Deletes : DeleteStep(d) \/ WorkerStep(d)

Spec == Init /\ [][Next]_vars

-----------------------------------------------------------------------------
(* Properties *)

\* Of the uploads that were prepared against one key of a lesson, one at most
\* ever gets its video into the row, in any order of commits, repeats, answers
\* and deletes (set_lesson_video_if_video_key_matches).
OneUploadWins ==
  \A u, w \in attached :
    upload[u].lesson = upload[w].lesson /\ upload[u].expected = upload[w].expected => u = w

\* A browser that was given an upload URL can finish: its video is not deleted
\* while the lesson exists, though another upload may have taken the lesson
\* (the comment on expected_key in get_upload_url).
PromisedVideoIsKept ==
  \A u \in Uploads :
    upload[u].pc = "ok" /\ lesson[upload[u].lesson].present => u \notin removed

\* In prod a lesson's status is the provider's word on a video that was
\* attached to this very lesson (fetch_video_metadata before every change).
\* It may be the word on a video since replaced: an upload committed between
\* the check and the change makes the lesson ready with a video not yet sent.
StatusIsVerified ==
  Prod => \A l \in Lessons :
    LET Said(verdict) == \E u \in attached : upload[u].lesson = l /\ video[u] = verdict
    IN  /\ lesson[l].status = "ready" => Said("done")
        /\ lesson[l].status = "failed" => Said("failed")

\* In prod a published course has had a lesson whose video was finished.
PublishedHadVideo ==
  Prod /\ course = "PUBLISHED" => \E u \in attached : video[u] = "done"

\* What a lesson names still exists at the provider, as long as no commit was
\* sent twice: a repeat compares the key with the one it wrote, loses, and the
\* edge discards the video that the lesson names.
InUseIsStored ==
  repeats = 0 =>
    \A l \in Lessons :
      lesson[l].present /\ lesson[l].key # NoVideo => lesson[l].key \notin removed

\* A cleanup message that was acknowledged has deleted everything it named,
\* after any failures and repeats (batchItemFailures, 404 tolerated).
FinishedJobCleaned ==
  \A d \in Deletes : job[d].state = "done" => del[d].keys \subseteq removed

=============================================================================
