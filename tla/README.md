# StreamMyCourse: a verification project

TLA+ models of StreamMyCourse, the TLC runs that check them, and
machine-checked proofs of what matters most. The reference is the code: an
action is a whole handler step, a guard is a condition of the code, and every
definition that stands for code names its lines in `PROJECT.json`.

## 1. The system

Students and teachers use two React applications. API Gateway routes their
requests to Lambdas: one *catalog* Lambda in a VPC, next to a PostgreSQL (RDS)
database, and small *edge* Lambdas outside it that hold provider secrets and
invoke the catalog. Cognito calls trigger Lambdas; two standard SQS queues and
one mail queue feed workers. Every request runs in its own Lambda container
with its own database connection (READ COMMITTED), so any two requests may
interleave between any two database statements, and a Lambda may die between
any two steps. The pages send requests of their own accord and keep what they
were answered: answers come late, in another order than they were asked for,
or after the page went on to another address.

| component | state it keeps | operations | talks to |
|---|---|---|---|
| purchases (`catalog/services/purchases`) | `purchases`, prices | precheck, reserve, rollback, access check, set price | billing edge (invoke), RDS |
| billing edge (`billing_edge`) | none | checkout session, HyperPay webhook | HyperPay, catalog, SQS |
| billing fulfillment (`billing_fulfillment`) | `payment_webhook_events`, `purchases` | one transaction per SQS record | SQS + DLQ, RDS |
| student single session (`cognito_user_profile_sync`, `auth/session.py`) | `users.student_active_session_id` | bump on sign-in, deny stale refresh, guard every API call | Cognito, RDS |
| token authorizer | JWKS cache | validate a token | Cognito |
| pre sign-up, custom email sender | none (Cognito's) | link accounts, send a code | Cognito, SMTP |
| course management and lesson video (`course_management`, `video_provider_edge`) | courses, modules, lessons and their video key and status, lesson files | CRUD, publish, upload prepare/commit, provider webhook, mark ready, delete | Kinescope, S3, cleanup queue |
| media cleanup | none | delete S3 objects and Kinescope videos | SQS, S3, Kinescope |
| quizzes (`question_banks`) | banks, quizzes, bindings, attempts, submissions | publish, bind, start, retake, submit | certificates |
| assignments | assignments, submissions, files, grades, scores | draft, upload, submit, grade | S3, certificates, mail queue |
| certificates | `certificates`, `bundle_certificates` | try issue (from quiz, grade, profile, list), revoke, list, public lookup | quizzes, assignments, purchases |
| research team | applications | submit, patch, allow reapply | certificates, mail queue |
| progress, enrollment, lesson notes, profile | one row per user and lesson/course | upsert, read | RDS |
| rate limit | `rate_limit_counters` | consume | RDS |
| transactional mail, contact | none | enqueue, send | SQS, SMTP |
| web applications (`frontend`) | forms, stored session, shop and checkout, dashboard, player, notes, quiz and assignment pages, reviews, settings, question banks, course editor | one handler per button, effect and answer | API, Cognito, HyperPay and Kinescope widgets |
| schema apply, query, artifact janitor, CloudFront invalidation | none | deployment tools | RDS, S3, CloudFront |

What is hard about each of them, and where:

* **Purchases and billing.** Money. Checks and writes in separate transactions,
  READ COMMITTED, several checkouts of one shopper, an at-least-once unordered
  queue, repeated webhooks, dying workers, price changes. *Correct* means: paid
  rows are charged, charges are never lost, no product is paid twice, a
  settled row never changes but to be revoked.
* **Student session.** A sign-in commits a new active session while an older
  device refreshes or calls the API. *Correct*: at most one device passes, and
  the tab that lost says so.
* **Lesson video.** A provider webhook, a mark-ready and a second upload race on
  one lesson; the key is checked and the status set in separate statements.
  *Correct*: one upload wins, a status is the provider's word, no video in use
  or promised is deleted.
* **Certificates.** Issued from four places at once, revoked in two commits.
  *Correct*: one per student and course, earned, never reissued once revoked;
  the bundle is issued after every pathway certificate and revoked only after
  one has fallen.
* **Quizzes, assignments.** Read-then-insert with unique indexes as the backstop;
  an unconditional UPDATE after a check; a lock that is computed anew from a pass
  mark the teacher may change, by other statements than those of the work it
  guards. *Correct*: one open attempt or draft, a tab is graded on what it shows,
  marks and grades stand, and no work is taken from a student who never met a
  mark.
* **Question banks.** Counts are read before a publication and before a link.
  *Correct*: a quiz can serve as many questions as it announces.
* **Research team.** Check-then-insert, read-then-update without a guard.
  *Correct*: one application under way, one accepted.
* **Course editor.** Deletions renumber lists they read earlier. *Correct*: every
  lesson has a module and a place of its own.
* **The student's pages.** Loads of the address before are not always cancelled,
  and what is shown leads on to what the server may refuse. *Correct*: what a
  page shows is of the address it is at, and what it leads to is open, paid or
  earned.
* **Rate limit.** Two clocks decide one window.

## 2. Modules

### Purchases and billing

| module | models | from |
|---|---|---|
| `PurchaseTable` | the `purchases` table: rows, the SQL statements on it as operators, row locks held by an open transaction, the partial unique indexes | `purchases/rds_repo.py`, migrations 015 and 019 |
| `Checkout` | `POST /billing/checkout-session` from edge to catalog and back: ownership check, price read, the reservation transaction in two statements, the HyperPay checkout, the rollback; price changes; the 30-minute age of a row | `billing_edge/handler.py`, `purchases/service.py` |
| `Fulfillment` | the SQS queue with its DLQ, the event source mapping and the worker; one transaction per record | `billing_fulfillment/`, `billing-fulfillment-stack.yaml` |
| `Billing` | composes the two with HyperPay (external) and the webhook handler of the edge; holds the properties | `billing_edge/` |
| `Entitlement` | the abstract specification: charge, grant, refund, revoke | - |
| `BillingProofs`, `BillingRefinement` | theorems | - |

`purchases` maps a purchase id to its row (`status`, `owner`, `product`,
`amount`, and `stale`, one bit for "updated_at is older than
INCOMPLETE_CHECKOUT_TTL_MINUTES"). `req[r].pc` is where request r stands
between two database statements: `ownership`, `price`, `reserve`, `insert`
(its DELETE has run and holds its rows in `deleting[r]` until COMMIT),
`create`, `rollback`. `sessions[p]` is the amount of the HyperPay checkout
opened for p. A message of `queue` is in the queue, in the DLQ or held by a
worker, with its receive count and, while held, its record's outcome.
`webhookEvents` is the table `payment_webhook_events`. HyperPay's `payments`
are debits and refunds, each of which may sit pending before its final result;
`acknowledged` are the notifications answered with 200.

### Student single session

| module | models | from |
|---|---|---|
| `StudentSession` | sign-in with its post-authentication trigger (late, doubled, given up on), token refresh with the stored session id as the claim, the catalog's guard, sign-out | `cognito_user_profile_sync/`, `auth/session.py`, the student application |
| `SingleSession` | the abstract specification: a take-over shuts everybody out and names one heir | - |
| `StudentSessionProofs` | theorems | - |

### Lesson video

| module | models | from |
|---|---|---|
| `LessonVideo` | upload (read key, create video, swap key), mark-ready (read, ask Kinescope, compare, set), webhook (verify, look up, set), publish (read, set), delete (read keys, delete rows, send job), the cleanup worker behind its queue | `video_provider_edge/`, `course_management/`, `media_cleanup/` |
| `LessonVideoProofs` | theorems | - |

Each request is a record whose `pc` says which call is next; every action is
the code between two calls that leave the process. `video` is what Kinescope
made of a file, `removed` what was deleted there. `attached` is a history
variable: the videos that ever were in a row. An upload request creates one
video, so the request's name serves as the video's id.

### Account and certificates

| module | models | from |
|---|---|---|
| `Account` | one tab and the people who sign in to it: register, confirm, sign in with a password or Google, recover, sign out; the header's probe and lookup; the superseded tab with its banner, cooldown and wipe; reloads | `student-app/`, `lib/auth*`, `lib/api/session.ts`, the sign-in pages |
| `Certificates` | one student's certificates and bundle: `try_issue` statement by statement from the hooks, the profile and the certificates page, `_try_issue_bundle`, `revoke` with its two commits, course deletion | `certificates/`, `bootstrap.py` |
| `Diplomas` | the abstract specification of Certificates: earn, issue, revoke, drop, and the bundle | - |
| `AccountApp` | composes `Account` and `Certificates` | - |
| `AccountAppProofs` | theorems | - |

`authCalls` are the requests under way; a request is `heard` as long as the
component that sent it is mounted. `tab` is what the tab stores (tokens, banner)
and what its modules keep in memory (`superseded`, `handling`, `cooling`), and
only the latter is lost by a reload. In `Account` a session is current when it
is the last one issued to its owner; how the servers come to that is
`StudentSession`.

`entitled` and `passed` say of each course whether the student is entitled and
meets its requirements now, did once, or never did; they change at any time (a
purchase, a refund, a grade, a new quiz). A profile name may be blank at any
reading. `request[r].todo` are the courses a request has still to try.

### The student's pages

| module | models | from |
|---|---|---|
| `LessonPlayer` | course page and lesson page with their loads, the progress sent while a video plays and when it ends, marks, failed saves and the open circuit, the session guard; the progress rows | `LessonPlayerPage.tsx`, `lessonPlayerUi.tsx`, `CourseDetailPage.tsx`, `progress/` |
| `LessonNotes` | list, create, update, delete, and the tabs that hold the list across lessons | `LessonPlayerTabs.tsx`, `lesson_notes/` |
| `Dashboard` | its three concurrent reads, the locks one by one, and the way on; lessons completed and quizzes submitted in other tabs, and the teacher who publishes quizzes and raises and lowers pass marks | `StudentDashboardPage.tsx`, `studentDashboard.ts`, `gating.py` |
| `Shop` | catalog, checkout with a product that may change, widget, redirect, result and purchases pages | `CheckoutPage.tsx` and its neighbours |
| `MemberPages` | profile, settings, certificates, public verification, contact form | `pages/` |
| `StudentApp` | composes the five | - |
| `StudentAppProofs` | theorems | - |

### Quizzes and assignments

| module | models | from |
|---|---|---|
| `ModuleQuiz` | the quiz page in several tabs; start, retake with redraw, and submit, one action per statement | `question_banks/`, `ModuleQuizPage.tsx` |
| `AttemptBook` | the abstract specification of ModuleQuiz: papers are sat one after the other, each marked once | - |
| `Assignments` | draft, files, submission, reopening behind the lock of the module; the teacher who publishes the quiz before and changes its pass mark; the review page and its grades | `assignments/`, `gating.py`, `AssignmentPage.tsx`, `TeacherAssignmentReviewPage.tsx` |
| `Gradebook` | the abstract specification of Assignments: open once a mark has been met, store, hand in, grade once | - |
| `Coursework` | composes the two: the scores of the quiz open the assignment | - |
| `QuestionStudio` | question banks, their studio, publication, and the link from a module to a bank | `question_banks/`, `QuestionBankStudioPage.tsx` |
| `QuizApp` | composes `Coursework` and `QuestionStudio` | - |
| `QuizAppProofs` | theorems | - |

An attempt has a `score`, and `passMark` is the mark the quiz asks for now, 0
while the module before has no visible quiz. Nothing remembers a pass:
`MeetsMark` compares the scores with a mark each time, as `module_is_passed`
does, so a teacher who raises the mark locks the module again. A request reads
the mark (`ReadMark`), judges it against the scores of a later statement
(`JudgedOpen`), and writes in a third. `leastMark` is a history variable, the
lowest mark there has been. In `Dashboard` a quiz is `failed` or `passed`
against the mark of the moment, and `RaisesPassMark` and `LowersPassMark` turn
one into the other.

### Staff

| module | models | from |
|---|---|---|
| `ResearchTeam` | application, status changes, reapplication, the pages of both sides | `research_team/`, `pages/research-team/` |
| `CourseEditor` | the course page with its modules (called sections) and lessons, creation, deletion, renumbering, publication | `course_management/`, `CourseManagement.tsx` and its panels |
| `StaffApp` | composes the two | - |
| `StaffAppProofs` | theorems | - |

**Conventions.** In every model of pages a request is a slot of a function
(`calls`, `shopCalls`, ...): its kind, its step in the handler behind it and what
the page will do with the answer. Sending, each statement of the handler, and
the arrival of the answer are actions of their own; a request of a page that was
left goes on but is not heard.

**Compositions.** `StudentApp`, `AccountApp`, `QuizApp` and `StaffApp` put areas
side by side that have routes, requests and rows of their own. A variable (`area`
and its like) is set at the start and never changes: it says in which area the
tab is. The areas share no variable, so interleaving their steps would add
nothing but states; each keeps its own specification, which is a theorem of each
composition (`ApplicationImplementsAreas`, `AccountAppImplementsSides`,
`QuizAppImplementsAreas`). In `Coursework`, where the parts do share state,
they interleave; `studying` says which tabs and graders are used, so that the
instance looks at two tabs on the quiz, two on the assignment, one with two
graders, one with a quiz that is published and whose mark is changed, and one on
each with marks changing; and `studying.marks` are the marks the teacher sets.

The `MC*` modules only add symmetry sets and the sets `Uses`. Operators marked
`FAULT` in the modules are not part of the specification: each is a definition as
a plausible bug would have left it, and serves to show that a property can fail.

## 3. Runs

| run | instance | what it shows |
|---|---|---|
| `billing_race` | 2 requests of 1 shopper, a course and the bundle, 2 purchases | reservations, rollbacks, payments and price changes in any order: a row only moves forward (`RowsMoveForward`) |
| `billing_retry` | 2 workers, 2 messages, 2 receives, batch of 2, 2 prices, fair | a notification answered 200 is recorded, queued or dead-lettered (`AcknowledgedIsKept`); "done" is in the database (`DoneIsRecorded`); HyperPay charges the reserved amount (`SessionMatchesRow`); a charge ends in the log or the DLQ (`ChargeIsAccountedFor`) |
| `billing_refines_entitlement` | 2 purchases, 2 payments, 2 receives | `BillingTypeOK`; a paid row is charged at its price (`PaidIsCharged`); a queued event stays true (`EventsAreTrue`); `OnePaidPerProduct`; Billing implements Entitlement |
| `billing_refund_order` | 2 messages, 2 payments, batch of 2 | **violated:** `RefundRevokes` |
| `student_session` | 3 devices, 5 session ids, 2 orphaned triggers | `SessionTypeOK`; one device passes (`AtMostOneSession`), a superseded one stays out (`SupersededStaysOut`), SingleSession is implemented |
| `video` | 2 lessons, 2 uploads, 1 check, 1 hook, 1 delete, 1 resent commit, 2 receives | `OneUploadWins`, `StatusIsVerified`, `PublishedHadVideo`, `PromisedVideoIsKept`, `InUseIsStored` (until a commit is repeated), `FinishedJobCleaned` |
| `student_app` | 2 lessons, 3 modules of which 1 has no lesson, 1 course and the bundle, 2 orders, 2 notes with a limit of 1, 2 credentials, 2 requests per area | a completed lesson was earned (`CompletionIsEarned`); the video is the routed one (`VideoIsRouted`); a note changes from its own lesson (`NotesStayPut`); a dashboard older than no publication and no raised mark leads to an open module (`NeverStranded`); a congratulation was paid for (`PaidAsShown`); a verdict is of the address (`VerifiedAsRouted`) |
| `account_app` | 2 people, 2 sessions, 2 requests; 2 pathway courses, 2 requests, 1 teacher | a welcome was deserved and a superseded tab says so (`SavedAndTold`); `CertificateTypeOK`, `IssuedWasEarned`, `BundleWasEarned`; Certificates implements Diplomas |
| `relogin` | 2 people, 3 sessions, 2 requests | **violated:** `ReloginReleases` |
| `quiz_app` | 2 tabs, 2 questions of which 1 is served, 2 scores, 2 pass marks, 2 attempts, 2 submissions, 2 graders; 2 banks, 1 module, 2 requests | `OpenAttemptIsBound`, `GradedAsShown`; ModuleQuiz implements AttemptBook; `OneDraft`; no work of a student who never met a mark (`WorkIsUnlocked`); Assignments, behind the quiz, implements Gradebook; a quiz serves as many questions as it announces (`ServesItsCount`) |
| `staff_app` | 1 administrator, 2 applications, 2 sections, 2 lessons, 2 requests per area | `OneOpenApplication`, `LessonsStayFiled` |
| `course_last_module` | 2 sections, 2 lessons, 2 requests | **violated:** `CourseKeepsModule` |

**Bounds.** Every run is exhaustive within its constants. Constants named as sets
of ids, and those called `Max...` or `Last...`, bound how many of each may ever
be created or be under way; `MaxReceiveCount` and `MaxReceives` are the redrive
counts; `MaxOrphans` and `MaxRepeats` bound how often a platform repeats a call.
All hazards listed are between two or three actors: two reservations, a
reservation and a payment, two events of one purchase, two uploads, an upload and
a webhook, two issues of one certificate, an issue and a revocation, two tabs on
one attempt, two deletions, the answer of a request and the next one. Two of each
kind, and a third device to come between two, reach them, and each property is
shown to fail under a fault in the same instance. The dashboard has three modules
so that one lies between a quiz and the way on, and the first has no lesson, so
that a quiz may be all there is to do. One question of two in the quiz
makes two different papers, and a redraw can take either; papers of two questions
out of three give, up to the names of the questions, the same states. Scores 0 and
1 against marks 1 and 2 are enough for a score below every mark, a score that
meets one and not the other, and a mark that is raised above every score or
lowered under one; scores and marks are percents in the code. `QuizAppInit` starts
without a binding where no tab is on the quiz, and with one choice of tabs and one
pass mark in the area of the banks, because none is looked at there. The limit of
notes and the failures that open the circuit are 50 and 10 in the code and 1 in
the instance, where they are reached. Two products are in `billing_race`; one is
enough elsewhere because rows of different products meet only in the ownership
check. A second message in the queue is needed only for batches: events overtake
each other already where HyperPay notifies. The theorems below have no bounds.

**Deadlock.** The billing and session instances never stop. The others may:
uploads and deletes are served once, sign-ins and numbers of attempts,
submissions, applications, orders and notes run out, and a page may have nothing
left to press; their configurations do not look for deadlock.

**Findings.** Three runs show the code doing otherwise than a document says.

* `billing_refund_order`. Refund notifications revoke before their result code
  is looked at, and a revocation of a row that is not paid yet is recorded
  without effect. A refund event that overtakes the payment's event (the queue
  is unordered) is used up, and the payment then grants access for good.
* `relogin`. After a forced sign-out the listener of Cognito's sign-in event
  probes with `bypassSupersedeCheck`, which skips the check of the caller but not
  the same check in `hasSignedInIdToken`. A student who signs in again holds the
  current session, and stays behind the banner as signed out.
* `course_last_module`. The modules of a course are counted in one statement and
  one is deleted by id in another. Two deletions both count two, and leave a
  course without the module that `design.md` says it always keeps.

**Known disagreements without a run.** Met while modelling, and either outside
what the properties claim or allowed by them:

* `purchases/repo.py:483`: two reservations under READ COMMITTED see no pending
  row of each other and both insert one, against the docstring at line 447. At
  most one of the two becomes paid.
* `course_management/rds_repo.py:623`: the status a webhook or a mark-ready has
  verified is that of a video, the UPDATE names a lesson; an upload committed in
  between gets the status of the video it replaced.
* `video_provider_edge/handler.py:707`: a commit that is resent finds the row
  holding its own video, takes that for a conflict, and deletes the video the
  lesson names. `InUseIsStored` holds until then.
* `certificates/service.py:432`: the certificate and the bundle are revoked by two
  commits. If the catalog dies in between, or the bundle is inserted (line 245)
  on certificates read before the revocation looked for it, the bundle stays.
* `assignments/service.py:1072` and `:1208`: a submission of the same draft that
  comes late sets a graded submission back to submitted; and a grade whose
  status update fails leaves a graded submission unmarked, which is then neither
  graded again nor reopened, although `AssignmentPage.tsx:369` promises
  "Unlimited revisions after feedback".
* `LessonPlayerPage.tsx:791`: a checkpoint that is sent after the end of the
  lesson does not look whether it is completed, and `progress/service.py:247`
  and `:303` write what they are told; the later of the two stays.
* `studentDashboard.ts:166`: when every lesson is completed the dashboard offers
  the first one again, and returns before it looks at the quizzes, against the
  comment at line 139 ("first incomplete accessible lesson, else earliest unlocked
  unpassed visible quiz"). That lesson may be in a locked module. The test of
  the branch (`studentDashboard.test.ts:278`) has no quiz in it.
* `CheckoutPage.tsx:808`: the summary shows the product selected now, the widget
  the session of the product selected before.
* `QuestionBankStudioPage.tsx:149`: the check whether a reload is stale compares
  the bank of one closure with itself, and after a change (line 197) the
  generation is read when the request has been answered. The answer of the bank
  before can replace the present one, against `dom.test.tsx:396` ("ignores stale reload results when bankId
  changes during fetch").
* `LessonPlayerTabs.tsx:308`: the notes of the lesson before stay listed, or
  arrive after the present ones; a list that failed reads as "You have not added
  any notes"; a note that is created while its list is on the way is shown twice.
* `course_management/service.py:802`: a deletion that renumbers a list it read
  earlier can change the order of two lessons that were swapped meanwhile. Their
  places stay distinct.
* `CourseManagement.tsx`: saving a transcript sends the title as it was when
  the form was opened, and a requirement that is read late overwrites a toggle.

## 4. Fairness

Only `FairSpec` of `Billing` states fairness, for `ChargeIsAccountedFor`:

* *strong* fairness of `ConfirmWebhook`: HyperPay repeats a notification until
  it is answered 200 and the SendMessage behind it may fail any number of
  times, but not for ever when the queue keeps having room;
* *weak* fairness of receiving, processing and returning a batch by each
  worker, and of the redrive: the event source mapping keeps polling, and an
  invocation ends by its timeout at the latest. No fairness keeps a worker from
  dying or the database from failing: that is what the DLQ is for.

Shoppers, teachers, refunds and the clock owe nothing. All other properties are
safety properties and need no fairness.
## 5. What is proved

All theorems hold for every value of the constants that satisfies the named
assumptions of the modules (`TableAssumption`, `FulfillmentAssumption`,
`SessionAssumption`, `VideoAssumption`, `CertificatesAssumption`,
`AccountAssumption`, `QuizAssumption`, ...), and TLC evaluates these in every run.
Every safety property of every passing run is the conclusion of a theorem, and
so are the five refinements. Each proof has the same outline: an invariant that
types and the facts below make inductive, one lemma per group of actions, and a
last step in temporal logic. A composition is shown to implement each of its
areas, and inherits their theorems (`ApplicationIsSafe`, `AccountAppIsSafe`,
`QuizAppIsSafe`, `StaffAppIsSafe`: these are about the very specifications TLC
runs).

**Billing** (`BillingProofs`). `TypeCorrect` is inductive as it stands, for
`Informed` says what a request knows in each phase. `LocksAlwaysHold` follows
from types: no statement touches a row in `LockedRows`. `RowsAlwaysMoveForward`
is an action property of the same invariant: a row changes status in exactly
the steps of `TableStep`, each of which knows the old status. From there:

* `PaidOncePerProduct`: only `SettlePaid` makes a row paid, under
  `UniquePaidAllows`;
* `EventsStayTrue`: an event is true when it is queued (`EventOfIsTrue`), and
  charges and refunds are never undone (`ChargesStand`); this is what makes
  `PaidRowsAreCharged` inductive, since a row may become paid long after;
* `DoneAlwaysRecorded`, then `AcknowledgedNeverLost`: a message leaves the
  queue only when its outcome is "done", and then its event is recorded;
* `PriceStands` needs `SessionInv`: the amount a request carries between
  reservation and checkout is the amount in its row, and a purchase id is
  inserted once.

**Refinement** (`BillingRefinement`). `BillingImplementsEntitlement`: charged
and refunded purchases are read off HyperPay's payments, grants are the paid
rows, revoked the revoked rows. Initial states map to the initial state; a
checkout step is a stutter, a gateway step is `Charge`, `AskRefund` or a
stutter, a fulfillment step is `GrantPurchase`, `RevokeGrant` or a stutter,
under the conjunction of the invariants above.

**Student session** (`StudentSessionProofs`). `IInv` adds to the types that a
session id is carried by one trigger run or one device's flow at most
(`CarriedOnce`), that ids in use have been issued (`UsedIsIssued`), and that a
flow holds what its device was given (`FlowsAreHonest`). From it
`OneSessionAtMost`, `SupersededNeverReturns` and `SessionImplementsSingle`:
the heirs are the devices that hold, or may yet be given, the active id.

**Lesson video** (`LessonVideoProofs`), in three layers.

* `KeyInv`: a row's key was attached and belongs to an upload of that lesson; a
  key that was swapped out never returns (`ReplacedIsGone`), because a key is
  attached once per expected key. Hence `OneUploadAlwaysWins`, resent commits
  included.
* `StatusInv`: whatever a check, a hook or the publisher has read is still true
  when it is used, because nothing is detached from history and no outcome of a
  video changes (`KnowledgeStays`). Hence `StatusAlwaysVerified` and
  `PublishedAlwaysHadVideo`. That the status is that of the *present* video does
  not follow, and is not so (see the known disagreements).
* `CleanupInv`: the keys of a delete under way belong to lessons it deletes, a
  job only exists after the rows are gone, and a row that is gone stays gone
  (`GoneForGood`). Hence `PromisedVideoAlwaysKept`, `FinishedJobAlwaysCleaned`
  and, if no commit is ever resent (`MaxRepeats = 0`), `InUseAlwaysStored`: the
  hypothesis is needed (see the known disagreements).

**Account and certificates** (`AccountAppProofs`).

* `AlwaysSavedAndTold` needs to know what the requests under way are good for
  (`BackedBy`): a confirmation or an entry names a person who asked, the entry
  of a newcomer a confirmed account, an answered profile update a stored
  profile. The servers only learn, so a request stays backed while it waits, and
  every way through `Notifies` ends with both the flag and the banner set.
* `NeverEverReissued` follows from the types: the one statement that makes a row
  valid respects the unique constraint. `IssuedAlwaysEarned` and
  `BundleAlwaysEarned` need `RequestsKnow`: what a request has read may no longer
  be so, but it was (`HistoryStands`).
* `CertificatesImplementDiplomas` adds `RevokersKnow`: a teacher who goes on to
  the bundle has brought down a pathway certificate, and it stays down. A change
  of facts is `Earn`, a deletion `Drop`, the insert `Issue`, the updates `Revoke`
  and `RevokeBundle`, and all else a stutter.

**The student's pages** (`StudentAppProofs`).

* `WatchInv`: an update that will complete a lesson was earned when it was sent
  (`CallsAreEarned`); only the open lesson is being loaded, and only it may be
  playing (`LoadsAreRouted`); a page that knows its session is gone plays nothing
  (`NoticedIsLocked`). Hence `CompletionAlwaysEarned` and `VideoAlwaysRouted`.
* `NotesInv`: a change that passed its check is of a note of its own lesson
  (`ChecksStand`), because a row never changes its lesson. Hence
  `NotesAlwaysStayPut`, although the list on the screen may be another lesson's.
* `MemberInv`: questions and verdicts are of the routed credential. Hence
  `AlwaysVerifiedAsRouted`.
* `ShopInv`: a number kept with a product is that of a purchase of it
  (`PurchasesAreKept`), and an answer that says paid is true for good
  (`AnswersAreTrue`). Hence `AlwaysPaidAsShown`.
* `DashboardInv`: what was read of lessons, quizzes and locks agrees unless the
  teacher closed a module between the reads, by publishing a quiz or raising a
  pass mark (`ReadsAgree`). A module that was read as open is then open still,
  and a quiz that locks a module was among those read to be passed. Hence
  `DashboardNeverStranded` for any number of modules, with lessons and without.
  The first lesson, offered again at the end, may be in a locked module, and the
  theorem does not say otherwise.

**Quizzes and assignments** (`QuizAppProofs`).

* `QuizInv`: attempts are numbered without a gap and have a binding
  (`AttemptsAreNumbered`); what a request has read and what a tab shows is still
  good where it will be used (`CallsAreRead`, `TabsAreRead`). Hence
  `OpenAttemptAlwaysBound`, `AlwaysGradedAsShown` and `SubmittedAlwaysStands`.
* `CourseworkImplementsAttemptBook`: the papers are the questions of the attempts
  there are, the marks the outcomes of those submitted. `InsertAttempt` is `Sit`,
  which needs that the inserted number follows the last one and that the last one
  is marked; `Grade` is `Mark`, which needs that the request still stands before
  an open attempt; redraws touch the binding only while nothing is open.
* `WorkInv`: the submissions that requests and pages name exist
  (`SubmissionsAreMade`), no mark a request has read is lower than the least there has
  been (`LeastIsLeast`), and scores are never taken back (`MarkStaysMet`), so a
  request about to insert a draft is of a student who has met that least mark
  (`DraftsAreUnlocked`). Hence `AlwaysOneDraft`, `WorkAlwaysUnlocked` and
  `GradeAlwaysStands`. `WorkAlwaysUnlocked` cannot say more: the mark may be
  raised before the draft, the file or the submission is written. Not even "the
  module was open at some moment" holds, for a mark that was raised between the
  read of the mark and that of the scores lets in a score that came too late for
  it.
* `CourseworkImplementsGradebook` adds `DeskInv`: submissions are numbered without a
  gap, and one that is not made has no files (`RowsAreNumbered`); a request about to
  submit has found a file in store (`FilesAreStored`), one about to grade has read
  what was handed in (`GradersHaveRead`), and none of this is ever undone
  (`DeskGrows`). `InsertDraft` is `Open`, the first `MarkReady` of a submission
  `Store`, `SubmitWork` `HandIn`, `InsertGrade` `Grade`, and the attempt
  that first meets the least mark, or the mark lowered to a score there is, `Unlock`. A late `SubmitWork` or `MarkGraded` changes the status of what is handed
  in, and is a stutter: the status may go back (section 3), the grade does not.
* `StudioInv`: what a request has counted or locked is still true where it writes
  (`RequestIsTrue`), because publications of one bank exclude each other
  (`RequestsExclude`). Hence `QuizAlwaysServesItsCount`.

**Staff** (`StaffAppProofs`). `OneAlwaysOpen` rests on the two unique indexes, which
every write respects. `EditorInv` says that the numbering a deletion holds gives no
two lessons of a module the same place, and none to a lesson made after it was
computed (`PlacesFit`); with the lessons it does not move, the unique index
decides. Hence `LessonsAlwaysFiled`.

## 6. What is only model-checked

`ChargeIsAccountedFor`: liveness under fairness is out of this prover's reach, as
are ENABLED and induction over data. And the three violations, which are found
by TLC on one instance. No module declares a RECURSIVE operator.

## 7. What is not modelled, and why

* *Billing:* the legacy checkout path that binds a cart to a user; requests and
  events of another deployment environment; the retention time of SQS; a
  message the queue delivers twice at once (a second delivery of the event is
  modelled by a second notification). Of HyperPay it is assumed that a checkout
  has one payment open or successful at a time, and a charge one refund that is
  not declined.
* *Student session and account:* signatures and expiry of tokens (a token only
  disappears earlier), several tabs that share Amplify's storage, other triggers
  of Cognito.
* *Lesson video:* thumbnails and lesson files in S3, durations, the DRM callback,
  webhook statuses other than done, error and aborted (they change nothing).
* *Certificates:* credential ids, names and dates; renamed titles, and titles
  that two courses share. Whether a student meets the requirements of a course is
  one fact here; `bootstrap.py:739-829` puts it together from several statements.
* *Student's pages:* positions in a video but for before half, after half and the
  end; bodies of notes; prices; the fields of a profile beyond the name; more
  than one owned course on the dashboard.
* *Locks:* modules that are moved, added or deleted while they are read, and more
  quizzes than one before an assignment. Visibility and pass marks are two
  statements of a lock's read and one step here, and so are the scores, which only
  grow, and the rows behind them. In `Dashboard` the handlers of the other tabs are
  one step each.
* *Quizzes and assignments:* the verdict that the result page derives from score
  and mark, texts and choices, points and rubrics beyond passed
  or failed, downloads, mail, the creation of assignments, the teacher's lists.
* *Staff:* mail, the requirement flag of a course, the list of courses.
* *Enrollment* is one idempotent insert. *Rate limit* is one statement; what can go
  wrong is the disagreement of two clocks. The *token authorizer* decides on a
  token alone. *Pre sign-up, mail sender and worker, contact queue and deployment
  tools* are I/O without state of their own. Landing, legal and catalog pages,
  themes and styling hold no state that others depend on.

## 8. Plan

Done: all modules above, the refinements of `Entitlement`, `SingleSession`,
`AttemptBook`, `Gradebook` and `Diplomas`, and a theorem for every safety property. What is left:

1. an abstract specification of an application to the research team, with its
   refinement;
2. type theorems of the assignment, the research team and the course editor in
   their own right (`EditorTypes` is proved as part of `EditorInv`, with places
   unbounded);
3. that `Account` implements what `StudentSession` promises of a single browser;
4. that the quiz and the assignment only change `passed` of `Certificates` the way
   its environment may.
