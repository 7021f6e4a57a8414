---------------------------- MODULE Certificates ----------------------------
(***************************************************************************)
(* The certificates of one student: a row per course, and one row for the  *)
(* bundle of all pathway courses.  Rows are issued by requests of the      *)
(* student (a quiz passed, a submission graded, the certificates page) and *)
(* revoked by teachers.  Every read and every write is a statement of its  *)
(* own, so requests, teachers and what they read about all interleave.     *)
(*                                                                         *)
(* Certificates snapshot the title of their course; a pathway title is     *)
(* taken to belong to one course.                                          *)
(***************************************************************************)
EXTENDS Naturals, FiniteSets

CONSTANTS
  Courses,      \* course ids
  Pathway,      \* the courses with a PATHWAY_COURSE_TITLES title
  Requests,     \* requests of the student that may be under way at once
  Teachers,     \* revocations that may be under way at once
  NoCourse

ASSUME CertificatesAssumption ==
  /\ Pathway \subseteq Courses
  /\ NoCourse \notin Courses

VARIABLES
  entitled,     \* certificate entitlement to each course
  passed,       \* whether every requirement of the course is met
  exists,       \* the courses that have not been deleted
  cert,         \* certificates; "dropped" with their course
  bundle,       \* bundle_certificates
  request,      \* requests of the student
  revoker       \* revocations under way

vars == <<entitled, passed, exists, cert, bundle, request, revoker>>

\* A fact that changes: never true so far, true, or true no longer.
Fact == {"never", "yes", "lost"}

RequestState ==
  [pc : {"idle", "next", "existing", "entitled", "passed", "insert", "select", "mint"},
   course : Courses \cup {NoCourse}, todo : SUBSET Courses, page : BOOLEAN]

RevokerState == [pc : {"idle", "cert", "bundle"}, course : Courses \cup {NoCourse}]

\* A row refers to a course that exists.
CertificateTypeOK ==
  /\ entitled \in [Courses -> Fact]
  /\ passed \in [Courses -> Fact]
  /\ exists \subseteq Courses
  /\ cert \in [Courses -> {"none", "valid", "revoked", "dropped"}]
  /\ \A c \in Courses : cert[c] \in {"valid", "revoked"} => c \in exists
  /\ bundle \in {"none", "valid", "revoked"}
  /\ request \in [Requests -> RequestState]
  /\ \A r \in Requests :
       request[r].pc \in {"existing", "entitled", "passed", "insert"} =>
         request[r].course \in Courses
  /\ revoker \in [Teachers -> RevokerState]
  /\ \A t \in Teachers : revoker[t].pc # "idle" => revoker[t].course \in Courses

NoRequest == [pc |-> "idle", course |-> NoCourse, todo |-> {}, page |-> FALSE]
NoRevoker == [pc |-> "idle", course |-> NoCourse]

Init ==
  /\ entitled = [c \in Courses |-> "never"]
  /\ passed = [c \in Courses |-> "never"]
  /\ exists = Courses
  /\ cert = [c \in Courses |-> "none"]
  /\ bundle = "none"
  /\ request = [r \in Requests |-> NoRequest]
  /\ revoker = [t \in Teachers |-> NoRevoker]

Facts == <<entitled, passed, exists>>

Entitled == {c \in exists : entitled[c] = "yes"}

RequestAt(r, pc) == request' = [request EXCEPT ![r].pc = pc]

EndRequest(r) == request' = [request EXCEPT ![r] = NoRequest]

\* try_issue has returned: on to the next course, if there is one.
NextCourse(r) ==
  request' = [request EXCEPT ![r].pc = "next", ![r].course = NoCourse]

-----------------------------------------------------------------------------
(* What certificates depend on *)

\* A purchase or a refund; a bundle's course published or unpublished.
ChangeEntitlement(c) ==
  /\ c \in exists
  /\ entitled' = [entitled EXCEPT ![c] = IF @ = "yes" THEN "lost" ELSE "yes"]
  /\ UNCHANGED <<passed, exists, cert, bundle, request, revoker>>

\* A pass or a grade, or a teacher who adds, removes or changes a requirement.
ChangeRequirements(c) ==
  /\ c \in exists
  /\ passed' = [passed EXCEPT ![c] = IF @ = "yes" THEN "lost" ELSE "yes"]
  /\ UNCHANGED <<entitled, exists, cert, bundle, request, revoker>>

\* FAULT: the rows of a deleted course stay.
DeleteCourseOnly(c) ==
  /\ c \in exists
  /\ exists' = exists \ {c}
  /\ UNCHANGED <<entitled, passed, cert, bundle, request, revoker>>

\* The certificates of a course go with it (ON DELETE CASCADE).
DeleteCourse(c) ==
  /\ c \in exists
  /\ exists' = exists \ {c}
  /\ cert' = [cert EXCEPT ![c] = IF @ = "none" THEN @ ELSE "dropped"]
  /\ UNCHANGED <<entitled, passed, bundle, request, revoker>>

-----------------------------------------------------------------------------
(* try_issue, one action per statement *)

\* After a quiz or a submission was passed.
StartHook(r, c) ==
  /\ request[r].pc = "idle"
  /\ c \in exists
  /\ request' = [request EXCEPT ![r] = [NoRequest EXCEPT !.pc = "next", !.todo = {c}]]
  /\ UNCHANGED <<Facts, cert, bundle, revoker>>

\* GET /me/certificates goes on to the bundle; a profile with a name does not.
StartAll(r, page) ==
  /\ request[r].pc = "idle"
  /\ request' = [request EXCEPT ![r] = [NoRequest EXCEPT !.pc = "next", !.todo = Entitled,
                                                         !.page = page]]
  /\ UNCHANGED <<Facts, cert, bundle, revoker>>

PickCourse(r, c) ==
  /\ request[r].pc = "next"
  /\ c \in request[r].todo
  /\ request' = [request EXCEPT ![r].pc = "existing", ![r].course = c,
                               ![r].todo = @ \ {c}]
  /\ UNCHANGED <<Facts, cert, bundle, revoker>>

HasRow(c) == cert[c] \in {"valid", "revoked"}

GetExisting(r) ==
  /\ request[r].pc = "existing"
  /\ IF HasRow(request[r].course) THEN NextCourse(r) ELSE RequestAt(r, "entitled")
  /\ UNCHANGED <<Facts, cert, bundle, revoker>>

\* FAULT: try_issue leaves this check to its callers.
TrustList(r) ==
  /\ request[r].pc = "entitled"
  /\ RequestAt(r, "passed")
  /\ UNCHANGED <<Facts, cert, bundle, revoker>>

CheckEntitled(r) ==
  /\ request[r].pc = "entitled"
  /\ IF request[r].course \in Entitled THEN RequestAt(r, "passed") ELSE NextCourse(r)
  /\ UNCHANGED <<Facts, cert, bundle, revoker>>

\* The requirements, then the profile: a blank name ends the attempt as well.
CheckPassed(r) ==
  /\ request[r].pc = "passed"
  /\ \/ passed[request[r].course] = "yes" /\ RequestAt(r, "insert")
     \/ NextCourse(r)
  /\ UNCHANGED <<Facts, cert, bundle, revoker>>

\* FAULT: ON CONFLICT DO UPDATE.
InsertOrReplace(r) ==
  /\ request[r].pc = "insert"
  /\ request[r].course \in exists
  /\ cert' = [cert EXCEPT ![request[r].course] = "valid"]
  /\ NextCourse(r)
  /\ UNCHANGED <<Facts, bundle, revoker>>

\* A row that came first is returned, whatever its status.
InsertCertificate(r) ==
  /\ request[r].pc = "insert"
  /\ request[r].course \in exists
  /\ cert' = [cert EXCEPT ![request[r].course] = IF @ = "none" THEN "valid" ELSE @]
  /\ NextCourse(r)
  /\ UNCHANGED <<Facts, bundle, revoker>>

\* No course left, a reference to a course that is gone, or any failure.
GiveUp(r) ==
  /\ request[r].pc # "idle"
  /\ EndRequest(r)
  /\ UNCHANGED <<Facts, cert, bundle, revoker>>

-----------------------------------------------------------------------------
(* _try_issue_bundle *)

GetBundle(r) ==
  /\ request[r].pc = "next"
  /\ request[r].todo = {}
  /\ request[r].page
  /\ bundle = "none"
  /\ RequestAt(r, "select")
  /\ UNCHANGED <<Facts, cert, bundle, revoker>>

\* FAULT: one pathway certificate is enough.
SelectAny(r) ==
  /\ request[r].pc = "select"
  /\ \E c \in Pathway : cert[c] = "valid"
  /\ RequestAt(r, "mint")
  /\ UNCHANGED <<Facts, cert, bundle, revoker>>

SelectPathway(r) ==
  /\ request[r].pc = "select"
  /\ \A c \in Pathway : cert[c] = "valid"
  /\ RequestAt(r, "mint")
  /\ UNCHANGED <<Facts, cert, bundle, revoker>>

MintBundle(r) ==
  /\ request[r].pc = "mint"
  /\ bundle' = IF bundle = "none" THEN "valid" ELSE bundle
  /\ EndRequest(r)
  /\ UNCHANGED <<Facts, cert, revoker>>

-----------------------------------------------------------------------------
(* revoke *)

StartRevoke(t, c) ==
  /\ revoker[t].pc = "idle"
  /\ cert[c] = "valid"
  /\ revoker' = [revoker EXCEPT ![t] = [pc |-> "cert", course |-> c]]
  /\ UNCHANGED <<Facts, cert, bundle, request>>

\* The UPDATE names the row alone, whatever its status.
RevokeCertificate(t) ==
  LET c == revoker[t].course IN
  /\ revoker[t].pc = "cert"
  /\ HasRow(c)
  /\ cert' = [cert EXCEPT ![c] = "revoked"]
  /\ revoker' = [revoker EXCEPT ![t] = IF c \in Pathway THEN [@ EXCEPT !.pc = "bundle"]
                                       ELSE NoRevoker]
  /\ UNCHANGED <<Facts, bundle, request>>

RevokeBundle(t) ==
  /\ revoker[t].pc = "bundle"
  /\ bundle' = IF bundle = "valid" THEN "revoked" ELSE bundle
  /\ revoker' = [revoker EXCEPT ![t] = NoRevoker]
  /\ UNCHANGED <<Facts, cert, request>>

\* The row is gone with its course, or the catalog dies.
LoseRevoke(t) ==
  /\ revoker[t].pc # "idle"
  /\ revoker' = [revoker EXCEPT ![t] = NoRevoker]
  /\ UNCHANGED <<Facts, cert, bundle, request>>

-----------------------------------------------------------------------------
FactStep(c) ==
  \/ ChangeEntitlement(c)
  \/ ChangeRequirements(c)
  \/ DeleteCourse(c)

RequestStep(r) ==
  \/ \E c \in Courses : StartHook(r, c)
  \/ \E page \in BOOLEAN : StartAll(r, page)
  \/ \E c \in Courses : PickCourse(r, c)
  \/ GetExisting(r)
  \/ CheckEntitled(r)
  \/ CheckPassed(r)
  \/ InsertCertificate(r)
  \/ GiveUp(r)
  \/ GetBundle(r)
  \/ SelectPathway(r)
  \/ MintBundle(r)

RevokeStep(t) ==
  \/ \E c \in Courses : StartRevoke(t, c)
  \/ RevokeCertificate(t)
  \/ RevokeBundle(t)
  \/ LoseRevoke(t)

Next ==
  \/ \E c \in Courses : FactStep(c)
  \/ \E r \in Requests : RequestStep(r)
  \/ \E t \in Teachers : RevokeStep(t)

Spec == Init /\ [][Next]_vars

-----------------------------------------------------------------------------
(* Properties *)

\* A certificate is issued once and never again: what was revoked, or went with
\* its course, does not come back, whichever requests were under way when it
\* did; and the same of the bundle (the unique constraints of 021 and 025).
CertificateMoves ==
  /\ \A c \in Courses :
       cert'[c] # cert[c] => <<cert[c], cert'[c]>> \in
         {<<"none", "valid">>, <<"valid", "revoked">>, <<"valid", "dropped">>,
          <<"revoked", "dropped">>}
  /\ bundle' # bundle => <<bundle, bundle'>> \in {<<"none", "valid">>, <<"valid", "revoked">>}

NeverReissued == [][CertificateMoves]_vars

\* Nobody holds a certificate of a course they were never entitled to, or
\* whose requirements they never met.
IssuedWasEarned ==
  \A c \in Courses : cert[c] # "none" => entitled[c] # "never" /\ passed[c] # "never"

\* Nobody holds the bundle who did not get the certificate of every pathway
\* course, though some may be revoked by now.
BundleWasEarned ==
  bundle # "none" => \A c \in Pathway : cert[c] # "none"

\* What requests and teachers do statement by statement, on what they read before,
\* comes to certificates that are earned, issued, revoked and dropped at once.
Earned == {c \in Courses : entitled[c] # "never" /\ passed[c] # "never"}

Diploma == INSTANCE Diplomas WITH earned <- Earned, held <- cert

ImplementsDiplomas == Diploma!Spec

=============================================================================
