----------------------------- MODULE QuizAppProofs -----------------------------
(***************************************************************************)
(* Proofs about QuizApp, for any tabs, questions, attempts, submissions,   *)
(* people who grade, banks and requests under way: the inductive invariant *)
(* of the quiz, of the assignment behind it and of the question banks.     *)
(***************************************************************************)
EXTENDS QuizApp, FiniteSetTheorems, WellFoundedInduction, TLAPS

-----------------------------------------------------------------------------
(* Numbers *)

\* A set of numbers that is not empty has a least one.
LEMMA LeastNumber == ASSUME NEW S \in SUBSET Nat, S # {}
                     PROVE  \E n \in S : \A m \in S : n <= m
<1>. DEFINE Less == OpToRel(<, Nat)
<1>1. \A x, y \in Nat : <<x, y>> \in Less <=> x < y
  BY DEF OpToRel
<1>2. IsWellFoundedOn(Less, Nat)
  BY NatLessThanWellFounded
<1>. HIDE DEF Less
<1>3. PICK n \in S : \A m \in S : ~ (<<m, n>> \in Less)
  BY <1>2, WFMin
<1>4. ASSUME NEW m \in S PROVE n <= m
  <2>1. ~ (m < n)
    BY <1>1, <1>3
  <2>. QED
    BY <2>1
<1>. QED
  BY <1>4

\* LastOf finds the last of some numbers up to a bound.
LEMMA LastOfIsLast ==
  ASSUME NEW N \in Nat, NEW S \in SUBSET (1 .. N), S # {}
  PROVE  LastOf(S) \in S /\ \A m \in S : m <= LastOf(S)
<1>. DEFINE Turned == {N - m : m \in S}
<1>0. \A m \in S : m \in Int /\ m <= N /\ N - m \in Nat
  OBVIOUS
<1>1. Turned \in SUBSET Nat /\ Turned # {}
  BY <1>0
<1>2. PICK k \in Turned : \A j \in Turned : k <= j
  BY <1>1, LeastNumber
<1>3. PICK n \in S : k = N - n
  BY <1>2
<1>4. ASSUME NEW m \in S PROVE m <= n
  <2>1. N - n <= N - m
    BY <1>2, <1>3
  <2>. QED
    BY <1>0, <2>1
<1>. QED
  BY <1>4 DEF LastOf

-----------------------------------------------------------------------------
(* The quiz *)

\* The phases in which the request knows an attempt that exists.
Knowing == {"reload", "serve", "attempt", "compare", "grade", "results"}

QuizTypes ==
  /\ binding \in Draws \cup {{}}
  /\ attempts \in [Numbers -> Attempt]
  /\ quizCall \in [QuizTabs -> QuizCall]
  /\ quizTab \in [QuizTabs -> QuizTab]
  /\ \A n \in Taken : attempts[n].questions \in Draws

\* The attempts are numbered without a gap, and there is none without a binding.
AttemptsAreNumbered ==
  /\ \A n \in Taken : \A m \in 1 .. (n - 1) : m \in Taken
  /\ binding = {} => Taken = {}

\* What a request has read: a binding that is still there if no attempt was made
\* of it, the number after one that is taken, an attempt that exists.
CallsAreRead == \A t \in QuizTabs :
  /\ quizCall[t].pc \in {"open", "latest", "insert"} /\ Taken = {} =>
       binding # {} /\ quizCall[t].bound = binding
  /\ quizCall[t].pc = "insert" => quizCall[t].number = 1
  /\ quizCall[t].pc = "redraw" => quizCall[t].number - 1 \in Taken
  /\ quizCall[t].pc \in Knowing => quizCall[t].number \in Taken
  /\ quizCall[t].pc = "results" => attempts[quizCall[t].number].status = "submitted"

\* A page shows an attempt that exists.
TabsAreRead == \A t \in QuizTabs :
  /\ quizTab[t].view \in {"taking", "results"} => quizTab[t].number \in Taken
  /\ quizTab[t].dialog = "modal" => quizTab[t].view = "taking"

QuizInv == /\ QuizTypes /\ AttemptsAreNumbered /\ CallsAreRead /\ TabsAreRead
           /\ OpenAttemptIsBound /\ GradedAsShown

LEMMA DrawsAreSome == \A d \in Draws : d # {} /\ d \in SUBSET Questions
BY QuizAssumption, FS_EmptySet DEF Draws

LEMMA QuizInitInv == QuizInit => QuizInv
BY QuizAssumption
DEF QuizInit, QuizInv, QuizTypes, AttemptsAreNumbered, CallsAreRead, TabsAreRead, OpenAttemptIsBound,
    GradedAsShown, Taken, OpenNumbers, NoAttempt, Attempt, NoQuizCall, QuizCall, QuizPhase, AwayTab,
    QuizTab, Numbers, Knowing

\* The rows stay: only what one request has read and its page show must be seen to.
LEMMA QuizRowsStay ==
  ASSUME QuizInv, NEW t \in QuizTabs, NEW call \in QuizCall, NEW tab \in QuizTab,
         quizCall' = [quizCall EXCEPT ![t] = call], quizTab' = [quizTab EXCEPT ![t] = tab],
         UNCHANGED <<binding, attempts>>,
         call.pc \in {"open", "latest", "insert"} /\ Taken = {} => binding # {} /\ call.bound = binding,
         call.pc = "insert" => call.number = 1,
         call.pc = "redraw" => call.number - 1 \in Taken,
         call.pc \in Knowing => call.number \in Taken,
         call.pc = "results" => attempts[call.number].status = "submitted",
         tab.view \in {"taking", "results"} => tab.number \in Taken,
         tab.dialog = "modal" => tab.view = "taking",
         tab.view = "taking" => tab.shown = attempts[tab.number].questions,
         tab.view = "results" => /\ attempts[tab.number].status = "submitted"
                                 /\ tab.score = attempts[tab.number].score
  PROVE  QuizInv'
<1>1. /\ quizCall' \in [QuizTabs -> QuizCall] /\ quizTab' \in [QuizTabs -> QuizTab]
      /\ \A u \in QuizTabs : /\ quizCall'[u] = IF u = t THEN call ELSE quizCall[u]
                             /\ quizTab'[u] = IF u = t THEN tab ELSE quizTab[u]
  BY DEF QuizInv, QuizTypes
<1>2. Taken' = Taken /\ OpenNumbers' = OpenNumbers
  BY DEF Taken, OpenNumbers
<1>3. QuizTypes' /\ AttemptsAreNumbered' /\ OpenAttemptIsBound'
  BY <1>1, <1>2 DEF QuizInv, QuizTypes, AttemptsAreNumbered, OpenAttemptIsBound
<1>4. CallsAreRead'
  BY <1>1, <1>2 DEF QuizInv, CallsAreRead
<1>5. TabsAreRead'
  BY <1>1, <1>2 DEF QuizInv, TabsAreRead
<1>6. GradedAsShown'
  BY <1>1 DEF QuizInv, GradedAsShown
<1>. QED
  BY <1>3, <1>4, <1>5, <1>6 DEF QuizInv

\* An attempt is opened under a number that admits it, with the binding's questions.
LEMMA AttemptOpens ==
  ASSUME QuizInv, NEW t \in QuizTabs, NEW call \in QuizCall, NEW n \in Numbers, NEW d \in Draws,
         quizCall' = [quizCall EXCEPT ![t] = call], quizTab' = quizTab,
         attempts[n].status = "none", OpenNumbers = {}, n - 1 \in Taken \cup {0},
         attempts' = [attempts EXCEPT ![n] = Opened(d)], binding' = d,
         call.pc \in {"binding", "reload", "serve"}, call.pc # "binding" => call.number = n
  PROVE  QuizInv'
<1>. USE QuizAssumption
<1>1. /\ quizCall' \in [QuizTabs -> QuizCall]
      /\ \A u \in QuizTabs : quizCall'[u] = IF u = t THEN call ELSE quizCall[u]
  BY DEF QuizInv, QuizTypes
<1>2. Opened(d) \in Attempt /\ Opened(d).status = "in_progress" /\ Opened(d).questions = d
  BY DrawsAreSome DEF Opened, Attempt
<1>3. /\ attempts' \in [Numbers -> Attempt]
      /\ \A m \in Numbers : attempts'[m] = IF m = n THEN Opened(d) ELSE attempts[m]
  BY <1>2 DEF QuizInv, QuizTypes
<1>4. n \notin Taken /\ Taken' = Taken \cup {n} /\ OpenNumbers' = {n}
  BY <1>2, <1>3 DEF Taken, OpenNumbers
<1>5. \A m \in Taken : m < n
  BY <1>4 DEF QuizInv, AttemptsAreNumbered, Taken, Numbers
<1>6. \A m \in 1 .. (n - 1) : m \in Taken
  BY DEF QuizInv, AttemptsAreNumbered, Taken, Numbers
<1>7. QuizTypes'
  BY <1>1, <1>2, <1>3, <1>4 DEF QuizInv, QuizTypes, Taken
<1>8. AttemptsAreNumbered'
  <2>1. ASSUME NEW k \in Taken', NEW m \in 1 .. (k - 1) PROVE m \in Taken'
    BY <1>4, <1>6, <2>1 DEF QuizInv, AttemptsAreNumbered
  <2>. QED
    BY <2>1, DrawsAreSome DEF AttemptsAreNumbered
<1>9. OpenAttemptIsBound'
  <2>1. attempts'[n].questions = d
    BY <1>2, <1>3
  <2>2. \A m \in Taken \cup {n} : m <= n
    BY <1>5 DEF Taken, Numbers
  <2>. QED
    BY <1>4, <2>1, <2>2 DEF OpenAttemptIsBound
<1>10. CallsAreRead'
  <2>1. \A m \in Taken : attempts'[m] = attempts[m] /\ m \in Taken'
    BY <1>3, <1>4 DEF Taken
  <2>. QED
    BY <1>1, <1>4, <2>1 DEF QuizInv, CallsAreRead, Knowing
<1>11. TabsAreRead' /\ GradedAsShown'
  <2>1. \A m \in Taken : attempts'[m] = attempts[m] /\ m \in Taken'
    BY <1>3, <1>4 DEF Taken
  <2>. QED
    BY <2>1 DEF QuizInv, TabsAreRead, GradedAsShown
<1>. QED
  BY <1>7, <1>8, <1>9, <1>10, <1>11 DEF QuizInv

\* An attempt that exists is submitted.
LEMMA AttemptIsGraded ==
  ASSUME QuizInv, NEW t \in QuizTabs, Grade(t)
  PROVE  QuizInv'
<1>. USE QuizAssumption
<1>. DEFINE n == quizCall[t].number
            call == [quizCall[t] EXCEPT !.pc = "results"]
<1>1. n \in Taken /\ n \in Numbers /\ attempts[n].status # "submitted"
  BY DEF Grade, QuizAt, NotSubmitted, QuizInv, CallsAreRead, Knowing, Taken
<1>2. PICK score \in Scores :
        attempts' = [attempts EXCEPT ![n].status = "submitted", ![n].score = score]
  BY DEF Grade
<1>3. /\ attempts' \in [Numbers -> Attempt]
      /\ attempts'[n].status = "submitted" /\ attempts'[n].questions = attempts[n].questions
      /\ \A m \in Numbers : m # n => attempts'[m] = attempts[m]
  BY <1>1, <1>2 DEF QuizInv, QuizTypes, Attempt
<1>4. Taken' = Taken /\ OpenNumbers' \subseteq OpenNumbers
  BY <1>1, <1>3 DEF Taken, OpenNumbers
<1>5. /\ quizCall' = [quizCall EXCEPT ![t] = call] /\ quizTab' = quizTab /\ binding' = binding
  BY DEF Grade, QuizGoto
<1>6. call \in QuizCall /\ call.pc = "results" /\ call.number = n
  BY DEF QuizInv, QuizTypes, QuizCall, QuizPhase
<1>. HIDE DEF call
<1>7. /\ quizCall' \in [QuizTabs -> QuizCall]
      /\ \A u \in QuizTabs : quizCall'[u] = IF u = t THEN call ELSE quizCall[u]
  BY <1>5, <1>6 DEF QuizInv, QuizTypes
<1>8. \A m \in Numbers : /\ attempts'[m].questions = attempts[m].questions
                         /\ attempts[m].status = "submitted" => attempts'[m] = attempts[m]
  BY <1>1, <1>3
<1>9. Taken \subseteq Numbers /\ OpenNumbers \subseteq Numbers
  BY DEF Taken, OpenNumbers
<1>10. QuizTypes'
  BY <1>3, <1>4, <1>5, <1>7, <1>8, <1>9 DEF QuizInv, QuizTypes
<1>11. AttemptsAreNumbered' /\ OpenAttemptIsBound'
  BY <1>4, <1>5, <1>8, <1>9 DEF QuizInv, AttemptsAreNumbered, OpenAttemptIsBound
<1>12. CallsAreRead'
  BY <1>1, <1>3, <1>4, <1>5, <1>6, <1>7, <1>8, <1>9 DEF QuizInv, CallsAreRead, Knowing
<1>13. TabsAreRead' /\ GradedAsShown'
  BY <1>4, <1>5, <1>8, <1>9 DEF QuizInv, TabsAreRead, GradedAsShown
<1>. QED
  BY <1>10, <1>11, <1>12, <1>13 DEF QuizInv

\* A page that is answered is away still, or shows what the answer says.
LEMMA QuizAnswer ==
  ASSUME QuizInv, NEW t \in QuizTabs, NEW tab \in QuizTab, Answer(t, tab),
         tab.view \in {"taking", "results"} => tab.number \in Taken,
         tab.dialog = "modal" => tab.view = "taking",
         tab.view = "taking" => tab.shown = attempts[tab.number].questions,
         tab.view = "results" => /\ attempts[tab.number].status = "submitted"
                                 /\ tab.score = attempts[tab.number].score
  PROVE  QuizInv'
<1>. DEFINE next == IF quizTab[t].view = "away" THEN quizTab[t] ELSE tab
<1>1. NoQuizCall \in QuizCall /\ NoQuizCall.pc = "none"
  BY QuizAssumption DEF NoQuizCall, QuizCall, QuizPhase
<1>2. /\ quizTab' = [quizTab EXCEPT ![t] = next] /\ quizCall' = [quizCall EXCEPT ![t] = NoQuizCall]
      /\ UNCHANGED <<binding, attempts>>
  BY DEF Answer
<1>3. /\ quizTab[t] \in QuizTab
      /\ quizTab[t].view = "away" => quizTab[t].dialog # "modal"
  BY DEF QuizInv, QuizTypes, TabsAreRead
<1>. HIDE DEF next
<1>4. CASE quizTab[t].view = "away"
  <2>1. next = quizTab[t]
    BY <1>4 DEF next
  <2>. QED
    BY <1>1, <1>2, <1>3, <1>4, <2>1, QuizRowsStay DEF Knowing
<1>5. CASE quizTab[t].view # "away"
  <2>1. next = tab
    BY <1>5 DEF next
  <2>. QED
    BY <1>1, <1>2, <2>1, QuizRowsStay DEF Knowing
<1>. QED
  BY <1>4, <1>5

\* The same, when the request or the page is left alone.
LEMMA QuizTabMoves ==
  ASSUME QuizInv, NEW t \in QuizTabs, NEW tab \in QuizTab, quizCall' = quizCall,
         quizTab' = [quizTab EXCEPT ![t] = tab], UNCHANGED <<binding, attempts>>,
         tab.view \in {"taking", "results"} => tab.number \in Taken,
         tab.dialog = "modal" => tab.view = "taking",
         tab.view = "taking" => tab.shown = attempts[tab.number].questions,
         tab.view = "results" => /\ attempts[tab.number].status = "submitted"
                                 /\ tab.score = attempts[tab.number].score
  PROVE  QuizInv'
<1>1. quizCall[t] \in QuizCall /\ quizCall' = [quizCall EXCEPT ![t] = quizCall[t]]
  BY DEF QuizInv, QuizTypes
<1>2. /\ quizCall[t].pc \in {"open", "latest", "insert"} /\ Taken = {} =>
           binding # {} /\ quizCall[t].bound = binding
      /\ quizCall[t].pc = "insert" => quizCall[t].number = 1
      /\ quizCall[t].pc = "redraw" => quizCall[t].number - 1 \in Taken
      /\ quizCall[t].pc \in Knowing => quizCall[t].number \in Taken
      /\ quizCall[t].pc = "results" => attempts[quizCall[t].number].status = "submitted"
  BY DEF QuizInv, CallsAreRead
<1>. QED
  BY <1>1, <1>2, QuizRowsStay

LEMMA QuizCallMoves ==
  ASSUME QuizInv, NEW t \in QuizTabs, NEW call \in QuizCall, quizTab' = quizTab,
         quizCall' = [quizCall EXCEPT ![t] = call], UNCHANGED <<binding, attempts>>,
         call.pc \in {"open", "latest", "insert"} /\ Taken = {} => binding # {} /\ call.bound = binding,
         call.pc = "insert" => call.number = 1,
         call.pc = "redraw" => call.number - 1 \in Taken,
         call.pc \in Knowing => call.number \in Taken,
         call.pc = "results" => attempts[call.number].status = "submitted"
  PROVE  QuizInv'
<1>1. quizTab[t] \in QuizTab /\ quizTab' = [quizTab EXCEPT ![t] = quizTab[t]]
  BY DEF QuizInv, QuizTypes
<1>2. /\ quizTab[t].view \in {"taking", "results"} => quizTab[t].number \in Taken
      /\ quizTab[t].dialog = "modal" => quizTab[t].view = "taking"
      /\ quizTab[t].view = "taking" => quizTab[t].shown = attempts[quizTab[t].number].questions
      /\ quizTab[t].view = "results" =>
           /\ attempts[quizTab[t].number].status = "submitted"
           /\ quizTab[t].score = attempts[quizTab[t].number].score
  BY DEF QuizInv, TabsAreRead, GradedAsShown
<1>. QED
  BY <1>1, <1>2, QuizRowsStay

LEMMA QuizPageSteps ==
  ASSUME QuizInv, NEW t \in QuizTabs, QuizPageStep(t)
  PROVE  QuizInv'
<1>. USE QuizAssumption
<1>. DEFINE call == quizCall[t]
            tab == quizTab[t]
<1>1. /\ call \in QuizCall /\ tab \in QuizTab
      /\ tab.view \in {"taking", "results"} => tab.number \in Taken
      /\ tab.dialog = "modal" => tab.view = "taking"
      /\ tab.view = "taking" => tab.shown = attempts[tab.number].questions
      /\ tab.view = "results" => /\ attempts[tab.number].status = "submitted"
                                 /\ tab.score = attempts[tab.number].score
      /\ \A n \in Taken : n \in 0 .. MaxAttempts /\ n \in 0 .. MaxAttempts + 1
  BY DEF QuizInv, QuizTypes, TabsAreRead, GradedAsShown, Taken, Numbers
<1>2. /\ NoQuizCall \in QuizCall /\ NoQuizCall.pc = "none"
      /\ AwayTab \in QuizTab /\ AwayTab.view = "away" /\ AwayTab.dialog = "questions"
  BY DEF NoQuizCall, QuizCall, QuizPhase, AwayTab, QuizTab
<1>. HIDE DEF call, tab
<1>3. ASSUME QuizOpens(t) PROVE QuizInv'
  <2>. DEFINE asked == [NoQuizCall EXCEPT !.pc = "binding"]
              page == [tab EXCEPT !.view = "loading"]
  <2>1. asked \in QuizCall /\ asked.pc = "binding"
    BY <1>2 DEF QuizCall, QuizPhase
  <2>2. page \in QuizTab /\ page.view = "loading" /\ page.dialog = tab.dialog
    BY <1>1 DEF QuizTab
  <2>3. /\ tab.view = "away" /\ quizCall' = [quizCall EXCEPT ![t] = asked]
        /\ quizTab' = [quizTab EXCEPT ![t] = page] /\ UNCHANGED <<binding, attempts>>
    BY <1>3 DEF QuizOpens, tab
  <2>. HIDE DEF asked, page
  <2>. QED
    BY <1>1, <2>1, <2>2, <2>3, QuizRowsStay DEF Knowing
<1>4. ASSUME QuizLeaves(t) PROVE QuizInv'
  BY <1>2, <1>4, QuizTabMoves DEF QuizLeaves
\* What the page shows stays, but for the dialog and the marks of the answers.
<1>5. ASSUME NEW page \in QuizTab, quizTab' = [quizTab EXCEPT ![t] = page], quizCall' = quizCall,
             UNCHANGED <<binding, attempts>>,
             page.view = tab.view, page.number = tab.number, page.shown = tab.shown,
             page.score = tab.score, page.dialog = "modal" => tab.view = "taking"
      PROVE  QuizInv'
  BY <1>1, <1>5, QuizTabMoves
<1>6. ASSUME AnswersAll(t) PROVE QuizInv'
  <2>. DEFINE page == [tab EXCEPT !.answered = TRUE]
  <2>1. /\ page \in QuizTab /\ page.view = tab.view /\ page.number = tab.number
        /\ page.shown = tab.shown /\ page.score = tab.score /\ page.dialog = tab.dialog
    BY <1>1 DEF QuizTab
  <2>2. /\ quizTab' = [quizTab EXCEPT ![t] = page] /\ quizCall' = quizCall
        /\ UNCHANGED <<binding, attempts>>
    BY <1>6 DEF AnswersAll, tab
  <2>. HIDE DEF page
  <2>. QED
    BY <1>1, <1>5, <2>1, <2>2
<1>7. ASSUME OpensReview(t) \/ LeavesReview(t) \/ DismissesModal(t) PROVE QuizInv'
  <2>1. tab.view = "taking"
    BY <1>1, <1>7 DEF OpensReview, LeavesReview, DismissesModal, tab
  <2>2. PICK dialog \in {"questions", "review", "modal"} :
          quizTab' = [quizTab EXCEPT ![t] = [tab EXCEPT !.dialog = dialog]]
    BY <1>7 DEF OpensReview, LeavesReview, DismissesModal, tab
  <2>3. quizCall' = quizCall /\ UNCHANGED <<binding, attempts>>
    BY <1>7 DEF OpensReview, LeavesReview, DismissesModal
  <2>. DEFINE page == [tab EXCEPT !.dialog = dialog]
  <2>4. /\ page \in QuizTab /\ page.view = tab.view /\ page.number = tab.number
        /\ page.shown = tab.shown /\ page.score = tab.score
    BY <1>1 DEF QuizTab
  <2>. HIDE DEF page
  <2>. QED
    BY <1>5, <2>1, <2>2, <2>3, <2>4 DEF page
<1>8. ASSUME ConfirmsSubmit(t) PROVE QuizInv'
  <2>. DEFINE asked == [NoQuizCall EXCEPT !.pc = "attempt", !.number = tab.number]
              page == [tab EXCEPT !.busy = "submit", !.dialog = "review"]
  <2>1. /\ tab.view = "taking" /\ quizCall' = [quizCall EXCEPT ![t] = asked]
        /\ quizTab' = [quizTab EXCEPT ![t] = page] /\ UNCHANGED <<binding, attempts>>
    BY <1>1, <1>8 DEF ConfirmsSubmit, tab
  <2>2. tab.number \in Taken /\ tab.number \in 0 .. MaxAttempts + 1
    BY <1>1, <2>1
  <2>3. asked \in QuizCall /\ asked.pc = "attempt" /\ asked.number = tab.number
    BY <1>2, <2>2 DEF QuizCall, QuizPhase
  <2>4. /\ page \in QuizTab /\ page.view = tab.view /\ page.number = tab.number
        /\ page.shown = tab.shown /\ page.score = tab.score /\ page.dialog = "review"
    BY <1>1 DEF QuizTab
  <2>. HIDE DEF asked, page
  <2>. QED
    BY <1>1, <2>1, <2>2, <2>3, <2>4, QuizRowsStay DEF Knowing
<1>9. ASSUME TriesAgain(t) PROVE QuizInv'
  <2>. DEFINE asked == [NoQuizCall EXCEPT !.pc = "binding", !.retake = TRUE]
              page == [tab EXCEPT !.busy = "retake"]
  <2>1. /\ quizCall' = [quizCall EXCEPT ![t] = asked]
        /\ quizTab' = [quizTab EXCEPT ![t] = page] /\ UNCHANGED <<binding, attempts>>
    BY <1>9 DEF TriesAgain, tab
  <2>2. asked \in QuizCall /\ asked.pc = "binding"
    BY <1>2 DEF QuizCall, QuizPhase
  <2>3. /\ page \in QuizTab /\ page.view = tab.view /\ page.number = tab.number
        /\ page.shown = tab.shown /\ page.score = tab.score /\ page.dialog = tab.dialog
    BY <1>1 DEF QuizTab
  <2>. HIDE DEF asked, page
  <2>. QED
    BY <1>1, <2>1, <2>2, <2>3, QuizRowsStay DEF Knowing
<1>. QED
  BY <1>3, <1>4, <1>6, <1>7, <1>8, <1>9 DEF QuizPageStep

LEMMA QuizCallSteps ==
  ASSUME QuizInv, NEW t \in QuizTabs, StartStep(t) \/ SubmitStep(t) \/ QuizFails(t)
  PROVE  QuizInv'
<1>. USE QuizAssumption
<1>. DEFINE call == quizCall[t]
            tab == quizTab[t]
\* What is known of the request and its page, and of the numbers.
<1>1. /\ call \in QuizCall /\ tab \in QuizTab
      /\ call.pc \in {"open", "latest", "insert"} /\ Taken = {} => binding # {} /\ call.bound = binding
      /\ call.pc = "insert" => call.number = 1
      /\ call.pc = "redraw" => call.number - 1 \in Taken
      /\ call.pc \in Knowing => call.number \in Taken
      /\ call.pc = "results" => attempts[call.number].status = "submitted"
  BY DEF QuizInv, QuizTypes, CallsAreRead
<1>2. /\ OpenNumbers \subseteq Taken /\ SubmittedNumbers \subseteq Taken
      /\ Taken \in SUBSET Numbers /\ MaxAttempts \in Nat
      /\ \A n \in Taken : n \in 0 .. MaxAttempts /\ n \in 0 .. MaxAttempts + 1 /\ n + 1 \in 0 .. MaxAttempts + 1
                          /\ (n + 1) - 1 = n
      /\ binding \in Draws \cup {{}} /\ binding \in SUBSET Questions
  BY DrawsAreSome DEF OpenNumbers, SubmittedNumbers, Taken, Numbers, QuizInv, QuizTypes
<1>3. /\ OpenNumbers # {} => LastOf(OpenNumbers) \in OpenNumbers
      /\ SubmittedNumbers # {} => LastOf(SubmittedNumbers) \in SubmittedNumbers
      /\ Taken # {} => LastOf(Taken) \in Taken
  BY <1>2, LastOfIsLast DEF Numbers
<1>. HIDE DEF call, tab
\* A request that goes on: its record with another phase, number or binding.
<1>4. ASSUME NEW pc \in QuizPhase, NEW n \in 0 .. MaxAttempts + 1, NEW bound \in SUBSET Questions,
             NEW lost \in {"reload", "serve"}
      PROVE  LET next == [call EXCEPT !.pc = pc, !.number = n, !.bound = bound, !.lost = lost] IN
             /\ next \in QuizCall /\ next.pc = pc /\ next.number = n /\ next.bound = bound
  BY <1>1, <1>4 DEF QuizCall
<1>5. ASSUME NEW next \in QuizCall, quizCall' = [quizCall EXCEPT ![t] = next], quizTab' = quizTab,
             UNCHANGED <<binding, attempts>>,
             next.pc \notin {"open", "latest", "insert", "redraw", "results"},
             next.pc \in Knowing => next.number \in Taken
      PROVE  QuizInv'
  BY <1>5, QuizCallMoves
<1>6. ASSUME ReadBinding(t) PROVE QuizInv'
  <2>. DEFINE next == [call EXCEPT !.pc = IF binding = {} THEN "create" ELSE "open", !.bound = binding]
  <2>1. /\ next \in QuizCall /\ next.pc \in {"create", "open"} /\ next.bound = binding
        /\ next.pc = "open" => binding # {}
    BY <1>1, <1>2 DEF QuizCall, QuizPhase
  <2>2. quizCall' = [quizCall EXCEPT ![t] = next] /\ quizTab' = quizTab /\ UNCHANGED <<binding, attempts>>
    BY <1>6 DEF ReadBinding, Rows, call
  <2>. HIDE DEF next
  <2>. QED
    BY <2>1, <2>2, QuizCallMoves DEF Knowing
<1>7. ASSUME CreateBinding(t) PROVE QuizInv'
  <2>. DEFINE next == [call EXCEPT !.pc = "binding"]
  <2>1. next \in QuizCall /\ next.pc = "binding"
    BY <1>1 DEF QuizCall, QuizPhase
  <2>2. quizCall' = [quizCall EXCEPT ![t] = next] /\ quizTab' = quizTab
    BY <1>7 DEF CreateBinding, QuizGoto, call
  <2>. HIDE DEF next
  <2>3. CASE binding = {}
    <3>1. PICK d \in Draws : binding' = d /\ attempts' = [attempts EXCEPT ![1] = Opened(d)]
      BY <1>7, <2>3 DEF CreateBinding
    <3>2. Taken = {} /\ 1 \in Numbers /\ 1 - 1 \in Taken \cup {0}
      BY <2>3 DEF QuizInv, AttemptsAreNumbered, Numbers
    <3>3. attempts[1].status = "none" /\ OpenNumbers = {}
      BY <1>2, <3>2 DEF Taken
    <3>. QED
      BY <2>1, <2>2, <3>1, <3>2, <3>3, AttemptOpens
  <2>4. CASE binding # {}
    BY <1>5, <1>7, <2>1, <2>2, <2>4 DEF CreateBinding, Rows, Knowing
  <2>. QED
    BY <2>3, <2>4
<1>8. ASSUME ReadOpen(t) PROVE QuizInv'
  <2>1. quizTab' = quizTab /\ UNCHANGED <<binding, attempts>> /\ call.pc = "open"
    BY <1>8 DEF ReadOpen, Rows, QuizAt, call
  <2>2. CASE OpenNumbers = {}
    <3>. DEFINE next == [call EXCEPT !.pc = "latest"]
    <3>1. next \in QuizCall /\ next.pc = "latest" /\ next.bound = call.bound
      BY <1>1 DEF QuizCall, QuizPhase
    <3>2. quizCall' = [quizCall EXCEPT ![t] = next]
      BY <1>8, <2>2 DEF ReadOpen, QuizGoto, call
    <3>. HIDE DEF next
    <3>. QED
      BY <1>1, <2>1, <3>1, <3>2, QuizCallMoves DEF Knowing
  <2>3. CASE OpenNumbers # {}
    <3>. DEFINE n == LastOf(OpenNumbers)
                next == [call EXCEPT !.pc = "serve", !.number = n]
    <3>1. n \in Taken /\ n \in 0 .. MaxAttempts + 1
      BY <1>2, <1>3, <2>3
    <3>2. quizCall' = [quizCall EXCEPT ![t] = next]
      BY <1>8, <2>3 DEF ReadOpen, call
    <3>. HIDE DEF n
    <3>3. next \in QuizCall /\ next.pc = "serve" /\ next.number = n
      BY <1>1, <3>1 DEF QuizCall, QuizPhase
    <3>. HIDE DEF next
    <3>. QED
      BY <1>5, <2>1, <3>1, <3>2, <3>3
  <2>. QED
    BY <2>2, <2>3
<1>9. ASSUME ReadLatest(t) PROVE QuizInv'
  <2>1. quizTab' = quizTab /\ UNCHANGED <<binding, attempts>> /\ call.pc = "latest"
    BY <1>9 DEF ReadLatest, Rows, QuizAt, call
  <2>2. CASE Taken = {}
    <3>. DEFINE next == [call EXCEPT !.pc = "insert", !.number = 1]
    <3>0. 1 \in 0 .. MaxAttempts + 1
      BY <1>2
    <3>1. next \in QuizCall /\ next.pc = "insert" /\ next.number = 1 /\ next.bound = call.bound
      BY <1>1, <3>0 DEF QuizCall, QuizPhase
    <3>2. quizCall' = [quizCall EXCEPT ![t] = next]
      BY <1>9, <2>2 DEF ReadLatest, call
    <3>. HIDE DEF next
    <3>. QED
      BY <1>1, <2>1, <3>1, <3>2, QuizCallMoves DEF Knowing
  <2>3. CASE Taken # {}
    <3>. DEFINE n == LastOf(Taken)
                served == [call EXCEPT !.pc = "serve", !.number = n]
                drawn == [call EXCEPT !.pc = "redraw", !.number = n + 1]
                ended == [call EXCEPT !.pc = "submission"]
    <3>1. n \in Taken /\ n \in 0 .. MaxAttempts + 1 /\ n + 1 \in 0 .. MaxAttempts + 1 /\ (n + 1) - 1 = n
      BY <1>2, <1>3, <2>3
    <3>2. \/ quizCall' = [quizCall EXCEPT ![t] = served]
          \/ quizCall' = [quizCall EXCEPT ![t] = drawn]
          \/ quizCall' = [quizCall EXCEPT ![t] = ended]
      BY <1>9, <2>3 DEF ReadLatest, call
    <3>. HIDE DEF n
    <3>3. served \in QuizCall /\ served.pc = "serve" /\ served.number = n
      BY <1>1, <3>1 DEF QuizCall, QuizPhase
    <3>4. drawn \in QuizCall /\ drawn.pc = "redraw" /\ drawn.number = n + 1
      BY <1>1, <3>1 DEF QuizCall, QuizPhase
    <3>5. ended \in QuizCall /\ ended.pc = "submission"
      BY <1>1 DEF QuizCall, QuizPhase
    <3>. HIDE DEF served, drawn, ended
    <3>6. CASE quizCall' = [quizCall EXCEPT ![t] = served]
      BY <1>5, <2>1, <3>1, <3>3, <3>6
    <3>7. CASE quizCall' = [quizCall EXCEPT ![t] = drawn]
      BY <2>1, <3>1, <3>4, <3>7, QuizCallMoves DEF Knowing
    <3>8. CASE quizCall' = [quizCall EXCEPT ![t] = ended]
      BY <1>5, <2>1, <3>5, <3>8 DEF Knowing
    <3>. QED
      BY <3>2, <3>6, <3>7, <3>8
  <2>. QED
    BY <2>2, <2>3
<1>10. ASSUME ReadSubmission(t) PROVE QuizInv'
  <2>. DEFINE n == LastOf(SubmittedNumbers)
              next == [call EXCEPT !.pc = "results", !.number = n]
  <2>1. n \in Taken /\ n \in 0 .. MaxAttempts + 1 /\ attempts[n].status = "submitted"
    BY <1>2, <1>3, <1>10 DEF ReadSubmission, SubmittedNumbers
  <2>2. /\ quizCall' = [quizCall EXCEPT ![t] = next] /\ quizTab' = quizTab
        /\ UNCHANGED <<binding, attempts>>
    BY <1>10 DEF ReadSubmission, Rows, call
  <2>. HIDE DEF n
  <2>3. next \in QuizCall /\ next.pc = "results" /\ next.number = n
    BY <1>1, <2>1 DEF QuizCall, QuizPhase
  <2>. HIDE DEF next
  <2>. QED
    BY <2>1, <2>2, <2>3, QuizCallMoves
\* A lost race on the number leaves the rows alone.
<1>11. ASSUME NEW lost \in {"reload", "serve"}, Lost(t, lost), binding' = binding, quizTab' = quizTab
       PROVE  QuizInv'
  <2>. DEFINE next == [call EXCEPT !.pc = "reopen", !.lost = lost]
  <2>1. next \in QuizCall /\ next.pc = "reopen"
    BY <1>1 DEF QuizCall, QuizPhase
  <2>2. quizCall' = [quizCall EXCEPT ![t] = next] /\ attempts' = attempts
    BY <1>11 DEF Lost, call
  <2>. HIDE DEF next
  <2>. QED
    BY <1>5, <1>11, <2>1, <2>2 DEF Knowing
<1>12. ASSUME Redraw(t) PROVE QuizInv'
  <2>1. CASE AdmitsAttempt(call.number)
    <3>. DEFINE next == [call EXCEPT !.pc = "reload"]
    <3>1. next \in QuizCall /\ next.pc = "reload" /\ next.number = call.number
      BY <1>1 DEF QuizCall, QuizPhase
    <3>2. PICK d \in Draws : /\ binding' = d /\ attempts' = [attempts EXCEPT ![call.number] = Opened(d)]
                             /\ quizCall' = [quizCall EXCEPT ![t] = next]
      BY <1>12, <2>1 DEF Redraw, QuizGoto, call
    <3>3. quizTab' = quizTab /\ call.number \in Numbers /\ call.number - 1 \in Taken
      BY <1>1, <1>12 DEF Redraw, QuizAt, call
    <3>4. attempts[call.number].status = "none" /\ OpenNumbers = {}
      BY <2>1 DEF AdmitsAttempt
    <3>. HIDE DEF next
    <3>. QED
      BY <3>1, <3>2, <3>3, <3>4, AttemptOpens
  <2>2. CASE ~AdmitsAttempt(call.number)
    BY <1>11, <1>12, <2>2 DEF Redraw, call
  <2>. QED
    BY <2>1, <2>2
<1>13. ASSUME InsertAttempt(t) PROVE QuizInv'
  <2>1. call.pc = "insert" /\ call.number = 1 /\ 1 \in Numbers /\ quizTab' = quizTab /\ binding' = binding
    BY <1>1, <1>13 DEF InsertAttempt, QuizAt, call, Numbers
  <2>2. CASE AdmitsAttempt(1)
    <3>. DEFINE next == [call EXCEPT !.pc = "serve"]
    <3>1. next \in QuizCall /\ next.pc = "serve" /\ next.number = 1
      BY <1>1, <2>1 DEF QuizCall, QuizPhase
    <3>2. /\ attempts' = [attempts EXCEPT ![1] = Opened(call.bound)]
          /\ quizCall' = [quizCall EXCEPT ![t] = next]
      BY <1>13, <2>1, <2>2 DEF InsertAttempt, QuizGoto, call
    <3>3. attempts[1].status = "none" /\ OpenNumbers = {}
      BY <2>2 DEF AdmitsAttempt
    <3>4. Taken = {}
      <4>1. 1 \notin Taken
        BY <3>3 DEF Taken
      <4>2. ASSUME NEW n \in Taken PROVE FALSE
        <5>1. n \in Nat /\ n > 1
          BY <1>2, <4>1 DEF Numbers
        <5>2. 1 \in 1 .. (n - 1)
          BY <5>1
        <5>. QED
          BY <4>1, <5>2 DEF QuizInv, AttemptsAreNumbered
      <4>. QED
        BY <4>2
    <3>5. call.bound = binding /\ binding \in Draws /\ 1 - 1 \in Taken \cup {0}
      BY <1>1, <1>2, <2>1, <3>4
    <3>. HIDE DEF next
    <3>. QED
      BY <2>1, <3>1, <3>2, <3>3, <3>5, AttemptOpens
  <2>3. CASE ~AdmitsAttempt(1)
    BY <1>11, <1>13, <2>1, <2>3 DEF InsertAttempt, call
  <2>. QED
    BY <2>2, <2>3
<1>14. ASSUME Reopen(t) PROVE QuizInv'
  <2>. DEFINE n == LastOf(OpenNumbers)
              next == [call EXCEPT !.pc = call.lost, !.number = n]
  <2>1. n \in Taken /\ n \in 0 .. MaxAttempts + 1 /\ call.lost \in {"reload", "serve"}
    BY <1>1, <1>2, <1>3, <1>14 DEF Reopen, QuizCall
  <2>2. /\ quizCall' = [quizCall EXCEPT ![t] = next] /\ quizTab' = quizTab
        /\ UNCHANGED <<binding, attempts>>
    BY <1>14 DEF Reopen, Rows, call
  <2>. HIDE DEF n
  <2>3. next \in QuizCall /\ next.pc \in {"reload", "serve"} /\ next.number = n
    BY <1>1, <2>1 DEF QuizCall, QuizPhase
  <2>. HIDE DEF next
  <2>. QED
    BY <1>5, <2>1, <2>2, <2>3
<1>15. ASSUME Reload(t) PROVE QuizInv'
  <2>. DEFINE next == [call EXCEPT !.pc = "serve", !.bound = binding]
  <2>1. next \in QuizCall /\ next.pc = "serve" /\ next.number = call.number
    BY <1>1, <1>2 DEF QuizCall, QuizPhase
  <2>2. /\ quizCall' = [quizCall EXCEPT ![t] = next] /\ quizTab' = quizTab
        /\ UNCHANGED <<binding, attempts>> /\ call.pc = "reload"
    BY <1>15 DEF Reload, Rows, QuizAt, call
  <2>. HIDE DEF next
  <2>. QED
    BY <1>1, <1>5, <2>1, <2>2 DEF Knowing
<1>16. ASSUME ReadAttempt(t) \/ CompareBinding(t) PROVE QuizInv'
  <2>1. PICK pc \in {"compare", "grade"} : quizCall' = [quizCall EXCEPT ![t] = [call EXCEPT !.pc = pc]]
    BY <1>16 DEF ReadAttempt, CompareBinding, QuizGoto, call
  <2>. DEFINE next == [call EXCEPT !.pc = pc]
  <2>2. next \in QuizCall /\ next.pc = pc /\ next.number = call.number
    BY <1>1, <2>1 DEF QuizCall, QuizPhase
  <2>3. quizTab' = quizTab /\ UNCHANGED <<binding, attempts>> /\ call.pc \in {"attempt", "compare"}
    BY <1>16 DEF ReadAttempt, CompareBinding, Rows, QuizAt, call
  <2>. HIDE DEF next
  <2>. QED
    BY <1>1, <1>5, <2>1, <2>2, <2>3 DEF Knowing, next
\* A page that is refused shows what it showed, or nothing.
<1>17. ASSUME Answer(t, Refused(quizTab[t])) PROVE QuizInv'
  <2>. DEFINE blank == [AwayTab EXCEPT !.view = "blank"]
              calm == [tab EXCEPT !.busy = "no"]
  <2>1. blank \in QuizTab /\ blank.view = "blank" /\ blank.dialog = "questions"
    <3>1. AwayTab \in QuizTab /\ AwayTab.dialog = "questions"
      BY <1>2 DEF AwayTab, QuizTab
    <3>. QED
      BY <3>1 DEF QuizTab
  <2>2. /\ calm \in QuizTab /\ calm.view = tab.view /\ calm.number = tab.number
        /\ calm.shown = tab.shown /\ calm.score = tab.score /\ calm.dialog = tab.dialog
    BY <1>1 DEF QuizTab
  <2>3. /\ tab.view \in {"taking", "results"} => tab.number \in Taken
        /\ tab.dialog = "modal" => tab.view = "taking"
        /\ tab.view = "taking" => tab.shown = attempts[tab.number].questions
        /\ tab.view = "results" => /\ attempts[tab.number].status = "submitted"
                                   /\ tab.score = attempts[tab.number].score
    BY DEF QuizInv, TabsAreRead, GradedAsShown, tab
  <2>4. Refused(quizTab[t]) \in {blank, calm}
    BY DEF Refused, tab
  <2>. HIDE DEF blank, calm
  <2>5. CASE Refused(quizTab[t]) = blank
    BY <1>17, <2>1, <2>5, QuizAnswer
  <2>6. CASE Refused(quizTab[t]) = calm
    BY <1>17, <2>2, <2>3, <2>6, QuizAnswer
  <2>. QED
    BY <2>4, <2>5, <2>6
<1>18. ASSUME Serve(t) PROVE QuizInv'
  <2>. DEFINE page == Taking(call.number, attempts[call.number].questions)
  <2>1. call.number \in Taken /\ call.number \in 0 .. MaxAttempts
    BY <1>1, <1>2, <1>18 DEF Serve, QuizAt, Knowing, call
  <2>2. attempts[call.number].questions \in SUBSET Questions
    BY <1>2, <2>1 DEF QuizInv, QuizTypes, Attempt
  <2>3. /\ page \in QuizTab /\ page.view = "taking" /\ page.number = call.number
        /\ page.shown = attempts[call.number].questions
    BY <2>1, <2>2 DEF Taking, AwayTab, QuizTab
  <2>4. CASE Answer(t, page)
    <3>. HIDE DEF page
    <3>. QED
      BY <2>1, <2>3, <2>4, QuizAnswer
  <2>5. Answer(t, page) \/ Answer(t, Refused(quizTab[t]))
    BY <1>18 DEF Serve, call
  <2>. QED
    BY <1>17, <2>4, <2>5
<1>19. ASSUME DeliverResults(t) PROVE QuizInv'
  <2>. DEFINE page == Results(call.number)
  <2>1. /\ call.number \in Taken /\ call.number \in 0 .. MaxAttempts
        /\ attempts[call.number].status = "submitted"
    BY <1>1, <1>2, <1>19 DEF DeliverResults, QuizAt, Knowing, call
  <2>2. attempts[call.number].score \in Scores \cup {0}
    BY <1>2, <2>1 DEF QuizInv, QuizTypes, Attempt
  <2>3. /\ page \in QuizTab /\ page.view = "results" /\ page.number = call.number
        /\ page.score = attempts[call.number].score /\ page.dialog = "questions"
    BY <2>1, <2>2 DEF Results, AwayTab, QuizTab
  <2>4. Answer(t, page)
    BY <1>19 DEF DeliverResults, call
  <2>. HIDE DEF page
  <2>. QED
    BY <2>1, <2>3, <2>4, QuizAnswer
<1>20. ASSUME Grade(t) PROVE QuizInv'
  BY <1>20, AttemptIsGraded
<1>21. ASSUME QuizFails(t) PROVE QuizInv'
  BY <1>17, <1>21 DEF QuizFails
<1>. QED
  BY <1>6, <1>7, <1>8, <1>9, <1>10, <1>12, <1>13, <1>14, <1>15, <1>16, <1>18, <1>19, <1>20, <1>21
  DEF StartStep, SubmitStep

LEMMA QuizStays == QuizInv /\ UNCHANGED quizVars => QuizInv'
BY DEF quizVars, QuizInv, QuizTypes, AttemptsAreNumbered, CallsAreRead, TabsAreRead, OpenAttemptIsBound,
       GradedAsShown, Taken, OpenNumbers

LEMMA QuizStepInv ==
  ASSUME QuizInv, NEW t \in QuizTabs, QuizStep(t)
  PROVE  QuizInv'
BY QuizPageSteps, QuizCallSteps DEF QuizStep

\* A step of the quiz leaves a submitted attempt alone: a row is made where there
\* is none, and graded while it is not submitted.
LEMMA SubmittedStays ==
  ASSUME QuizInv, NEW t \in QuizTabs, QuizStep(t)
  PROVE  \A n \in SubmittedNumbers : attempts'[n] = attempts[n]
<1>1. CASE attempts' = attempts
  BY <1>1
<1>2. CASE CreateBinding(t) /\ binding = {}
  BY <1>2 DEF QuizInv, AttemptsAreNumbered, Taken, SubmittedNumbers
<1>3. ASSUME NEW n, attempts[n].status # "submitted",
             \E row : attempts' = [attempts EXCEPT ![n] = row]
      PROVE  \A m \in SubmittedNumbers : attempts'[m] = attempts[m]
  BY <1>3 DEF QuizInv, QuizTypes, SubmittedNumbers
<1>4. CASE Redraw(t) \/ InsertAttempt(t)
  <2>1. CASE AdmitsAttempt(quizCall[t].number)
    <3>1. \E row : attempts' = [attempts EXCEPT ![quizCall[t].number] = row]
      BY <1>4, <2>1 DEF Redraw, InsertAttempt
    <3>. QED
      BY <1>3, <2>1, <3>1 DEF AdmitsAttempt
  <2>2. CASE ~AdmitsAttempt(quizCall[t].number)
    BY <1>1, <1>4, <2>2 DEF Redraw, InsertAttempt, Lost
  <2>. QED
    BY <2>1, <2>2
<1>5. CASE Grade(t)
  <2>1. PICK score \in Scores :
          attempts' = [attempts EXCEPT ![quizCall[t].number].status = "submitted",
                                       ![quizCall[t].number].score = score]
    BY <1>5 DEF Grade
  <2>2. \A m \in Numbers : m # quizCall[t].number => attempts'[m] = attempts[m]
    BY <2>1 DEF QuizInv, QuizTypes
  <2>. QED
    BY <1>5, <2>2 DEF Grade, NotSubmitted, SubmittedNumbers
<1>6. CASE QuizPageStep(t)
  BY <1>1, <1>6 DEF QuizPageStep, QuizOpens, QuizLeaves, AnswersAll, OpensReview, LeavesReview,
     DismissesModal, ConfirmsSubmit, TriesAgain
<1>7. CASE ReadBinding(t) \/ ReadOpen(t) \/ ReadLatest(t) \/ ReadSubmission(t) \/ Reopen(t) \/ Reload(t)
           \/ Serve(t) \/ ReadAttempt(t) \/ CompareBinding(t) \/ DeliverResults(t) \/ QuizFails(t)
  BY <1>1, <1>7 DEF ReadBinding, ReadOpen, ReadLatest, ReadSubmission, Reopen, Reload, Serve,
     ReadAttempt, CompareBinding, DeliverResults, QuizFails, Answer, Rows
<1>8. CASE CreateBinding(t) /\ binding # {}
  BY <1>1, <1>8 DEF CreateBinding, Rows
<1>. QED
  BY <1>2, <1>4, <1>5, <1>6, <1>7, <1>8 DEF QuizStep, StartStep, SubmitStep

-----------------------------------------------------------------------------
(* The assignment *)

\* The rows, and the submissions the requests and the review pages name.
WorkTypes ==
  /\ subs \in [Submissions -> Submission]
  /\ workCall \in [WorkTabs -> WorkCall]
  /\ gradeCall \in [Graders -> GradeCall]
  /\ review \in [Graders -> Review]
  /\ studying.work \subseteq WorkTabs /\ studying.graders \subseteq Graders
  /\ studying.quiz \subseteq QuizTabs /\ studying.marks \subseteq PassMarks \cup {0}
  /\ passMark \in studying.marks /\ leastMark \in studying.marks

Writing == {"count", "file", "put", "mark", "check", "submit"}

SubmissionsAreMade ==
  /\ \A t \in WorkTabs : workCall[t].pc \in Writing => workCall[t].sub \in Made
  /\ \A g \in Graders : /\ gradeCall[g].pc \in {"read", "insert", "mark"} => gradeCall[g].sub \in Made
                        /\ review[g].awaiting \subseteq Made
                        /\ review[g].grading \in Made \cup {0}

\* A draft is being made only for a student who has met a mark the quiz has had.
DraftsAreUnlocked == \A t \in WorkTabs : workCall[t].pc = "insert" => HasBeenOpen

\* The least mark is no more than the present one, nor than one a request has read.
LeastIsLeast ==
  /\ leastMark <= passMark
  /\ \A t \in WorkTabs : \A mark \in workCall[t].seen : leastMark <= mark

WorkInv == /\ WorkTypes /\ SubmissionsAreMade /\ DraftsAreUnlocked /\ LeastIsLeast
           /\ OneDraft /\ WorkIsUnlocked

CourseworkInv == QuizInv /\ WorkInv

LEMMA CourseworkInitInv == CourseworkInit => CourseworkInv
<1>. SUFFICES ASSUME CourseworkInit PROVE CourseworkInv
  OBVIOUS
<1>. USE WorkAssumption, UsesAssumption
<1>1. QuizInv
  BY QuizInitInv DEF CourseworkInit
<1>2. /\ NoSubmission \in Submission /\ NoWorkCall \in WorkCall /\ NoGradeCall \in GradeCall
      /\ ReviewAway \in Review
  BY DEF NoSubmission, Submission, Grades, NoWorkCall, WorkCall, NoGradeCall, GradeCall, ReviewAway, Review
<1>3. /\ studying.work \subseteq WorkTabs /\ studying.graders \subseteq Graders
      /\ studying.quiz \subseteq QuizTabs /\ studying.marks \subseteq PassMarks \cup {0}
      /\ passMark \in studying.marks /\ leastMark = passMark /\ passMark \in Nat
  BY DEF CourseworkInit, WorkInit
<1>4. Made = {} /\ WithStatus("draft") = {}
  BY DEF CourseworkInit, WorkInit, NoSubmission, Made, WithStatus
<1>5. WorkTypes
  BY <1>2, <1>3 DEF CourseworkInit, WorkInit, WorkTypes
<1>6. SubmissionsAreMade /\ DraftsAreUnlocked /\ LeastIsLeast /\ OneDraft /\ WorkIsUnlocked
  BY <1>3, <1>4 DEF CourseworkInit, WorkInit, SubmissionsAreMade, DraftsAreUnlocked, LeastIsLeast, OneDraft, WorkIsUnlocked,
     NoWorkCall, NoGradeCall, ReviewAway, Writing
<1>. QED
  BY <1>1, <1>5, <1>6 DEF CourseworkInv, WorkInv

\* What a step of the work may do to the rows: nothing, or change one that was
\* made, without making a draft of it.
RowsGoOn == /\ subs' \in [Submissions -> Submission] /\ Made' = Made
            /\ OneDraft' /\ WorkIsUnlocked' /\ HasBeenOpen' = HasBeenOpen
            /\ UNCHANGED <<studying, gateVars>>

LEMMA MarkIsNumber ==
  ASSUME NEW mark \in PassMarks \cup {0}
  PROVE  mark \in Nat
<1>1. PassMarks \subseteq Nat
  BY WorkAssumption
<1>. QED
  BY <1>1

LEMMA ScoreIsNumber ==
  ASSUME QuizInv, NEW n \in Numbers
  PROVE  attempts[n].score \in Nat
<1>1. attempts[n] \in Attempt
  BY DEF QuizInv, QuizTypes
<1>2. attempts[n].score \in Scores \cup {0}
  BY <1>1 DEF Attempt
<1>3. ASSUME NEW score \in Scores \cup {0}
      PROVE  score \in Nat
  <2>1. Scores \subseteq Nat
    BY QuizAssumption
  <2>. QED
    BY <2>1
<1>. QED
  BY <1>2, <1>3

\* What a request has read is a mark, and no less than the least there has been.
LEMMA SeenIsNumber ==
  ASSUME WorkInv, NEW t \in WorkTabs, NEW mark \in workCall[t].seen
  PROVE  /\ mark \in Nat /\ leastMark \in Nat /\ leastMark <= mark
<1>1. workCall[t] \in WorkCall
  BY DEF WorkInv, WorkTypes
<1>2. mark \in PassMarks \cup {0}
  BY <1>1 DEF WorkCall
<1>3. leastMark \in PassMarks \cup {0} /\ leastMark <= mark
  BY DEF WorkInv, WorkTypes, LeastIsLeast
<1>. QED
  BY <1>2, <1>3, MarkIsNumber

\* A mark that was met stays met, and so do those below it.
LEMMA MarkStaysMet ==
  ASSUME QuizInv, WorkInv, NEW mark \in Nat, NEW least \in Nat, least <= mark, Opens(mark)
  PROVE  Opens(least)
<1>1. CASE mark = 0
  BY <1>1 DEF Opens
<1>2. CASE MeetsMark(mark)
  <2>1. PICK n \in SubmittedNumbers : attempts[n].score >= mark
    BY <1>2 DEF MeetsMark
  <2>2. attempts[n].score \in Nat
    BY ScoreIsNumber DEF SubmittedNumbers
  <2>3. attempts[n].score >= least
    BY <2>1, <2>2
  <2>. QED
    BY <2>3 DEF Opens, MeetsMark
<1>. QED
  BY <1>1, <1>2 DEF Opens

\* A module that a request judges open has been open to the student's scores.
LEMMA JudgedHasBeenOpen ==
  ASSUME QuizInv, WorkInv, NEW t \in WorkTabs, JudgedOpen(t)
  PROVE  HasBeenOpen
<1>1. PICK mark \in workCall[t].seen : Opens(mark)
  BY DEF JudgedOpen
<1>2. mark \in Nat /\ leastMark \in Nat /\ leastMark <= mark
  BY <1>1, SeenIsNumber
<1>. QED
  BY <1>1, <1>2, MarkStaysMet DEF HasBeenOpen

LEMMA OpeningStays == UNCHANGED <<quizVars, gateVars>> => HasBeenOpen' = HasBeenOpen
BY DEF HasBeenOpen, Opens, MeetsMark, SubmittedNumbers, quizVars, gateVars

LEMMA RowsStay ==
  ASSUME WorkInv, UNCHANGED <<quizVars, studying, gateVars, subs>>
  PROVE  RowsGoOn
<1>1. HasBeenOpen' = HasBeenOpen
  BY OpeningStays
<1>. QED
  BY <1>1 DEF RowsGoOn, WorkInv, WorkTypes, Made, WithStatus, OneDraft, WorkIsUnlocked

LEMMA RowChanges ==
  ASSUME WorkInv, UNCHANGED <<quizVars, studying, gateVars>>, NEW s \in Made, NEW row \in Submission,
         row.status # "none", row.status = "draft" => subs[s].status = "draft",
         subs' = [subs EXCEPT ![s] = row]
  PROVE  RowsGoOn
<1>1. HasBeenOpen' = HasBeenOpen
  BY OpeningStays
<1>2. s \in Submissions /\ subs[s].status # "none"
  BY DEF Made, WithStatus
<1>3. /\ subs' \in [Submissions -> Submission]
      /\ \A r \in Submissions : subs'[r] = IF r = s THEN row ELSE subs[r]
  BY <1>2 DEF WorkInv, WorkTypes
<1>4. Made' = Made
  BY <1>2, <1>3 DEF Made, WithStatus
<1>5. WithStatus("draft")' \subseteq WithStatus("draft")
  BY <1>2, <1>3 DEF WithStatus
<1>. QED
  BY <1>1, <1>3, <1>4, <1>5 DEF RowsGoOn, WorkInv, OneDraft, WorkIsUnlocked

LEMMA StudentGoesOn ==
  ASSUME WorkInv, RowsGoOn, UNCHANGED <<gradeCall, review>>, NEW t \in WorkTabs, NEW call \in WorkCall,
         workCall' = [workCall EXCEPT ![t] = call],
         call.pc \in Writing => call.sub \in Made, call.pc = "insert" => HasBeenOpen,
         \A mark \in call.seen : leastMark <= mark
  PROVE  WorkInv'
<1>1. /\ workCall' \in [WorkTabs -> WorkCall]
      /\ \A u \in WorkTabs : workCall'[u] = IF u = t THEN call ELSE workCall[u]
  BY DEF WorkInv, WorkTypes
<1>2. WorkTypes'
  BY <1>1 DEF WorkInv, WorkTypes, RowsGoOn, gateVars
<1>3. SubmissionsAreMade'
  BY <1>1 DEF WorkInv, SubmissionsAreMade, RowsGoOn
<1>4. DraftsAreUnlocked' /\ LeastIsLeast'
  BY <1>1 DEF WorkInv, DraftsAreUnlocked, LeastIsLeast, RowsGoOn, gateVars
<1>. QED
  BY <1>2, <1>3, <1>4 DEF WorkInv, RowsGoOn

LEMMA GraderGoesOn ==
  ASSUME WorkInv, RowsGoOn, UNCHANGED workCall, NEW g \in Graders, NEW call \in GradeCall,
         NEW page \in Review, gradeCall' = [gradeCall EXCEPT ![g] = call],
         review' = [review EXCEPT ![g] = page],
         call.pc \in {"read", "insert", "mark"} => call.sub \in Made,
         page.awaiting \subseteq Made, page.grading \in Made \cup {0}
  PROVE  WorkInv'
<1>1. /\ gradeCall' \in [Graders -> GradeCall] /\ review' \in [Graders -> Review]
      /\ \A h \in Graders : /\ gradeCall'[h] = IF h = g THEN call ELSE gradeCall[h]
                            /\ review'[h] = IF h = g THEN page ELSE review[h]
  BY DEF WorkInv, WorkTypes
<1>2. WorkTypes'
  BY <1>1 DEF WorkInv, WorkTypes, RowsGoOn, gateVars
<1>3. SubmissionsAreMade'
  BY <1>1 DEF WorkInv, SubmissionsAreMade, RowsGoOn
<1>4. DraftsAreUnlocked' /\ LeastIsLeast'
  BY DEF WorkInv, DraftsAreUnlocked, LeastIsLeast, RowsGoOn, gateVars
<1>. QED
  BY <1>2, <1>3, <1>4 DEF WorkInv, RowsGoOn

LEMMA WorkStepInv ==
  ASSUME QuizInv, WorkInv, UNCHANGED <<quizVars, studying, gateVars>>, NEW t \in WorkTabs, WorkStep(t)
  PROVE  WorkInv'
<1>. USE WorkAssumption
<1>. DEFINE call == workCall[t]
            s == call.sub
<1>1. /\ call \in WorkCall /\ s \in 0 .. MaxSubmissions
      /\ call.pc \in Writing => s \in Made
      /\ call.pc = "insert" => HasBeenOpen
      /\ \A mark \in call.seen : leastMark <= mark
      /\ Made \subseteq Submissions /\ Submissions \subseteq 0 .. MaxSubmissions
      /\ NoWorkCall \in WorkCall /\ NoWorkCall.pc = "none" /\ NoWorkCall.seen = {}
  BY DEF WorkInv, WorkTypes, SubmissionsAreMade, DraftsAreUnlocked, LeastIsLeast, WorkCall, Made,
     Submissions, NoWorkCall
<1>2. \A r \in Made : subs[r] \in Submission /\ subs[r].status # "none"
  BY DEF WorkInv, WorkTypes, Made, WithStatus
<1>. HIDE DEF call, s
\* Another phase of the same request.
<1>3. ASSUME NEW pc \in {"none", "load", "draft", "insert", "count", "file", "put", "mark", "check", "submit", "refresh"}
      PROVE  LET next == [call EXCEPT !.pc = pc, !.seen = {}] IN
             next \in WorkCall /\ next.pc = pc /\ next.sub = s /\ next.seen = {}
  BY <1>1, <1>3 DEF WorkCall, s
<1>4. ASSUME NEW pc \in {"load", "draft", "count", "file", "put", "mark", "check", "submit", "refresh"},
             WorkGoto(t, pc), RowsGoOn, GradersUnchanged, pc \in Writing => call.pc \in Writing
      PROVE  WorkInv'
  <2>. DEFINE next == [call EXCEPT !.pc = pc, !.seen = {}]
  <2>1. next \in WorkCall /\ next.pc = pc /\ next.sub = s /\ next.seen = {}
    BY <1>3, <1>4
  <2>2. workCall' = [workCall EXCEPT ![t] = next]
    BY <1>4 DEF WorkGoto, call
  <2>. HIDE DEF next
  <2>. QED
    BY <1>1, <1>4, <2>1, <2>2, StudentGoesOn DEF GradersUnchanged
<1>5. ASSUME WorkOpens(t) \/ ConfirmsWork(t) PROVE WorkInv'
  <2>1. RowsGoOn /\ GradersUnchanged
    BY <1>5, RowsStay DEF WorkOpens, ConfirmsWork
  <2>. QED
    BY <1>4, <1>5, <2>1 DEF WorkOpens, ConfirmsWork, Writing
<1>6. ASSUME WorkLeaves(t) \/ ChoosesFile(t) \/ OpensSubmit(t) \/ ClosesSubmit(t) PROVE WorkInv'
  <2>1. RowsGoOn /\ GradersUnchanged
    BY <1>6, RowsStay DEF WorkLeaves, ChoosesFile, OpensSubmit, ClosesSubmit
  <2>2. workCall' = [workCall EXCEPT ![t] = call]
    BY <1>6 DEF WorkLeaves, ChoosesFile, OpensSubmit, ClosesSubmit, WorkInv, WorkTypes, call
  <2>. QED
    BY <1>1, <2>1, <2>2, StudentGoesOn DEF GradersUnchanged, s
<1>7. ASSUME ShowsWork(t) \/ WorkFails(t) PROVE WorkInv'
  <2>1. RowsGoOn /\ GradersUnchanged /\ workCall' = [workCall EXCEPT ![t] = NoWorkCall]
    BY <1>7, RowsStay DEF ShowsWork, WorkFails, WorkAnswer
  <2>. QED
    BY <1>1, <2>1, StudentGoesOn DEF GradersUnchanged, Writing
<1>8. ASSUME OpenDraft(t) PROVE WorkInv'
  <2>1. RowsGoOn /\ GradersUnchanged /\ HasBeenOpen
    BY <1>8, RowsStay, JudgedHasBeenOpen DEF OpenDraft
  <2>2. CASE Standing = "draft"
    <3>. DEFINE next == [NoWorkCall EXCEPT !.pc = "count", !.sub = LastOf(Made)]
    <3>1. LastOf(Made) \in Made
      <4>1. Made # {}
        BY <2>2 DEF Standing
      <4>. QED
        BY <1>1, <4>1, LastOfIsLast DEF Submissions
    <3>2. next \in WorkCall /\ next.pc = "count" /\ next.sub = LastOf(Made) /\ next.seen = {}
      BY <1>1, <3>1 DEF WorkCall
    <3>3. workCall' = [workCall EXCEPT ![t] = next]
      BY <1>8, <2>2 DEF OpenDraft
    <3>. HIDE DEF next
    <3>. QED
      BY <2>1, <3>1, <3>2, <3>3, StudentGoesOn DEF GradersUnchanged
  <2>3. CASE Standing # "draft"
    <3>. DEFINE next == [call EXCEPT !.pc = "insert", !.seen = {}]
    <3>1. next \in WorkCall /\ next.pc = "insert" /\ next.seen = {}
      BY <1>3
    <3>2. workCall' = [workCall EXCEPT ![t] = next]
      BY <1>8, <2>3 DEF OpenDraft, call
    <3>. HIDE DEF next
    <3>. QED
      BY <2>1, <3>1, <3>2, StudentGoesOn DEF GradersUnchanged, Writing
  <2>. QED
    BY <2>2, <2>3
<1>9. ASSUME InsertDraft(t) PROVE WorkInv'
  <2>1. PICK r \in Submissions :
          /\ subs[r].status = "none"
          /\ subs' = [subs EXCEPT ![r].status = "draft"]
          /\ workCall' = [workCall EXCEPT ![t] = [NoWorkCall EXCEPT !.pc = "count", !.sub = r]]
    BY <1>9 DEF InsertDraft
  <2>2. WithStatus("draft") = {} /\ HasBeenOpen /\ UNCHANGED <<gradeCall, review>>
    BY <1>1, <1>9 DEF InsertDraft, AdmitsDraft, WorkAt, GradersUnchanged, call
  <2>3. HasBeenOpen' = HasBeenOpen
    BY OpeningStays
  <2>4. /\ subs' \in [Submissions -> Submission] /\ subs'[r].status = "draft"
        /\ \A q \in Submissions : q # r => subs'[q] = subs[q]
    BY <2>1 DEF WorkInv, WorkTypes, Submission
  <2>5. Made \subseteq Made' /\ r \in Made' /\ WithStatus("draft")' = {r}
    BY <2>1, <2>2, <2>4 DEF Made, WithStatus
  <2>. DEFINE next == [NoWorkCall EXCEPT !.pc = "count", !.sub = r]
  <2>6. next \in WorkCall /\ next.pc = "count" /\ next.sub = r /\ next.seen = {}
    BY <1>1 DEF WorkCall
  <2>. HIDE DEF next
  <2>7. /\ workCall' \in [WorkTabs -> WorkCall]
        /\ \A u \in WorkTabs : workCall'[u] = IF u = t THEN next ELSE workCall[u]
    BY <2>1, <2>6 DEF WorkInv, WorkTypes, next
  <2>8. WorkTypes'
    BY <2>2, <2>4, <2>7 DEF WorkInv, WorkTypes, gateVars
  <2>9. SubmissionsAreMade'
    BY <2>2, <2>5, <2>6, <2>7 DEF WorkInv, SubmissionsAreMade
  <2>10. DraftsAreUnlocked' /\ WorkIsUnlocked' /\ LeastIsLeast'
    BY <2>2, <2>3, <2>6, <2>7 DEF DraftsAreUnlocked, WorkIsUnlocked, WorkInv, LeastIsLeast, gateVars
  <2>11. OneDraft'
    BY <2>5 DEF OneDraft
  <2>. QED
    BY <2>8, <2>9, <2>10, <2>11 DEF WorkInv
<1>12. ASSUME ReadMark(t) PROVE WorkInv'
  <2>. DEFINE next == [call EXCEPT !.seen = {passMark}]
  <2>1. RowsGoOn /\ GradersUnchanged /\ workCall' = [workCall EXCEPT ![t] = next]
    BY <1>12, RowsStay DEF ReadMark, call
  <2>2. passMark \in PassMarks \cup {0} /\ leastMark <= passMark
    BY DEF WorkInv, WorkTypes, LeastIsLeast
  <2>3. next \in WorkCall /\ next.pc = call.pc /\ next.sub = s /\ next.seen = {passMark}
    BY <1>1, <2>2 DEF WorkCall, s
  <2>. HIDE DEF next
  <2>. QED
    BY <1>1, <2>1, <2>2, <2>3, StudentGoesOn DEF GradersUnchanged
<1>10. ASSUME CountFiles(t) \/ CompleteFile(t) \/ CheckSubmit(t) PROVE WorkInv'
  <2>1. RowsGoOn /\ GradersUnchanged /\ call.pc \in Writing
    BY <1>10, RowsStay DEF CountFiles, CompleteFile, CheckSubmit, WorkAt, Writing, call
  <2>2. WorkGoto(t, "file") \/ WorkGoto(t, "mark") \/ WorkGoto(t, "submit")
    BY <1>10 DEF CountFiles, CompleteFile, CheckSubmit
  <2>. QED
    BY <1>4, <2>1, <2>2
<1>11. ASSUME InsertFile(t) \/ MarkReady(t) \/ SubmitWork(t) PROVE WorkInv'
  <2>1. /\ GradersUnchanged /\ call.pc \in Writing /\ s \in Made
        /\ WorkGoto(t, "put") \/ WorkGoto(t, "check") \/ WorkGoto(t, "refresh")
    BY <1>1, <1>11 DEF InsertFile, MarkReady, SubmitWork, WorkAt, Writing, call
  <2>2. \E row \in Submission : /\ row.status \in {subs[s].status, "submitted"}
                                /\ subs' = [subs EXCEPT ![s] = row]
    <3>. DEFINE filed == [subs[s] EXCEPT !.files = @ + 1]
                marked == [subs[s] EXCEPT !.ready = @ + 1]
                sent == [subs[s] EXCEPT !.status = "submitted"]
    <3>1. /\ filed \in Submission /\ marked \in Submission /\ sent \in Submission
          /\ filed.status = subs[s].status /\ marked.status = subs[s].status /\ sent.status = "submitted"
      BY <1>2, <2>1 DEF Submission
    <3>2. subs' \in {[subs EXCEPT ![s] = filed], [subs EXCEPT ![s] = marked], [subs EXCEPT ![s] = sent]}
      BY <1>11 DEF InsertFile, MarkReady, SubmitWork, call, s
    <3>. HIDE DEF filed, marked, sent
    <3>. QED
      BY <3>1, <3>2
  <2>3. RowsGoOn
    BY <1>2, <2>1, <2>2, RowChanges
  <2>. QED
    BY <1>4, <2>1, <2>3
<1>. QED
  BY <1>5, <1>6, <1>7, <1>8, <1>9, <1>10, <1>11, <1>12 DEF WorkStep, WorkPageStep, SubmitChain

LEMMA ReviewStepInv ==
  ASSUME WorkInv, UNCHANGED <<quizVars, studying, gateVars>>, NEW g \in Graders, ReviewStep(g)
  PROVE  WorkInv'
<1>. USE WorkAssumption
<1>. DEFINE call == gradeCall[g]
            page == review[g]
<1>1. /\ call \in GradeCall /\ page \in Review
      /\ call.pc \in {"read", "insert", "mark"} => call.sub \in Made
      /\ page.awaiting \subseteq Made /\ page.grading \in Made \cup {0}
      /\ Made \subseteq Submissions /\ Submissions \subseteq 0 .. MaxSubmissions
  BY DEF WorkInv, WorkTypes, SubmissionsAreMade, Made, Submissions
<1>2. /\ NoGradeCall \in GradeCall /\ NoGradeCall.pc = "none" /\ ReviewAway \in Review
      /\ ReviewAway.awaiting = {} /\ ReviewAway.grading = 0
  BY DEF NoGradeCall, GradeCall, Grades, ReviewAway, Review
<1>3. \A r \in Made : r \in Submissions /\ subs[r] \in Submission /\ subs[r].status # "none"
  BY DEF WorkInv, WorkTypes, Made, WithStatus
<1>4. /\ gradeCall' = gradeCall => gradeCall' = [gradeCall EXCEPT ![g] = call]
      /\ review' = review => review' = [review EXCEPT ![g] = page]
  BY DEF WorkInv, WorkTypes
<1>. HIDE DEF call, page
<1>5. ASSUME ReviewOpens(g) PROVE WorkInv'
  <2>. DEFINE asked == [call EXCEPT !.pc = "load"]
              shown == [page EXCEPT !.view = "loading"]
  <2>1. asked \in GradeCall /\ asked.pc = "load"
    BY <1>1 DEF GradeCall
  <2>2. /\ shown \in Review /\ shown.awaiting = page.awaiting /\ shown.grading = page.grading
    BY <1>1 DEF Review
  <2>3. /\ gradeCall' = [gradeCall EXCEPT ![g] = asked] /\ review' = [review EXCEPT ![g] = shown]
        /\ RowsGoOn /\ UNCHANGED workCall
    BY <1>5, RowsStay DEF ReviewOpens, StudentUnchanged, call, page
  <2>. HIDE DEF asked, shown
  <2>. QED
    BY <1>1, <2>1, <2>2, <2>3, GraderGoesOn
<1>6. ASSUME ReviewLeaves(g) PROVE WorkInv'
  <2>1. /\ gradeCall' = gradeCall /\ review' = [review EXCEPT ![g] = ReviewAway]
        /\ RowsGoOn /\ UNCHANGED workCall
    BY <1>6, RowsStay DEF ReviewLeaves, StudentUnchanged
  <2>. QED
    BY <1>1, <1>2, <1>4, <2>1, GraderGoesOn
\* A page that is answered is away still, or shows what the answer says.
<1>7. ASSUME NEW shown \in Review, ReviewAnswer(g, shown), shown.awaiting \subseteq Made,
             shown.grading \in Made \cup {0}
      PROVE  WorkInv'
  <2>. DEFINE next == IF review[g].view = "away" THEN review[g] ELSE shown
  <2>1. /\ gradeCall' = [gradeCall EXCEPT ![g] = NoGradeCall] /\ review' = [review EXCEPT ![g] = next]
        /\ RowsGoOn /\ UNCHANGED workCall
    BY <1>7, RowsStay DEF ReviewAnswer, StudentUnchanged
  <2>2. next \in Review /\ next.awaiting \subseteq Made /\ next.grading \in Made \cup {0}
    BY <1>1, <1>7 DEF page
  <2>. HIDE DEF next
  <2>. QED
    BY <1>2, <2>1, <2>2, GraderGoesOn
<1>8. ASSUME ShowsSubmissions(g) PROVE WorkInv'
  <2>. DEFINE shown == [ReviewAway EXCEPT !.view = "shown", !.awaiting = WithStatus("submitted")]
  <2>1. WithStatus("submitted") \subseteq Made /\ WithStatus("submitted") \subseteq Submissions
    BY DEF WithStatus, Made
  <2>2. shown \in Review /\ shown.awaiting = WithStatus("submitted") /\ shown.grading = 0
    <3>1. shown \in Review
      BY <1>2, <2>1 DEF Review
    <3>. QED
      BY <3>1 DEF ReviewAway
  <2>3. ReviewAnswer(g, shown)
    BY <1>8 DEF ShowsSubmissions
  <2>. HIDE DEF shown
  <2>. QED
    BY <1>7, <2>1, <2>2, <2>3
<1>9. ASSUME ReviewFails(g) PROVE WorkInv'
  <2>. DEFINE blank == [ReviewAway EXCEPT !.view = "blank"]
              calm == [page EXCEPT !.busy = FALSE]
  <2>1. blank \in Review /\ blank.awaiting = {} /\ blank.grading = 0
    <3>1. blank \in Review
      BY <1>2 DEF Review
    <3>. QED
      BY <3>1 DEF ReviewAway
  <2>2. calm \in Review /\ calm.awaiting = page.awaiting /\ calm.grading = page.grading
    BY <1>1 DEF Review
  <2>3. ReviewAnswer(g, blank) \/ ReviewAnswer(g, calm)
    BY <1>9 DEF ReviewFails, page
  <2>. HIDE DEF blank, calm
  <2>. QED
    BY <1>1, <1>7, <2>1, <2>2, <2>3
<1>10. ASSUME StartsGrade(g) PROVE WorkInv'
  <2>1. PICK s \in review[g].awaiting \cup {0} : review' = [review EXCEPT ![g].grading = s]
    BY <1>10 DEF StartsGrade
  <2>. DEFINE shown == [page EXCEPT !.grading = s]
  <2>2. s \in Made \cup {0} /\ s \in 0 .. MaxSubmissions
    BY <1>1, <2>1 DEF page
  <2>3. shown \in Review /\ shown.awaiting = page.awaiting /\ shown.grading = s
    BY <1>1, <2>2 DEF Review
  <2>4. /\ gradeCall' = gradeCall /\ review' = [review EXCEPT ![g] = shown]
        /\ RowsGoOn /\ UNCHANGED workCall
    BY <1>10, <2>1, RowsStay DEF StartsGrade, StudentUnchanged, page
  <2>. HIDE DEF shown
  <2>. QED
    BY <1>1, <1>4, <2>2, <2>3, <2>4, GraderGoesOn
<1>11. ASSUME HandleGrade(g) PROVE WorkInv'
  <2>1. PICK grade \in {"passed", "failed"} :
          gradeCall' = [gradeCall EXCEPT ![g] = [pc |-> "read", sub |-> page.grading, grade |-> grade]]
    BY <1>11 DEF HandleGrade, page
  <2>. DEFINE asked == [pc |-> "read", sub |-> page.grading, grade |-> grade]
              shown == [page EXCEPT !.busy = TRUE]
  <2>2. page.grading \in Made /\ page.grading \in 0 .. MaxSubmissions
    BY <1>1, <1>11 DEF HandleGrade, page
  <2>3. asked \in GradeCall /\ asked.sub = page.grading
    BY <2>2 DEF GradeCall, Grades
  <2>4. shown \in Review /\ shown.awaiting = page.awaiting /\ shown.grading = page.grading
    BY <1>1 DEF Review
  <2>5. /\ gradeCall' = [gradeCall EXCEPT ![g] = asked] /\ review' = [review EXCEPT ![g] = shown]
        /\ RowsGoOn /\ UNCHANGED workCall
    BY <1>11, <2>1, RowsStay DEF HandleGrade, StudentUnchanged, page
  <2>. HIDE DEF asked, shown
  <2>. QED
    BY <1>1, <2>2, <2>3, <2>4, <2>5, GraderGoesOn
<1>12. ASSUME NEW pc \in {"insert", "mark", "list"}
       PROVE  LET next == [call EXCEPT !.pc = pc] IN next \in GradeCall /\ next.sub = call.sub
  BY <1>1, <1>12 DEF GradeCall
<1>13. ASSUME NEW pc \in {"insert", "mark", "list"}, gradeCall' = [gradeCall EXCEPT ![g].pc = pc],
              RowsGoOn, UNCHANGED <<workCall, review>>, call.sub \in Made
       PROVE  WorkInv'
  <2>. DEFINE next == [call EXCEPT !.pc = pc]
  <2>1. next \in GradeCall /\ next.sub = call.sub
    BY <1>12, <1>13
  <2>2. gradeCall' = [gradeCall EXCEPT ![g] = next] /\ review' = [review EXCEPT ![g] = page]
    BY <1>4, <1>13 DEF call
  <2>. HIDE DEF next
  <2>. QED
    BY <1>1, <1>13, <2>1, <2>2, GraderGoesOn
<1>14. ASSUME ReadUngraded(g) PROVE WorkInv'
  <2>1. /\ gradeCall' = [gradeCall EXCEPT ![g].pc = "insert"] /\ RowsGoOn
        /\ UNCHANGED <<workCall, review>> /\ call.sub \in Made
    BY <1>1, <1>14, RowsStay DEF ReadUngraded, StudentUnchanged, call
  <2>. QED
    BY <1>13, <2>1
<1>15. ASSUME InsertGrade(g) \/ MarkGraded(g) PROVE WorkInv'
  <2>. DEFINE s == call.sub
              given == [subs[s] EXCEPT !.grade = call.grade]
              closed == [subs[s] EXCEPT !.status = "graded"]
  <2>1. /\ s \in Made /\ UNCHANGED <<workCall, review>>
        /\ \/ gradeCall' = [gradeCall EXCEPT ![g].pc = "mark"]
           \/ gradeCall' = [gradeCall EXCEPT ![g].pc = "list"]
    BY <1>1, <1>15 DEF InsertGrade, MarkGraded, StudentUnchanged, call
  <2>2. /\ given \in Submission /\ closed \in Submission
        /\ given.status = subs[s].status /\ closed.status = "graded"
    BY <1>1, <1>3, <2>1 DEF Submission, GradeCall
  <2>3. subs' \in {[subs EXCEPT ![s] = given], [subs EXCEPT ![s] = closed]}
    BY <1>15 DEF InsertGrade, MarkGraded, call
  <2>. HIDE DEF given, closed, s
  <2>4. RowsGoOn
    BY <1>3, <2>1, <2>2, <2>3, RowChanges
  <2>. QED
    BY <1>13, <2>1, <2>4 DEF s
<1>. QED
  BY <1>5, <1>6, <1>8, <1>9, <1>10, <1>11, <1>14, <1>15 DEF ReviewStep

-----------------------------------------------------------------------------
(* The quiz and the assignment together *)

\* A step of the quiz leaves the marks that were met met.
LEMMA ScoresStay ==
  ASSUME QuizInv, NEW t \in QuizTabs, QuizStep(t), UNCHANGED gateVars, HasBeenOpen
  PROVE  HasBeenOpen'
<1>1. \A n \in SubmittedNumbers : attempts'[n] = attempts[n]
  BY SubmittedStays
<1>2. \A n \in SubmittedNumbers : n \in SubmittedNumbers'
  BY <1>1 DEF SubmittedNumbers
<1>. QED
  BY <1>1, <1>2 DEF HasBeenOpen, Opens, MeetsMark, gateVars

\* Whatever mark the teacher sets, the least one there has been does not rise.
LEMMA LeastMarkFalls ==
  ASSUME WorkInv, NEW mark \in studying.marks, SetsPassMark(mark) \/ PublishesGate(mark)
  PROVE  /\ leastMark' <= leastMark /\ leastMark' <= passMark'
         /\ passMark' \in studying.marks /\ leastMark' \in studying.marks
         /\ leastMark \in Nat /\ leastMark' \in Nat
<1>0. /\ studying.marks \subseteq PassMarks \cup {0} /\ leastMark <= passMark
      /\ passMark \in studying.marks /\ leastMark \in studying.marks
  BY DEF WorkInv, WorkTypes, LeastIsLeast
<1>1. /\ mark \in Nat /\ leastMark \in Nat /\ leastMark \in studying.marks
      /\ passMark \in Nat /\ leastMark <= passMark
  BY <1>0, MarkIsNumber
<1>2. CASE SetsPassMark(mark)
  BY <1>1, <1>2 DEF SetsPassMark
<1>3. CASE PublishesGate(mark)
  BY <1>1, <1>3 DEF PublishesGate
<1>. QED
  BY <1>2, <1>3

\* What has been open to the student has been, whatever the teacher does.
LEMMA OpeningLasts ==
  ASSUME QuizInv, WorkInv, NEW mark \in studying.marks, SetsPassMark(mark) \/ PublishesGate(mark),
         UNCHANGED quizVars, HasBeenOpen
  PROVE  HasBeenOpen'
<1>1. leastMark' <= leastMark /\ leastMark \in Nat /\ leastMark' \in Nat
  BY LeastMarkFalls
<1>2. Opens(leastMark')
  BY <1>1, MarkStaysMet DEF HasBeenOpen
<1>. QED
  BY <1>2 DEF HasBeenOpen, Opens, MeetsMark, SubmittedNumbers, quizVars

LEMMA CourseworkStep == CourseworkInv /\ [CourseworkNext]_courseworkVars => CourseworkInv'
<1>. SUFFICES ASSUME CourseworkInv, [CourseworkNext]_courseworkVars PROVE CourseworkInv'
  OBVIOUS
<1>1. /\ studying.work \subseteq WorkTabs /\ studying.graders \subseteq Graders
      /\ studying.quiz \subseteq QuizTabs
  BY DEF CourseworkInv, WorkInv, WorkTypes
<1>2. ASSUME NEW t \in studying.work, WorkStep(t), UNCHANGED <<quizVars, studying, gateVars>>
      PROVE  CourseworkInv'
  BY <1>1, <1>2, WorkStepInv, QuizStays DEF CourseworkInv
<1>3. ASSUME NEW g \in studying.graders, ReviewStep(g), UNCHANGED <<quizVars, studying, gateVars>>
      PROVE  CourseworkInv'
  BY <1>1, <1>3, ReviewStepInv, QuizStays DEF CourseworkInv
<1>4. ASSUME NEW t \in studying.quiz, QuizStep(t), UNCHANGED <<workVars, studying, gateVars>>
      PROVE  CourseworkInv'
  <2>1. QuizInv'
    BY <1>1, <1>4, QuizStepInv DEF CourseworkInv
  \* An attempt stays with its score, and so does the mark it met.
  <2>2. HasBeenOpen => HasBeenOpen'
    BY <1>1, <1>4, ScoresStay DEF CourseworkInv
  <2>3. Made' = Made /\ OneDraft' = OneDraft
    BY <1>4 DEF workVars, Made, WithStatus, OneDraft
  <2>4. WorkInv'
    BY <1>4, <2>2, <2>3 DEF CourseworkInv, WorkInv, WorkTypes, SubmissionsAreMade, DraftsAreUnlocked,
       LeastIsLeast, WorkIsUnlocked, workVars, gateVars
  <2>. QED
    BY <2>1, <2>4 DEF CourseworkInv
<1>5. CASE UNCHANGED courseworkVars
  <2>1. UNCHANGED <<quizVars, studying, gateVars, subs>> /\ UNCHANGED workVars
    BY <1>5 DEF courseworkVars, workVars
  <2>2. RowsGoOn
    BY <2>1, RowsStay DEF CourseworkInv
  <2>3. WorkInv'
    BY <2>1, <2>2 DEF CourseworkInv, WorkInv, WorkTypes, SubmissionsAreMade, DraftsAreUnlocked,
       LeastIsLeast, RowsGoOn, workVars, gateVars
  <2>. QED
    BY <2>1, <2>3, QuizStays DEF CourseworkInv
<1>6. ASSUME NEW mark \in studying.marks, SetsPassMark(mark) \/ PublishesGate(mark),
             UNCHANGED <<quizVars, studying, workVars>>
      PROVE  CourseworkInv'
  <2>1. /\ leastMark' <= leastMark /\ leastMark' <= passMark'
        /\ passMark' \in studying.marks /\ leastMark' \in studying.marks
        /\ leastMark \in Nat /\ leastMark' \in Nat
    BY <1>6, LeastMarkFalls DEF CourseworkInv
  <2>2. HasBeenOpen => HasBeenOpen'
    BY <1>6, OpeningLasts DEF CourseworkInv
  <2>3. \A t \in WorkTabs : \A seen \in workCall[t].seen : seen \in Nat /\ leastMark' <= seen
    <3>. SUFFICES ASSUME NEW t \in WorkTabs, NEW seen \in workCall[t].seen
                  PROVE  seen \in Nat /\ leastMark' <= seen
      OBVIOUS
    <3>1. seen \in Nat /\ leastMark <= seen
      BY SeenIsNumber DEF CourseworkInv
    <3>. QED
      BY <2>1, <3>1
  <2>4. LeastIsLeast'
    BY <1>6, <2>1, <2>3 DEF LeastIsLeast, workVars
  <2>5. Made' = Made /\ OneDraft' = OneDraft
    BY <1>6 DEF workVars, Made, WithStatus, OneDraft
  <2>6. WorkInv'
    BY <1>6, <2>1, <2>2, <2>4, <2>5 DEF CourseworkInv, WorkInv, WorkTypes, SubmissionsAreMade,
       DraftsAreUnlocked, WorkIsUnlocked, workVars
  <2>. QED
    BY <1>6, <2>6, QuizStays DEF CourseworkInv
<1>. QED
  BY <1>2, <1>3, <1>4, <1>5, <1>6 DEF CourseworkNext

\* A grade that was given is left alone by every step of the work.
LEMMA GradeStays ==
  ASSUME CourseworkInv, [CourseworkNext]_courseworkVars
  PROVE  \A s \in Submissions : subs[s].grade # "none" => subs'[s].grade = subs[s].grade
<1>. SUFFICES ASSUME NEW s \in Submissions, subs[s].grade # "none"
              PROVE  subs'[s].grade = subs[s].grade
  OBVIOUS
<1>1. subs \in [Submissions -> Submission]
  BY DEF CourseworkInv, WorkInv, WorkTypes
<1>2. CASE subs' = subs
  BY <1>2
<1>3. ASSUME NEW g, InsertGrade(g) PROVE subs'[s].grade = subs[s].grade
  BY <1>1, <1>3 DEF InsertGrade, AdmitsGrade
<1>4. ASSUME NEW g, ReviewStep(g) PROVE subs'[s].grade = subs[s].grade
  <2>1. CASE MarkGraded(g)
    BY <1>1, <2>1 DEF MarkGraded, Submission
  <2>2. CASE ReviewOpens(g) \/ ReviewLeaves(g) \/ ShowsSubmissions(g) \/ ReviewFails(g) \/ StartsGrade(g)
             \/ HandleGrade(g) \/ ReadUngraded(g)
    BY <1>2, <2>2 DEF ReviewOpens, ReviewLeaves, ShowsSubmissions, ReviewFails, ReviewAnswer, StartsGrade,
       HandleGrade, ReadUngraded
  <2>. QED
    BY <1>3, <1>4, <2>1, <2>2 DEF ReviewStep
<1>5. ASSUME NEW t, WorkStep(t) PROVE subs'[s].grade = subs[s].grade
  <2>1. CASE InsertDraft(t)
    BY <1>1, <2>1 DEF InsertDraft, Submission
  <2>2. CASE InsertFile(t) \/ MarkReady(t) \/ SubmitWork(t)
    BY <1>1, <2>2 DEF InsertFile, MarkReady, SubmitWork, Submission
  <2>3. CASE WorkPageStep(t) \/ ReadMark(t) \/ OpenDraft(t) \/ CountFiles(t) \/ CompleteFile(t) \/ CheckSubmit(t)
    BY <1>2, <2>3 DEF WorkPageStep, WorkOpens, WorkLeaves, ChoosesFile, OpensSubmit, ClosesSubmit,
       ConfirmsWork, ShowsWork, WorkFails, WorkAnswer, ReadMark, OpenDraft, CountFiles, CompleteFile,
       CheckSubmit
  <2>. QED
    BY <1>5, <2>1, <2>2, <2>3 DEF WorkStep, SubmitChain
<1>. QED
  BY <1>2, <1>4, <1>5 DEF CourseworkNext, courseworkVars, workVars

\* In every run the rows, the requests and the pages of the quiz are of the declared
\* types, and every attempt serves exactly as many questions as the quiz asks.
THEOREM QuizTypeCorrect == CourseworkSpec => []QuizTypeOK
<1>1. CourseworkInv => QuizTypeOK
  BY DEF CourseworkInv, QuizInv, QuizTypes, QuizTypeOK, Draws
<1>. QED
  BY CourseworkInitInv, CourseworkStep, <1>1, PTL DEF CourseworkSpec

\* In every run an attempt that is open is the last one and asks what the binding
\* holds, whichever tabs start, retake and redraw at once.
THEOREM OpenAttemptAlwaysBound == CourseworkSpec => []OpenAttemptIsBound
<1>1. CourseworkInv => OpenAttemptIsBound
  BY DEF CourseworkInv, QuizInv
<1>. QED
  BY CourseworkInitInv, CourseworkStep, <1>1, PTL DEF CourseworkSpec

\* In every run submitting what a tab shows grades the questions that it shows.
THEOREM AlwaysGradedAsShown == CourseworkSpec => []GradedAsShown
<1>1. CourseworkInv => GradedAsShown
  BY DEF CourseworkInv, QuizInv
<1>. QED
  BY CourseworkInitInv, CourseworkStep, <1>1, PTL DEF CourseworkSpec

\* In every run a student has one draft of an assignment, though two requests may
\* both have found none.
THEOREM AlwaysOneDraft == CourseworkSpec => []OneDraft
<1>1. CourseworkInv => OneDraft
  BY DEF CourseworkInv, WorkInv
<1>. QED
  BY CourseworkInitInv, CourseworkStep, <1>1, PTL DEF CourseworkSpec

\* In every run there is work only of a student who has met a pass mark the quiz
\* before has had, whenever the teacher changes it and however the reads of the
\* mark and of the scores and the writes of the work overlap.
THEOREM WorkAlwaysUnlocked == CourseworkSpec => []WorkIsUnlocked
<1>1. CourseworkInv => WorkIsUnlocked
  BY DEF CourseworkInv, WorkInv
<1>. QED
  BY CourseworkInitInv, CourseworkStep, <1>1, PTL DEF CourseworkSpec

\* A submitted attempt is never graded again nor replaced.
THEOREM SubmittedAlwaysStands == CourseworkSpec => SubmittedStands
<1>1. CourseworkInv /\ [CourseworkNext]_courseworkVars =>
        [\A n \in SubmittedNumbers : attempts'[n] = attempts[n]]_quizVars
  <2>. SUFFICES ASSUME CourseworkInv, [CourseworkNext]_courseworkVars, ~ UNCHANGED quizVars
                PROVE  \A n \in SubmittedNumbers : attempts'[n] = attempts[n]
    OBVIOUS
  <2>1. PICK t \in studying.quiz : QuizStep(t)
    BY DEF CourseworkNext, courseworkVars
  <2>2. t \in QuizTabs
    BY DEF CourseworkInv, WorkInv, WorkTypes
  <2>. QED
    BY <2>1, <2>2, SubmittedStays DEF CourseworkInv
<1>. QED
  BY CourseworkInitInv, CourseworkStep, <1>1, PTL DEF CourseworkSpec, SubmittedStands

\* Opening the attempt after those that are taken sits the next paper.
LEMMA OpeningSits ==
  ASSUME QuizInv, NEW n \in Numbers, NEW paper \in Draws, Taken = 1 .. (n - 1),
         AdmitsAttempt(n), attempts' = [attempts EXCEPT ![n] = Opened(paper)]
  PROVE  Book!Sit(n, paper)
<1>. DEFINE papers == [k \in Taken |-> attempts[k].questions]
<1>0. /\ attempts \in [Numbers -> Attempt] /\ n \in Nat \ {0}
      /\ attempts[n].status = "none" /\ OpenNumbers = {}
  BY QuizAssumption DEF QuizInv, QuizTypes, AdmitsAttempt, Numbers
<1>1. Opened(paper).status = "in_progress" /\ Opened(paper).questions = paper
  BY DEF Opened
<1>2. /\ \A k \in Numbers : k # n => attempts'[k] = attempts[k]
      /\ attempts'[n] = Opened(paper)
  BY <1>0
<1>3. SubmittedNumbers = Taken
  BY <1>0 DEF SubmittedNumbers, Taken, OpenNumbers, Attempt
<1>4. SubmittedNumbers' = SubmittedNumbers /\ n \notin SubmittedNumbers
  BY <1>0, <1>1, <1>2 DEF SubmittedNumbers
<1>5. Taken' = Taken \cup {n}
  BY <1>1, <1>2 DEF Taken
<1>7. DOMAIN papers = Taken
  OBVIOUS
<1>8. [k \in Taken |-> attempts[k].questions]'
        = [k \in Taken \cup {n} |-> IF k = n THEN paper ELSE papers[k]]
  <2>1. \A k \in Taken \cup {n} :
          attempts'[k].questions = IF k = n THEN paper ELSE papers[k]
    BY <1>1, <1>2 DEF Taken
  <2>. QED  BY <1>5, <2>1
<1>9. [k \in SubmittedNumbers |-> attempts[k].score]' = [k \in SubmittedNumbers |-> attempts[k].score]
  <2>1. \A k \in SubmittedNumbers : attempts'[k].score = attempts[k].score
    BY <1>2, <1>4 DEF SubmittedNumbers
  <2>. QED  BY <1>4, <2>1
<1>10. DOMAIN [k \in SubmittedNumbers |-> attempts[k].score] = DOMAIN papers
  BY <1>3
<1>11. DOMAIN papers = 1 .. (n - 1)
  BY <1>7
<1>12. [k \in Taken |-> attempts[k].questions]' = Book!With(papers, n, paper)
  BY <1>7, <1>8 DEF Book!With
<1>. HIDE DEF papers
<1>. QED
  BY <1>9, <1>10, <1>11, <1>12 DEF Book!Sit, papers

\* Grading an attempt that is not submitted marks it.
LEMMA GradingMarks ==
  ASSUME QuizInv, NEW n \in Taken \ SubmittedNumbers, NEW score \in Scores,
         attempts' = [attempts EXCEPT ![n].status = "submitted", ![n].score = score]
  PROVE  Book!Mark(n, score)
<1>0. attempts \in [Numbers -> Attempt] /\ n \in Numbers
  BY DEF QuizInv, QuizTypes, Taken
<1>1. /\ \A k \in Numbers : k # n => attempts'[k] = attempts[k]
      /\ attempts'[n].status = "submitted" /\ attempts'[n].score = score
      /\ attempts'[n].questions = attempts[n].questions
  BY <1>0 DEF Attempt
<1>2. Taken' = Taken /\ SubmittedNumbers' = SubmittedNumbers \cup {n}
  BY <1>0, <1>1 DEF Taken, SubmittedNumbers
<1>3. [k \in Taken |-> attempts[k].questions]' = [k \in Taken |-> attempts[k].questions]
  <2>1. \A k \in Taken : attempts'[k].questions = attempts[k].questions
    BY <1>1 DEF Taken
  <2>. QED  BY <1>2, <2>1
<1>4. [k \in SubmittedNumbers |-> attempts[k].score]'
        = [k \in SubmittedNumbers \cup {n} |->
             IF k = n THEN score ELSE [j \in SubmittedNumbers |-> attempts[j].score][k]]
  <2>1. \A k \in SubmittedNumbers \cup {n} :
          attempts'[k].score
            = IF k = n THEN score ELSE [j \in SubmittedNumbers |-> attempts[j].score][k]
    <3>. SUFFICES ASSUME NEW k \in SubmittedNumbers, k # n
                  PROVE  attempts'[k].score = attempts[k].score
      BY <1>1
    <3>. QED  BY <1>1 DEF SubmittedNumbers
  <2>. QED  BY <1>2, <2>1
<1>. QED
  BY <1>3, <1>4 DEF Book!Mark, Book!With

\* Each statement of a tab sits a paper, marks one, or does neither.
LEMMA QuizStepsBook ==
  ASSUME QuizInv, NEW t \in QuizTabs, QuizStep(t)
  PROVE  Book!BookNext \/ UNCHANGED attempts
<1>. DEFINE n == quizCall[t].number
<1>0. /\ \A k \in Taken : \A m \in 1 .. (k - 1) : m \in Taken
      /\ binding = {} => Taken = {}
      /\ Taken \subseteq Numbers /\ Numbers = 1 .. MaxAttempts /\ MaxAttempts \in Nat \ {0}
      /\ quizCall[t] \in QuizCall /\ attempts \in [Numbers -> Attempt]
      /\ quizCall[t].pc \in {"open", "latest", "insert"} /\ Taken = {} =>
           binding # {} /\ quizCall[t].bound = binding
      /\ quizCall[t].pc = "insert" => n = 1
      /\ quizCall[t].pc = "redraw" => n - 1 \in Taken
      /\ quizCall[t].pc \in Knowing => n \in Taken
      /\ binding \in Draws \cup {{}}
  BY QuizAssumption DEF QuizInv, QuizTypes, AttemptsAreNumbered, CallsAreRead, Taken, Numbers
<1>s. ASSUME NEW k \in Numbers, NEW paper \in Draws, Book!Sit(k, paper) PROVE Book!BookNext
  BY <1>s DEF Book!BookNext
<1>1. CASE CreateBinding(t) /\ binding = {}
  <2>1. PICK drawn \in Draws : attempts' = [attempts EXCEPT ![1] = Opened(drawn)]
    BY <1>1 DEF CreateBinding
  <2>2. Taken = 1 .. (1 - 1) /\ 1 \in Numbers
    BY <1>0, <1>1
  <2>3. AdmitsAttempt(1)
    BY <1>0, <2>2 DEF AdmitsAttempt, Taken, OpenNumbers, Attempt
  <2>. QED  BY <1>s, <2>1, <2>2, <2>3, OpeningSits
<1>2. CASE Redraw(t) /\ AdmitsAttempt(n)
  <2>1. PICK drawn \in Draws : attempts' = [attempts EXCEPT ![n] = Opened(drawn)]
    BY <1>2 DEF Redraw
  <2>2. n \in Numbers /\ n - 1 \in Taken /\ n \notin Taken
    BY <1>0, <1>2 DEF Redraw, QuizAt, AdmitsAttempt, Taken
  <2>3. Taken = 1 .. (n - 1)
    <3>1. ASSUME NEW k \in Taken PROVE k \in 1 .. (n - 1)
      BY <1>0, <2>2
    <3>2. ASSUME NEW k \in 1 .. (n - 1) PROVE k \in Taken
      <4>1. k = n - 1 \/ k \in 1 .. ((n - 1) - 1)
        BY <1>0, <2>2
      <4>. QED  BY <1>0, <2>2, <4>1
    <3>. QED  BY <3>1, <3>2
  <2>. QED  BY <1>2, <1>s, <2>1, <2>2, <2>3, OpeningSits
<1>3. CASE InsertAttempt(t) /\ AdmitsAttempt(n)
  <2>1. attempts' = [attempts EXCEPT ![n] = Opened(quizCall[t].bound)] /\ quizCall[t].pc = "insert"
    BY <1>3 DEF InsertAttempt, QuizAt
  <2>2. n = 1 /\ 1 \in Numbers /\ 1 \notin Taken
    BY <1>0, <1>3, <2>1 DEF AdmitsAttempt, Taken
  <2>3. Taken = {}
    <3>. SUFFICES ASSUME NEW k \in Taken PROVE FALSE
      OBVIOUS
    <3>1. k # 1 /\ k \in Nat /\ 1 \in 1 .. (k - 1)
      BY <1>0, <2>2
    <3>. QED  BY <1>0, <2>2, <3>1
  <2>4. quizCall[t].bound \in Draws /\ Taken = 1 .. (1 - 1)
    BY <1>0, <2>1, <2>3
  <2>. QED  BY <1>3, <1>s, <2>1, <2>2, <2>4, OpeningSits
<1>4. CASE Grade(t)
  <2>1. PICK score \in Scores :
          attempts' = [attempts EXCEPT ![n].status = "submitted", ![n].score = score]
    BY <1>4 DEF Grade
  <2>2. n \in Taken \ SubmittedNumbers
    BY <1>0, <1>4 DEF Grade, QuizAt, NotSubmitted, Knowing, SubmittedNumbers
  <2>3. Book!Mark(n, score)
    BY <2>1, <2>2, GradingMarks
  <2>. QED  BY <2>2, <2>3 DEF Book!BookNext
<1>5. CASE (Redraw(t) \/ InsertAttempt(t)) /\ ~AdmitsAttempt(n)
  BY <1>5 DEF Redraw, InsertAttempt, Lost
<1>6. CASE QuizPageStep(t)
  BY <1>6 DEF QuizPageStep, QuizOpens, QuizLeaves, AnswersAll, OpensReview, LeavesReview,
     DismissesModal, ConfirmsSubmit, TriesAgain
<1>7. CASE ReadBinding(t) \/ ReadOpen(t) \/ ReadLatest(t) \/ ReadSubmission(t) \/ Reopen(t) \/ Reload(t)
           \/ Serve(t) \/ ReadAttempt(t) \/ CompareBinding(t) \/ DeliverResults(t) \/ QuizFails(t)
  BY <1>7 DEF ReadBinding, ReadOpen, ReadLatest, ReadSubmission, Reopen, Reload, Serve,
     ReadAttempt, CompareBinding, DeliverResults, QuizFails, Answer, Rows
<1>8. CASE CreateBinding(t) /\ binding # {}
  BY <1>8 DEF CreateBinding, Rows
<1>. QED
  BY <1>1, <1>2, <1>3, <1>4, <1>5, <1>6, <1>7, <1>8 DEF QuizStep, StartStep, SubmitStep

\* In every run the overlapping statements of starts, retakes and submissions come
\* to papers that are sat one after the other, each marked once.
THEOREM CourseworkImplementsAttemptBook == CourseworkSpec => ImplementsAttemptBook
<1>1. CourseworkInit => Book!BookInit
  <2>. SUFFICES ASSUME CourseworkInit PROVE Book!BookInit
    OBVIOUS
  <2>1. \A n \in Numbers : attempts[n] = NoAttempt
    BY DEF CourseworkInit, QuizInit
  <2>2. Taken = {} /\ SubmittedNumbers = {}
    BY <2>1 DEF Taken, SubmittedNumbers, NoAttempt
  <2>. QED  BY <2>2 DEF Book!BookInit
<1>2. CourseworkInv /\ [CourseworkNext]_courseworkVars => [Book!BookNext]_(Book!bookVars)
  <2>. SUFFICES ASSUME CourseworkInv, [CourseworkNext]_courseworkVars
                PROVE  [Book!BookNext]_(Book!bookVars)
    OBVIOUS
  <2>1. CASE UNCHANGED attempts
    BY <2>1 DEF Book!bookVars, Taken, SubmittedNumbers
  <2>2. ASSUME NEW t \in studying.quiz, QuizStep(t) PROVE Book!BookNext \/ UNCHANGED attempts
    <3>1. t \in QuizTabs /\ QuizInv
      BY DEF CourseworkInv, WorkInv, WorkTypes
    <3>. QED  BY <2>2, <3>1, QuizStepsBook
  <2>. QED
    BY <2>1, <2>2 DEF CourseworkNext, courseworkVars, quizVars
<1>. QED
  BY CourseworkInitInv, CourseworkStep, <1>1, <1>2, PTL
  DEF CourseworkSpec, ImplementsAttemptBook, Book!BookSpec

\* A grade is never changed once given.
THEOREM GradeAlwaysStands == CourseworkSpec => GradeStands
<1>1. CourseworkInv /\ [CourseworkNext]_courseworkVars =>
        [\A s \in Submissions : subs[s].grade # "none" => subs'[s].grade = subs[s].grade]_workVars
  BY GradeStays
<1>. QED
  BY CourseworkInitInv, CourseworkStep, <1>1, PTL DEF CourseworkSpec, GradeStands

-----------------------------------------------------------------------------
(* The assignment as a desk of work that is handed in and graded *)

Stored == {s \in Made : subs[s].ready > 0}
HandedIn == WithStatus("submitted") \cup WithStatus("graded")
Marks == [s \in Graded |-> subs[s].grade]

\* Submissions are numbered from 1 on, without a gap, and a row that is not made
\* yet has no files.
RowsAreNumbered ==
  /\ \A s \in Made : \A r \in 1 .. (s - 1) : r \in Made
  /\ \A s \in Submissions \ Made : subs[s].ready = 0

\* A request about to submit has found a file that is in store, and one about to
\* grade has read a submission that was handed in.
FilesAreStored == \A t \in WorkTabs : workCall[t].pc = "submit" => workCall[t].sub \in Stored
GradersHaveRead ==
  \A g \in Graders : gradeCall[g].pc \in {"insert", "mark"} => gradeCall[g].sub \in HandedIn

DeskInv == RowsAreNumbered /\ FilesAreStored /\ GradersHaveRead

\* The rows that are made keep their place, and those that are not stay blank.
BlanksStay == \A s \in Submissions \ Made' : subs'[s] = subs[s]

LEMMA DeskStays ==
  ASSUME HasBeenOpen' = HasBeenOpen, Made' = Made, Stored' = Stored, HandedIn' = HandedIn, Marks' = Marks
  PROVE  UNCHANGED Desk!deskVars
BY DEF Desk!deskVars, Stored, HandedIn, Marks

\* What writing one row that is made does to the desk.
LEMMA RowIsWritten ==
  ASSUME WorkTypes, NEW s \in Made, NEW row \in Submission, row.status # "none",
         subs' = [subs EXCEPT ![s] = row]
  PROVE  /\ Made' = Made /\ BlanksStay
         /\ row.ready = subs[s].ready => Stored' = Stored
         /\ row.ready > 0 => Stored' = Stored \cup {s}
         /\ row.status = subs[s].status => HandedIn' = HandedIn
         /\ row.status \in {"submitted", "graded"} => HandedIn' = HandedIn \cup {s}
         /\ row.grade = subs[s].grade => Marks' = Marks
<1>1. /\ s \in Submissions /\ subs[s].status # "none"
      /\ \A r \in Submissions : subs'[r] = IF r = s THEN row ELSE subs[r]
  BY DEF WorkTypes, Made, WithStatus
<1>2. Made' = Made
  BY <1>1 DEF Made, WithStatus
<1>3. BlanksStay
  BY <1>1, <1>2 DEF BlanksStay, Made
<1>4. /\ row.ready = subs[s].ready => Stored' = Stored
      /\ row.ready > 0 => Stored' = Stored \cup {s}
  BY <1>1, <1>2 DEF Stored, Made
<1>5. /\ row.status = subs[s].status => HandedIn' = HandedIn
      /\ row.status \in {"submitted", "graded"} => HandedIn' = HandedIn \cup {s}
  BY <1>1 DEF HandedIn, WithStatus
<1>6. ASSUME row.grade = subs[s].grade PROVE Marks' = Marks
  <2>1. \A r \in Submissions : subs'[r].grade = subs[r].grade
    BY <1>1, <1>6
  <2>2. Graded' = Graded
    BY <2>1 DEF Graded
  <2>3. \A r \in Graded : subs'[r].grade = subs[r].grade
    BY <2>1 DEF Graded
  <2>. QED
    BY <2>2, <2>3 DEF Marks
<1>. QED
  BY <1>2, <1>3, <1>4, <1>5, <1>6

\* A draft that no other draft stands beside opens the next submission.
LEMMA DraftOpens ==
  ASSUME WorkInv, DeskInv, UNCHANGED <<quizVars, studying, gateVars>>, NEW t \in WorkTabs, InsertDraft(t)
  PROVE  (\E n \in Submissions : Desk!Open(n)) /\ BlanksStay
<1>1. PICK n \in Submissions :
        /\ subs[n].status = "none" /\ \A r \in 1 .. (n - 1) : r \in Made
        /\ subs' = [subs EXCEPT ![n].status = "draft"]
  BY DEF InsertDraft
<1>2. /\ Made \subseteq Nat /\ Submissions \subseteq Nat /\ n \notin Made /\ subs[n].ready = 0
      /\ \A s \in Made : \A r \in 1 .. (s - 1) : r \in Made
  BY <1>1, WorkAssumption DEF Made, WithStatus, Submissions, DeskInv, RowsAreNumbered
<1>3. Made = 1 .. (n - 1)
  <2>1. ASSUME NEW k \in Made PROVE k \in 1 .. (n - 1)
    <3>1. k # n /\ n \notin 1 .. (k - 1) /\ k \in Nat /\ n \in Nat /\ k >= 1 /\ n >= 1
      BY <1>2, WorkAssumption DEF Made, Submissions
    <3>. QED
      BY <3>1
  <2>. QED
    BY <1>1, <2>1
<1>4. /\ \A s \in Submissions : s # n => subs'[s] = subs[s]
      /\ subs'[n].status = "draft" /\ subs'[n].ready = 0 /\ subs'[n].grade = subs[n].grade
  BY <1>1, <1>2 DEF WorkInv, WorkTypes, Submission
<1>5. Made' = Made \cup {n} /\ BlanksStay
  BY <1>4 DEF Made, WithStatus, BlanksStay
<1>6. HandedIn = Made
  BY DEF InsertDraft, AdmitsDraft, WithStatus, HandedIn, Made, WorkInv, WorkTypes, Submission
<1>7. HandedIn' = HandedIn
  BY <1>1, <1>4 DEF HandedIn, WithStatus
<1>8. Stored' = Stored
  BY <1>2, <1>4, <1>5 DEF Stored, Made
<1>9. Marks' = Marks
  <2>1. \A s \in Submissions : subs'[s].grade = subs[s].grade
    BY <1>4
  <2>2. Graded' = Graded /\ \A s \in Graded : subs'[s].grade = subs[s].grade
    BY <2>1 DEF Graded
  <2>. QED
    BY <2>2 DEF Marks
<1>10. HasBeenOpen /\ HasBeenOpen' = HasBeenOpen
  BY OpeningStays DEF InsertDraft, WorkAt, WorkInv, DraftsAreUnlocked
<1>11. Desk!Open(n)
  BY <1>3, <1>5, <1>6, <1>7, <1>8, <1>9, <1>10 DEF Desk!Open, Stored, HandedIn, Marks
<1>. QED
  BY <1>5, <1>11

\* What the statements of a submitting tab do to the desk.
LEMMA WorkStepsDesk ==
  ASSUME WorkInv, DeskInv, UNCHANGED <<quizVars, studying, gateVars>>, NEW t \in WorkTabs, WorkStep(t)
  PROVE  [Desk!DeskNext]_(Desk!deskVars) /\ BlanksStay
<1>0. PICK s \in 0 .. MaxSubmissions : s = workCall[t].sub
  BY DEF WorkInv, WorkTypes, WorkCall
<1>1. HasBeenOpen' = HasBeenOpen /\ WorkTypes
  BY OpeningStays DEF WorkInv
<1>2. workCall[t].pc \in Writing =>
        s \in Made /\ s \in Submissions /\ subs[s] \in Submission /\ subs[s].status # "none"
  BY <1>0 DEF WorkInv, WorkTypes, SubmissionsAreMade, Made, WithStatus
<1>3. CASE subs' = subs
  BY <1>1, <1>3, DeskStays DEF Made, WithStatus, Stored, HandedIn, Marks, Graded, BlanksStay
<1>4. CASE InsertDraft(t)
  BY <1>4, DraftOpens DEF Desk!DeskNext
<1>5. CASE InsertFile(t)
  <2>. DEFINE row == [subs[s] EXCEPT !.files = @ + 1]
  <2>1. s \in Made /\ subs[s] \in Submission /\ subs[s].status # "none"
    BY <1>2, <1>5 DEF InsertFile, WorkAt, Writing
  <2>2. /\ row \in Submission /\ row.status = subs[s].status /\ row.ready = subs[s].ready
        /\ row.grade = subs[s].grade
    BY <2>1 DEF Submission
  <2>3. subs' = [subs EXCEPT ![s] = row]
    BY <1>0, <1>5 DEF InsertFile
  <2>. HIDE DEF row
  <2>. QED
    BY <1>1, <2>1, <2>2, <2>3, RowIsWritten, DeskStays
<1>6. CASE MarkReady(t)
  <2>. DEFINE row == [subs[s] EXCEPT !.ready = @ + 1]
  <2>1. s \in Made /\ s \in Submissions /\ subs[s] \in Submission /\ subs[s].status # "none"
    BY <1>2, <1>6 DEF MarkReady, WorkAt, Writing
  <2>2. /\ row \in Submission /\ row.status = subs[s].status /\ row.ready > 0
        /\ row.grade = subs[s].grade
    BY <2>1 DEF Submission
  <2>3. subs' = [subs EXCEPT ![s] = row]
    BY <1>0, <1>6 DEF MarkReady
  <2>. HIDE DEF row
  <2>4. /\ Made' = Made /\ BlanksStay /\ Stored' = Stored \cup {s} /\ HandedIn' = HandedIn
        /\ Marks' = Marks
    BY <1>1, <2>1, <2>2, <2>3, RowIsWritten
  <2>5. CASE s \in Stored
    <3>1. Stored' = Stored
      BY <2>4, <2>5
    <3>. QED
      BY <1>1, <2>4, <3>1, DeskStays
  <2>6. CASE s \notin Stored
    <3>1. Desk!Store(s)
      BY <1>1, <2>1, <2>4, <2>6 DEF Desk!Store, Stored, HandedIn, Marks
    <3>2. Desk!DeskNext
      BY <2>1, <2>6, <3>1 DEF Desk!DeskNext, Stored
    <3>. QED
      BY <2>4, <3>2
  <2>. QED
    BY <2>5, <2>6
<1>7. CASE SubmitWork(t)
  <2>. DEFINE row == [subs[s] EXCEPT !.status = "submitted"]
  <2>1. /\ s \in Made /\ s \in Submissions /\ subs[s] \in Submission /\ subs[s].status # "none"
        /\ s \in Stored
    BY <1>0, <1>2, <1>7 DEF SubmitWork, WorkAt, Writing, DeskInv, FilesAreStored
  <2>2. /\ row \in Submission /\ row.status = "submitted" /\ row.ready = subs[s].ready
        /\ row.grade = subs[s].grade
    BY <2>1 DEF Submission
  <2>3. subs' = [subs EXCEPT ![s] = row]
    BY <1>0, <1>7 DEF SubmitWork
  <2>. HIDE DEF row
  <2>4. /\ Made' = Made /\ BlanksStay /\ Stored' = Stored /\ HandedIn' = HandedIn \cup {s}
        /\ Marks' = Marks
    BY <1>1, <2>1, <2>2, <2>3, RowIsWritten
  <2>5. CASE s \in HandedIn
    <3>1. HandedIn' = HandedIn
      BY <2>4, <2>5
    <3>. QED
      BY <1>1, <2>4, <3>1, DeskStays
  <2>6. CASE s \notin HandedIn
    <3>1. Desk!HandIn(s)
      BY <1>1, <2>1, <2>4, <2>6 DEF Desk!HandIn, Stored, HandedIn, Marks
    <3>2. Desk!DeskNext
      BY <2>1, <2>6, <3>1 DEF Desk!DeskNext, Stored, HandedIn
    <3>. QED
      BY <2>4, <3>2
  <2>. QED
    BY <2>5, <2>6
<1>8. CASE WorkPageStep(t) \/ ReadMark(t) \/ OpenDraft(t) \/ CountFiles(t) \/ CompleteFile(t) \/ CheckSubmit(t)
  BY <1>3, <1>8 DEF WorkPageStep, WorkOpens, WorkLeaves, ChoosesFile, OpensSubmit, ClosesSubmit,
     ConfirmsWork, ShowsWork, WorkFails, WorkAnswer, ReadMark, OpenDraft, CountFiles, CompleteFile,
     CheckSubmit
<1>. QED
  BY <1>4, <1>5, <1>6, <1>7, <1>8 DEF WorkStep, SubmitChain

\* What the statements of a grader do to the desk.
LEMMA ReviewStepsDesk ==
  ASSUME WorkInv, DeskInv, UNCHANGED <<quizVars, studying, gateVars>>, NEW g \in Graders, ReviewStep(g)
  PROVE  [Desk!DeskNext]_(Desk!deskVars) /\ BlanksStay
<1>0. PICK s \in 0 .. MaxSubmissions, grade \in Grades :
        s = gradeCall[g].sub /\ grade = gradeCall[g].grade
  BY DEF WorkInv, WorkTypes, GradeCall
<1>1. HasBeenOpen' = HasBeenOpen /\ WorkTypes
  BY OpeningStays DEF WorkInv
<1>2. gradeCall[g].pc \in {"insert", "mark"} =>
        s \in HandedIn /\ s \in Made /\ s \in Submissions /\ subs[s] \in Submission
  BY <1>0 DEF WorkInv, WorkTypes, DeskInv, GradersHaveRead, SubmissionsAreMade, Made
<1>3. CASE subs' = subs
  BY <1>1, <1>3, DeskStays DEF Made, WithStatus, Stored, HandedIn, Marks, Graded, BlanksStay
<1>4. CASE InsertGrade(g)
  <2>. DEFINE row == [subs[s] EXCEPT !.grade = grade]
  <2>1. /\ s \in HandedIn /\ s \in Made /\ s \in Submissions /\ subs[s] \in Submission
        /\ subs[s].status # "none" /\ subs[s].grade = "none"
    BY <1>0, <1>2, <1>4 DEF InsertGrade, AdmitsGrade, Made, WithStatus
  <2>2. /\ row \in Submission /\ row.status = subs[s].status /\ row.ready = subs[s].ready
        /\ row.grade = grade
    BY <1>1, <2>1 DEF Submission
  <2>3. subs' = [subs EXCEPT ![s] = row]
    BY <1>0, <1>4 DEF InsertGrade
  <2>. HIDE DEF row
  <2>4. /\ Made' = Made /\ BlanksStay /\ Stored' = Stored /\ HandedIn' = HandedIn
        /\ grade = "none" => Marks' = Marks
    BY <1>1, <2>1, <2>2, <2>3, RowIsWritten
  <2>5. CASE grade = "none"
    BY <1>1, <2>4, <2>5, DeskStays
  <2>6. CASE grade # "none"
    <3>1. \A r \in Submissions : subs'[r].grade = IF r = s THEN grade ELSE subs[r].grade
      BY <1>1, <2>1, <2>2, <2>3 DEF WorkTypes
    <3>2. Graded' = Graded \cup {s} /\ s \notin Graded
      BY <2>1, <2>6, <3>1 DEF Graded
    <3>3. \A r \in Graded \cup {s} : subs'[r].grade = IF r = s THEN grade ELSE Marks[r]
      BY <2>1, <3>1 DEF Graded, Marks
    <3>4. Marks' = [r \in Graded \cup {s} |-> IF r = s THEN grade ELSE Marks[r]]
      BY <3>2, <3>3 DEF Marks
    <3>5. DOMAIN Marks = Graded
      BY DEF Marks
    <3>6. Desk!Grade(s, grade)
      <4>1. s \in HandedIn \ DOMAIN Marks
        BY <2>1, <3>2, <3>5
      <4>2. Marks' = [r \in DOMAIN Marks \cup {s} |-> IF r = s THEN grade ELSE Marks[r]]
        BY <3>4, <3>5
      <4>. QED
        BY <1>1, <2>4, <4>1, <4>2 DEF Desk!Grade, Stored, HandedIn, Marks
    <3>7. grade \in {"passed", "failed"}
      BY <1>1, <2>6 DEF Grades
    <3>8. Desk!DeskNext
      BY <2>1, <3>2, <3>5, <3>6, <3>7 DEF Desk!DeskNext, HandedIn, Marks
    <3>. QED
      BY <2>4, <3>8
  <2>. QED
    BY <2>5, <2>6
<1>5. CASE MarkGraded(g)
  <2>. DEFINE row == [subs[s] EXCEPT !.status = "graded"]
  <2>1. s \in HandedIn /\ s \in Made /\ s \in Submissions /\ subs[s] \in Submission
    BY <1>2, <1>5 DEF MarkGraded
  <2>2. /\ row \in Submission /\ row.status = "graded" /\ row.ready = subs[s].ready
        /\ row.grade = subs[s].grade
    BY <2>1 DEF Submission
  <2>3. subs' = [subs EXCEPT ![s] = row]
    BY <1>0, <1>5 DEF MarkGraded
  <2>. HIDE DEF row
  <2>4. /\ Made' = Made /\ BlanksStay /\ Stored' = Stored /\ HandedIn' = HandedIn \cup {s}
        /\ Marks' = Marks
    BY <1>1, <2>1, <2>2, <2>3, RowIsWritten
  <2>5. HandedIn' = HandedIn
    BY <2>1, <2>4
  <2>. QED
    BY <1>1, <2>4, <2>5, DeskStays
<1>6. CASE ReviewOpens(g) \/ ReviewLeaves(g) \/ ShowsSubmissions(g) \/ ReviewFails(g) \/ StartsGrade(g)
           \/ HandleGrade(g) \/ ReadUngraded(g)
  BY <1>3, <1>6 DEF ReviewOpens, ReviewLeaves, ShowsSubmissions, ReviewFails, ReviewAnswer, StartsGrade,
     HandleGrade, ReadUngraded
<1>. QED
  BY <1>4, <1>5, <1>6 DEF ReviewStep

\* Every step of the quiz and of the work is a step of the desk, or none.
LEMMA CourseworkStepsDesk ==
  ASSUME CourseworkInv, DeskInv, [CourseworkNext]_courseworkVars
  PROVE  [Desk!DeskNext]_(Desk!deskVars) /\ BlanksStay
<1>1. /\ studying.work \subseteq WorkTabs /\ studying.graders \subseteq Graders
      /\ studying.quiz \subseteq QuizTabs
  BY DEF CourseworkInv, WorkInv, WorkTypes
<1>2. ASSUME NEW t \in studying.work, WorkStep(t), UNCHANGED <<quizVars, studying, gateVars>>
      PROVE  [Desk!DeskNext]_(Desk!deskVars) /\ BlanksStay
  BY <1>1, <1>2, WorkStepsDesk DEF CourseworkInv
<1>3. ASSUME NEW g \in studying.graders, ReviewStep(g), UNCHANGED <<quizVars, studying, gateVars>>
      PROVE  [Desk!DeskNext]_(Desk!deskVars) /\ BlanksStay
  BY <1>1, <1>3, ReviewStepsDesk DEF CourseworkInv
<1>4. ASSUME subs' = subs, HasBeenOpen => HasBeenOpen'
      PROVE  [Desk!DeskNext]_(Desk!deskVars) /\ BlanksStay
  <2>1. /\ Made' = Made /\ Stored' = Stored /\ HandedIn' = HandedIn /\ Marks' = Marks /\ BlanksStay
    BY <1>4 DEF Made, WithStatus, Stored, HandedIn, Marks, Graded, BlanksStay
  <2>2. CASE HasBeenOpen' = HasBeenOpen
    BY <2>1, <2>2, DeskStays
  <2>3. CASE ~HasBeenOpen /\ HasBeenOpen'
    <3>1. Desk!Unlock
      BY <2>1, <2>3 DEF Desk!Unlock, Stored, HandedIn, Marks
    <3>. QED
      BY <2>1, <3>1 DEF Desk!DeskNext
  <2>4. HasBeenOpen \in BOOLEAN /\ HasBeenOpen' \in BOOLEAN
    BY DEF HasBeenOpen, Opens, MeetsMark
  <2>. QED
    BY <1>4, <2>2, <2>3, <2>4
<1>5. ASSUME NEW t \in studying.quiz, QuizStep(t), UNCHANGED <<workVars, studying, gateVars>>
      PROVE  [Desk!DeskNext]_(Desk!deskVars) /\ BlanksStay
  <2>1. HasBeenOpen => HasBeenOpen'
    BY <1>1, <1>5, ScoresStay DEF CourseworkInv
  <2>. QED
    BY <1>4, <1>5, <2>1 DEF workVars
<1>7. ASSUME NEW mark \in studying.marks, SetsPassMark(mark) \/ PublishesGate(mark),
             UNCHANGED <<quizVars, studying, workVars>>
      PROVE  [Desk!DeskNext]_(Desk!deskVars) /\ BlanksStay
  <2>1. HasBeenOpen => HasBeenOpen'
    BY <1>7, OpeningLasts DEF CourseworkInv
  <2>. QED
    BY <1>4, <1>7, <2>1 DEF workVars
<1>6. CASE UNCHANGED courseworkVars
  <2>1. UNCHANGED <<quizVars, studying, gateVars>> /\ subs' = subs
    BY <1>6 DEF courseworkVars, workVars
  <2>. QED
    BY <1>4, <2>1, OpeningStays
<1>. QED
  BY <1>2, <1>3, <1>5, <1>6, <1>7 DEF CourseworkNext

\* A submission that is made, has a file in store or is handed in stays so.
LEMMA DeskGrows ==
  ASSUME [Desk!DeskNext]_(Desk!deskVars)
  PROVE  Made \subseteq Made' /\ Stored \subseteq Stored' /\ HandedIn \subseteq HandedIn'
BY DEF Desk!DeskNext, Desk!deskVars, Desk!Unlock, Desk!Open, Desk!Store, Desk!HandIn, Desk!Grade,
   Stored, HandedIn

\* A request comes to submit by finding a file, and to grade by reading what was
\* handed in.
LEMMA SubmitIsChecked ==
  ASSUME WorkInv, NEW t \in WorkTabs, WorkStep(t)
  PROVE  /\ \A u \in WorkTabs : workCall'[u].pc = "submit" =>
              workCall'[u] = workCall[u] \/ (u = t /\ workCall'[t].sub \in Stored)
         /\ gradeCall' = gradeCall
<1>. DEFINE s == workCall[t].sub
<1>0. workCall \in [WorkTabs -> WorkCall]
  BY DEF WorkInv, WorkTypes
<1>1. CASE workCall' = workCall /\ gradeCall' = gradeCall
  BY <1>1
<1>2. ASSUME NEW call, call.pc # "submit", workCall' = [workCall EXCEPT ![t] = call],
             gradeCall' = gradeCall
      PROVE  /\ \A u \in WorkTabs : workCall'[u].pc = "submit" => workCall'[u] = workCall[u]
             /\ gradeCall' = gradeCall
  BY <1>0, <1>2
<1>3. ASSUME NEW pc \in {"load", "draft", "file", "put", "mark", "check", "refresh", "insert"},
             WorkGoto(t, pc), gradeCall' = gradeCall
      PROVE  /\ \A u \in WorkTabs : workCall'[u].pc = "submit" => workCall'[u] = workCall[u]
             /\ gradeCall' = gradeCall
  BY <1>0, <1>3 DEF WorkGoto, WorkCall
<1>4. CASE WorkLeaves(t) \/ ChoosesFile(t) \/ OpensSubmit(t) \/ ClosesSubmit(t)
  BY <1>1, <1>4 DEF WorkLeaves, ChoosesFile, OpensSubmit, ClosesSubmit, GradersUnchanged
<1>5. CASE WorkOpens(t) \/ ConfirmsWork(t) \/ CountFiles(t) \/ InsertFile(t) \/ CompleteFile(t)
           \/ MarkReady(t) \/ SubmitWork(t)
  BY <1>3, <1>5 DEF WorkOpens, ConfirmsWork, CountFiles, InsertFile, CompleteFile, MarkReady, SubmitWork,
     GradersUnchanged
<1>6. CASE ShowsWork(t) \/ WorkFails(t)
  BY <1>2, <1>6 DEF ShowsWork, WorkFails, WorkAnswer, NoWorkCall, GradersUnchanged
<1>7. CASE OpenDraft(t)
  <2>1. CASE Standing = "draft"
    BY <1>2, <1>7, <2>1 DEF OpenDraft, NoWorkCall, GradersUnchanged
  <2>2. CASE Standing # "draft"
    BY <1>3, <1>7, <2>2 DEF OpenDraft, GradersUnchanged, WorkGoto
  <2>. QED
    BY <2>1, <2>2
<1>8. CASE InsertDraft(t)
  BY <1>2, <1>8 DEF InsertDraft, NoWorkCall, GradersUnchanged
<1>10. CASE ReadMark(t)
  <2>1. [workCall[t] EXCEPT !.seen = {passMark}].pc # "submit"
    BY <1>0, <1>10 DEF ReadMark, WorkCall
  <2>. QED
    BY <1>2, <1>10, <2>1 DEF ReadMark, GradersUnchanged
<1>9. CASE CheckSubmit(t)
  <2>1. workCall'[t].sub = s /\ \A u \in WorkTabs : u # t => workCall'[u] = workCall[u]
    BY <1>0, <1>9 DEF CheckSubmit, WorkGoto, WorkCall
  <2>2. s \in Stored
    BY <1>9 DEF CheckSubmit, WorkAt, Writing, Stored, WorkInv, SubmissionsAreMade
  <2>. QED
    BY <1>9, <2>1, <2>2 DEF CheckSubmit, GradersUnchanged
<1>. QED
  BY <1>4, <1>5, <1>6, <1>7, <1>8, <1>9, <1>10 DEF WorkStep, WorkPageStep, SubmitChain

LEMMA GradeIsRead ==
  ASSUME WorkInv, NEW g \in Graders, ReviewStep(g)
  PROVE  /\ \A h \in Graders : gradeCall'[h].pc \in {"insert", "mark"} =>
              \/ gradeCall'[h].sub = gradeCall[h].sub /\ gradeCall[h].pc \in {"insert", "mark"}
              \/ gradeCall'[h].sub \in HandedIn
         /\ workCall' = workCall
<1>0. gradeCall \in [Graders -> GradeCall]
  BY DEF WorkInv, WorkTypes
<1>1. CASE ReviewLeaves(g) \/ StartsGrade(g)
  BY <1>1 DEF ReviewLeaves, StartsGrade, StudentUnchanged
<1>2. CASE ReviewOpens(g) \/ HandleGrade(g) \/ ShowsSubmissions(g) \/ ReviewFails(g) \/ MarkGraded(g)
  <2>1. /\ \E call : call.pc \notin {"insert", "mark"} /\ gradeCall' = [gradeCall EXCEPT ![g] = call]
        /\ workCall' = workCall
    <3>1. CASE ReviewOpens(g)
      <4>1. [gradeCall[g] EXCEPT !.pc = "load"].pc = "load"
        BY <1>0 DEF GradeCall
      <4>. QED
        BY <3>1, <4>1 DEF ReviewOpens, StudentUnchanged
    <3>2. CASE HandleGrade(g)
      BY <3>2 DEF HandleGrade, StudentUnchanged
    <3>3. CASE ShowsSubmissions(g) \/ ReviewFails(g)
      BY <3>3 DEF ShowsSubmissions, ReviewFails, ReviewAnswer, NoGradeCall, StudentUnchanged
    <3>4. CASE MarkGraded(g)
      <4>1. [gradeCall[g] EXCEPT !.pc = "list"].pc = "list"
        BY <1>0 DEF GradeCall
      <4>. QED
        BY <3>4, <4>1 DEF MarkGraded, StudentUnchanged
    <3>. QED
      BY <1>2, <3>1, <3>2, <3>3, <3>4
  <2>. QED
    BY <1>0, <2>1
<1>3. CASE InsertGrade(g)
  <2>1. /\ gradeCall[g].pc = "insert" /\ gradeCall'[g].sub = gradeCall[g].sub
        /\ \A h \in Graders : h # g => gradeCall'[h] = gradeCall[h]
    BY <1>0, <1>3 DEF InsertGrade, GradeCall
  <2>. QED
    BY <1>3, <2>1 DEF InsertGrade, StudentUnchanged
<1>4. CASE ReadUngraded(g)
  <2>1. /\ gradeCall'[g].sub = gradeCall[g].sub
        /\ \A h \in Graders : h # g => gradeCall'[h] = gradeCall[h]
    BY <1>0, <1>4 DEF ReadUngraded, GradeCall
  <2>2. gradeCall[g].sub \in HandedIn
    BY <1>4 DEF ReadUngraded, WorkInv, SubmissionsAreMade, Made, HandedIn, WithStatus
  <2>. QED
    BY <1>4, <2>1, <2>2 DEF ReadUngraded, StudentUnchanged
<1>. QED
  BY <1>1, <1>2, <1>3, <1>4 DEF ReviewStep

LEMMA DeskInitInv == CourseworkInit => DeskInv /\ Desk!DeskInit
<1>. SUFFICES ASSUME CourseworkInit PROVE DeskInv /\ Desk!DeskInit
  OBVIOUS
<1>1. \A s \in Submissions : subs[s] = NoSubmission
  BY DEF CourseworkInit, WorkInit
<1>2. /\ Made = {} /\ Stored = {} /\ HandedIn = {} /\ Graded = {}
      /\ \A s \in Submissions : subs[s].ready = 0
  BY <1>1 DEF Made, Stored, HandedIn, Graded, WithStatus, NoSubmission
<1>3. DeskInv
  BY <1>2 DEF DeskInv, RowsAreNumbered, FilesAreStored, GradersHaveRead, CourseworkInit, WorkInit,
     NoWorkCall, NoGradeCall
<1>4. Marks = [n \in {} |-> "none"]
  BY <1>2 DEF Marks
<1>5. HasBeenOpen \in BOOLEAN
  BY DEF HasBeenOpen, Opens, MeetsMark
<1>. QED
  BY <1>2, <1>3, <1>4, <1>5 DEF Desk!DeskInit, Stored, HandedIn, Marks

LEMMA DeskStepInv == CourseworkInv /\ DeskInv /\ [CourseworkNext]_courseworkVars => DeskInv'
<1>. SUFFICES ASSUME CourseworkInv, DeskInv, [CourseworkNext]_courseworkVars PROVE DeskInv'
  OBVIOUS
<1>1. [Desk!DeskNext]_(Desk!deskVars) /\ BlanksStay
  BY CourseworkStepsDesk
<1>2. Made \subseteq Made' /\ Stored \subseteq Stored' /\ HandedIn \subseteq HandedIn'
  BY <1>1, DeskGrows
<1>3. RowsAreNumbered'
  <2>1. Made' = Made \/ \E n \in Submissions : Made = 1 .. (n - 1) /\ Made' = Made \cup {n}
    BY <1>1 DEF Desk!DeskNext, Desk!deskVars, Desk!Unlock, Desk!Open, Desk!Store, Desk!HandIn, Desk!Grade
  <2>2. \A s \in Made' : \A r \in 1 .. (s - 1) : r \in Made'
    BY <2>1, WorkAssumption DEF DeskInv, RowsAreNumbered, Submissions
  <2>3. \A s \in Submissions \ Made' : subs'[s].ready = 0
    BY <1>1, <1>2 DEF BlanksStay, DeskInv, RowsAreNumbered
  <2>. QED
    BY <2>2, <2>3 DEF RowsAreNumbered, Submissions
<1>4. WorkInv /\ studying.work \subseteq WorkTabs /\ studying.graders \subseteq Graders
  BY DEF CourseworkInv, WorkInv, WorkTypes
<1>5. FilesAreStored'
  <2>1. ASSUME NEW t \in studying.work, WorkStep(t) PROVE FilesAreStored'
    BY <1>2, <1>4, <2>1, SubmitIsChecked DEF FilesAreStored, DeskInv
  <2>2. ASSUME workCall' = workCall PROVE FilesAreStored'
    BY <1>2, <2>2 DEF FilesAreStored, DeskInv
  <2>. QED
    BY <1>4, <2>1, <2>2, GradeIsRead DEF CourseworkNext, courseworkVars, workVars
<1>6. GradersHaveRead'
  <2>1. ASSUME NEW g \in studying.graders, ReviewStep(g) PROVE GradersHaveRead'
    BY <1>2, <1>4, <2>1, GradeIsRead DEF GradersHaveRead, DeskInv
  <2>2. ASSUME gradeCall' = gradeCall PROVE GradersHaveRead'
    BY <1>2, <2>2 DEF GradersHaveRead, DeskInv
  <2>. QED
    BY <1>4, <2>1, <2>2, SubmitIsChecked DEF CourseworkNext, courseworkVars, workVars
<1>. QED
  BY <1>3, <1>5, <1>6 DEF DeskInv

\* In every run the overlapping statements of tabs and graders come to submissions
\* that are opened one after the other for a student who has met a mark of the quiz
\* before, handed in with a file
\* in store, and graded once for good.
THEOREM CourseworkImplementsGradebook == CourseworkSpec => ImplementsGradebook
<1>1. CourseworkInit => CourseworkInv /\ DeskInv /\ Desk!DeskInit
  BY CourseworkInitInv, DeskInitInv
<1>2. CourseworkInv /\ DeskInv /\ [CourseworkNext]_courseworkVars =>
        CourseworkInv' /\ DeskInv' /\ [Desk!DeskNext]_(Desk!deskVars)
  BY CourseworkStep, DeskStepInv, CourseworkStepsDesk
<1>. QED
  BY <1>1, <1>2, PTL DEF CourseworkSpec, ImplementsGradebook, Desk!DeskSpec

-----------------------------------------------------------------------------
(* The question banks *)

StudioSlots == 1 .. MaxStudioCalls
Publishing(call) == call.kind = "publish" /\ call.step = "write"

\* What a request knows of its bank: a bank and a module to publish, the lock of a
\* draft and its count, a bank that is not created yet.
RequestIsTrue(call) ==
  /\ call.kind = "publish" /\ call.step \in {"check", "lock", "write"} =>
       call.bank \in Banks /\ call.module \in QuizModules
  /\ call.step = "lock" => call.kind = "publish"
  /\ Publishing(call) => banks[call.bank].status = "DRAFT" /\ call.n <= call.total
  /\ call.kind = "create" /\ call.step \in {"check", "write"} =>
       call.bank \in Banks /\ banks[call.bank].status = "none"

\* One transaction publishes a bank at a time, and one bank is created at a time.
RequestsExclude ==
  /\ \A i, j \in StudioSlots :
       Publishing(studioCalls[i]) /\ Publishing(studioCalls[j])
         /\ studioCalls[i].bank = studioCalls[j].bank => i = j
  /\ \A i, j \in StudioSlots :
       studioCalls[i].kind = "create" /\ studioCalls[j].kind = "create" => i = j

StudioInv ==
  /\ StudioTypeOK
  /\ \A i \in StudioSlots : RequestIsTrue(studioCalls[i])
  /\ RequestsExclude
  /\ ServesItsCount

LEMMA StudioTypes ==
  /\ NoStudioCall \in StudioCall /\ NoStudioCall.kind = "none" /\ NoStudioCall.step = "check"
  /\ AwayFromStudio \in StudioPage /\ NoCopy \in Copy /\ MaxQuestions \in Nat
  /\ NoBankRow \in Bank /\ NoLink \in Link /\ NoLink.served = 0
BY StudioAssumption
DEF NoStudioCall, StudioCall, AwayFromStudio, StudioPage, NoCopy, Copy, NoBankRow, Bank, NoLink, Link

LEMMA StudioInitInv == StudioInit => StudioInv
<1>. SUFFICES ASSUME StudioInit PROVE StudioInv
  OBVIOUS
<1>1. StudioTypeOK
  BY StudioTypes DEF StudioInit, StudioTypeOK
<1>2. \A i \in StudioSlots : studioCalls[i] = NoStudioCall
  BY DEF StudioInit, StudioSlots
<1>3. RequestsExclude /\ \A i \in StudioSlots : RequestIsTrue(studioCalls[i])
  BY <1>2, StudioTypes DEF RequestsExclude, RequestIsTrue, Publishing
<1>4. ServesItsCount
  BY StudioTypes DEF StudioInit, ServesItsCount
<1>. QED
  BY <1>1, <1>3, <1>4 DEF StudioInv

\* A request is dropped, or marked as one that nobody hears or that is of the
\* route before.
Kept(before, after) ==
  \/ after.kind = "none" /\ after.step = "check"
  \/ /\ after.kind = before.kind /\ after.step = before.step /\ after.bank = before.bank
     /\ after.module = before.module /\ after.n = before.n /\ after.total = before.total

KeepsRequests(kept) == /\ kept \in [StudioSlots -> StudioCall]
                       /\ \A i \in StudioSlots : Kept(studioCalls[i], kept[i])

LEMMA RequestsAreKept ==
  ASSUME StudioInv
  PROVE  /\ KeepsRequests(studioCalls) /\ KeepsRequests(Unmounted(studioCalls))
         /\ KeepsRequests(Rerouted(studioCalls))
         /\ \A i \in StudioSlots : /\ KeepsRequests(Drops(i)) /\ KeepsRequests(Unmounted(Drops(i)))
                                   /\ KeepsRequests([studioCalls EXCEPT ![i].heard = FALSE])
<1>1. studioCalls \in [StudioSlots -> StudioCall] /\ DOMAIN studioCalls = StudioSlots
  BY DEF StudioInv, StudioTypeOK, StudioSlots
<1>2. ASSUME NEW call \in StudioCall
      PROVE  LET unheard == [call EXCEPT !.heard = FALSE]
                 old == [call EXCEPT !.current = FALSE]
             IN unheard \in StudioCall /\ old \in StudioCall /\ Kept(call, unheard) /\ Kept(call, old)
  BY DEF StudioCall, Kept
<1>3. ASSUME NEW from \in [StudioSlots -> StudioCall]
      PROVE  /\ Unmounted(from) \in [StudioSlots -> StudioCall]
             /\ \A i \in StudioSlots : Kept(from[i], Unmounted(from)[i])
  <2>1. DOMAIN from = StudioSlots
    OBVIOUS
  <2>. QED
    BY <1>2, <2>1, StudioTypes DEF Unmounted, Kept
<1>4. /\ Rerouted(studioCalls) \in [StudioSlots -> StudioCall]
      /\ \A i \in StudioSlots : Kept(studioCalls[i], Rerouted(studioCalls)[i])
  BY <1>1, <1>2 DEF Rerouted
<1>5. ASSUME NEW i \in StudioSlots
      PROVE  /\ Drops(i) \in [StudioSlots -> StudioCall]
             /\ \A j \in StudioSlots : Kept(studioCalls[j], Drops(i)[j])
  BY <1>1, StudioTypes DEF Drops, Kept
<1>6. ASSUME NEW i \in StudioSlots
      PROVE  KeepsRequests([studioCalls EXCEPT ![i].heard = FALSE])
  <2>. DEFINE call == [studioCalls[i] EXCEPT !.heard = FALSE]
  <2>1. call \in StudioCall /\ Kept(studioCalls[i], call)
    BY <1>1, <1>2
  <2>. HIDE DEF call
  <2>2. KeepsRequests([studioCalls EXCEPT ![i] = call])
    BY <1>1, <2>1 DEF KeepsRequests, Kept
  <2>. QED
    BY <2>2 DEF call
<1>7. ASSUME NEW i \in StudioSlots PROVE KeepsRequests(Unmounted(Drops(i)))
  <2>. DEFINE dropped == Drops(i)
              left == Unmounted(dropped)
  <2>1. /\ left \in [StudioSlots -> StudioCall]
        /\ \A j \in StudioSlots : Kept(studioCalls[j], dropped[j]) /\ Kept(dropped[j], left[j])
    BY <1>3, <1>5
  <2>. HIDE DEF dropped, left
  <2>2. \A j \in StudioSlots : Kept(studioCalls[j], left[j])
    BY <2>1 DEF Kept
  <2>3. KeepsRequests(left)
    BY <2>1, <2>2 DEF KeepsRequests
  <2>. QED
    BY <2>3 DEF left, dropped
<1>8. KeepsRequests(studioCalls)
  BY <1>1 DEF KeepsRequests, Kept
<1>. QED
  BY <1>1, <1>3, <1>4, <1>5, <1>6, <1>7, <1>8 DEF KeepsRequests

\* The rows and the links stay, while the page moves and asks, or not.
LEMMA StudioPageMoves ==
  ASSUME StudioInv, UNCHANGED <<banks, links>>, studio' \in StudioPage,
         NEW kept, KeepsRequests(kept),
         NEW kind \in {"load", "create", "add", "edit", "delete", "publish", "attach", "remove"},
         NEW b \in Banks \cup {NoBank}, NEW m \in QuizModules \cup {NoBank}, NEW n \in 0 .. MaxQuestions,
         studioCalls' = kept \/ studioCalls' \in Requests(kept, kind, b, m, n),
         kind = "publish" => b \in Banks /\ m \in QuizModules,
         kind = "create" => /\ b \in Banks /\ banks[b].status = "none"
                            /\ \A i \in StudioSlots : kept[i].kind # "create"
  PROVE  StudioInv'
<1>. DEFINE step == IF kind = "load" THEN "read" ELSE "check"
            current == kind = "load"
            call == [NoStudioCall EXCEPT !.kind = kind, !.bank = b, !.module = m, !.n = n, !.heard = TRUE,
                                         !.step = step, !.current = current]
<1>1. /\ call \in StudioCall /\ call.kind = kind /\ call.bank = b /\ call.module = m
      /\ call.step \in {"read", "check"}
  <2>1. step \in {"read", "check"} /\ current \in BOOLEAN
    OBVIOUS
  <2>. HIDE DEF step, current
  <2>2. NoStudioCall \in StudioCall
    BY StudioTypes
  <2>. QED
    BY <2>1, <2>2 DEF StudioCall
<1>. HIDE DEF call
<1>2. \/ studioCalls' = kept
      \/ \E i \in StudioSlots : studioCalls' = [kept EXCEPT ![i] = call]
  BY DEF KeepsRequests, Requests, call
<1>3. /\ studioCalls' \in [StudioSlots -> StudioCall]
      /\ \A i \in StudioSlots : studioCalls'[i] = call \/ Kept(studioCalls[i], studioCalls'[i])
  BY <1>1, <1>2 DEF KeepsRequests
<1>4. StudioTypeOK'
  BY <1>3 DEF StudioInv, StudioTypeOK, StudioSlots
<1>5. ASSUME NEW i \in StudioSlots PROVE RequestIsTrue(studioCalls[i])'
  <2>1. RequestIsTrue(studioCalls[i])
    BY DEF StudioInv
  <2>2. CASE studioCalls'[i] = call
    BY <1>1, <2>2 DEF RequestIsTrue, Publishing
  <2>3. CASE Kept(studioCalls[i], studioCalls'[i])
    BY <2>1, <2>3, StudioTypes DEF RequestIsTrue, Publishing, Kept
  <2>. QED
    BY <1>3, <2>2, <2>3
<1>6. RequestsExclude'
  <2>1. ASSUME NEW i \in StudioSlots, Publishing(studioCalls[i])'
        PROVE  Publishing(studioCalls[i]) /\ studioCalls'[i].bank = studioCalls[i].bank
    BY <1>1, <1>3, <2>1, StudioTypes DEF Publishing, Kept
  <2>2. ASSUME NEW i \in StudioSlots, NEW j \in StudioSlots,
               studioCalls'[i].kind = "create", studioCalls'[j].kind = "create"
        PROVE  i = j
    <3>1. CASE kind = "create"
      <4>1. \A k \in StudioSlots : kept[k].kind # "create"
        BY <3>1
      <4>. QED
        BY <1>2, <2>2, <4>1 DEF KeepsRequests
    <3>2. CASE kind # "create"
      <4>1. studioCalls[i].kind = "create" /\ studioCalls[j].kind = "create"
        BY <1>1, <1>3, <2>2, <3>2, StudioTypes DEF Kept
      <4>. QED
        BY <4>1 DEF StudioInv, RequestsExclude
    <3>. QED
      BY <3>1, <3>2
  <2>. QED
    BY <2>1, <2>2 DEF StudioInv, RequestsExclude
<1>7. ServesItsCount'
  BY DEF StudioInv, ServesItsCount
<1>. QED
  BY <1>4, <1>5, <1>6, <1>7 DEF StudioInv

\* One request goes on, with the rows and the links it writes.
LEMMA StudioCallMoves ==
  ASSUME StudioInv,
         banks' \in [Banks -> Bank], links' \in [QuizModules -> Link], studio' \in StudioPage,
         ServesItsCount',
         NEW i \in StudioSlots, NEW after \in StudioCall,
         studioCalls' = [studioCalls EXCEPT ![i] = after],
         after = NoStudioCall \/ after.kind = studioCalls[i].kind,
         after.kind = "publish" /\ after.step \in {"check", "lock", "write"} =>
           after.bank \in Banks /\ after.module \in QuizModules,
         after.step = "lock" => after.kind = "publish",
         Publishing(after) =>
           /\ banks'[after.bank].status = "DRAFT" /\ after.n <= after.total
           /\ \A j \in StudioSlots : j # i /\ Publishing(studioCalls[j]) =>
                studioCalls[j].bank # after.bank,
         after.kind = "create" /\ after.step \in {"check", "write"} =>
           after.bank \in Banks /\ banks'[after.bank].status = "none",
         \A j \in StudioSlots : j # i =>
           /\ Publishing(studioCalls[j]) => banks'[studioCalls[j].bank].status = "DRAFT"
           /\ studioCalls[j].kind = "create" /\ studioCalls[j].step \in {"check", "write"} =>
                banks'[studioCalls[j].bank].status = "none"
  PROVE  StudioInv'
<1>1. studioCalls \in [StudioSlots -> StudioCall]
  BY DEF StudioInv, StudioTypeOK, StudioSlots
<1>2. /\ studioCalls' \in [StudioSlots -> StudioCall]
      /\ studioCalls'[i] = after
      /\ \A j \in StudioSlots : j # i => studioCalls'[j] = studioCalls[j]
  BY <1>1
<1>3. StudioTypeOK'
  BY <1>2 DEF StudioTypeOK, StudioSlots
<1>4. ASSUME NEW j \in StudioSlots PROVE RequestIsTrue(studioCalls[j])'
  <2>1. CASE j = i
    BY <1>2, <2>1 DEF RequestIsTrue, Publishing
  <2>2. CASE j # i
    BY <1>2, <2>2 DEF StudioInv, RequestIsTrue
  <2>. QED
    BY <2>1, <2>2
<1>5. RequestsExclude'
  <2>1. ASSUME NEW j \in StudioSlots, NEW k \in StudioSlots,
               Publishing(studioCalls[j])', Publishing(studioCalls[k])',
               studioCalls'[j].bank = studioCalls'[k].bank
        PROVE  j = k
    BY <1>2, <2>1 DEF StudioInv, RequestsExclude, Publishing
  <2>2. ASSUME NEW j \in StudioSlots, NEW k \in StudioSlots,
               studioCalls'[j].kind = "create", studioCalls'[k].kind = "create"
        PROVE  j = k
    BY <1>2, <2>2, StudioTypes DEF StudioInv, RequestsExclude
  <2>. QED
    BY <2>1, <2>2 DEF RequestsExclude
<1>. QED
  BY <1>3, <1>4, <1>5 DEF StudioInv

\* A request that was answered is dropped, or its page learns the answer.
LEMMA StudioCallAnswered ==
  ASSUME StudioInv,
         banks' \in [Banks -> Bank], links' \in [QuizModules -> Link], studio' = studio,
         ServesItsCount',
         NEW i \in StudioSlots, NEW answer \in {"written", "refused"},
         studioCalls' = Advances(i, answer),
         \A j \in StudioSlots : j # i =>
           /\ Publishing(studioCalls[j]) => banks'[studioCalls[j].bank].status = "DRAFT"
           /\ studioCalls[j].kind = "create" /\ studioCalls[j].step \in {"check", "write"} =>
                banks'[studioCalls[j].bank].status = "none"
  PROVE  StudioInv'
<1>. DEFINE told == [studioCalls[i] EXCEPT !.step = answer]
<1>1. studioCalls[i] \in StudioCall /\ studioCalls \in [StudioSlots -> StudioCall] /\ studio \in StudioPage
  BY DEF StudioInv, StudioTypeOK, StudioSlots
<1>2. told \in StudioCall /\ told.step = answer /\ told.kind = studioCalls[i].kind
  BY <1>1 DEF StudioCall
<1>3. \/ studioCalls' = [studioCalls EXCEPT ![i] = NoStudioCall]
      \/ studioCalls' = [studioCalls EXCEPT ![i] = told]
  BY <1>1 DEF Advances, Drops
<1>. HIDE DEF told
<1>4. CASE studioCalls' = [studioCalls EXCEPT ![i] = NoStudioCall]
  <2>1. NoStudioCall.step # "lock" /\ ~ Publishing(NoStudioCall)
    BY StudioTypes DEF Publishing
  <2>. QED
    BY <1>1, <1>4, <2>1, StudioTypes, StudioCallMoves
<1>5. CASE studioCalls' = [studioCalls EXCEPT ![i] = told]
  <2>1. told.step \notin {"check", "lock", "write"} /\ ~ Publishing(told)
    BY <1>2 DEF Publishing
  <2>. QED
    BY <1>1, <1>2, <1>5, <2>1, StudioCallMoves
<1>. QED
  BY <1>3, <1>4, <1>5

\* While the rows and the links stay, what every request knows of its bank stays true.
LEMMA StudioRowsStay ==
  ASSUME StudioInv, UNCHANGED <<banks, links>>
  PROVE  /\ banks' \in [Banks -> Bank] /\ links' \in [QuizModules -> Link] /\ ServesItsCount'
         /\ \A j \in StudioSlots :
              /\ Publishing(studioCalls[j]) => banks'[studioCalls[j].bank].status = "DRAFT"
              /\ studioCalls[j].kind = "create" /\ studioCalls[j].step \in {"check", "write"} =>
                   banks'[studioCalls[j].bank].status = "none"
BY DEF StudioInv, StudioTypeOK, ServesItsCount, RequestIsTrue

\* The steps of a request that write nothing.
LEMMA StudioReads ==
  ASSUME StudioInv, NEW i \in StudioSlots,
         \/ Checks(i) \/ LocksBank(i) \/ ReadsCopy(i) \/ ReloadsAfter(i)
         \/ ShowsCopy(i) \/ LearnsRefused(i) \/ StudioCallFails(i)
  PROVE  StudioInv'
<1>. DEFINE call == studioCalls[i]
<1>1. /\ call \in StudioCall /\ studioCalls \in [StudioSlots -> StudioCall]
      /\ studio \in StudioPage /\ banks \in [Banks -> Bank] /\ links \in [QuizModules -> Link]
      /\ RequestIsTrue(call)
  BY DEF StudioInv, StudioTypeOK, StudioSlots
<1>2. UNCHANGED <<banks, links>>
  BY DEF Checks, LocksBank, ReadsCopy, ReloadsAfter, ShowsCopy, LearnsRefused, StudioCallFails
<1>3. ASSUME studio' \in StudioPage, NEW after \in StudioCall,
             studioCalls' = [studioCalls EXCEPT ![i] = after],
             after = NoStudioCall \/ after.kind = call.kind,
             RequestIsTrue(after),
             Publishing(after) => \A j \in StudioSlots : j # i /\ Publishing(studioCalls[j]) =>
                                    studioCalls[j].bank # after.bank
      PROVE  StudioInv'
  BY <1>2, <1>3, StudioRowsStay, StudioCallMoves DEF RequestIsTrue, call
<1>4. ASSUME studio' \in StudioPage, studioCalls' = Drops(i) PROVE StudioInv'
  <2>1. RequestIsTrue(NoStudioCall) /\ ~ Publishing(NoStudioCall)
    BY StudioTypes DEF RequestIsTrue, Publishing
  <2>. QED
    BY <1>3, <1>4, <2>1, StudioTypes DEF Drops
<1>5. ASSUME studio' \in StudioPage, NEW step \in {"writeLive", "written", "refused", "read", "loaded"},
             studioCalls' = [studioCalls EXCEPT ![i].step = step]
      PROVE  StudioInv'
  <2>. DEFINE after == [call EXCEPT !.step = step]
  <2>1. /\ after \in StudioCall /\ after.kind = call.kind /\ after.step = step
        /\ studioCalls' = [studioCalls EXCEPT ![i] = after]
    BY <1>1, <1>5 DEF StudioCall
  <2>. HIDE DEF after
  <2>2. RequestIsTrue(after) /\ ~ Publishing(after)
    BY <2>1 DEF RequestIsTrue, Publishing
  <2>. QED
    BY <1>3, <1>5, <2>1, <2>2
<1>6. ASSUME UNCHANGED studio, studioCalls' = Advances(i, "refused") PROVE StudioInv'
  <2>1. studio' \in StudioPage
    BY <1>1, <1>6
  <2>. QED
    BY <1>4, <1>5, <1>6, <2>1 DEF Advances
<1>7. CASE Checks(i)
  <2>1. PICK step \in Checked(call) : studioCalls' = Advances(i, step) /\ UNCHANGED studio
    BY <1>7 DEF Checks, call
  <2>2. call.step = "check" /\ call.kind # "none"
    BY <1>7 DEF Checks, call
  <2>3. /\ step \in {"write", "writeLive", "lock", "refused"}
        /\ step = "lock" => call.kind = "publish"
        /\ step = "write" => call.kind # "publish"
    BY <2>1 DEF Checked
  <2>4. CASE step = "refused"
    BY <1>6, <2>1, <2>4
  <2>5. CASE step # "refused"
    <3>. DEFINE after == [call EXCEPT !.step = step]
    <3>1. /\ after \in StudioCall /\ after.kind = call.kind /\ after.step = step
          /\ after.bank = call.bank /\ after.module = call.module
      BY <1>1, <2>3 DEF StudioCall
    <3>2. studioCalls' = [studioCalls EXCEPT ![i] = after]
      BY <1>1, <2>1, <2>3, <2>5 DEF Advances
    <3>. HIDE DEF after
    <3>3. RequestIsTrue(after) /\ ~ Publishing(after)
      BY <1>1, <2>2, <2>3, <3>1 DEF RequestIsTrue, Publishing
    <3>. QED
      BY <1>1, <1>3, <2>1, <3>1, <3>2, <3>3
  <2>. QED
    BY <2>4, <2>5
<1>8. CASE LocksBank(i)
  <2>. DEFINE row == banks[call.bank]
              after == [call EXCEPT !.step = "write", !.total = row.drafts]
  <2>1. /\ call.step = "lock" /\ ~ LockHeld(call.bank) /\ UNCHANGED studio
        /\ \/ /\ row.status = "DRAFT" /\ call.n <= row.drafts
              /\ studioCalls' = [studioCalls EXCEPT ![i].step = "write", ![i].total = row.drafts]
           \/ studioCalls' = Advances(i, "refused")
    BY <1>8 DEF LocksBank, call
  <2>2. CASE studioCalls' = Advances(i, "refused")
    BY <1>6, <2>1, <2>2
  <2>3. CASE /\ row.status = "DRAFT" /\ call.n <= row.drafts
             /\ studioCalls' = [studioCalls EXCEPT ![i].step = "write", ![i].total = row.drafts]
    <3>1. call.kind = "publish" /\ call.bank \in Banks /\ call.module \in QuizModules
      BY <1>1, <2>1 DEF RequestIsTrue
    <3>2. row.drafts \in 0 .. MaxQuestions
      BY <1>1, <3>1 DEF Bank
    <3>3. after \in StudioCall
      BY <1>1, <3>2 DEF StudioCall
    <3>4. /\ after.kind = call.kind /\ after.step = "write" /\ after.bank = call.bank
          /\ after.module = call.module /\ after.n = call.n /\ after.total = row.drafts
      BY <1>1 DEF StudioCall
    <3>5. studioCalls' = [studioCalls EXCEPT ![i] = after]
      BY <1>1, <2>3
    <3>. HIDE DEF after
    <3>6. RequestIsTrue(after)
      BY <2>3, <3>1, <3>4 DEF RequestIsTrue, Publishing
    <3>7. \A j \in StudioSlots : Publishing(studioCalls[j]) => studioCalls[j].bank # after.bank
      BY <1>1, <2>1, <3>4 DEF LockHeld, Publishing
    <3>. QED
      BY <1>1, <1>3, <2>1, <3>3, <3>4, <3>5, <3>6, <3>7
  <2>. QED
    BY <2>1, <2>2, <2>3
<1>9. CASE ReadsCopy(i)
  <2>. DEFINE read == CopyOf(call.bank)
              after == [call EXCEPT !.step = "loaded", !.copy = read]
  <2>1. call.bank \in Banks \cup {NoBank}
    BY <1>1 DEF StudioCall
  <2>2. (IF call.bank = NoBank THEN 0 ELSE banks[call.bank].drafts) \in 0 .. MaxQuestions
    BY <1>1, <2>1, StudioTypes DEF Bank
  <2>3. [m \in QuizModules |-> links[m].bank] \in [QuizModules -> Banks \cup {NoBank}]
    BY <1>1 DEF Link
  <2>4. read \in Copy
    BY <2>1, <2>2, <2>3 DEF CopyOf, Copy
  <2>5. studioCalls' = [studioCalls EXCEPT ![i] = after] /\ UNCHANGED studio
    BY <1>1, <1>9 DEF ReadsCopy, call
  <2>. HIDE DEF read
  <2>6. after \in StudioCall /\ after.kind = call.kind /\ after.step = "loaded"
    BY <1>1, <2>4 DEF StudioCall
  <2>. HIDE DEF after
  <2>7. RequestIsTrue(after) /\ ~ Publishing(after)
    BY <2>6 DEF RequestIsTrue, Publishing
  <2>. QED
    BY <1>1, <1>3, <2>5, <2>6, <2>7
<1>10. CASE ReloadsAfter(i)
  <2>. DEFINE after == [call EXCEPT !.step = "read", !.current = TRUE]
  <2>1. studioCalls' = [studioCalls EXCEPT ![i] = after]
    BY <1>1, <1>10 DEF ReloadsAfter, call
  <2>2. after \in StudioCall /\ after.kind = call.kind /\ after.step = "read"
    BY <1>1 DEF StudioCall
  <2>. HIDE DEF after
  <2>3. RequestIsTrue(after) /\ ~ Publishing(after)
    BY <2>2 DEF RequestIsTrue, Publishing
  <2>4. studio' \in StudioPage
    BY <1>1, <1>10 DEF ReloadsAfter, StudioPage
  <2>. QED
    BY <1>3, <2>1, <2>2, <2>3, <2>4
<1>11. CASE ShowsCopy(i)
  <2>1. studioCalls' = Drops(i) /\ call.copy \in Copy /\ studio.loading \in BOOLEAN
    BY <1>1, <1>11 DEF ShowsCopy, StudioCall, StudioPage
  <2>2. (studio.loading /\ ~ EndsSkeleton(call)) \in BOOLEAN
    BY <2>1
  <2>3. \/ studio' = studio
        \/ studio' = [studio EXCEPT !.shown = call.copy, !.loading = studio.loading /\ ~ EndsSkeleton(call)]
    BY <1>1, <1>11 DEF ShowsCopy, StudioPage, call
  <2>4. studio' \in StudioPage
    BY <1>1, <2>1, <2>2, <2>3 DEF StudioPage
  <2>. QED
    BY <1>4, <2>1, <2>4
<1>12. CASE LearnsRefused(i)
  BY <1>1, <1>4, <1>12 DEF LearnsRefused
<1>13. CASE StudioCallFails(i)
  <2>. DEFINE after == [call EXCEPT !.heard = FALSE]
  <2>1. studio' \in {studio, [studio EXCEPT !.shown = NoCopy, !.loading = FALSE]}
    BY <1>13 DEF StudioCallFails
  <2>2. studio' \in StudioPage
    BY <1>1, <2>1, StudioTypes DEF StudioPage
  <2>3. studioCalls' = Drops(i) \/ studioCalls' = [studioCalls EXCEPT ![i] = after]
    BY <1>1, <1>13 DEF StudioCallFails, call
  <2>4. /\ after \in StudioCall /\ after.kind = call.kind /\ after.step = call.step
        /\ after.bank = call.bank /\ after.module = call.module /\ after.n = call.n
        /\ after.total = call.total
    BY <1>1 DEF StudioCall
  <2>. HIDE DEF after
  <2>5. RequestIsTrue(after) /\ Publishing(after) = Publishing(call)
    BY <1>1, <2>4 DEF RequestIsTrue, Publishing
  <2>6. Publishing(after) => \A j \in StudioSlots : j # i /\ Publishing(studioCalls[j]) =>
                               studioCalls[j].bank # after.bank
    BY <2>4, <2>5 DEF StudioInv, RequestsExclude
  <2>. QED
    BY <1>3, <1>4, <2>2, <2>3, <2>4, <2>5, <2>6
<1>. QED
  BY <1>7, <1>8, <1>9, <1>10, <1>11, <1>12, <1>13

\* The transaction publishes as many questions as it counted, and serves no more.
LEMMA PublishKeeps == ASSUME StudioInv, NEW i \in StudioSlots, Publishes(i) PROVE StudioInv'
<1>. DEFINE call == studioCalls[i]
            row == banks[call.bank]
<1>1. /\ call \in StudioCall /\ banks \in [Banks -> Bank] /\ links \in [QuizModules -> Link]
      /\ call.bank \in Banks /\ call.module \in QuizModules
      /\ row.status = "DRAFT" /\ call.n <= call.total /\ Publishing(call)
  BY DEF StudioInv, StudioTypeOK, StudioSlots, RequestIsTrue, Publishing, Publishes
<1>2. UNCHANGED studio
  BY DEF Publishes
<1>3. CASE UNCHANGED <<banks, links>> /\ studioCalls' = Advances(i, "refused")
  BY <1>2, <1>3, StudioRowsStay, StudioCallAnswered
<1>4. CASE /\ row.drafts = call.total /\ links[call.module].bank = call.bank
           /\ banks' = [banks EXCEPT ![call.bank] =
                          [status |-> "PUBLISHED", drafts |-> 0, live |-> row.drafts]]
           /\ links' = [links EXCEPT ![call.module].served = call.n]
           /\ studioCalls' = Advances(i, "written")
  <2>. DEFINE new == [status |-> "PUBLISHED", drafts |-> 0, live |-> row.drafts]
              link == [links[call.module] EXCEPT !.served = call.n]
  <2>1. row \in Bank /\ links[call.module] \in Link /\ call.n \in 0 .. MaxQuestions /\ MaxQuestions \in Nat
    BY <1>1, StudioTypes DEF StudioCall
  <2>2. /\ new \in Bank /\ new.status = "PUBLISHED" /\ new.live = row.drafts
        /\ link \in Link /\ link.bank = call.bank /\ link.served = call.n
    BY <1>4, <2>1 DEF Bank, Link
  <2>3. banks' = [banks EXCEPT ![call.bank] = new] /\ links' = [links EXCEPT ![call.module] = link]
    BY <1>4
  <2>. HIDE DEF new, link
  <2>4. banks' \in [Banks -> Bank] /\ links' \in [QuizModules -> Link]
    BY <1>1, <2>2, <2>3
  <2>5. ServesItsCount'
    <3>. SUFFICES ASSUME NEW m \in QuizModules, links'[m].served > 0
                  PROVE  /\ links'[m].bank # NoBank /\ banks'[links'[m].bank].status = "PUBLISHED"
                         /\ links'[m].served <= banks'[links'[m].bank].live
      BY DEF ServesItsCount
    <3>1. CASE m = call.module
      <4>1. links'[m] = link /\ banks'[call.bank] = new
        BY <1>1, <2>3, <3>1
      <4>. QED
        BY <1>1, <1>4, <2>2, <4>1, StudioAssumption
    <3>2. CASE m # call.module
      <4>1. links'[m] = links[m]
        BY <2>3, <3>2
      <4>2. /\ links[m].bank # NoBank /\ banks[links[m].bank].status = "PUBLISHED"
            /\ links[m].served <= banks[links[m].bank].live
        BY <4>1 DEF StudioInv, ServesItsCount
      <4>3. banks'[links[m].bank] = banks[links[m].bank]
        BY <1>1, <2>3, <4>2
      <4>. QED
        BY <4>1, <4>2, <4>3
    <3>. QED
      BY <3>1, <3>2
  <2>6. ASSUME NEW j \in StudioSlots, j # i
        PROVE  /\ Publishing(studioCalls[j]) => banks'[studioCalls[j].bank].status = "DRAFT"
               /\ studioCalls[j].kind = "create" /\ studioCalls[j].step \in {"check", "write"} =>
                    banks'[studioCalls[j].bank].status = "none"
    <3>1. RequestIsTrue(studioCalls[j])
      BY DEF StudioInv
    <3>2. CASE studioCalls[j].bank = call.bank
      BY <1>1, <2>6, <3>1, <3>2 DEF StudioInv, RequestsExclude, RequestIsTrue
    <3>3. CASE studioCalls[j].bank # call.bank
      <4>1. banks'[studioCalls[j].bank] = banks[studioCalls[j].bank]
        BY <1>1, <2>3, <3>3
      <4>. QED
        BY <3>1, <4>1 DEF RequestIsTrue
    <3>. QED
      BY <3>2, <3>3
  <2>. QED
    BY <1>2, <1>4, <2>4, <2>5, <2>6, StudioCallAnswered
<1>. QED
  BY <1>3, <1>4 DEF Publishes, SameDrafts

\* A question written leaves the status of its bank, and what it has published.
LEMMA StudioRowWritten ==
  ASSUME StudioInv, UNCHANGED links, NEW b, NEW new,
         banks' = [banks EXCEPT ![b] = new],
         b \in Banks => new \in Bank /\ new.status = banks[b].status /\ new.live >= banks[b].live
  PROVE  /\ banks' \in [Banks -> Bank] /\ links' \in [QuizModules -> Link] /\ ServesItsCount'
         /\ \A j \in StudioSlots :
              /\ Publishing(studioCalls[j]) => banks'[studioCalls[j].bank].status = "DRAFT"
              /\ studioCalls[j].kind = "create" /\ studioCalls[j].step \in {"check", "write"} =>
                   banks'[studioCalls[j].bank].status = "none"
<1>1. banks \in [Banks -> Bank] /\ links \in [QuizModules -> Link]
  BY DEF StudioInv, StudioTypeOK
<1>2. CASE b \notin Banks
  <2>1. banks' = banks
    BY <1>1, <1>2
  <2>. QED
    BY <2>1, StudioRowsStay
<1>3. CASE b \in Banks
  <2>1. /\ banks' \in [Banks -> Bank] /\ banks'[b] = new
        /\ \A x \in Banks : x # b => banks'[x] = banks[x]
    BY <1>1, <1>3
  <2>2. ServesItsCount'
    <3>. SUFFICES ASSUME NEW m \in QuizModules, links[m].served > 0
                  PROVE  /\ links[m].bank # NoBank /\ banks'[links[m].bank].status = "PUBLISHED"
                         /\ links[m].served <= banks'[links[m].bank].live
      BY DEF ServesItsCount
    <3>1. /\ links[m].bank # NoBank /\ banks[links[m].bank].status = "PUBLISHED"
          /\ links[m].served <= banks[links[m].bank].live
      BY DEF StudioInv, ServesItsCount
    <3>2. links[m].served \in Nat /\ new.live \in Nat /\ banks[b].live \in Nat
      BY <1>1, <1>3, StudioTypes DEF Link, Bank
    <3>. QED
      BY <1>3, <2>1, <3>1, <3>2
  <2>3. ASSUME NEW j \in StudioSlots
        PROVE  /\ Publishing(studioCalls[j]) => banks'[studioCalls[j].bank].status = "DRAFT"
               /\ studioCalls[j].kind = "create" /\ studioCalls[j].step \in {"check", "write"} =>
                    banks'[studioCalls[j].bank].status = "none"
    <3>1. RequestIsTrue(studioCalls[j])
      BY DEF StudioInv
    <3>. QED
      BY <1>3, <2>1, <3>1 DEF RequestIsTrue
  <2>. QED
    BY <1>1, <2>1, <2>2, <2>3
<1>. QED
  BY <1>2, <1>3

LEMMA QuestionKeeps == ASSUME StudioInv, NEW i \in StudioSlots, WritesQuestion(i) PROVE StudioInv'
<1>. DEFINE call == studioCalls[i]
            row == banks[call.bank]
<1>1. banks \in [Banks -> Bank] /\ links \in [QuizModules -> Link] /\ MaxQuestions \in Nat
  BY StudioTypes DEF StudioInv, StudioTypeOK
<1>2. UNCHANGED <<links, studio>>
  BY DEF WritesQuestion
<1>3. PICK answer \in {"written", "refused"} : studioCalls' = Advances(i, answer)
  BY DEF WritesQuestion
<1>4. \/ banks' = banks
      \/ row.drafts < MaxQuestions /\ banks' = [banks EXCEPT ![call.bank].drafts = @ + 1]
      \/ row.live < MaxQuestions /\ banks' = [banks EXCEPT ![call.bank].live = @ + 1]
      \/ row.drafts > 0 /\ banks' = [banks EXCEPT ![call.bank].drafts = @ - 1]
  BY DEF WritesQuestion
<1>5. ASSUME NEW new, banks' = [banks EXCEPT ![call.bank] = new],
             call.bank \in Banks => new \in Bank /\ new.status = row.status /\ new.live >= row.live
      PROVE  StudioInv'
  BY <1>2, <1>3, <1>5, StudioRowWritten, StudioCallAnswered
<1>6. CASE banks' = banks
  BY <1>2, <1>3, <1>6, StudioRowsStay, StudioCallAnswered
<1>7. CASE row.drafts < MaxQuestions /\ banks' = [banks EXCEPT ![call.bank].drafts = @ + 1]
  <2>. DEFINE new == [row EXCEPT !.drafts = row.drafts + 1]
  <2>1. banks' = [banks EXCEPT ![call.bank] = new]
    BY <1>7
  <2>2. call.bank \in Banks => new \in Bank /\ new.status = row.status /\ new.live >= row.live
    BY <1>1, <1>7 DEF Bank
  <2>. QED
    BY <1>5, <2>1, <2>2
<1>8. CASE row.live < MaxQuestions /\ banks' = [banks EXCEPT ![call.bank].live = @ + 1]
  <2>. DEFINE new == [row EXCEPT !.live = row.live + 1]
  <2>1. banks' = [banks EXCEPT ![call.bank] = new]
    BY <1>8
  <2>2. call.bank \in Banks => new \in Bank /\ new.status = row.status /\ new.live >= row.live
    BY <1>1, <1>8 DEF Bank
  <2>. QED
    BY <1>5, <2>1, <2>2
<1>9. CASE row.drafts > 0 /\ banks' = [banks EXCEPT ![call.bank].drafts = @ - 1]
  <2>. DEFINE new == [row EXCEPT !.drafts = row.drafts - 1]
  <2>1. banks' = [banks EXCEPT ![call.bank] = new]
    BY <1>9
  <2>2. call.bank \in Banks => new \in Bank /\ new.status = row.status /\ new.live >= row.live
    BY <1>1, <1>9 DEF Bank
  <2>. QED
    BY <1>5, <2>1, <2>2
<1>. QED
  BY <1>4, <1>6, <1>7, <1>8, <1>9

\* The bank that is created had no quiz, and nobody else creates or publishes it.
LEMMA CreateKeeps == ASSUME StudioInv, NEW i \in StudioSlots, CreatesBank(i) PROVE StudioInv'
<1>. DEFINE call == studioCalls[i]
            row == banks[call.bank]
            new == [row EXCEPT !.status = "DRAFT"]
<1>1. banks \in [Banks -> Bank] /\ links \in [QuizModules -> Link]
  BY DEF StudioInv, StudioTypeOK
<1>2. /\ UNCHANGED <<links, studio>> /\ studioCalls' = Advances(i, "written")
      /\ call.kind = "create" /\ row.status = "none" /\ banks' = [banks EXCEPT ![call.bank] = new]
  BY DEF CreatesBank, StudioInv, RequestIsTrue
<1>3. call.bank \in Banks => new \in Bank
  BY <1>1 DEF Bank
<1>. HIDE DEF new
<1>4. banks' \in [Banks -> Bank] /\ \A x \in Banks : x # call.bank => banks'[x] = banks[x]
  BY <1>1, <1>2, <1>3
<1>5. ServesItsCount'
  BY <1>2, <1>4 DEF StudioInv, ServesItsCount
<1>6. ASSUME NEW j \in StudioSlots, j # i
      PROVE  /\ Publishing(studioCalls[j]) => banks'[studioCalls[j].bank].status = "DRAFT"
             /\ studioCalls[j].kind = "create" /\ studioCalls[j].step \in {"check", "write"} =>
                  banks'[studioCalls[j].bank].status = "none"
  <2>1. RequestIsTrue(studioCalls[j]) /\ studioCalls[j].kind # "create"
    BY <1>2, <1>6 DEF StudioInv, RequestsExclude
  <2>. QED
    BY <1>2, <1>4, <2>1 DEF RequestIsTrue
<1>. QED
  BY <1>1, <1>2, <1>4, <1>5, <1>6, StudioCallAnswered

\* A link that is made or removed serves nothing yet.
LEMMA LinkKeeps == ASSUME StudioInv, NEW i \in StudioSlots, WritesLink(i) PROVE StudioInv'
<1>. DEFINE call == studioCalls[i]
            linked == [bank |-> call.bank, served |-> 0]
<1>1. /\ links \in [QuizModules -> Link] /\ call \in StudioCall /\ banks \in [Banks -> Bank]
      /\ UNCHANGED <<banks, studio>>
  BY DEF StudioInv, StudioTypeOK, StudioSlots, WritesLink
<1>2. PICK answer \in {"written", "refused"} : studioCalls' = Advances(i, answer)
  BY DEF WritesLink
<1>3. linked \in Link /\ linked.served = 0
  BY <1>1, StudioTypes DEF Link, StudioCall
<1>4. \/ links' = links
      \/ \E link \in {NoLink, linked} : links' = [links EXCEPT ![call.module] = link]
  BY DEF WritesLink
<1>. HIDE DEF linked
<1>5. CASE links' = links
  BY <1>1, <1>2, <1>5, StudioRowsStay, StudioCallAnswered
<1>6. ASSUME NEW link \in {NoLink, linked}, links' = [links EXCEPT ![call.module] = link]
      PROVE  StudioInv'
  <2>1. link \in Link /\ link.served = 0
    BY <1>3, StudioTypes
  <2>2. links' \in [QuizModules -> Link]
    BY <1>1, <1>6, <2>1
  <2>3. \A m \in QuizModules : links'[m] = links[m] \/ links'[m].served = 0
    BY <1>1, <1>6, <2>1
  <2>4. ServesItsCount'
    BY <1>1, <2>3 DEF StudioInv, ServesItsCount
  <2>5. \A j \in StudioSlots :
          /\ Publishing(studioCalls[j]) => banks'[studioCalls[j].bank].status = "DRAFT"
          /\ studioCalls[j].kind = "create" /\ studioCalls[j].step \in {"check", "write"} =>
               banks'[studioCalls[j].bank].status = "none"
    BY <1>1 DEF StudioInv, RequestIsTrue
  <2>. QED
    BY <1>1, <1>2, <2>2, <2>4, <2>5, StudioCallAnswered
<1>. QED
  BY <1>4, <1>5, <1>6

\* The pages ask for what they show; nothing but a request of theirs is added.
LEMMA StudioPagesKeep ==
  ASSUME StudioInv,
         \/ OpensStudioPage \/ OpensStudio \/ LeavesStudio
         \/ AsksOfCourse \/ AsksOfList \/ AsksOfQuestions \/ AsksToPublish
         \/ \E i \in StudioSlots : OpensCreated(i)
  PROVE  StudioInv'
<1>1. /\ studio \in StudioPage /\ AwayFromStudio \in StudioPage /\ MaxQuestions \in Nat
      /\ 0 \in 0 .. MaxQuestions
  BY StudioTypes DEF StudioInv, StudioTypeOK
<1>2. UNCHANGED <<banks, links>>
  BY DEF OpensStudioPage, OpensStudio, LeavesStudio, AsksOfCourse, AsksOfList, AsksOfQuestions,
     AsksToPublish, OpensCreated
<1>3. ASSUME NEW at \in {"list", "course", "studio"}, NEW b \in Banks \cup {NoBank}, NEW from \in StudioPage
      PROVE  [from EXCEPT !.at = at, !.bank = b, !.loading = TRUE] \in StudioPage
  BY <1>3 DEF StudioPage
<1>. USE <1>1, <1>2
<1>4. CASE OpensStudioPage
  <2>1. PICK at \in {"list", "course"} :
          /\ studio' = [AwayFromStudio EXCEPT !.at = at, !.loading = TRUE]
          /\ studioCalls' \in Requests(Unmounted(studioCalls), "load", NoBank, NoBank, 0)
    BY <1>4 DEF OpensStudioPage
  <2>2. studio' \in StudioPage
    BY <2>1 DEF StudioPage
  <2>. QED
    BY <2>1, <2>2, RequestsAreKept, StudioPageMoves
<1>5. CASE OpensStudio
  <2>1. PICK b \in Banks :
          \/ /\ studio' = [AwayFromStudio EXCEPT !.at = "studio", !.bank = b, !.loading = TRUE]
             /\ studioCalls' \in Requests(Unmounted(studioCalls), "load", b, NoBank, 0)
          \/ /\ studio' = [studio EXCEPT !.bank = b, !.loading = TRUE]
             /\ studioCalls' \in Requests(Rerouted(studioCalls), "load", b, NoBank, 0)
    BY <1>5 DEF OpensStudio
  <2>2. studio' \in StudioPage
    BY <2>1 DEF StudioPage
  <2>. QED
    BY <2>1, <2>2, RequestsAreKept, StudioPageMoves
<1>6. CASE LeavesStudio
  <2>1. studio' \in StudioPage /\ studioCalls' = Unmounted(studioCalls)
    BY <1>6 DEF LeavesStudio
  <2>. QED
    BY <2>1, RequestsAreKept, StudioPageMoves
<1>7. CASE AsksOfCourse
  <2>1. PICK m \in QuizModules :
          \/ \E b \in Banks : studioCalls' \in Requests(studioCalls, "attach", b, m, 0)
          \/ studioCalls' \in Requests(studioCalls, "remove", NoBank, m, 0)
    BY <1>7 DEF AsksOfCourse
  <2>2. studio' \in StudioPage
    BY <1>7 DEF AsksOfCourse
  <2>. QED
    BY <2>1, <2>2, RequestsAreKept, StudioPageMoves
<1>8. CASE AsksOfList
  <2>1. PICK b \in Banks :
          /\ banks[b].status = "none"
          /\ \A i \in DOMAIN studioCalls : studioCalls[i].kind # "create"
          /\ studioCalls' \in Requests(studioCalls, "create", b, NoBank, 0)
    BY <1>8 DEF AsksOfList
  <2>2. studio' \in StudioPage /\ \A i \in StudioSlots : studioCalls[i].kind # "create"
    BY <1>8, <2>1 DEF AsksOfList, StudioInv, StudioTypeOK, StudioSlots
  <2>. QED
    BY <2>1, <2>2, RequestsAreKept, StudioPageMoves
<1>9. CASE AsksOfQuestions
  <2>1. studio' \in StudioPage /\ studio.bank \in Banks \cup {NoBank}
    BY <1>9 DEF AsksOfQuestions, StudioPage
  <2>2. \E kind \in {"add", "edit", "delete"} :
          studioCalls' \in Requests(studioCalls, kind, studio.bank, NoBank, 0)
    BY <1>9 DEF AsksOfQuestions
  <2>. QED
    BY <2>1, <2>2, RequestsAreKept, StudioPageMoves
<1>10. CASE AsksToPublish
  <2>1. studio' \in StudioPage /\ studio.bank \in Banks
    BY <1>10 DEF AsksToPublish, StudioPage, Copy
  <2>2. PICK m \in QuizModules, n \in 1 .. MaxQuestions :
          studioCalls' \in Requests(studioCalls, "publish", studio.bank, m, n)
    BY <1>10 DEF AsksToPublish
  <2>3. n \in 0 .. MaxQuestions
    OBVIOUS
  <2>. QED
    BY <2>1, <2>2, <2>3, RequestsAreKept, StudioPageMoves
<1>11. ASSUME NEW i \in StudioSlots, OpensCreated(i) PROVE StudioInv'
  <2>1. studioCalls[i].bank \in Banks \cup {NoBank}
    BY DEF StudioInv, StudioTypeOK, StudioSlots, StudioCall
  <2>2. /\ studio' = [AwayFromStudio EXCEPT !.at = "studio", !.bank = studioCalls[i].bank, !.loading = TRUE]
        /\ studioCalls' \in Requests(Unmounted(Drops(i)), "load", studioCalls[i].bank, NoBank, 0)
    BY <1>11 DEF OpensCreated
  <2>3. studio' \in StudioPage
    BY <1>3, <2>1, <2>2
  <2>. QED
    BY <2>1, <2>2, <2>3, RequestsAreKept, StudioPageMoves
<1>. QED
  BY <1>4, <1>5, <1>6, <1>7, <1>8, <1>9, <1>10, <1>11

LEMMA StudioStepInv == StudioInv /\ [StudioNext]_studioVars => StudioInv'
<1>. SUFFICES ASSUME StudioInv, [StudioNext]_studioVars PROVE StudioInv'
  OBVIOUS
<1>1. CASE UNCHANGED studioVars
  BY <1>1 DEF studioVars, StudioInv, StudioTypeOK, RequestIsTrue, RequestsExclude, Publishing, ServesItsCount
<1>2. CASE StudioNext
  BY <1>2, StudioPagesKeep, StudioReads, PublishKeeps, QuestionKeeps, CreateKeeps, LinkKeeps
  DEF StudioNext, StudioSlots
<1>. QED
  BY <1>1, <1>2

\* In every run the banks, the questions, the links, the pages and the requests of
\* the studio are of the declared types.
THEOREM StudioTypeCorrect == StudioSpec => []StudioTypeOK
<1>1. StudioInv => StudioTypeOK
  BY DEF StudioInv
<1>. QED
  BY StudioInitInv, StudioStepInv, <1>1, PTL DEF StudioSpec

\* In every run of the studio a quiz serves a published bank with as many
\* published questions as it serves.
THEOREM QuizAlwaysServesItsCount == StudioSpec => []ServesItsCount
<1>1. StudioInv => ServesItsCount
  BY DEF StudioInv
<1>. QED
  BY StudioInitInv, StudioStepInv, <1>1, PTL DEF StudioSpec

-----------------------------------------------------------------------------
(* The two areas together *)

LEMMA QuizAreasAreKept ==
  /\ QuizAppInit => CourseworkInit /\ StudioInit
  /\ [QuizAppNext]_quizAppVars => [CourseworkNext]_courseworkVars /\ [StudioNext]_studioVars
<1>1. QuizAppInit => CourseworkInit /\ StudioInit
  BY DEF QuizAppInit
<1>2. ASSUME [QuizAppNext]_quizAppVars
      PROVE  [CourseworkNext]_courseworkVars /\ [StudioNext]_studioVars
  BY <1>2 DEF QuizAppNext, quizAppVars
<1>. QED
  BY <1>1, <1>2

\* The quizzes and assignments with their studio do what the coursework and the
\* studio do alone.
THEOREM QuizAppImplementsAreas == QuizAppSpec => CourseworkSpec /\ StudioSpec
BY QuizAreasAreKept, PTL DEF QuizAppSpec, CourseworkSpec, StudioSpec

\* In every run of both areas an attempt is graded as it is shown, a submitted one
\* stands, no work is taken twice or of a student who never met a mark, a grade stands,
\* and a quiz has the questions it serves.
THEOREM QuizAppIsSafe ==
  QuizAppSpec =>
    [](OpenAttemptIsBound /\ GradedAsShown /\ OneDraft /\ WorkIsUnlocked /\ ServesItsCount)
    /\ SubmittedStands /\ GradeStands /\ ImplementsAttemptBook /\ ImplementsGradebook
BY QuizAppImplementsAreas, OpenAttemptAlwaysBound, AlwaysGradedAsShown, AlwaysOneDraft,
   WorkAlwaysUnlocked, SubmittedAlwaysStands,
   GradeAlwaysStands, QuizAlwaysServesItsCount, CourseworkImplementsAttemptBook,
   CourseworkImplementsGradebook, PTL

=============================================================================
