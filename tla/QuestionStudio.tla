---------------------------- MODULE QuestionStudio ----------------------------
(* A teacher prepares the quizzes of a course: the list of question banks,   *)
(* the studio of one bank, the quiz panel of the course page, and the service*)
(* behind them. Questions are counted. The studio stays mounted when its     *)
(* route changes from one bank to another.                                   *)
EXTENDS Naturals

CONSTANTS
  Banks,           \* identities of question banks
  NoBank,          \* none of them
  QuizModules,     \* modules of the course
  MaxQuestions,    \* bound on the questions of a bank, by status
  MaxStudioCalls   \* bound on the requests under way

ASSUME StudioAssumption ==
  /\ NoBank \notin Banks
  /\ MaxQuestions \in Nat \ {0}
  /\ MaxStudioCalls \in Nat \ {0}

VARIABLES
  banks,        \* bank -> its row and its questions
  links,        \* module -> the bank and the count its quiz serves
  studio,       \* the page the teacher has open
  studioCalls   \* slot -> a handler of a page with its request under way

studioVars == <<banks, links, studio, studioCalls>>

Bank == [status : {"none", "DRAFT", "PUBLISHED"},
         drafts : 0 .. MaxQuestions, live : 0 .. MaxQuestions]
NoBankRow == [status |-> "none", drafts |-> 0, live |-> 0]

(* served is 0 until the bank is published.                                  *)
Link == [bank : Banks \cup {NoBank}, served : 0 .. MaxQuestions]
NoLink == [bank |-> NoBank, served |-> 0]

(* What a reload of the page reads: the banks in draft, the bank of each     *)
(* module, and the questions of one bank.                                    *)
Copy == [drafting : SUBSET Banks, listed : SUBSET Banks,
         links : [QuizModules -> Banks \cup {NoBank}],
         of : Banks \cup {NoBank}, drafts : 0 .. MaxQuestions]
NoCopy == [drafting |-> {}, listed |-> {}, links |-> [m \in QuizModules |-> NoBank],
           of |-> NoBank, drafts |-> 0]

StudioPage == [at : {"away", "list", "studio", "course"}, bank : Banks \cup {NoBank},
               loading : BOOLEAN, shown : Copy]
AwayFromStudio == [at |-> "away", bank |-> NoBank, loading |-> FALSE, shown |-> NoCopy]

(* current: the reload began under the route the page has now. heard: the    *)
(* page that asked is still open.                                            *)
StudioCall == [kind : {"none", "load", "create", "add", "edit", "delete", "publish", "attach", "remove"},
               bank : Banks \cup {NoBank}, module : QuizModules \cup {NoBank},
               n : 0 .. MaxQuestions, total : 0 .. MaxQuestions,
               step : {"check", "lock", "write", "writeLive", "written", "refused", "read", "loaded"},
               current : BOOLEAN, heard : BOOLEAN, copy : Copy]
NoStudioCall == [kind |-> "none", bank |-> NoBank, module |-> NoBank, n |-> 0, total |-> 0,
                 step |-> "check", current |-> FALSE, heard |-> FALSE, copy |-> NoCopy]

StudioInit ==
  /\ banks = [b \in Banks |-> NoBankRow]
  /\ links = [m \in QuizModules |-> NoLink]
  /\ studio = AwayFromStudio
  /\ studioCalls = [i \in 1 .. MaxStudioCalls |-> NoStudioCall]

-----------------------------------------------------------------------------
(* Requests.                                                                 *)

Requests(calls, kind, bank, module, n) ==
  {[calls EXCEPT ![i] = [NoStudioCall EXCEPT
      !.kind = kind, !.bank = bank, !.module = module, !.n = n, !.heard = TRUE,
      !.step = IF kind = "load" THEN "read" ELSE "check", !.current = kind = "load"]] :
    i \in {j \in DOMAIN calls : calls[j].kind = "none"
             /\ \A k \in 1 .. (j - 1) : calls[k].kind # "none"}}

(* What was asked of the service goes on without the page.                   *)
Unmounted(calls) == [i \in DOMAIN calls |->
  IF calls[i].step \in {"check", "lock", "write", "writeLive"} /\ calls[i].kind # "none"
  THEN [calls[i] EXCEPT !.heard = FALSE] ELSE NoStudioCall]

(* Another route of the same page: the generation of the loads moves on.     *)
Rerouted(calls) == [i \in DOMAIN calls |-> [calls[i] EXCEPT !.current = FALSE]]

Drops(i) == [studioCalls EXCEPT ![i] = NoStudioCall]
Advances(i, step) ==
  IF step \in {"written", "refused"} /\ ~studioCalls[i].heard THEN Drops(i)
  ELSE [studioCalls EXCEPT ![i].step = step]

Under(kind) == \E i \in DOMAIN studioCalls : studioCalls[i].kind = kind /\ studioCalls[i].heard

-----------------------------------------------------------------------------
(* The service.                                                              *)

LockHeld(b) == \E i \in DOMAIN studioCalls :
  studioCalls[i].kind = "publish" /\ studioCalls[i].bank = b /\ studioCalls[i].step = "write"

LinkedElsewhere(b, m) == \E other \in QuizModules \ {m} : links[other].bank = b

(* What the service reads before it writes. A bank published between the two *)
(* reads of its status refuses the question.                                 *)
Checked(call) ==
  LET row == banks[call.bank] IN
  CASE call.kind \in {"create", "remove"} -> {"write"}
    [] call.kind = "add" /\ row.status = "DRAFT" -> {"write"}
    [] call.kind = "add" /\ row.status = "PUBLISHED" -> {"writeLive", "refused"}
    [] call.kind \in {"edit", "delete"} /\ row.drafts > 0 -> {"write"}
    [] call.kind = "publish" /\ row.status = "DRAFT" /\ call.n \in 1 .. row.drafts -> {"lock"}
    [] call.kind = "attach" /\ row.status # "none" /\ ~LinkedElsewhere(call.bank, call.module) -> {"write"}
    [] OTHER -> {"refused"}

Checks(i) ==
  /\ studioCalls[i].kind \notin {"none", "load"} /\ studioCalls[i].step = "check"
  /\ \E step \in Checked(studioCalls[i]) : studioCalls' = Advances(i, step)
  /\ UNCHANGED <<banks, links, studio>>

(* The transaction locks the bank's row and counts its drafts again.         *)
LocksBank(i) ==
  LET call == studioCalls[i]
      row == banks[call.bank] IN
  /\ call.step = "lock" /\ ~LockHeld(call.bank)
  /\ studioCalls' = IF row.status = "DRAFT" /\ row.drafts > 0 /\ call.n <= row.drafts
                    THEN [studioCalls EXCEPT ![i].step = "write", ![i].total = row.drafts]
                    ELSE Advances(i, "refused")
  /\ UNCHANGED <<banks, links, studio>>

(* FAULT: what the update published is not counted.                          *)
Recounted(row, call) == TRUE

(* Drafts deleted since the count roll the transaction back.                 *)
SameDrafts(row, call) == row.drafts = call.total

Publishes(i) ==
  LET call == studioCalls[i]
      row == banks[call.bank] IN
  /\ call.kind = "publish" /\ call.step = "write"
  /\ IF SameDrafts(row, call) /\ links[call.module].bank = call.bank
     THEN /\ banks' = [banks EXCEPT ![call.bank] =
                         [status |-> "PUBLISHED", drafts |-> 0, live |-> row.drafts]]
          /\ links' = [links EXCEPT ![call.module].served = call.n]
          /\ studioCalls' = Advances(i, "written")
     ELSE /\ studioCalls' = Advances(i, "refused")
          /\ UNCHANGED <<banks, links>>
  /\ UNCHANGED studio

(* An inserted question refers to its bank, and waits for the lock.          *)
WritesQuestion(i) ==
  LET call == studioCalls[i]
      row == banks[call.bank] IN
  /\ \/ /\ call.kind = "add" /\ call.step = "write" /\ ~LockHeld(call.bank)
        /\ row.drafts < MaxQuestions
        /\ banks' = [banks EXCEPT ![call.bank].drafts = @ + 1]
        /\ studioCalls' = Advances(i, "written")
     \/ /\ call.step = "writeLive"
        /\ row.live < MaxQuestions
        /\ banks' = [banks EXCEPT ![call.bank].live = @ + 1]
        /\ studioCalls' = Advances(i, "written")
     \/ /\ call.kind \in {"edit", "delete"} /\ call.step = "write"
        /\ banks' = IF row.drafts > 0 /\ call.kind = "delete"
                    THEN [banks EXCEPT ![call.bank].drafts = @ - 1] ELSE banks
        /\ studioCalls' = Advances(i, IF row.drafts > 0 THEN "written" ELSE "refused")
  /\ UNCHANGED <<links, studio>>

CreatesBank(i) ==
  /\ studioCalls[i].kind = "create" /\ studioCalls[i].step = "write"
  /\ banks' = [banks EXCEPT ![studioCalls[i].bank].status = "DRAFT"]
  /\ studioCalls' = Advances(i, "written")
  /\ UNCHANGED <<links, studio>>

(* One quiz to a module and one module to a bank, by unique indexes; a       *)
(* module takes its quiz with it.                                            *)
WritesLink(i) ==
  LET call == studioCalls[i] IN
  /\ call.kind \in {"attach", "remove"} /\ call.step = "write"
  /\ IF call.kind = "remove"
     THEN /\ links' = [links EXCEPT ![call.module] = NoLink]
          /\ studioCalls' = Advances(i, "written")
     ELSE IF links[call.module] = NoLink /\ ~LinkedElsewhere(call.bank, call.module)
     THEN /\ links' = [links EXCEPT ![call.module] = [bank |-> call.bank, served |-> 0]]
          /\ studioCalls' = Advances(i, "written")
     ELSE /\ studioCalls' = Advances(i, "refused")
          /\ UNCHANGED links
  /\ UNCHANGED <<banks, studio>>

CopyOf(b) == [drafting |-> {x \in Banks : banks[x].status = "DRAFT"},
              listed   |-> {x \in Banks : banks[x].status # "none"},
              links    |-> [m \in QuizModules |-> links[m].bank],
              of |-> b, drafts |-> IF b = NoBank THEN 0 ELSE banks[b].drafts]

ReadsCopy(i) ==
  /\ studioCalls[i].step = "read"
  /\ studioCalls' = [studioCalls EXCEPT ![i].step = "loaded",
                                        ![i].copy = CopyOf(studioCalls[i].bank)]
  /\ UNCHANGED <<banks, links, studio>>

-----------------------------------------------------------------------------
(* The pages.                                                                *)

OpensStudioPage ==
  \E at \in {"list", "course"} :
    /\ studio.at # at
    /\ studio' = [AwayFromStudio EXCEPT !.at = at, !.loading = TRUE]
    /\ studioCalls' \in Requests(Unmounted(studioCalls), "load", NoBank, NoBank, 0)
    /\ UNCHANGED <<banks, links>>

(* From the list, or by the history from the studio of another bank.         *)
OpensStudio ==
  \E b \in Banks :
    /\ \/ /\ studio.at = "list" /\ ~studio.loading /\ b \in studio.shown.listed
          /\ studio' = [AwayFromStudio EXCEPT !.at = "studio", !.bank = b, !.loading = TRUE]
          /\ studioCalls' \in Requests(Unmounted(studioCalls), "load", b, NoBank, 0)
       \/ /\ studio.at = "studio" /\ studio.bank # b /\ banks[b].status # "none"
          /\ studio' = [studio EXCEPT !.bank = b, !.loading = TRUE]
          /\ studioCalls' \in Requests(Rerouted(studioCalls), "load", b, NoBank, 0)
    /\ UNCHANGED <<banks, links>>

LeavesStudio ==
  /\ studio.at # "away"
  /\ studio' = AwayFromStudio
  /\ studioCalls' = Unmounted(studioCalls)
  /\ UNCHANGED <<banks, links>>

(* The panel offers a module without a quiz the banks that no other has.     *)
MayAttach(m, b) ==
  /\ studio.shown.links[m] = NoBank /\ b \in studio.shown.listed
  /\ \A other \in QuizModules \ {m} : studio.shown.links[other] # b

AsksOfCourse ==
  /\ studio.at = "course" /\ ~studio.loading /\ ~Under("attach")
  /\ \E m \in QuizModules :
       \/ \E b \in Banks : MayAttach(m, b)
            /\ studioCalls' \in Requests(studioCalls, "attach", b, m, 0)
       \/ studioCalls' \in Requests(studioCalls, "remove", NoBank, m, 0)
  /\ UNCHANGED <<banks, links, studio>>

AsksOfList ==
  /\ studio.at = "list" /\ ~studio.loading /\ ~Under("create")
  /\ \E b \in Banks :
       /\ banks[b].status = "none"
       /\ \A i \in DOMAIN studioCalls : studioCalls[i].kind # "create"
       /\ studioCalls' \in Requests(studioCalls, "create", b, NoBank, 0)
  /\ UNCHANGED <<banks, links, studio>>

(* A bank missing from the list takes no questions; its questions in draft   *)
(* are edited and deleted.                                                   *)
AsksOfQuestions ==
  /\ studio.at = "studio" /\ ~studio.loading
  /\ \/ /\ studio.bank \in studio.shown.listed /\ ~Under("add")
        /\ studioCalls' \in Requests(studioCalls, "add", studio.bank, NoBank, 0)
     \/ /\ studio.shown.drafts > 0
        /\ \E kind \in {"edit", "delete"} :
             studioCalls' \in Requests(studioCalls, kind, studio.bank, NoBank, 0)
  /\ UNCHANGED <<banks, links, studio>>

AsksToPublish ==
  /\ studio.at = "studio" /\ ~studio.loading /\ ~Under("publish")
  /\ studio.bank \in studio.shown.drafting
  /\ \E m \in QuizModules, n \in 1 .. MaxQuestions :
       /\ studio.shown.links[m] = studio.bank
       /\ studioCalls' \in Requests(studioCalls, "publish", studio.bank, m, n)
  /\ UNCHANGED <<banks, links, studio>>

(* A handler whose write was answered reads the page again, with the bank it *)
(* was called for and the generation of this moment.                         *)
ReloadsAfter(i) ==
  LET call == studioCalls[i] IN
  /\ call.step = "written" /\ call.kind # "create"
  /\ studioCalls' = [studioCalls EXCEPT ![i].step = "read", ![i].current = TRUE]
  /\ studio' = IF studio.at = "course" THEN [studio EXCEPT !.loading = TRUE] ELSE studio
  /\ UNCHANGED <<banks, links>>

OpensCreated(i) ==
  /\ studioCalls[i].kind = "create" /\ studioCalls[i].step = "written"
  /\ studio' = [AwayFromStudio EXCEPT !.at = "studio", !.bank = studioCalls[i].bank, !.loading = TRUE]
  /\ studioCalls' \in Requests(Unmounted(Drops(i)), "load", studioCalls[i].bank, NoBank, 0)
  /\ UNCHANGED <<banks, links>>

(* Only the load of a route ends its skeleton; on the course page any reload *)
(* does.                                                                     *)
EndsSkeleton(call) == call.kind = "load" \/ studio.at = "course"

ShowsCopy(i) ==
  LET call == studioCalls[i] IN
  /\ call.step = "loaded"
  /\ studio' = IF ~call.current THEN studio
               ELSE [studio EXCEPT !.shown = call.copy,
                                   !.loading = @ /\ ~EndsSkeleton(call)]
  /\ studioCalls' = Drops(i)
  /\ UNCHANGED <<banks, links>>

LearnsRefused(i) ==
  /\ studioCalls[i].step = "refused"
  /\ studioCalls' = Drops(i)
  /\ UNCHANGED <<banks, links, studio>>

(* A request or its answer is lost. A write that was not made yet is made    *)
(* unheard or not at all, and a transaction under way rolls back.            *)
StudioCallFails(i) ==
  LET call == studioCalls[i]
      loads == call.step \in {"read", "loaded"} IN
  /\ call.kind # "none" /\ call.heard
  /\ \/ studioCalls' = Drops(i)
     \/ ~loads /\ call.step # "written" /\ studioCalls' = [studioCalls EXCEPT ![i].heard = FALSE]
  /\ studio' = IF loads /\ call.current /\ EndsSkeleton(call)
               THEN [studio EXCEPT !.shown = NoCopy, !.loading = FALSE] ELSE studio
  /\ UNCHANGED <<banks, links>>

StudioNext ==
  \/ OpensStudioPage \/ OpensStudio \/ LeavesStudio
  \/ AsksOfCourse \/ AsksOfList \/ AsksOfQuestions \/ AsksToPublish
  \/ \E i \in 1 .. MaxStudioCalls :
       \/ Checks(i) \/ LocksBank(i) \/ Publishes(i) \/ WritesQuestion(i)
       \/ CreatesBank(i) \/ WritesLink(i) \/ ReadsCopy(i)
       \/ ReloadsAfter(i) \/ OpensCreated(i) \/ ShowsCopy(i) \/ LearnsRefused(i)
       \/ StudioCallFails(i)

StudioSpec == StudioInit /\ [][StudioNext]_studioVars

-----------------------------------------------------------------------------
(* The values of the banks, the links, the page and the requests.            *)
StudioTypeOK ==
  /\ banks \in [Banks -> Bank]
  /\ links \in [QuizModules -> Link]
  /\ studio \in StudioPage
  /\ studioCalls \in [1 .. MaxStudioCalls -> StudioCall]

(* A quiz whose count is set serves a published bank that has that many      *)
(* published questions, whatever is added to the bank or deleted from it     *)
(* while it is being published.                                              *)
ServesItsCount == \A m \in QuizModules : links[m].served > 0 =>
  /\ links[m].bank # NoBank
  /\ banks[links[m].bank].status = "PUBLISHED"
  /\ links[m].served <= banks[links[m].bank].live

=============================================================================
