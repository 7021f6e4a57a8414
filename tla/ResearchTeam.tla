----------------------------- MODULE ResearchTeam -----------------------------
(* A student applies to the research team and administrators decide: the page*)
(* of the team, the application form, the administrators' pages, and the     *)
(* service behind them, which reads its rows one by one before it writes.    *)
EXTENDS Naturals, Sequences

CONSTANTS
  Applicant,        \* the student
  Admins,           \* the administrators' tabs
  MaxApplications,  \* bound on the application rows
  MaxTeamCalls      \* bound on the requests under way

ASSUME TeamAssumption ==
  /\ Applicant \notin Admins
  /\ MaxApplications \in Nat \ {0}
  /\ MaxTeamCalls \in Nat \ {0}

VARIABLES
  applications,  \* the student's rows, by the date they were submitted
  teamPage,      \* the page the student has open
  reviews,       \* administrator -> the application page
  teamCalls      \* slot -> a request under way

teamVars == <<applications, teamPage, reviews, teamCalls>>

Open == {"submitted", "under_review"}
Statuses == Open \cup {"accepted", "rejected"}
Application == [status : Statuses, reapply : BOOLEAN]
Submitted == [status |-> "submitted", reapply |-> FALSE]

TeamPage == [at : {"away", "team", "loading", "form", "done"},
             offered : BOOLEAN, submitting : BOOLEAN]
AwayFromTeam == [at |-> "away", offered |-> FALSE, submitting |-> FALSE]

Review == [row : 0 .. MaxApplications, shown : Statuses \cup {"none"},
           reapply : BOOLEAN, busy : BOOLEAN]
NoReview == [row |-> 0, shown |-> "none", reapply |-> FALSE, busy |-> FALSE]

(* todo: what the service still has to read or write before it answers.      *)
Steps == {"certified", "latest", "accepted", "open", "row", "write"}
TeamCall == [kind : {"none", "profile", "me", "submit", "get", "patch", "reapply"},
             from : Admins \cup {Applicant}, heard : BOOLEAN, row : 0 .. MaxApplications,
             target : Statuses \cup {"none"}, todo : Seq(Steps), result : {"asked", "yes", "no"},
             seen : Application]
NoTeamCall == [kind |-> "none", from |-> Applicant, heard |-> FALSE, row |-> 0,
               target |-> "none", todo |-> <<>>, result |-> "asked", seen |-> Submitted]

TeamInit ==
  /\ applications = <<>>
  /\ teamPage = AwayFromTeam
  /\ reviews = [a \in Admins |-> NoReview]
  /\ teamCalls = [i \in 1 .. MaxTeamCalls |-> NoTeamCall]

-----------------------------------------------------------------------------
(* Requests.                                                                 *)

TeamAsks(calls, kind, from, row, target, todo) ==
  {[calls EXCEPT ![i] = [NoTeamCall EXCEPT
      !.kind = kind, !.from = from, !.heard = TRUE, !.row = row,
      !.target = target, !.todo = todo]] :
    i \in {j \in DOMAIN calls : calls[j].kind = "none"
             /\ \A k \in 1 .. (j - 1) : calls[k].kind # "none"}}

(* The answers a page waited for mean nothing once it is left; what was asked*)
(* of the service goes on.                                                   *)
TeamUnheard(calls, from) == [i \in DOMAIN calls |->
  IF calls[i].from # from THEN calls[i]
  ELSE IF calls[i].todo # <<>> /\ calls[i].todo[Len(calls[i].todo)] = "write"
  THEN [calls[i] EXCEPT !.heard = FALSE] ELSE NoTeamCall]

Hangs(i) == [teamCalls EXCEPT ![i] = NoTeamCall]
Result(i, r, row) ==
  IF teamCalls[i].heard
  THEN [teamCalls EXCEPT ![i].result = r, ![i].todo = <<>>, ![i].seen = row]
  ELSE Hangs(i)

HasOpen == \E k \in DOMAIN applications : applications[k].status \in Open
HasAccepted == \E k \in DOMAIN applications : applications[k].status = "accepted"
MayReapply(a) == a.status = "rejected" /\ a.reapply
Latest == applications[Len(applications)]

(* What is refused when the row of a decision is read.                       *)
PatchRefused(call) ==
  LET status == applications[call.row].status IN
  \/ status = "accepted"
  \/ status = "rejected" /\ call.target = "submitted"

(* What a decision reads after the row.                                      *)
PatchReads(call) ==
  LET reopened == applications[call.row].status \notin Open IN
  (IF call.target = "accepted" THEN <<"accepted">> ELSE <<>>)
    \o (IF reopened /\ call.target \in Open \cup {"accepted"} THEN <<"open">> ELSE <<>>)
    \o <<"write">>

(* One read of the database. Certificates are issued and revoked meanwhile,  *)
(* and eligible is what the service finds of them. submit lets   *)
(* through a latest application that is accepted by now.                     *)
Passes(call, eligible) ==
  LET step == Head(call.todo) IN
  CASE step = "certified" -> eligible
    [] step = "accepted"  -> ~HasAccepted
    [] step = "open"      -> ~HasOpen
    [] step = "latest" /\ call.kind = "reapply" -> call.row = Len(applications)
    [] step = "latest" /\ call.kind = "me" -> applications = <<>> \/ MayReapply(Latest)
    [] step = "latest" /\ call.kind = "submit" ->
         applications = <<>> \/ MayReapply(Latest) \/ Latest.status = "accepted"
    [] step = "row" /\ call.kind = "patch" -> ~PatchRefused(call)
    [] step = "row" /\ call.kind = "reapply" -> applications[call.row].status = "rejected"
    [] OTHER -> TRUE

Rest(call) ==
  IF Head(call.todo) # "row" \/ call.kind # "patch" THEN Tail(call.todo)
  ELSE IF applications[call.row].status = call.target THEN <<>>
  ELSE PatchReads(call)

Reads(i) ==
  LET call == teamCalls[i] IN
  /\ call.kind # "none" /\ call.todo # <<>> /\ Head(call.todo) # "write"
  /\ \E eligible \in BOOLEAN :
     teamCalls' = IF ~Passes(call, eligible) THEN Result(i, "no", Submitted)
                  ELSE IF Rest(call) = <<>>
                  THEN Result(i, "yes", IF call.row = 0 THEN Submitted ELSE applications[call.row])
                  ELSE [teamCalls EXCEPT ![i].todo = Rest(call)]
  /\ UNCHANGED <<applications, teamPage, reviews>>

-----------------------------------------------------------------------------
(* The writes, each by id alone, under the two partial unique indexes.       *)

OneOpen(rows) == \A j, k \in DOMAIN rows :
  rows[j].status \in Open /\ rows[k].status \in Open => j = k
OneAccepted(rows) == \A j, k \in DOMAIN rows :
  rows[j].status = "accepted" /\ rows[k].status = "accepted" => j = k

(* FAULT: no unique index on the applications under way.                     *)
AdmitsAny(rows) == OneAccepted(rows)

Admits(rows) == OneOpen(rows) /\ OneAccepted(rows)

Written(call) ==
  CASE call.kind = "submit"  -> Append(applications, Submitted)
    [] call.kind = "patch"   -> [applications EXCEPT ![call.row].status = call.target]
    [] call.kind = "reapply" -> [applications EXCEPT ![call.row].reapply = TRUE]

Writes(i) ==
  LET call == teamCalls[i] IN
  /\ call.todo = <<"write">>
  /\ call.kind = "submit" => Len(applications) < MaxApplications
  /\ IF Admits(Written(call))
     THEN /\ applications' = Written(call)
          /\ teamCalls' = Result(i, "yes", IF call.row = 0 THEN Submitted ELSE Written(call)[call.row])
     ELSE /\ teamCalls' = Result(i, "no", Submitted)
          /\ UNCHANGED applications
  /\ UNCHANGED <<teamPage, reviews>>

-----------------------------------------------------------------------------
(* The student.                                                              *)

(* The guest's view stays until the catalog answers for who is signed in.    *)
OpensTeamPage ==
  /\ teamPage.at # "team"
  /\ teamPage' = [AwayFromTeam EXCEPT !.at = "team"]
  /\ teamCalls' \in TeamAsks(TeamUnheard(teamCalls, Applicant), "me", Applicant, 0, "none",
                          <<"certified", "latest", "accepted", "open">>)
  /\ UNCHANGED <<applications, reviews>>

(* By the link of the team's page, or by the address.                        *)
OpensForm ==
  /\ teamPage.at = "away" \/ (teamPage.at = "team" /\ teamPage.offered)
  /\ teamPage' = [AwayFromTeam EXCEPT !.at = "loading"]
  /\ teamCalls' \in TeamAsks(TeamUnheard(teamCalls, Applicant), "profile", Applicant, 0, "none", <<>>)
  /\ UNCHANGED <<applications, reviews>>

LeavesTeam ==
  /\ teamPage.at # "away"
  /\ teamPage' = AwayFromTeam
  /\ teamCalls' = TeamUnheard(teamCalls, Applicant)
  /\ UNCHANGED <<applications, reviews>>

(* The profile fills the form in. One without a country or a profession sends*)
(* the student to the profile page; one that does not load does not.         *)
ShowsForm(i) ==
  /\ teamCalls[i].kind = "profile"
  /\ \E found \in BOOLEAN :
       teamPage' = IF found THEN [teamPage EXCEPT !.at = "form"] ELSE AwayFromTeam
  /\ teamCalls' = Hangs(i)
  /\ UNCHANGED <<applications, reviews>>

ShowsStanding(i) ==
  /\ teamCalls[i].kind = "me" /\ teamCalls[i].result # "asked"
  /\ teamPage' = [teamPage EXCEPT !.offered = teamCalls[i].result = "yes"]
  /\ teamCalls' = Hangs(i)
  /\ UNCHANGED <<applications, reviews>>

(* The form is complete.                                                     *)
Applies ==
  /\ teamPage.at = "form" /\ ~teamPage.submitting
  /\ teamPage' = [teamPage EXCEPT !.submitting = TRUE]
  /\ teamCalls' \in TeamAsks(teamCalls, "submit", Applicant, 0, "none",
                          <<"certified", "accepted", "open", "latest", "write">>)
  /\ UNCHANGED <<applications, reviews>>

LearnsOutcome(i) ==
  /\ teamCalls[i].kind = "submit" /\ teamCalls[i].result # "asked"
  /\ teamPage' = [teamPage EXCEPT !.submitting = FALSE,
                         !.at = IF teamCalls[i].result = "yes" THEN "done" ELSE @]
  /\ teamCalls' = Hangs(i)
  /\ UNCHANGED <<applications, reviews>>

-----------------------------------------------------------------------------
(* The administrators.                                                       *)

(* From the list of the applications.                                        *)
OpensReview(a) ==
  \E k \in DOMAIN applications :
    /\ reviews[a].row # k
    /\ reviews' = [reviews EXCEPT ![a] = [NoReview EXCEPT !.row = k]]
    /\ teamCalls' \in TeamAsks(TeamUnheard(teamCalls, a), "get", a, k, "none", <<"row">>)
    /\ UNCHANGED <<applications, teamPage>>

Decides(a) ==
  \E status \in Statuses :
    /\ reviews[a].shown # "none" /\ ~reviews[a].busy
    /\ reviews' = [reviews EXCEPT ![a].busy = TRUE]
    /\ teamCalls' \in TeamAsks(teamCalls, "patch", a, reviews[a].row, status, <<"row", "write">>)
    /\ UNCHANGED <<applications, teamPage>>

MayAllowReapply(r) == r.shown = "rejected" /\ ~r.reapply

AllowsReapply(a) ==
  /\ MayAllowReapply(reviews[a]) /\ ~reviews[a].busy
  /\ reviews' = [reviews EXCEPT ![a].busy = TRUE]
  /\ teamCalls' \in TeamAsks(teamCalls, "reapply", a, reviews[a].row, "none",
                          <<"row", "latest", "accepted", "write">>)
  /\ UNCHANGED <<applications, teamPage>>

ShowsReview(i) ==
  LET call == teamCalls[i] IN
  /\ call.kind \in {"get", "patch", "reapply"} /\ call.result # "asked"
  /\ reviews' = IF call.result = "no" THEN [reviews EXCEPT ![call.from].busy = FALSE]
                ELSE [reviews EXCEPT ![call.from].busy = FALSE,
                        ![call.from].shown = call.seen.status,
                        ![call.from].reapply = call.seen.reapply]
  /\ teamCalls' = Hangs(i)
  /\ UNCHANGED <<applications, teamPage>>

(* An answer is lost, or the service fails before it writes.                 *)
TeamCallFails(i) ==
  /\ teamCalls[i].kind \notin {"none", "profile"}
  /\ teamPage' = IF teamCalls[i].heard /\ teamCalls[i].from = Applicant
                 THEN [teamPage EXCEPT !.submitting = FALSE] ELSE teamPage
  /\ reviews' = IF teamCalls[i].heard /\ teamCalls[i].from \in Admins
                THEN [reviews EXCEPT ![teamCalls[i].from].busy = FALSE] ELSE reviews
  /\ teamCalls' = Hangs(i)
  /\ UNCHANGED applications

TeamNext ==
  \/ OpensTeamPage \/ OpensForm \/ LeavesTeam \/ Applies
  \/ \E a \in Admins : OpensReview(a) \/ Decides(a) \/ AllowsReapply(a)
  \/ \E i \in 1 .. MaxTeamCalls :
       \/ Reads(i) \/ Writes(i)
       \/ ShowsForm(i) \/ ShowsStanding(i) \/ LearnsOutcome(i) \/ ShowsReview(i)
       \/ TeamCallFails(i)

TeamSpec == TeamInit /\ [][TeamNext]_teamVars

-----------------------------------------------------------------------------
(* The values of the rows, the pages and the requests.                       *)
TeamTypeOK ==
  /\ applications \in Seq(Application) /\ Len(applications) <= MaxApplications
  /\ teamPage \in TeamPage
  /\ reviews \in [Admins -> Review]
  /\ teamCalls \in [1 .. MaxTeamCalls -> TeamCall]

(* A student has at most one application under way and at most one accepted, *)
(* however the decisions of two administrators and two submissions interleave*)
(* between their reads and their writes.                                     *)
OneOpenApplication ==
  /\ \A j, k \in DOMAIN applications :
       applications[j].status \in Open /\ applications[k].status \in Open => j = k
  /\ \A j, k \in DOMAIN applications :
       applications[j].status = "accepted" /\ applications[k].status = "accepted" => j = k

=============================================================================
