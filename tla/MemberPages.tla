------------------------------ MODULE MemberPages ------------------------------
(* The pages about oneself: the profile, the settings, the certificates and  *)
(* their public verification, and the contact form, in one tab. A request    *)
(* that writes goes on when its page is left; requests of earlier visits land*)
(* among those of the page that is open.                                     *)
EXTENDS Naturals, FiniteSets

CONSTANTS
  Prefs,           \* the learning preferences and interest tags, on or off
  DefaultPrefs,    \* the ones that are on after a reset
  Credentials,     \* credential ids someone may ask about
  NoCredential,
  MaxMemberCalls   \* bound on the requests under way

ASSUME MemberAssumption ==
  /\ DefaultPrefs \subseteq Prefs
  /\ NoCredential \notin Credentials
  /\ MaxMemberCalls \in Nat \ {0}

VARIABLES
  names,        \* the name in Cognito and the name in the profile
  prefs,        \* the preferences that are on
  credentials,  \* credential -> its status
  memberPage,   \* the page that is open
  memberCalls   \* slot -> a request under way

memberVars == <<names, prefs, credentials, memberPage, memberCalls>>
memberRows == <<names, prefs, credentials>>

Names == {"old", "new"}
CredentialStatus == {"none", "valid", "revoked"}
Ids == Credentials \cup {NoCredential}

MemberPage == [at : {"away", "profile", "settings", "certificates", "verify", "contact"},
               phase : {"idle", "loading", "ready", "error"},
               saving : BOOLEAN, changing : BOOLEAN, prefs : SUBSET Prefs,
               listed : SUBSET Credentials,
               route : Ids, shown : Ids, verdict : CredentialStatus]
NoMemberPage == [at |-> "away", phase |-> "idle", saving |-> FALSE, changing |-> FALSE,
           prefs |-> {}, listed |-> {}, route |-> NoCredential,
           shown |-> NoCredential, verdict |-> "none"]

MemberCall == [kind : {"none", "load", "name", "password", "prefs", "reset", "verify", "message"},
               step : {"asked", "going", "answered"}, heard : BOOLEAN,
               id : Ids, name : Names, flips : SUBSET Prefs, prefs : SUBSET Prefs,
               listed : SUBSET Credentials, verdict : CredentialStatus]
NoMemberCall == [kind |-> "none", step |-> "asked", heard |-> FALSE, id |-> NoCredential,
                 name |-> "old", flips |-> {}, prefs |-> {}, listed |-> {}, verdict |-> "none"]

MemberInit ==
  /\ names = [pool |-> "old", profile |-> "old"]
  /\ prefs = DefaultPrefs
  /\ credentials = [c \in Credentials |-> "none"]
  /\ memberPage = NoMemberPage
  /\ memberCalls = [i \in 1 .. MaxMemberCalls |-> NoMemberCall]

-----------------------------------------------------------------------------
(* Requests and pages.                                                       *)

Sent(calls, call) ==
  {[calls EXCEPT ![i] = [call EXCEPT !.heard = TRUE]] :
    i \in {j \in DOMAIN calls : calls[j].kind = "none"
             /\ \A k \in 1 .. (j - 1) : calls[k].kind # "none"}}

Ends(i) == [memberCalls EXCEPT ![i] = NoMemberCall]
Answered(i) == IF memberCalls[i].heard
               THEN [memberCalls EXCEPT ![i].step = "answered"] ELSE Ends(i)

(* FAULT: an answer to an earlier question is still waited for.              *)
KeepsQuestions(calls) == [i \in DOMAIN calls |->
  IF calls[i].kind = "load" THEN NoMemberCall ELSE calls[i]]

(* Nobody waits for the answers of a page that was left, nor for those of an *)
(* earlier question to the verification page.                                *)
LeftBehind(calls) == [i \in DOMAIN calls |->
  IF calls[i].kind \in {"load", "verify"} \/ calls[i].step = "answered"
  THEN NoMemberCall ELSE [calls[i] EXCEPT !.heard = FALSE]]

OpensPage(at) ==
  /\ memberPage.at # at
  /\ memberPage' = [NoMemberPage EXCEPT !.at = at,
                      !.phase = IF at = "contact" THEN "ready" ELSE "loading"]
  /\ IF at = "contact" THEN memberCalls' = LeftBehind(memberCalls)
     ELSE memberCalls' \in Sent(LeftBehind(memberCalls), [NoMemberCall EXCEPT !.kind = "load"])
  /\ UNCHANGED memberRows

(* "Retry" of the certificates page.                                         *)
LoadsAgain ==
  /\ memberPage.at = "certificates" /\ memberPage.phase = "error"
  /\ memberPage' = [memberPage EXCEPT !.phase = "loading"]
  /\ memberCalls' \in Sent(LeftBehind(memberCalls), [NoMemberCall EXCEPT !.kind = "load"])
  /\ UNCHANGED memberRows

Earned == {c \in Credentials : credentials[c] = "valid"}

ReadsRows(i) ==
  /\ memberCalls[i].kind = "load" /\ memberCalls[i].step = "asked"
  /\ memberCalls' = [memberCalls EXCEPT ![i].step = "answered",
       ![i].prefs = IF memberPage.at = "settings" THEN prefs ELSE {},
       ![i].listed = IF memberPage.at = "certificates" THEN Earned ELSE {}]
  /\ UNCHANGED <<memberRows, memberPage>>

ShowsRows(i) ==
  /\ memberCalls[i].kind = "load" /\ memberCalls[i].step = "answered"
  /\ memberPage' = [memberPage EXCEPT !.phase = "ready",
       !.prefs = memberCalls[i].prefs, !.listed = memberCalls[i].listed]
  /\ memberCalls' = Ends(i)
  /\ UNCHANGED memberRows

-----------------------------------------------------------------------------
(* The profile: Cognito first, then the catalog.                             *)

SavesName(n) ==
  /\ memberPage.at = "profile" /\ memberPage.phase = "ready" /\ ~memberPage.saving
  /\ memberPage' = [memberPage EXCEPT !.saving = TRUE]
  /\ memberCalls' \in Sent(memberCalls, [NoMemberCall EXCEPT !.kind = "name", !.name = n])
  /\ UNCHANGED memberRows

WritesPoolName(i) ==
  /\ memberCalls[i].kind = "name" /\ memberCalls[i].step = "asked"
  /\ names' = [names EXCEPT !.pool = memberCalls[i].name]
  /\ memberCalls' = [memberCalls EXCEPT ![i].step = "going"]
  /\ UNCHANGED <<prefs, credentials, memberPage>>

WritesProfileName(i) ==
  /\ memberCalls[i].kind = "name" /\ memberCalls[i].step = "going"
  /\ names' = [names EXCEPT !.profile = memberCalls[i].name]
  /\ memberCalls' = Answered(i)
  /\ UNCHANGED <<prefs, credentials, memberPage>>

ChangesPassword ==
  /\ memberPage.at = "profile" /\ memberPage.phase = "ready" /\ ~memberPage.changing
  /\ memberPage' = [memberPage EXCEPT !.changing = TRUE]
  /\ memberCalls' \in Sent(memberCalls, [NoMemberCall EXCEPT !.kind = "password"])
  /\ UNCHANGED memberRows

-----------------------------------------------------------------------------
(* The settings: shown changed before they are.                              *)

Flip(set, p) == (set \ {p}) \cup ({p} \ set)

TogglesPref(p) ==
  /\ memberPage.at = "settings" /\ memberPage.phase = "ready" /\ ~memberPage.saving
  /\ memberPage' = [memberPage EXCEPT !.saving = TRUE, !.prefs = Flip(@, p)]
  /\ memberCalls' \in Sent(memberCalls, [NoMemberCall EXCEPT
       !.kind = "prefs", !.flips = {p}, !.prefs = memberPage.prefs])
  /\ UNCHANGED memberRows

ResetsPrefs ==
  /\ memberPage.at = "settings" /\ memberPage.phase = "ready" /\ ~memberPage.saving
  /\ memberPage' = [memberPage EXCEPT !.saving = TRUE]
  /\ memberCalls' \in Sent(memberCalls, [NoMemberCall EXCEPT
       !.kind = "reset", !.prefs = memberPage.prefs])
  /\ UNCHANGED memberRows

(* The catalog completes the change with the preferences it reads, which are *)
(* not locked, and writes all of them.                                       *)
ReadsPrefs(i) ==
  /\ memberCalls[i].kind = "prefs" /\ memberCalls[i].step = "asked"
  /\ LET call == memberCalls[i] IN
     memberCalls' = [memberCalls EXCEPT ![i].step = "going",
       ![i].prefs = IF call.heard THEN @ ELSE {},
       ![i].flips = {p \in Prefs : IF p \in call.flips THEN p \notin call.prefs ELSE p \in prefs}]
  /\ UNCHANGED <<memberRows, memberPage>>

WritesPrefs(i) ==
  LET call == memberCalls[i] IN
  /\ <<call.kind, call.step>> \in {<<"prefs", "going">>, <<"reset", "asked">>}
  /\ prefs' = IF call.kind = "reset" THEN DefaultPrefs ELSE call.flips
  /\ memberCalls' = IF call.heard
                    THEN [memberCalls EXCEPT ![i].step = "answered", ![i].flips = prefs']
                    ELSE Ends(i)
  /\ UNCHANGED <<names, credentials, memberPage>>

-----------------------------------------------------------------------------
(* The verification of a certificate, by anyone.                             *)

(* A certificate is issued, and may be revoked once.                         *)
CredentialChanges(c) ==
  /\ credentials[c] # "revoked"
  /\ credentials' = [credentials EXCEPT ![c] = IF @ = "none" THEN "valid" ELSE "revoked"]
  /\ UNCHANGED <<names, prefs, memberPage, memberCalls>>

Verifying(c) == [NoMemberPage EXCEPT !.at = "verify", !.phase = "loading", !.route = c]

(* By the address, by the link of a certificate, by the form, or by going    *)
(* back. The form of the page is off while it loads, the rest is not.        *)
Verifies(c) ==
  /\ memberPage.at \in {"away", "verify"} \/ c \in memberPage.listed
  /\ memberPage # Verifying(c)
  /\ memberPage' = Verifying(c)
  /\ memberCalls' \in Sent(LeftBehind(memberCalls),
                           [NoMemberCall EXCEPT !.kind = "verify", !.id = c])
  /\ UNCHANGED memberRows

(* "Clear", or the page without an id.                                       *)
ClearsVerdict ==
  /\ memberPage.at = "away" \/ (memberPage.at = "verify" /\ memberPage.phase # "idle")
  /\ memberPage' = [NoMemberPage EXCEPT !.at = "verify"]
  /\ memberCalls' = LeftBehind(memberCalls)
  /\ UNCHANGED memberRows

ReadsCredential(i) ==
  /\ memberCalls[i].kind = "verify" /\ memberCalls[i].step = "asked"
  /\ memberCalls' = [memberCalls EXCEPT ![i].step = "answered",
                       ![i].verdict = credentials[memberCalls[i].id]]
  /\ UNCHANGED <<memberRows, memberPage>>

ShowsVerdict(i) ==
  /\ memberCalls[i].kind = "verify" /\ memberCalls[i].step = "answered"
  /\ memberPage' = [memberPage EXCEPT !.phase = "ready",
       !.shown = memberCalls[i].id, !.verdict = memberCalls[i].verdict]
  /\ memberCalls' = Ends(i)
  /\ UNCHANGED memberRows

-----------------------------------------------------------------------------
(* The contact form. The catalog queues a message for the mailer, unless the *)
(* limiter has counted too many of the sender's.                             *)

SendsMessage ==
  /\ memberPage.at = "contact" /\ memberPage.phase \in {"ready", "error"} /\ ~memberPage.saving
  /\ memberPage' = [memberPage EXCEPT !.saving = TRUE, !.phase = "ready"]
  /\ memberCalls' \in Sent(memberCalls, [NoMemberCall EXCEPT !.kind = "message"])
  /\ UNCHANGED memberRows

QueuesMessage(i) ==
  /\ memberCalls[i].kind = "message" /\ memberCalls[i].step = "asked"
  /\ memberCalls' = Answered(i)
  /\ UNCHANGED <<memberRows, memberPage>>

-----------------------------------------------------------------------------
(* Answers.                                                                  *)

Saves == {"name", "prefs", "reset", "message"}

(* The settings show what the catalog answers; a sent message closes the form*)
(* of the contact page.                                                      *)
ShowsSaved(i) ==
  LET call == memberCalls[i] IN
  /\ call.kind \in Saves /\ call.step = "answered"
  /\ memberPage' = [memberPage EXCEPT !.saving = FALSE,
       !.prefs = IF call.kind \in {"prefs", "reset"} THEN call.flips ELSE @,
       !.phase = IF call.kind = "message" THEN "idle" ELSE @]
  /\ memberCalls' = Ends(i)
  /\ UNCHANGED memberRows

(* Cognito changes the password or does not.                                 *)
PasswordEnds(i) ==
  /\ memberCalls[i].kind = "password"
  /\ memberPage' = IF memberCalls[i].heard
                   THEN [memberPage EXCEPT !.changing = FALSE] ELSE memberPage
  /\ memberCalls' = Ends(i)
  /\ UNCHANGED memberRows

(* A request or its answer is lost. The settings go back to what was shown.  *)
MemberCallFails(i) ==
  LET call == memberCalls[i] IN
  /\ call.kind \notin {"none", "password"}
  /\ memberPage' =
       IF ~call.heard THEN memberPage
       ELSE IF call.kind \in Saves
       THEN [memberPage EXCEPT !.saving = FALSE,
              !.prefs = IF call.kind \in {"prefs", "reset"} THEN call.prefs ELSE @,
              !.phase = IF call.kind = "message" THEN "error" ELSE @]
       ELSE [memberPage EXCEPT !.phase = "error"]
  /\ memberCalls' = Ends(i)
  /\ UNCHANGED memberRows

MemberNext ==
  \/ \E at \in {"profile", "settings", "certificates", "contact"} : OpensPage(at)
  \/ LoadsAgain \/ ChangesPassword \/ ResetsPrefs \/ ClearsVerdict \/ SendsMessage
  \/ \E n \in Names : SavesName(n)
  \/ \E p \in Prefs : TogglesPref(p)
  \/ \E c \in Credentials : CredentialChanges(c) \/ Verifies(c)
  \/ \E i \in 1 .. MaxMemberCalls :
       \/ ReadsRows(i) \/ ShowsRows(i)
       \/ WritesPoolName(i) \/ WritesProfileName(i)
       \/ ReadsPrefs(i) \/ WritesPrefs(i)
       \/ ReadsCredential(i) \/ ShowsVerdict(i)
       \/ QueuesMessage(i) \/ ShowsSaved(i) \/ PasswordEnds(i) \/ MemberCallFails(i)

MemberSpec == MemberInit /\ [][MemberNext]_memberVars

-----------------------------------------------------------------------------
(* The values of the rows, the page and the requests.                        *)
MemberTypeOK ==
  /\ names \in [pool : Names, profile : Names]
  /\ prefs \in SUBSET Prefs
  /\ credentials \in [Credentials -> CredentialStatus]
  /\ memberPage \in MemberPage
  /\ memberCalls \in [1 .. MaxMemberCalls -> MemberCall]

(* The verification page never shows one certificate's verdict under another *)
(* one's address, in whatever order the answers come, and it never calls     *)
(* valid a certificate that was never issued.                                *)
VerifiedAsRouted ==
  memberPage.at = "verify" /\ memberPage.phase = "ready" =>
    /\ memberPage.shown = memberPage.route
    /\ memberPage.verdict # "none" => credentials[memberPage.route] # "none"

=============================================================================
