--------------------------- MODULE StudentSession ---------------------------
(***************************************************************************)
(* The single session of a student.  users.student_active_session_id holds *)
(* the one session id the catalog accepts; it is empty until the student's *)
(* first sign-in after the roll-out.  A sign-in runs two Cognito triggers: *)
(* PostAuthentication writes the profile, Pre Token Generation commits a   *)
(* fresh id and puts it in the tokens.  A refresh compares the id of the   *)
(* stored token with the database, then issues new tokens.  The catalog    *)
(* compares the claim of every call.                                       *)
(*                                                                         *)
(* One student is modelled: no statement touches two users.  Cognito waits *)
(* less for a trigger than its Lambda may run and then invokes it again,   *)
(* so a run given up may still commit.                                     *)
(***************************************************************************)
EXTENDS Naturals, FiniteSets

CONSTANTS
  Devices,      \* browsers the student uses
  SessionIds,   \* uuids the run may issue
  Empty,        \* no session id: '' in the database, no claim in a token
  NoToken,      \* signed out
  MaxOrphans    \* trigger runs that may be given up and still be alive

ASSUME SessionAssumption ==
  /\ Empty \notin SessionIds
  /\ NoToken \notin SessionIds \cup {Empty}
  /\ MaxOrphans \in Nat

VARIABLES
  active,       \* users.student_active_session_id
  mirror,       \* custom:active_session_id, written by an earlier release
  issued,       \* session ids that exist
  tokens,       \* the claim of each device's tokens
  trigger,      \* the Cognito flow each device is in
  orphans       \* sign-in triggers given up that have not committed yet

vars == <<active, mirror, issued, tokens, trigger, orphans>>

Claims == SessionIds \cup {Empty}

Idle == [pc |-> "idle", id |-> Empty]

\* id: the id a refresh presents, or the id the tokens will carry.  A sign-in
\* always has one to inject.
Flow == [pc : {"idle", "postAuth", "bump"}, id : {Empty}]
          \cup [pc : {"issue"}, id : SessionIds]
          \cup [pc : {"compare", "reissue"}, id : Claims]

SessionTypeOK ==
  /\ active \in Claims
  /\ mirror \in Claims
  /\ issued \subseteq SessionIds
  /\ tokens \in [Devices -> Claims \cup {NoToken}]
  /\ trigger \in [Devices -> Flow]
  /\ orphans \in 0..MaxOrphans

\* Roll-out: nothing in the database, tokens without the claim or, from the
\* earlier release, with the mirrored id.
Init ==
  /\ active = Empty
  /\ mirror \in Claims
  /\ issued = {mirror} \ {Empty}
  /\ tokens \in [Devices -> {Empty, NoToken, mirror}]
  /\ \A d, e \in Devices : tokens[d] = tokens[e] /\ d # e => tokens[d] \in {Empty, NoToken}
  /\ trigger = [d \in Devices |-> Idle]
  /\ orphans = 0

Fresh(id) == id \in SessionIds \ issued

Goto(d, pc, id) == trigger' = [trigger EXCEPT ![d] = [pc |-> pc, id |-> id]]

Finish(d) == trigger' = [trigger EXCEPT ![d] = Idle]

\* evaluate_student_session: an empty database lets every token pass.
Passes(d) == tokens[d] # NoToken /\ (active = Empty \/ tokens[d] = active)

-----------------------------------------------------------------------------
(* Sign-in *)

SignIn(d) ==
  /\ trigger[d].pc = "idle"
  /\ tokens[d] = NoToken
  /\ Goto(d, "postAuth", Empty)
  /\ UNCHANGED <<active, mirror, issued, tokens, orphans>>

\* FAULT: the profile sync copies the Cognito attribute into the database.
PostAuthenticationCopies(d) ==
  /\ trigger[d].pc = "postAuth"
  /\ active' = mirror
  /\ Goto(d, "bump", Empty)
  /\ UNCHANGED <<mirror, issued, tokens, orphans>>

\* The profile upsert leaves the session column alone; it never raises.
PostAuthentication(d) ==
  /\ trigger[d].pc = "postAuth"
  /\ Goto(d, "bump", Empty)
  /\ UNCHANGED <<active, mirror, issued, tokens, orphans>>

\* FAULT: a sign-in joins the session that is already there.
BumpOnce(d, id) ==
  /\ trigger[d].pc = "bump"
  /\ Fresh(id)
  /\ active' = IF active = Empty THEN id ELSE active
  /\ issued' = issued \cup {id}
  /\ Goto(d, "issue", active')
  /\ UNCHANGED <<mirror, tokens, orphans>>

\* FAULT: the claim is not injected.
BumpWithoutClaim(d, id) ==
  /\ trigger[d].pc = "bump"
  /\ Fresh(id)
  /\ active' = id
  /\ issued' = issued \cup {id}
  /\ Goto(d, "issue", Empty)
  /\ UNCHANGED <<mirror, tokens, orphans>>

\* A fresh uuid is committed before the claim is injected.
Bump(d, id) ==
  /\ trigger[d].pc = "bump"
  /\ Fresh(id)
  /\ active' = id
  /\ issued' = issued \cup {id}
  /\ Goto(d, "issue", id)
  /\ UNCHANGED <<mirror, tokens, orphans>>

\* Cognito stops waiting before the commit and invokes the trigger again.
GiveUpRun(d) ==
  /\ trigger[d].pc = "bump"
  /\ orphans < MaxOrphans
  /\ orphans' = orphans + 1
  /\ UNCHANGED <<active, mirror, issued, tokens, trigger>>

\* The run given up commits an id no tokens will ever carry.
OrphanBump(id) ==
  /\ orphans > 0
  /\ Fresh(id)
  /\ active' = id
  /\ issued' = issued \cup {id}
  /\ orphans' = orphans - 1
  /\ UNCHANGED <<mirror, tokens, trigger>>

\* Cognito stops waiting after the commit and invokes the trigger again.
RetryRun(d) ==
  /\ trigger[d].pc = "issue"
  /\ Goto(d, "bump", Empty)
  /\ UNCHANGED <<active, mirror, issued, tokens, orphans>>

IssueTokens(d) ==
  /\ trigger[d].pc = "issue"
  /\ tokens' = [tokens EXCEPT ![d] = trigger[d].id]
  /\ Finish(d)
  /\ UNCHANGED <<active, mirror, issued, orphans>>

-----------------------------------------------------------------------------
(* Refresh *)

\* The client presents the id of the token it stores.
Refresh(d) ==
  /\ trigger[d].pc = "idle"
  /\ tokens[d] # NoToken
  /\ Goto(d, "compare", tokens[d])
  /\ UNCHANGED <<active, mirror, issued, tokens, orphans>>

\* The database decides, the mirrored attribute where it is empty.
Authority == IF active = Empty THEN mirror ELSE active

\* FAULT: the refresh injects the authority without comparing.
ComparePermissive(d) ==
  /\ trigger[d].pc = "compare"
  /\ Goto(d, "reissue", Authority)
  /\ UNCHANGED <<active, mirror, issued, tokens, orphans>>

CompareAccepts(d) ==
  /\ trigger[d].pc = "compare"
  /\ trigger[d].id = Authority
  /\ Goto(d, "reissue", Authority)
  /\ UNCHANGED <<active, mirror, issued, tokens, orphans>>

\* StudentSessionSupersededError: the client signs out.
CompareDenies(d) ==
  /\ trigger[d].pc = "compare"
  /\ trigger[d].id # Authority
  /\ tokens' = [tokens EXCEPT ![d] = NoToken]
  /\ Finish(d)
  /\ UNCHANGED <<active, mirror, issued, orphans>>

ReissueTokens(d) ==
  /\ trigger[d].pc = "reissue"
  /\ tokens' = [tokens EXCEPT ![d] = trigger[d].id]
  /\ Finish(d)
  /\ UNCHANGED <<active, mirror, issued, orphans>>

\* The trigger fails, Cognito gives up, or the browser is closed.
AbandonFlow(d) ==
  /\ trigger[d].pc # "idle"
  /\ Finish(d)
  /\ UNCHANGED <<active, mirror, issued, tokens, orphans>>

-----------------------------------------------------------------------------
(* The catalog's guard, and leaving *)

\* 401 session_superseded: the client signs out, also while a refresh of it is
\* under way, whose answer may then sign it in again.
GuardRejects(d) ==
  /\ tokens[d] # NoToken
  /\ ~Passes(d)
  /\ tokens' = [tokens EXCEPT ![d] = NoToken]
  /\ UNCHANGED <<active, mirror, issued, trigger, orphans>>

SignOut(d) ==
  /\ tokens[d] # NoToken
  /\ tokens' = [tokens EXCEPT ![d] = NoToken]
  /\ UNCHANGED <<active, mirror, issued, trigger, orphans>>

SignInStep(d) ==
  \/ SignIn(d)
  \/ PostAuthentication(d)
  \/ \E id \in SessionIds : Bump(d, id)
  \/ GiveUpRun(d)
  \/ RetryRun(d)
  \/ IssueTokens(d)

RefreshStep(d) ==
  \/ Refresh(d)
  \/ CompareAccepts(d)
  \/ CompareDenies(d)
  \/ ReissueTokens(d)

Next ==
  \/ \E d \in Devices : \/ SignInStep(d)
                        \/ RefreshStep(d)
                        \/ AbandonFlow(d)
                        \/ GuardRejects(d)
                        \/ SignOut(d)
  \/ \E id \in SessionIds : OrphanBump(id)

Spec == Init /\ [][Next]_vars

-----------------------------------------------------------------------------
(* Properties *)

\* Once the student has signed in, no two devices pass the guard of the
\* catalog, whatever sign-ins, refreshes and late triggers overlap
\* (check_student_session against set_student_active_session_id).
AtMostOneSession ==
  active # Empty =>
    \A d, e \in Devices : Passes(d) /\ Passes(e) => d = e

Superseded(d) == active # Empty /\ tokens[d] \notin {NoToken, active}

\* A device signed in elsewhere never passes again by refreshing, waiting or
\* racing: only the tokens of a sign-in of its own let it back in
\* (deny_stale_student_refresh, and a PostAuthentication that copies nothing).
SupersededStaysOut ==
  [][\A d \in Devices :
       Superseded(d) /\ trigger[d].pc # "issue" => ~Passes(d)']_vars

-----------------------------------------------------------------------------
(* Refinement *)

\* The device holds id, in its tokens or in tokens on their way to it.
Carries(d, id) ==
  \/ tokens[d] = id
  \/ trigger[d].pc \in {"issue", "compare", "reissue"} /\ trigger[d].id = id

Heirs == {d \in Devices : active = Empty \/ Carries(d, active)}

Single == INSTANCE SingleSession WITH
            enforced <- active # Empty,
            heirs <- Heirs,
            admitted <- {d \in Devices : Passes(d)}

\* Triggers, retries, refreshes and guards together do no more than a session
\* that one sign-in takes from another.
ImplementsSingleSession == Single!Spec

=============================================================================
