------------------------------- MODULE Account -------------------------------
(* One tab of the student application and the people who sign in to it: how  *)
(* they register, verify, sign in and out, what the header shows of them, and*)
(* what the tab does when the catalog says their session was superseded.     *)
(* StudentSession is about how the servers decide that; here a session is    *)
(* current when it is the last one issued to its owner.                      *)
EXTENDS Naturals, FiniteSets

CONSTANTS
  Newcomer,      \* someone who has no account yet
  Regular,       \* someone with a confirmed account
  Nobody,
  MaxSessions,   \* bound on the sign-ins
  MaxAuthCalls   \* bound on the requests under way

ASSUME AccountAssumption ==
  /\ Newcomer # Regular /\ Nobody \notin {Newcomer, Regular}
  /\ MaxSessions \in Nat \ {0}
  /\ MaxAuthCalls \in Nat \ {0}

VARIABLES
  pool,       \* person -> the state of the account in Cognito
  profiles,   \* the people whose registration details are in their profile
  current,    \* person -> the last session issued to them
  issued,     \* the number of sessions issued
  tab,        \* what the tab stores and keeps in memory
  header,     \* what the header shows
  authCalls,  \* slot -> a request under way
  door        \* the account page that is open

accountVars == <<pool, profiles, current, issued, tab, header, authCalls, door>>
serverVars == <<pool, profiles, current, issued>>

Persons == {Newcomer, Regular}
Session == [who : Persons \cup {Nobody}, id : 0 .. MaxSessions]
NoSession == [who |-> Nobody, id |-> 0]

(* tokens, banner, draft, agreed: the storage of the browser. superseded,    *)
(* cooling, handling, told, identity: memory.                                *)
Tab == [tokens : Session, banner : BOOLEAN, draft : Persons \cup {Nobody},
        agreed : BOOLEAN, superseded : BOOLEAN, cooling : BOOLEAN,
        handling : BOOLEAN, told : BOOLEAN, identity : Session]
NewTab == [tokens |-> NoSession, banner |-> FALSE, draft |-> Nobody,
           agreed |-> FALSE, superseded |-> FALSE, cooling |-> FALSE,
           handling |-> FALSE, told |-> FALSE, identity |-> NoSession]

Header == [signedIn : BOOLEAN, name : Session]
SignedOutHeader == [signedIn |-> FALSE, name |-> NoSession]

AuthCall ==
  [kind : {"none", "probe", "lookup", "signUp", "confirm", "enter", "patch",
           "logIn", "terms", "forgot", "reset", "wipe", "signOut"},
   step : {"asked", "answered", "superseded", "failed"},
   who : Persons \cup {Nobody}, session : Session, live : BOOLEAN, heard : BOOLEAN]
NoAuthCall == [kind |-> "none", step |-> "asked", who |-> Nobody,
               session |-> NoSession, live |-> FALSE, heard |-> FALSE]

Doors == {"home", "login", "register", "verify", "forgot", "reset",
          "account", "welcome"}
Door == [at : Doors, who : Persons \cup {Nobody}, busy : BOOLEAN]
Home == [at |-> "home", who |-> Nobody, busy |-> FALSE]

AccountInit ==
  /\ pool = [p \in Persons |-> IF p = Regular THEN "confirmed" ELSE "none"]
  /\ profiles = {Regular}
  /\ current = [p \in Persons |-> 0]
  /\ issued = 0
  /\ tab = NewTab
  /\ header = SignedOutHeader
  /\ authCalls = [i \in 1 .. MaxAuthCalls |-> NoAuthCall]
  /\ door = Home

SignedIn == tab.tokens # NoSession

-----------------------------------------------------------------------------
(* Requests.                                                                 *)

FreeAuthSlots(calls) == {i \in DOMAIN calls :
  /\ calls[i].kind = "none"
  /\ \A j \in 1 .. (i - 1) : calls[j].kind # "none"}

Started(calls, kind, who) ==
  {[calls EXCEPT ![i] =
     [NoAuthCall EXCEPT !.kind = kind, !.who = who, !.session = tab.tokens,
                        !.live = TRUE, !.heard = TRUE]] : i \in FreeAuthSlots(calls)}

Over(i) == [authCalls EXCEPT ![i] = NoAuthCall]

(* A navigation cancels the probe of the page before and what it looked up.  *)
UnheardHeader(calls) == [i \in DOMAIN calls |->
  IF calls[i].kind \in {"probe", "lookup"} THEN [calls[i] EXCEPT !.heard = FALSE]
  ELSE calls[i]]
UnheardDoor(calls) == [i \in DOMAIN calls |-> [calls[i] EXCEPT !.heard = FALSE]]

(* The epoch of the profile cache moves on.                                  *)
EndsLookups(calls) == [i \in DOMAIN calls |->
  IF calls[i].kind = "lookup" THEN [calls[i] EXCEPT !.live = FALSE] ELSE calls[i]]

(* resetProfileWarmState, at the start of every sign-out.                    *)
Forgets(t) == [t EXCEPT !.identity = NoSession]

(* clearClientAuthState keeps the banner in the storage, unless told not to. *)
Wiped(t) == [t EXCEPT !.tokens = NoSession, !.draft = Nobody, !.agreed = FALSE]
Released(t) == [t EXCEPT !.superseded = FALSE, !.banner = FALSE]

(* notifySessionSuperseded, with calls the requests that remain: listeners   *)
(* are told at most once in five seconds; the controller starts a sign-out.  *)
Notifies(calls) ==
  LET known == [tab EXCEPT !.superseded = TRUE, !.banner = TRUE] IN
  IF tab.cooling \/ tab.handling
  THEN /\ tab' = [known EXCEPT !.cooling = TRUE]
       /\ authCalls' = calls
  ELSE /\ tab' = Forgets([known EXCEPT !.cooling = TRUE, !.handling = TRUE, !.told = TRUE])
       /\ authCalls' \in Started(EndsLookups(calls), "wipe", Nobody)

CoolsDown ==
  /\ tab.cooling
  /\ tab' = [tab EXCEPT !.cooling = FALSE]
  /\ UNCHANGED <<serverVars, header, authCalls, door>>

(* The same person signs in on another device.                               *)
SignsInElsewhere(p) ==
  /\ issued < MaxSessions /\ current[p] # 0
  /\ issued' = issued + 1
  /\ current' = [current EXCEPT ![p] = issued + 1]
  /\ UNCHANGED <<pool, profiles, tab, header, authCalls, door>>

-----------------------------------------------------------------------------
(* The header and the pages.                                                 *)

(* Who is signed in does not see the sign-in and registration pages; the     *)
(* account pages show the sign-in form to who is not.                        *)
ShownDoor(at) == IF at \in {"login", "register"} /\ SignedIn THEN "home" ELSE at
MaySignInAt(at) == at = "login" \/ (at = "account" /\ ~SignedIn)

ShownHeader(t) == IF t.superseded THEN SignedOutHeader ELSE header

(* The address of the verification page names whom the code was sent to.     *)
Visits(at) ==
  /\ door.at # at
  /\ door' = [Home EXCEPT !.at = ShownDoor(at), !.who = IF at = "verify" THEN tab.draft ELSE Nobody]
  /\ header' = ShownHeader(tab)
  /\ LET calls == UnheardDoor(authCalls) IN
     IF tab.superseded THEN authCalls' = calls
     ELSE authCalls' \in Started(calls, "probe", Nobody)
  /\ UNCHANGED <<serverVars, tab>>

(* A reload, or the way back from Google, empties the memory.                *)
Reloaded(t) ==
  [NewTab EXCEPT !.tokens = t.tokens, !.banner = t.banner, !.draft = t.draft,
                 !.agreed = t.agreed, !.superseded = t.banner, !.told = t.banner]

StartsAfresh(t, extra) ==
  /\ tab' = Reloaded(t)
  /\ header' = SignedOutHeader
  /\ LET none == [i \in DOMAIN authCalls |-> NoAuthCall]
         calls == IF t.banner THEN none
                  ELSE [none EXCEPT ![1] = [NoAuthCall EXCEPT !.kind = "probe", !.heard = TRUE]]
     IN authCalls' = IF extra = Nobody THEN calls
                     ELSE [calls EXCEPT ![MaxAuthCalls] =
                       [NoAuthCall EXCEPT !.kind = "terms", !.who = extra,
                                          !.session = t.tokens, !.heard = TRUE]]

Reloads ==
  /\ StartsAfresh(tab, Nobody)
  /\ door' = [door EXCEPT !.at = ShownDoor(@), !.busy = FALSE]
  /\ UNCHANGED serverVars

(* probeSignedIn and hasSignedInIdToken: both refuse a superseded tab.       *)
ProbeFinds == SignedIn /\ ~tab.superseded

ResolvesProbe(i) ==
  /\ authCalls[i].kind = "probe"
  /\ IF ~authCalls[i].heard
     THEN /\ authCalls' = Over(i) /\ UNCHANGED header
     ELSE IF ~ProbeFinds
     THEN /\ authCalls' = UnheardHeader(Over(i))
          /\ header' = SignedOutHeader
     ELSE IF tab.identity # NoSession
     THEN /\ authCalls' = UnheardHeader(Over(i))
          /\ header' = [signedIn |-> TRUE, name |-> tab.identity]
     ELSE /\ authCalls' \in Started(UnheardHeader(Over(i)), "lookup", Nobody)
          /\ header' = [header EXCEPT !.signedIn = TRUE]
  /\ UNCHANGED <<serverVars, tab, door>>

(* Reading the tokens refreshes them, which the servers may refuse.          *)
ProbeRefused(i) ==
  /\ authCalls[i].kind = "probe" /\ ProbeFinds
  /\ tab.tokens.id # current[tab.tokens.who]
  /\ Notifies(IF authCalls[i].heard THEN UnheardHeader(Over(i)) ELSE Over(i))
  /\ header' = IF authCalls[i].heard THEN SignedOutHeader ELSE header
  /\ UNCHANGED <<serverVars, door>>

(* The catalog answers for the session the request was sent with.            *)
AnswersLookup(i) ==
  /\ authCalls[i].kind = "lookup" /\ authCalls[i].step = "asked"
  /\ LET s == authCalls[i].session IN
     \E step \in {IF s.id = current[s.who] THEN "answered" ELSE "superseded", "failed"} :
       authCalls' = [authCalls EXCEPT ![i].step = step]
  /\ UNCHANGED <<serverVars, tab, header, door>>

MayCache(call) == call.live /\ ~tab.superseded

(* getProfileHeaderIdentityOnce: without the profile the claims will do.     *)
ShowsIdentity(i) ==
  /\ authCalls[i].kind = "lookup" /\ authCalls[i].step \in {"answered", "failed"}
  /\ LET found == IF ~MayCache(authCalls[i]) THEN NoSession
                  ELSE IF authCalls[i].step = "answered" THEN authCalls[i].session
                  ELSE tab.tokens
     IN /\ tab' = IF found = NoSession THEN tab ELSE [tab EXCEPT !.identity = found]
        /\ header' = IF authCalls[i].heard THEN [header EXCEPT !.name = found] ELSE header
  /\ authCalls' = Over(i)
  /\ UNCHANGED <<serverVars, door>>

LookupSuperseded(i) ==
  /\ authCalls[i].kind = "lookup" /\ authCalls[i].step = "superseded"
  /\ Notifies(Over(i))
  /\ header' = IF authCalls[i].heard THEN [header EXCEPT !.name = NoSession] ELSE header
  /\ UNCHANGED <<serverVars, door>>

-----------------------------------------------------------------------------
(* Signing in.                                                               *)

(* On Amplify's event the controller probes, to release a tab that was       *)
(* superseded, and the header probes, whatever page is open.                 *)
ReleaseProbeFinds(t) == t.tokens # NoSession /\ ~t.superseded
AfterSignIn(t) ==
  IF ~t.handling /\ ReleaseProbeFinds(t) THEN [Released(t) EXCEPT !.told = FALSE]
  ELSE t

Enters(p, calls) ==
  /\ issued < MaxSessions
  /\ issued' = issued + 1
  /\ current' = [current EXCEPT ![p] = issued + 1]
  /\ tab' = AfterSignIn([tab EXCEPT !.tokens = [who |-> p, id |-> issued + 1]])
  /\ authCalls' \in Started(calls, "probe", Nobody)

LogsIn(p) ==
  /\ MaySignInAt(door.at) /\ ~door.busy
  /\ door' = [door EXCEPT !.busy = TRUE]
  /\ authCalls' \in Started(authCalls, "logIn", p)
  /\ UNCHANGED <<serverVars, tab, header>>

DoorIdle(i) == IF authCalls[i].heard THEN [door EXCEPT !.busy = FALSE] ELSE door

(* Amplify refuses a second sign-in. The page of the form gives way.         *)
LogInSucceeds(i) ==
  /\ authCalls[i].kind = "logIn" /\ pool[authCalls[i].who] = "confirmed"
  /\ ~SignedIn
  /\ Enters(authCalls[i].who, Over(i))
  /\ door' = IF authCalls[i].heard
             THEN [door EXCEPT !.busy = FALSE, !.at = IF @ = "login" THEN "home" ELSE @]
             ELSE door
  /\ UNCHANGED <<pool, profiles, header>>

(* A form's request comes to nothing. An unconfirmed account is not told so. *)
FormFails(i) ==
  /\ authCalls[i].kind \in {"logIn", "signUp", "confirm", "enter", "reset"}
  /\ authCalls' = Over(i)
  /\ door' = DoorIdle(i)
  /\ UNCHANGED <<serverVars, tab, header>>

(* The way to Google and back; from the registration page with the terms.    *)
SignsInWithGoogle(p) ==
  /\ MaySignInAt(door.at) \/ door.at = "register"
  /\ ~SignedIn /\ issued < MaxSessions
  /\ pool' = [pool EXCEPT ![p] = "confirmed"]
  /\ issued' = issued + 1
  /\ current' = [current EXCEPT ![p] = issued + 1]
  /\ LET agreed == door.at = "register" \/ tab.agreed IN
     StartsAfresh([tab EXCEPT !.tokens = [who |-> p, id |-> issued + 1],
                              !.agreed = agreed],
                  IF agreed THEN p ELSE Nobody)
  /\ door' = Home
  /\ UNCHANGED profiles

(* The terms agreed to before, with the details of a matching registration.  *)
AppliesTerms(i) ==
  LET p == authCalls[i].who IN
  /\ authCalls[i].kind = "terms" /\ authCalls[i].session.id = current[p]
  /\ IF p \in profiles \/ tab.draft = p
     THEN /\ profiles' = profiles \cup {p}
          /\ tab' = [tab EXCEPT !.agreed = FALSE, !.draft = Nobody]
     ELSE UNCHANGED <<profiles, tab>>
  /\ authCalls' = Over(i)
  /\ UNCHANGED <<pool, current, issued, header, door>>

TermsFail(i) ==
  /\ authCalls[i].kind = "terms"
  /\ IF authCalls[i].session.id = current[authCalls[i].who]
     THEN authCalls' = Over(i) /\ UNCHANGED tab
     ELSE Notifies(Over(i))
  /\ UNCHANGED <<serverVars, header, door>>

-----------------------------------------------------------------------------
(* Registering, and a forgotten password.                                    *)

(* The details are stored before Cognito is asked.                           *)
Registers(p) ==
  /\ door.at = "register" /\ ~door.busy
  /\ door' = [door EXCEPT !.busy = TRUE]
  /\ tab' = [tab EXCEPT !.draft = p]
  /\ authCalls' \in Started(authCalls, "signUp", p)
  /\ UNCHANGED <<serverVars, header>>

SignUpSucceeds(i) ==
  /\ authCalls[i].kind = "signUp" /\ pool[authCalls[i].who] = "none"
  /\ pool' = [pool EXCEPT ![authCalls[i].who] = "unconfirmed"]
  /\ door' = [Home EXCEPT !.at = "verify", !.who = authCalls[i].who]
  /\ authCalls' \in Started(UnheardDoor(Over(i)), "probe", Nobody)
  /\ UNCHANGED <<profiles, current, issued, tab, header>>

EntersCode ==
  /\ door.at = "verify" /\ ~door.busy
  /\ door.who # Nobody /\ tab.draft # Nobody
  /\ door' = [door EXCEPT !.busy = TRUE]
  /\ authCalls' \in Started(authCalls, "confirm", door.who)
  /\ UNCHANGED <<serverVars, tab, header>>

(* Cognito confirms an account once.                                         *)
ConfirmsCode(i) ==
  /\ authCalls[i].kind = "confirm" /\ pool[authCalls[i].who] = "unconfirmed"
  /\ pool' = [pool EXCEPT ![authCalls[i].who] = "confirmed"]
  /\ authCalls' = [authCalls EXCEPT ![i].kind = "enter"]
  /\ UNCHANGED <<profiles, current, issued, tab, header, door>>

EntersConfirmed(i) ==
  /\ authCalls[i].kind = "enter" /\ ~SignedIn
  /\ Enters(authCalls[i].who, [authCalls EXCEPT
       ![i].kind = "patch", ![i].session = [who |-> authCalls[i].who, id |-> issued + 1]])
  /\ UNCHANGED <<pool, profiles, header, door>>

(* A superseded tab sends no token.                                          *)
SavesProfile(i) ==
  LET p == authCalls[i].who IN
  /\ authCalls[i].kind = "patch" /\ authCalls[i].step = "asked"
  /\ \/ /\ ~tab.superseded /\ authCalls[i].session.id = current[p]
        /\ profiles' = profiles \cup {p}
        /\ authCalls' = [authCalls EXCEPT ![i].step = "answered"]
     \/ /\ authCalls' = [authCalls EXCEPT ![i].step =
             IF ~tab.superseded /\ authCalls[i].session.id # current[p]
             THEN "superseded" ELSE "failed"]
        /\ UNCHANGED profiles
  /\ UNCHANGED <<pool, current, issued, tab, header, door>>

(* FAULT: what the profile answers does not matter.                          *)
AnyAnswer(call) == call.step \in {"answered", "failed"}

ProfileSaved(call) == call.step = "answered"

Welcomes(i) ==
  /\ authCalls[i].kind = "patch" /\ ProfileSaved(authCalls[i])
  /\ tab' = [tab EXCEPT !.draft = Nobody]
  /\ authCalls' = UnheardDoor(Over(i))
  /\ door' = IF authCalls[i].heard
             THEN [at |-> "welcome", who |-> authCalls[i].who, busy |-> FALSE] ELSE door
  /\ UNCHANGED <<serverVars, header>>

(* The profile is not saved, or the tokens are not refreshed after it.       *)
VerifyFails(i) ==
  /\ authCalls[i].kind = "patch" /\ authCalls[i].step # "asked"
  /\ IF authCalls[i].step = "superseded" THEN Notifies(Over(i))
     ELSE authCalls' = Over(i) /\ UNCHANGED tab
  /\ door' = DoorIdle(i)
  /\ UNCHANGED <<serverVars, header>>

ResetsPassword ==
  /\ door.at \in {"forgot", "reset"} /\ ~door.busy
  /\ door' = [door EXCEPT !.busy = TRUE]
  /\ authCalls' \in Started(authCalls, door.at, Nobody)
  /\ UNCHANGED <<serverVars, tab, header>>

(* A code that could not be sent is not told; a new password leads to the    *)
(* sign-in page.                                                             *)
ResetEnds(i) ==
  /\ authCalls[i].kind \in {"forgot", "reset"}
  /\ authCalls' = Over(i)
  /\ door' = IF authCalls[i].kind = "reset" THEN [Home EXCEPT !.at = ShownDoor("login")]
             ELSE DoorIdle(i)
  /\ UNCHANGED <<serverVars, tab, header>>

-----------------------------------------------------------------------------
(* Signing out.                                                              *)

(* The forced sign-out: the storage goes, but for the banner.                *)
WipeEnds(i) ==
  /\ authCalls[i].kind = "wipe"
  /\ tab' = [Wiped(tab) EXCEPT !.handling = FALSE, !.told = tab.banner]
  /\ authCalls' = Over(i)
  /\ UNCHANGED <<serverVars, header, door>>

(* Dismissing the banner clears the local storage; tokens that are kept in   *)
(* session cookies stay.                                                     *)
Dismisses ==
  /\ tab.told
  /\ \E tokens \in {tab.tokens, NoSession} :
       tab' = [Released(tab) EXCEPT !.told = FALSE, !.tokens = tokens]
  /\ UNCHANGED <<serverVars, header, authCalls, door>>

(* From the menu of the header. Amplify is asked unless the tab is superseded*)
(* (live).                                                                   *)
SignsOut ==
  /\ header.signedIn
  /\ tab' = Forgets(tab)
  /\ \E i \in FreeAuthSlots(authCalls) :
       authCalls' = [EndsLookups(UnheardHeader(authCalls)) EXCEPT ![i] =
         [NoAuthCall EXCEPT !.kind = "signOut", !.live = ~tab.superseded, !.heard = TRUE]]
  /\ UNCHANGED <<serverVars, header, door>>

SignOutEnds(i) ==
  /\ authCalls[i].kind = "signOut"
  /\ tab' = [Released(Wiped(tab)) EXCEPT !.handling = @ /\ ~authCalls[i].live]
  /\ header' = SignedOutHeader
  /\ door' = Home
  /\ authCalls' \in Started(UnheardDoor(Over(i)), "probe", Nobody)
  /\ UNCHANGED serverVars

AccountNext ==
  \/ CoolsDown \/ Reloads \/ EntersCode \/ ResetsPassword \/ Dismisses \/ SignsOut
  \/ \E at \in Doors \ {"welcome"} : Visits(at)
  \/ \E p \in Persons :
       SignsInElsewhere(p) \/ LogsIn(p) \/ SignsInWithGoogle(p) \/ Registers(p)
  \/ \E i \in DOMAIN authCalls :
       \/ ResolvesProbe(i) \/ ProbeRefused(i) \/ AnswersLookup(i)
       \/ ShowsIdentity(i) \/ LookupSuperseded(i) \/ LogInSucceeds(i)
       \/ FormFails(i) \/ AppliesTerms(i) \/ TermsFail(i) \/ SignUpSucceeds(i)
       \/ ConfirmsCode(i) \/ EntersConfirmed(i) \/ SavesProfile(i) \/ Welcomes(i)
       \/ VerifyFails(i) \/ ResetEnds(i) \/ WipeEnds(i) \/ SignOutEnds(i)

AccountSpec == AccountInit /\ [][AccountNext]_accountVars

-----------------------------------------------------------------------------
(* The values of the accounts, the tab, the header and the requests.         *)
AccountTypeOK ==
  /\ pool \in [Persons -> {"none", "unconfirmed", "confirmed"}]
  /\ profiles \in SUBSET Persons
  /\ current \in [Persons -> 0 .. MaxSessions]
  /\ issued \in 0 .. MaxSessions
  /\ tab \in Tab
  /\ header \in Header
  /\ authCalls \in [1 .. MaxAuthCalls -> AuthCall]
  /\ door \in Door

(* Who comes to the dashboard from the verification page has a confirmed     *)
(* account with the details of the registration in its profile; and a tab    *)
(* that is superseded keeps the banner that says so through the forced       *)
(* sign-out and a reload.                                                    *)
SavedAndTold ==
  /\ door.at = "welcome" => pool[door.who] = "confirmed" /\ door.who \in profiles
  /\ tab.superseded <=> tab.banner

(* A sign-in after the forced sign-out releases the tab: "Allow token probe  *)
(* while supersede handling is active (Hub re-login verification)"           *)
(* (auth-session-lazy.ts:46).                                                *)
ReloginReleases ==
  tab.superseded /\ SignedIn /\ ~tab.handling =>
    tab.tokens.id # current[tab.tokens.who]

=============================================================================
