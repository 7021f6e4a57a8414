--------------------------- MODULE AccountAppProofs ---------------------------
(* What holds of a student's account, for any number of sign-ins and requests, *)
(* and of certificates, for any number of courses, requests and teachers.     *)
EXTENDS AccountApp, TLAPS

-----------------------------------------------------------------------------
(* The account: what its requests know *)

AuthSlots == 1 .. MaxAuthCalls

\* What a request needs of the servers: whom it confirms exists, whom it lets in
\* is confirmed, and an answer of the profile was stored.
BackedBy(call, accounts, saved) ==
  /\ call.kind \in {"terms", "confirm", "enter", "patch"} => call.who \in Persons
  /\ call.kind \in {"confirm", "enter"} => call.step = "asked"
  /\ call.kind \in {"enter", "patch"} => accounts[call.who] = "confirmed"
  /\ call.kind = "patch" /\ call.step = "answered" => call.who \in saved

\* A superseded tab has its banner, and a welcomed person what was promised.
AccountInv ==
  /\ AccountTypeOK
  /\ \A i \in AuthSlots : BackedBy(authCalls[i], pool, profiles)
  /\ SavedAndTold

LEMMA AccountInitInv == AccountInit => AccountInv
<1>. SUFFICES ASSUME AccountInit PROVE AccountInv
  OBVIOUS
<1>. USE AccountAssumption
<1>1. NoSession \in Session
  BY DEF NoSession, Session
<1>2. NewTab \in Tab /\ SignedOutHeader \in Header /\ NoAuthCall \in AuthCall /\ Home \in Door
  BY <1>1 DEF NewTab, Tab, SignedOutHeader, Header, NoAuthCall, AuthCall, Home, Door, Doors
<1>3. AccountTypeOK
  BY <1>2 DEF AccountInit, AccountTypeOK, Persons
<1>4. \A i \in AuthSlots : authCalls[i] = NoAuthCall
  BY DEF AccountInit, AuthSlots
<1>5. \A i \in AuthSlots : BackedBy(authCalls[i], pool, profiles)
  BY <1>4 DEF NoAuthCall, BackedBy
<1>6. SavedAndTold
  BY DEF AccountInit, Home, NewTab, SavedAndTold
<1>. QED
  BY <1>3, <1>5, <1>6 DEF AccountInv

\* Requests that have what they need.
Backed(calls) ==
  /\ calls \in [AuthSlots -> AuthCall]
  /\ \A i \in AuthSlots : BackedBy(calls[i], pool, profiles)

LEMMA AccountValues ==
  /\ NoSession \in Session
  /\ NewTab \in Tab /\ SignedOutHeader \in Header /\ NoAuthCall \in AuthCall /\ Home \in Door
  /\ NoAuthCall.kind = "none"
<1>. USE AccountAssumption
<1>1. NoSession \in Session
  BY DEF NoSession, Session
<1>. QED
  BY <1>1 DEF NewTab, Tab, SignedOutHeader, Header, NoAuthCall, AuthCall, Home, Door, Doors

LEMMA CallsAreBacked == AccountInv => Backed(authCalls)
  BY DEF AccountInv, AccountTypeOK, Backed, AuthSlots

LEMMA NoneIsBacked == BackedBy(NoAuthCall, pool, profiles) /\ NoAuthCall \in AuthCall
  BY AccountValues DEF BackedBy

LEMMA OverIsBacked ==
  ASSUME AccountInv, NEW i \in AuthSlots
  PROVE  Backed(Over(i))
<1>1. /\ authCalls \in [AuthSlots -> AuthCall]
      /\ \A j \in AuthSlots : BackedBy(authCalls[j], pool, profiles)
      /\ BackedBy(NoAuthCall, pool, profiles) /\ NoAuthCall \in AuthCall
  BY CallsAreBacked, NoneIsBacked DEF Backed
<1>. QED
  BY <1>1 DEF Backed, Over

LEMMA AlikeIsBacked ==
  ASSUME NEW calls, Backed(calls), NEW next \in [AuthSlots -> AuthCall],
         \A i \in AuthSlots : /\ next[i].kind = calls[i].kind /\ next[i].step = calls[i].step
                               /\ next[i].who = calls[i].who
  PROVE  Backed(next)
  BY DEF Backed, BackedBy

LEMMA UnheardIsBacked ==
  ASSUME NEW calls, Backed(calls)
  PROVE  Backed(UnheardHeader(calls)) /\ Backed(UnheardDoor(calls)) /\ Backed(EndsLookups(calls))
<1>1. calls \in [AuthSlots -> AuthCall] /\ DOMAIN calls = AuthSlots
  BY DEF Backed
<1>2. ASSUME NEW c \in AuthCall
      PROVE  /\ [c EXCEPT !.heard = FALSE] \in AuthCall
             /\ [c EXCEPT !.heard = FALSE].kind = c.kind
             /\ [c EXCEPT !.heard = FALSE].step = c.step
             /\ [c EXCEPT !.heard = FALSE].who = c.who
             /\ [c EXCEPT !.live = FALSE] \in AuthCall
             /\ [c EXCEPT !.live = FALSE].kind = c.kind
             /\ [c EXCEPT !.live = FALSE].step = c.step
             /\ [c EXCEPT !.live = FALSE].who = c.who
  BY DEF AuthCall
<1>3. Backed(UnheardHeader(calls))
  <2>1. /\ UnheardHeader(calls) \in [AuthSlots -> AuthCall]
        /\ \A i \in AuthSlots :
             /\ UnheardHeader(calls)[i].kind = calls[i].kind
             /\ UnheardHeader(calls)[i].step = calls[i].step
             /\ UnheardHeader(calls)[i].who = calls[i].who
    BY <1>1, <1>2 DEF UnheardHeader
  <2>. QED  BY <2>1, AlikeIsBacked
<1>4. Backed(UnheardDoor(calls))
  <2>1. /\ UnheardDoor(calls) \in [AuthSlots -> AuthCall]
        /\ \A i \in AuthSlots :
             /\ UnheardDoor(calls)[i].kind = calls[i].kind
             /\ UnheardDoor(calls)[i].step = calls[i].step
             /\ UnheardDoor(calls)[i].who = calls[i].who
    BY <1>1, <1>2 DEF UnheardDoor
  <2>. QED  BY <2>1, AlikeIsBacked
<1>5. Backed(EndsLookups(calls))
  <2>1. /\ EndsLookups(calls) \in [AuthSlots -> AuthCall]
        /\ \A i \in AuthSlots :
             /\ EndsLookups(calls)[i].kind = calls[i].kind
             /\ EndsLookups(calls)[i].step = calls[i].step
             /\ EndsLookups(calls)[i].who = calls[i].who
    BY <1>1, <1>2 DEF EndsLookups
  <2>. QED  BY <2>1, AlikeIsBacked
<1>. QED
  BY <1>3, <1>4, <1>5

\* The record of a new request.
NewCall(kind, who) ==
  [NoAuthCall EXCEPT !.kind = kind, !.who = who, !.session = tab.tokens,
                     !.live = TRUE, !.heard = TRUE]

LEMMA NewAuthCall ==
  ASSUME NEW kind \in {"probe", "lookup", "signUp", "confirm", "logIn", "forgot", "reset", "wipe"},
         NEW who \in Persons \cup {Nobody}, tab.tokens \in Session
  PROVE  /\ NewCall(kind, who) \in AuthCall
         /\ NewCall(kind, who).kind = kind
         /\ NewCall(kind, who).who = who
         /\ NewCall(kind, who).step = "asked"
  BY AccountValues DEF NewCall, NoAuthCall, AuthCall

LEMMA TokensAreSessions == AccountTypeOK => tab.tokens \in Session /\ tab.identity \in Session
  BY DEF AccountTypeOK, Tab

LEMMA StartedIsBacked ==
  ASSUME AccountTypeOK, NEW calls, Backed(calls),
         NEW kind \in {"probe", "lookup", "signUp", "confirm", "logIn", "forgot", "reset", "wipe"},
         NEW who \in Persons \cup {Nobody}, kind = "confirm" => who \in Persons,
         NEW next \in Started(calls, kind, who)
  PROVE  Backed(next)
<1>. DEFINE n == NewCall(kind, who)
<1>1. n \in AuthCall /\ n.kind = kind /\ n.who = who /\ n.step = "asked"
  BY NewAuthCall, TokensAreSessions
<1>4. BackedBy(n, pool, profiles)
  BY <1>1 DEF BackedBy
<1>2. PICK i \in FreeAuthSlots(calls) : next = [calls EXCEPT ![i] = n]
  BY DEF Started, NewCall
<1>3. calls \in [AuthSlots -> AuthCall] /\ i \in AuthSlots
  BY <1>2 DEF Backed, FreeAuthSlots
<1>. HIDE DEF n
<1>. QED
  BY <1>1, <1>2, <1>3, <1>4 DEF Backed

\* The tab after the controller was told.
LEMMA NotifiesTells ==
  ASSUME AccountTypeOK, NEW calls, Backed(calls), Notifies(calls)
  PROVE  /\ Backed(authCalls') /\ tab' \in Tab
         /\ tab'.superseded /\ tab'.banner
<1>. DEFINE known == [tab EXCEPT !.superseded = TRUE, !.banner = TRUE]
            one == [known EXCEPT !.cooling = TRUE]
            two == [known EXCEPT !.cooling = TRUE, !.handling = TRUE, !.told = TRUE]
<1>0. NoSession \in Session
  BY AccountValues
<1>1. one \in Tab /\ one.superseded /\ one.banner
  BY DEF AccountTypeOK, Tab
<1>2. two \in Tab /\ two.superseded /\ two.banner
  BY DEF AccountTypeOK, Tab
<1>3. Forgets(two) \in Tab /\ Forgets(two).superseded /\ Forgets(two).banner
  <2>. HIDE DEF two
  <2>. QED  BY <1>0, <1>2 DEF Forgets, Tab
<1>4. CASE tab.cooling \/ tab.handling
  BY <1>1, <1>4 DEF Notifies
<1>5. CASE ~(tab.cooling \/ tab.handling)
  <2>1. tab' = Forgets(two) /\ authCalls' \in Started(EndsLookups(calls), "wipe", Nobody)
    BY <1>5 DEF Notifies
  <2>2. Backed(EndsLookups(calls))
    BY UnheardIsBacked
  <2>. HIDE DEF two
  <2>. QED  BY <1>3, <2>1, <2>2, StartedIsBacked
<1>. QED
  BY <1>4, <1>5

\* The servers only learn: an account that is confirmed and a profile stay.
LEMMA BackedKeepsInv ==
  ASSUME AccountInv, Backed(authCalls'),
         pool' \in [Persons -> {"none", "unconfirmed", "confirmed"}],
         profiles' \in SUBSET Persons, current' \in [Persons -> 0 .. MaxSessions],
         issued' \in 0 .. MaxSessions, tab' \in Tab, header' \in Header, door' \in Door,
         \A p \in Persons : pool[p] = "confirmed" => pool'[p] = "confirmed",
         profiles \subseteq profiles',
         tab'.superseded <=> tab'.banner,
         \/ door'.at # "welcome"
         \/ door'.at = door.at /\ door'.who = door.who
         \/ door'.who \in Persons /\ pool[door'.who] = "confirmed" /\ door'.who \in profiles
  PROVE  AccountInv'
<1>1. AccountTypeOK'
  BY DEF AccountTypeOK, Backed, AuthSlots
<1>2. ASSUME NEW i \in AuthSlots
      PROVE  BackedBy(authCalls[i], pool, profiles)'
  BY DEF Backed, BackedBy
<1>3. door'.at = "welcome" => door'.who \in profiles' /\ pool'[door'.who] = "confirmed"
  <2>1. CASE door'.at = door.at /\ door'.who = door.who
    <3>1. door.at = "welcome" => /\ door.who \in profiles /\ pool[door.who] = "confirmed"
                                 /\ profiles \subseteq Persons
      BY DEF AccountInv, SavedAndTold, AccountTypeOK
    <3>. QED  BY <2>1, <3>1
  <2>2. CASE door'.who \in Persons /\ pool[door'.who] = "confirmed" /\ door'.who \in profiles
    BY <2>2
  <2>. QED  BY <2>1, <2>2
<1>. QED
  BY <1>1, <1>2, <1>3 DEF AccountInv, SavedAndTold

\* The same of a step that leaves the servers alone.
LEMMA BrowserKeepsInv ==
  ASSUME AccountInv, UNCHANGED serverVars, Backed(authCalls'),
         tab' \in Tab, header' \in Header, door' \in Door,
         tab'.superseded <=> tab'.banner,
         \/ door'.at # "welcome"
         \/ door'.at = door.at /\ door'.who = door.who
         \/ door'.who \in Persons /\ pool[door'.who] = "confirmed" /\ door'.who \in profiles
  PROVE  AccountInv'
<1>1. /\ pool' = pool /\ profiles' = profiles /\ current' = current /\ issued' = issued
      /\ pool \in [Persons -> {"none", "unconfirmed", "confirmed"}]
      /\ profiles \in SUBSET Persons /\ current \in [Persons -> 0 .. MaxSessions]
      /\ issued \in 0 .. MaxSessions
  BY DEF serverVars, AccountInv, AccountTypeOK
<1>. QED
  BY <1>1, BackedKeepsInv

\* What the pieces of the invariant say of the state.
LEMMA AccountFacts ==
  ASSUME AccountInv
  PROVE  /\ AccountTypeOK
         /\ tab \in Tab /\ header \in Header /\ door \in Door
         /\ tab.superseded <=> tab.banner
         /\ DOMAIN authCalls = AuthSlots
         /\ \A i \in AuthSlots : authCalls[i] \in AuthCall
         /\ pool \in [Persons -> {"none", "unconfirmed", "confirmed"}]
         /\ profiles \in SUBSET Persons /\ current \in [Persons -> 0 .. MaxSessions]
         /\ issued \in 0 .. MaxSessions
         /\ Backed(authCalls)
  BY CallsAreBacked DEF AccountInv, AccountTypeOK, SavedAndTold, AuthSlots

\* The records the actions make of the tab and of the open page.
LEMMA TabRecords ==
  ASSUME NEW t \in Tab
  PROVE  /\ Forgets(t) \in Tab /\ Forgets(t).superseded = t.superseded /\ Forgets(t).banner = t.banner
         /\ Wiped(t) \in Tab /\ Wiped(t).superseded = t.superseded /\ Wiped(t).banner = t.banner
         /\ Released(t) \in Tab /\ Released(t).superseded = FALSE /\ Released(t).banner = FALSE
         /\ Reloaded(t) \in Tab /\ Reloaded(t).superseded = t.banner /\ Reloaded(t).banner = t.banner
<1>0. NoSession \in Session /\ t.banner \in BOOLEAN /\ NewTab \in Tab
  BY AccountValues DEF Tab
<1>1. Forgets(t) \in Tab /\ Forgets(t).superseded = t.superseded /\ Forgets(t).banner = t.banner
  BY <1>0 DEF Forgets, Tab
<1>2. Wiped(t) \in Tab /\ Wiped(t).superseded = t.superseded /\ Wiped(t).banner = t.banner
  BY <1>0 DEF Wiped, Tab
<1>3. Released(t) \in Tab /\ Released(t).superseded = FALSE /\ Released(t).banner = FALSE
  BY <1>0 DEF Released, Tab
<1>4. Reloaded(t) \in Tab /\ Reloaded(t).superseded = t.banner /\ Reloaded(t).banner = t.banner
  BY <1>0 DEF Reloaded, NewTab, Tab
<1>. QED
  BY <1>1, <1>2, <1>3, <1>4

LEMMA DoorRecords ==
  ASSUME NEW d \in Door, NEW at \in Doors, NEW b \in BOOLEAN
  PROVE  /\ [d EXCEPT !.busy = b] \in Door /\ [d EXCEPT !.busy = b].at = d.at
         /\ [d EXCEPT !.busy = b].who = d.who
         /\ [d EXCEPT !.at = at, !.busy = b] \in Door /\ [d EXCEPT !.at = at, !.busy = b].at = at
         /\ [d EXCEPT !.at = at, !.busy = b].who = d.who
         /\ [d EXCEPT !.busy = b, !.at = at] \in Door /\ [d EXCEPT !.busy = b, !.at = at].at = at
         /\ [d EXCEPT !.busy = b, !.at = at].who = d.who
  BY AccountValues DEF Door, Home, Doors

LEMMA HomeRecords ==
  ASSUME NEW at \in Doors, NEW who \in Persons \cup {Nobody}
  PROVE  /\ [Home EXCEPT !.at = at, !.who = who] \in Door
         /\ [Home EXCEPT !.at = at, !.who = who].at = at
         /\ [Home EXCEPT !.at = at] \in Door /\ [Home EXCEPT !.at = at].at = at
         /\ Home \in Door /\ Home.at = "home"
  BY AccountValues DEF Door, Home, Doors

LEMMA ShownDoors ==
  ASSUME NEW at \in Doors
  PROVE  /\ ShownDoor(at) \in Doors
         /\ ShownDoor(at) = at \/ ShownDoor(at) = "home"
         /\ ShownDoor(at) = "welcome" => at = "welcome"
  BY DEF ShownDoor, Doors

\* Notified requests end with the tab superseded and the banner stored.
LEMMA NotifiedKeepsInv ==
  ASSUME AccountInv, NEW calls, Backed(calls), Notifies(calls), UNCHANGED serverVars,
         header' \in Header, door' \in Door, door'.at = door.at, door'.who = door.who
  PROVE  AccountInv'
<1>1. Backed(authCalls') /\ tab' \in Tab /\ tab'.superseded /\ tab'.banner
  BY AccountFacts, NotifiesTells
<1>2. tab'.superseded \in BOOLEAN /\ tab'.banner \in BOOLEAN
  BY <1>1 DEF Tab
<1>. QED
  BY <1>1, <1>2, BrowserKeepsInv

LEMMA HeaderRecords ==
  ASSUME NEW s \in Session, header \in Header
  PROVE  /\ SignedOutHeader \in Header /\ [signedIn |-> TRUE, name |-> s] \in Header
         /\ [header EXCEPT !.signedIn = TRUE] \in Header
         /\ [header EXCEPT !.name = s] \in Header
  BY AccountValues DEF Header

\* The pages and the header.
LEMMA PagesKeepInv ==
  ASSUME AccountInv, CoolsDown \/ Reloads \/ \E at \in Doors \ {"welcome"} : Visits(at)
  PROVE  AccountInv'
<1>0. /\ AccountTypeOK
      /\ tab \in Tab /\ header \in Header /\ door \in Door
      /\ tab.superseded <=> tab.banner
      /\ DOMAIN authCalls = AuthSlots
      /\ Backed(authCalls)
  BY AccountFacts
<1>1. CASE CoolsDown
  <2>1. UNCHANGED <<serverVars, header, authCalls, door>> /\ tab' = [tab EXCEPT !.cooling = FALSE]
    BY <1>1 DEF CoolsDown
  <2>2. tab' \in Tab /\ tab'.superseded = tab.superseded /\ tab'.banner = tab.banner
    BY <1>0, <2>1 DEF Tab
  <2>3. Backed(authCalls') /\ header' \in Header /\ door' = door
    BY <1>0, <2>1 DEF Backed
  <2>4. UNCHANGED serverVars
    BY <2>1
  <2>. QED  BY <1>0, <2>2, <2>3, <2>4, BrowserKeepsInv
<1>2. CASE Reloads
  <2>1. /\ tab' = Reloaded(tab) /\ header' = SignedOutHeader /\ UNCHANGED serverVars
        /\ door' = [door EXCEPT !.at = ShownDoor(@), !.busy = FALSE]
    BY <1>2 DEF Reloads, StartsAfresh
  <2>2. Backed(authCalls')
    <3>. DEFINE probe == [NoAuthCall EXCEPT !.kind = "probe", !.heard = TRUE]
                none == [i \in AuthSlots |-> NoAuthCall]
    <3>1. probe \in AuthCall /\ probe.kind = "probe"
      BY AccountValues DEF AuthCall, NoAuthCall
    <3>3. BackedBy(probe, pool, profiles)
      BY <3>1 DEF BackedBy
    <3>2. authCalls' = none \/ authCalls' = [none EXCEPT ![1] = probe]
      BY <1>0, <1>2 DEF Reloads, StartsAfresh
    <3>. HIDE DEF probe
    <3>. QED  BY <3>1, <3>2, <3>3, NoneIsBacked DEF Backed
  <2>3. tab' \in Tab /\ (tab'.superseded <=> tab'.banner)
    BY <1>0, <2>1, TabRecords
  <2>4. door.at \in Doors
    BY <1>0 DEF Door
  <2>5. door' \in Door /\ door'.at = ShownDoor(door.at) /\ door'.who = door.who
    BY <1>0, <2>1, <2>4, ShownDoors, DoorRecords
  <2>6. \/ door'.at # "welcome"
        \/ door'.at = door.at /\ door'.who = door.who
    BY <2>4, <2>5, ShownDoors
  <2>7. header' \in Header
    BY <2>1, AccountValues
  <2>. QED  BY <2>1, <2>2, <2>3, <2>5, <2>6, <2>7, BrowserKeepsInv
<1>3. ASSUME NEW at \in Doors \ {"welcome"}, Visits(at)
      PROVE  AccountInv'
  <2>. DEFINE who == IF at = "verify" THEN tab.draft ELSE Nobody
  <2>1. /\ UNCHANGED <<serverVars, tab>> /\ header' = ShownHeader(tab)
        /\ door' = [Home EXCEPT !.at = ShownDoor(at), !.who = who]
        /\ \/ authCalls' = UnheardDoor(authCalls)
           \/ authCalls' \in Started(UnheardDoor(authCalls), "probe", Nobody)
    BY <1>3 DEF Visits
  <2>2. Backed(authCalls')
    BY <1>0, <2>1, UnheardIsBacked, StartedIsBacked
  <2>3. who \in Persons \cup {Nobody} /\ header' \in Header
    BY <1>0, <2>1, AccountValues DEF ShownHeader, Tab
  <2>4. ShownDoor(at) \in Doors /\ ShownDoor(at) # "welcome"
    BY ShownDoors
  <2>. HIDE DEF who
  <2>5. door' \in Door /\ door'.at # "welcome"
    BY <2>1, <2>3, <2>4, HomeRecords
  <2>6. UNCHANGED serverVars /\ tab' = tab
    BY <2>1
  <2>. QED  BY <1>0, <2>2, <2>3, <2>5, <2>6, BrowserKeepsInv
<1>. QED
  BY <1>1, <1>2, <1>3

\* The header asks who is signed in.
LEMMA HeaderKeepsInv ==
  ASSUME AccountInv, NEW i \in AuthSlots,
         \/ ResolvesProbe(i) \/ ProbeRefused(i) \/ AnswersLookup(i)
         \/ ShowsIdentity(i) \/ LookupSuperseded(i)
  PROVE  AccountInv'
<1>0. /\ AccountTypeOK
      /\ tab \in Tab /\ header \in Header /\ door \in Door
      /\ tab.superseded <=> tab.banner
      /\ DOMAIN authCalls = AuthSlots
      /\ authCalls[i] \in AuthCall
      /\ Backed(authCalls)
  BY AccountFacts
<1>o. Backed(Over(i)) /\ Backed(UnheardHeader(Over(i)))
  BY <1>0, OverIsBacked, UnheardIsBacked
<1>s. tab.tokens \in Session /\ tab.identity \in Session /\ NoSession \in Session
  BY <1>0, TokensAreSessions, AccountValues
<1>h. ASSUME NEW s \in Session
      PROVE  /\ SignedOutHeader \in Header /\ [signedIn |-> TRUE, name |-> s] \in Header
             /\ [header EXCEPT !.signedIn = TRUE] \in Header
             /\ [header EXCEPT !.name = s] \in Header
  BY <1>0, HeaderRecords
<1>1. CASE ResolvesProbe(i)
  <2>1. UNCHANGED serverVars /\ tab' = tab /\ door' = door
    BY <1>1 DEF ResolvesProbe
  <2>2. \/ authCalls' = Over(i) \/ authCalls' = UnheardHeader(Over(i))
        \/ authCalls' \in Started(UnheardHeader(Over(i)), "lookup", Nobody)
    BY <1>1 DEF ResolvesProbe
  <2>3. Backed(authCalls')
    BY <1>0, <1>o, <2>2, StartedIsBacked
  <2>4. header' \in Header
    BY <1>0, <1>1, <1>h, <1>s DEF ResolvesProbe
  <2>. QED  BY <1>0, <2>1, <2>3, <2>4, BrowserKeepsInv
<1>2. CASE ProbeRefused(i)
  <2>1. /\ UNCHANGED serverVars /\ door' = door /\ header' \in Header
        /\ Notifies(IF authCalls[i].heard THEN UnheardHeader(Over(i)) ELSE Over(i))
    BY <1>0, <1>2, <1>h, <1>s DEF ProbeRefused
  <2>2. Backed(IF authCalls[i].heard THEN UnheardHeader(Over(i)) ELSE Over(i))
    BY <1>o
  <2>. QED  BY <1>0, <2>1, <2>2, NotifiedKeepsInv
<1>3. CASE AnswersLookup(i)
  <2>1. PICK step \in {"answered", "superseded", "failed"} :
          authCalls' = [authCalls EXCEPT ![i].step = step]
    BY <1>3 DEF AnswersLookup
  <2>2. UNCHANGED serverVars /\ tab' = tab /\ header' = header /\ door' = door
        /\ authCalls[i].kind = "lookup"
    BY <1>3 DEF AnswersLookup
  <2>. DEFINE n == [authCalls[i] EXCEPT !.step = step]
  <2>3. n \in AuthCall /\ n.kind = "lookup"
    BY <1>0, <2>2 DEF AuthCall
  <2>4. authCalls' = [authCalls EXCEPT ![i] = n]
    BY <2>1
  <2>6. BackedBy(n, pool, profiles)
    BY <2>3 DEF BackedBy
  <2>. HIDE DEF n
  <2>5. Backed(authCalls')
    BY <1>0, <2>3, <2>4, <2>6 DEF Backed
  <2>. QED  BY <1>0, <2>2, <2>5, BrowserKeepsInv
<1>4. CASE ShowsIdentity(i)
  <2>. DEFINE found == IF ~MayCache(authCalls[i]) THEN NoSession
                       ELSE IF authCalls[i].step = "answered" THEN authCalls[i].session
                       ELSE tab.tokens
  <2>1. found \in Session
    BY <1>0, <1>s DEF AuthCall
  <2>2. /\ UNCHANGED serverVars /\ door' = door /\ authCalls' = Over(i)
        /\ tab' = IF found = NoSession THEN tab ELSE [tab EXCEPT !.identity = found]
        /\ header' = IF authCalls[i].heard THEN [header EXCEPT !.name = found] ELSE header
    BY <1>4 DEF ShowsIdentity
  <2>. HIDE DEF found
  <2>3. header' \in Header
    BY <1>0, <1>h, <2>1, <2>2
  <2>4. tab' \in Tab /\ tab'.superseded = tab.superseded /\ tab'.banner = tab.banner
    BY <1>0, <2>1, <2>2 DEF Tab
  <2>. QED  BY <1>0, <1>o, <2>2, <2>3, <2>4, BrowserKeepsInv
<1>5. CASE LookupSuperseded(i)
  <2>1. /\ UNCHANGED serverVars /\ door' = door /\ Notifies(Over(i)) /\ header' \in Header
    BY <1>0, <1>5, <1>h, <1>s DEF LookupSuperseded
  <2>. QED  BY <1>0, <1>o, <2>1, NotifiedKeepsInv
<1>. QED
  BY <1>1, <1>2, <1>3, <1>4, <1>5

\* A new session is typed as the others, and releases the tab or leaves it.
LEMMA EntersKeepsInv ==
  ASSUME AccountInv, NEW p \in Persons \cup {Nobody}, NEW calls, Backed(calls), Enters(p, calls),
         UNCHANGED <<pool, profiles, header>>, door' \in Door,
         door'.at # "welcome" \/ (door'.at = door.at /\ door'.who = door.who)
  PROVE  AccountInv'
<1>. DEFINE s == [who |-> p, id |-> issued + 1]
            t == [tab EXCEPT !.tokens = s]
<1>0. /\ AccountTypeOK
      /\ tab \in Tab /\ header \in Header
      /\ tab.superseded <=> tab.banner
      /\ pool \in [Persons -> {"none", "unconfirmed", "confirmed"}]
      /\ profiles \in SUBSET Persons /\ current \in [Persons -> 0 .. MaxSessions]
      /\ issued \in 0 .. MaxSessions
  BY AccountFacts
<1>1. /\ issued < MaxSessions /\ issued' = issued + 1
      /\ current' = [current EXCEPT ![p] = issued + 1]
      /\ tab' = AfterSignIn(t)
      /\ authCalls' \in Started(calls, "probe", Nobody)
  BY DEF Enters
<1>2. issued + 1 \in 0 .. MaxSessions
  BY <1>0, <1>1, AccountAssumption
<1>3. s \in Session
  BY <1>2 DEF Session
<1>. HIDE DEF s
<1>4. t \in Tab /\ t.superseded = tab.superseded /\ t.banner = tab.banner
  BY <1>0, <1>3 DEF Tab
<1>. HIDE DEF t
<1>5. Released(t) \in Tab /\ Released(t).superseded = FALSE /\ Released(t).banner = FALSE
  BY <1>4, TabRecords
<1>6. /\ [Released(t) EXCEPT !.told = FALSE] \in Tab
      /\ [Released(t) EXCEPT !.told = FALSE].superseded = FALSE
      /\ [Released(t) EXCEPT !.told = FALSE].banner = FALSE
  BY <1>5 DEF Tab
<1>7. tab' = t \/ tab' = [Released(t) EXCEPT !.told = FALSE]
  BY <1>1 DEF AfterSignIn
<1>8. tab' \in Tab /\ (tab'.superseded <=> tab'.banner)
  <2>1. CASE tab' = t
    BY <1>0, <1>4, <2>1
  <2>2. CASE tab' = [Released(t) EXCEPT !.told = FALSE]
    BY <1>6, <2>2
  <2>. QED  BY <1>7, <2>1, <2>2
<1>9. Backed(authCalls')
  BY <1>0, <1>1, StartedIsBacked
<1>10. issued' \in 0 .. MaxSessions /\ current' \in [Persons -> 0 .. MaxSessions]
  BY <1>0, <1>1, <1>2
<1>11. pool' = pool /\ profiles' = profiles /\ header' = header
  OBVIOUS
<1>. QED
  BY <1>0, <1>8, <1>9, <1>10, <1>11, BackedKeepsInv

\* Another session, and the forms of the sign-in page.
LEMMA SignInsKeepInv ==
  ASSUME AccountInv,
         \E p \in Persons : SignsInElsewhere(p) \/ LogsIn(p) \/ SignsInWithGoogle(p) \/ Registers(p)
  PROVE  AccountInv'
<1>0. /\ AccountTypeOK
      /\ tab \in Tab /\ header \in Header /\ door \in Door
      /\ tab.superseded <=> tab.banner
      /\ DOMAIN authCalls = AuthSlots
      /\ pool \in [Persons -> {"none", "unconfirmed", "confirmed"}]
      /\ profiles \in SUBSET Persons /\ current \in [Persons -> 0 .. MaxSessions]
      /\ issued \in 0 .. MaxSessions
      /\ Backed(authCalls)
  BY AccountFacts
<1>1. ASSUME NEW p \in Persons, SignsInElsewhere(p)
      PROVE  AccountInv'
  <2>1. /\ issued < MaxSessions /\ issued' = issued + 1
        /\ current' = [current EXCEPT ![p] = issued + 1]
        /\ pool' = pool /\ profiles' = profiles /\ tab' = tab /\ header' = header
        /\ authCalls' = authCalls /\ door' = door
    BY <1>1 DEF SignsInElsewhere
  <2>2. issued + 1 \in 0 .. MaxSessions
    BY <1>0, <2>1, AccountAssumption
  <2>3. current' \in [Persons -> 0 .. MaxSessions] /\ issued' \in 0 .. MaxSessions
    BY <1>0, <2>1, <2>2
  <2>. QED  BY <1>0, <2>1, <2>3, BackedKeepsInv
<1>2. ASSUME NEW p \in Persons, LogsIn(p)
      PROVE  AccountInv'
  <2>1. /\ UNCHANGED serverVars /\ tab' = tab /\ header' = header
        /\ door' = [door EXCEPT !.busy = TRUE]
        /\ authCalls' \in Started(authCalls, "logIn", p)
    BY <1>2 DEF LogsIn
  <2>2. Backed(authCalls')
    BY <1>0, <2>1, StartedIsBacked
  <2>3. door' \in Door /\ door'.at = door.at /\ door'.who = door.who
    BY <1>0, <2>1 DEF Door
  <2>. QED  BY <1>0, <2>1, <2>2, <2>3, BrowserKeepsInv
<1>3. ASSUME NEW p \in Persons, Registers(p)
      PROVE  AccountInv'
  <2>1. /\ UNCHANGED serverVars /\ header' = header
        /\ tab' = [tab EXCEPT !.draft = p]
        /\ door' = [door EXCEPT !.busy = TRUE]
        /\ authCalls' \in Started(authCalls, "signUp", p)
    BY <1>3 DEF Registers
  <2>2. Backed(authCalls')
    BY <1>0, <2>1, StartedIsBacked
  <2>3. door' \in Door /\ door'.at = door.at /\ door'.who = door.who
    BY <1>0, <2>1 DEF Door
  <2>4. tab' \in Tab /\ tab'.superseded = tab.superseded /\ tab'.banner = tab.banner
    BY <1>0, <2>1 DEF Tab
  <2>. QED  BY <1>0, <2>1, <2>2, <2>3, <2>4, BrowserKeepsInv
<1>4. ASSUME NEW p \in Persons, SignsInWithGoogle(p)
      PROVE  AccountInv'
  <2>. DEFINE s == [who |-> p, id |-> issued + 1]
              agreed == door.at = "register" \/ tab.agreed
              t == [tab EXCEPT !.tokens = s, !.agreed = agreed]
              extra == IF agreed THEN p ELSE Nobody
  <2>1. /\ issued < MaxSessions /\ issued' = issued + 1
        /\ current' = [current EXCEPT ![p] = issued + 1]
        /\ pool' = [pool EXCEPT ![p] = "confirmed"] /\ profiles' = profiles
        /\ door' = Home /\ StartsAfresh(t, extra)
    BY <1>4 DEF SignsInWithGoogle
  <2>2. issued + 1 \in 0 .. MaxSessions
    BY <1>0, <2>1, AccountAssumption
  <2>3. current' \in [Persons -> 0 .. MaxSessions] /\ issued' \in 0 .. MaxSessions
    BY <1>0, <2>1, <2>2
  <2>4. s \in Session /\ agreed \in BOOLEAN /\ extra \in Persons \cup {Nobody}
    BY <1>0, <2>2 DEF Session, Tab
  <2>. HIDE DEF s, agreed, extra
  <2>5. t \in Tab
    BY <1>0, <2>4 DEF Tab
  <2>. HIDE DEF t
  <2>6. tab' \in Tab /\ (tab'.superseded <=> tab'.banner) /\ header' \in Header
    BY <2>1, <2>5, TabRecords, AccountValues DEF StartsAfresh
  <2>7. Backed(authCalls')
    <3>. DEFINE probe == [NoAuthCall EXCEPT !.kind = "probe", !.heard = TRUE]
                terms == [NoAuthCall EXCEPT !.kind = "terms", !.who = extra,
                                            !.session = t.tokens, !.heard = TRUE]
                none == [j \in AuthSlots |-> NoAuthCall]
                calls == IF t.banner THEN none ELSE [none EXCEPT ![1] = probe]
    <3>1. t.tokens \in Session
      BY <2>5 DEF Tab
    <3>2. /\ probe \in AuthCall /\ probe.kind = "probe"
          /\ terms \in AuthCall /\ terms.kind = "terms" /\ terms.who = extra
      BY <2>4, <3>1, AccountValues DEF AuthCall, NoAuthCall
    <3>3. BackedBy(probe, pool, profiles) /\ (extra # Nobody => BackedBy(terms, pool, profiles))
      BY <2>4, <3>2 DEF BackedBy
    <3>4. \/ authCalls' = calls
          \/ extra # Nobody /\ authCalls' = [calls EXCEPT ![MaxAuthCalls] = terms]
      BY <1>0, <2>1 DEF StartsAfresh
    <3>. HIDE DEF probe, terms
    <3>5. Backed(calls)
      BY <3>2, <3>3, NoneIsBacked DEF Backed
    <3>. HIDE DEF calls
    <3>. QED  BY <3>2, <3>3, <3>4, <3>5 DEF Backed
  <2>8. /\ pool' \in [Persons -> {"none", "unconfirmed", "confirmed"}]
        /\ \A q \in Persons : pool[q] = "confirmed" => pool'[q] = "confirmed"
    BY <1>0, <2>1
  <2>9. door' \in Door /\ door'.at # "welcome"
    BY <2>1, AccountValues DEF Home
  <2>10. profiles \subseteq profiles' /\ profiles' \in SUBSET Persons
    BY <1>0, <2>1
  <2>. QED  BY <2>3, <2>6, <2>7, <2>8, <2>9, <2>10, BackedKeepsInv
<1>. QED
  BY <1>1, <1>2, <1>3, <1>4

\* What the requests of the forms come to.
LEMMA FormsKeepInv ==
  ASSUME AccountInv, NEW i \in AuthSlots,
         \/ LogInSucceeds(i) \/ FormFails(i) \/ AppliesTerms(i) \/ TermsFail(i)
         \/ SignUpSucceeds(i) \/ ResetEnds(i) \/ WipeEnds(i) \/ SignOutEnds(i)
  PROVE  AccountInv'
<1>. DEFINE p == authCalls[i].who
<1>0. /\ AccountTypeOK
      /\ tab \in Tab /\ header \in Header /\ door \in Door
      /\ tab.superseded <=> tab.banner
      /\ DOMAIN authCalls = AuthSlots
      /\ authCalls[i] \in AuthCall
      /\ pool \in [Persons -> {"none", "unconfirmed", "confirmed"}]
      /\ profiles \in SUBSET Persons /\ current \in [Persons -> 0 .. MaxSessions]
      /\ issued \in 0 .. MaxSessions
      /\ Backed(authCalls)
  BY AccountFacts
<1>o. Backed(Over(i)) /\ Backed(UnheardDoor(Over(i)))
  BY OverIsBacked, UnheardIsBacked
<1>p. p \in Persons \cup {Nobody}
  BY <1>0 DEF AuthCall
<1>d. DoorIdle(i) \in Door /\ DoorIdle(i).at = door.at /\ DoorIdle(i).who = door.who
  BY <1>0, DoorRecords DEF DoorIdle, Door
<1>1. CASE LogInSucceeds(i)
  <2>1. /\ Enters(p, Over(i)) /\ UNCHANGED <<pool, profiles, header>>
        /\ door' = IF authCalls[i].heard
                   THEN [door EXCEPT !.busy = FALSE, !.at = IF @ = "login" THEN "home" ELSE @]
                   ELSE door
    BY <1>1 DEF LogInSucceeds
  <2>2. (IF door.at = "login" THEN "home" ELSE door.at) \in Doors
    BY <1>0 DEF Door, Doors
  <2>3. /\ door' \in Door
        /\ door'.at # "welcome" \/ (door'.at = door.at /\ door'.who = door.who)
    <3>. DEFINE at == IF door.at = "login" THEN "home" ELSE door.at
    <3>1. door' = door \/ door' = [door EXCEPT !.busy = FALSE, !.at = at]
      BY <2>1
    <3>2. at = door.at \/ at = "home"
      OBVIOUS
    <3>. HIDE DEF at
    <3>3. at \in Doors
      BY <2>2 DEF at
    <3>4. FALSE \in BOOLEAN
      OBVIOUS
    <3>5. CASE door' = [door EXCEPT !.busy = FALSE, !.at = at]
      <4>1. door' \in Door /\ door'.at = at /\ door'.who = door.who
        BY <1>0, <3>3, <3>5 DEF Door
      <4>. QED  BY <3>2, <4>1
    <3>. QED  BY <1>0, <3>1, <3>5
  <2>. QED  BY <1>o, <1>p, <2>1, <2>3, EntersKeepsInv
<1>2. CASE FormFails(i)
  <2>1. /\ UNCHANGED serverVars /\ tab' = tab /\ header' = header
        /\ authCalls' = Over(i) /\ door' = DoorIdle(i)
    BY <1>2 DEF FormFails
  <2>. QED  BY <1>0, <1>o, <1>d, <2>1, BrowserKeepsInv
<1>3. CASE AppliesTerms(i)
  <2>1. /\ pool' = pool /\ current' = current /\ issued' = issued
        /\ header' = header /\ door' = door /\ authCalls' = Over(i)
    BY <1>3 DEF AppliesTerms
  <2>2. tab' = tab \/ tab' = [tab EXCEPT !.agreed = FALSE, !.draft = Nobody]
    BY <1>3 DEF AppliesTerms
  <2>3. tab' \in Tab /\ tab'.superseded = tab.superseded /\ tab'.banner = tab.banner
    BY <1>0, <2>2 DEF Tab
  <2>4. Nobody \notin Persons /\ profiles \in SUBSET Persons /\ tab.draft \in Persons \cup {Nobody}
    BY <1>0, AccountAssumption DEF Persons, Tab
  <2>5. profiles' = profiles \/ (profiles' = profiles \cup {p} /\ (p \in profiles \/ tab.draft = p))
    BY <1>3 DEF AppliesTerms
  <2>6. profiles \subseteq profiles'
    BY <2>5
  <2>7. p \in Persons
    BY <1>3, <1>p, <1>0 DEF AppliesTerms, AccountInv, BackedBy
  <2>8. profiles' \in SUBSET Persons
    BY <2>4, <2>5, <2>7
  <2>. QED  BY <1>0, <1>o, <2>1, <2>3, <2>6, <2>8, BackedKeepsInv
<1>4. CASE TermsFail(i)
  <2>1. /\ UNCHANGED serverVars /\ header' = header /\ door' = door
        /\ \/ authCalls' = Over(i) /\ tab' = tab
           \/ Notifies(Over(i))
    BY <1>4 DEF TermsFail
  <2>2. CASE authCalls' = Over(i) /\ tab' = tab
    BY <1>0, <1>o, <2>1, <2>2, BrowserKeepsInv
  <2>3. CASE Notifies(Over(i))
    BY <1>0, <1>o, <2>1, <2>3, NotifiedKeepsInv
  <2>. QED  BY <2>1, <2>2, <2>3
<1>5. CASE SignUpSucceeds(i)
  <2>1. /\ pool[p] = "none" /\ pool' = [pool EXCEPT ![p] = "unconfirmed"]
        /\ door' = [Home EXCEPT !.at = "verify", !.who = p]
        /\ authCalls' \in Started(UnheardDoor(Over(i)), "probe", Nobody)
        /\ profiles' = profiles /\ current' = current /\ issued' = issued
        /\ tab' = tab /\ header' = header
    BY <1>5 DEF SignUpSucceeds
  <2>2. /\ pool' \in [Persons -> {"none", "unconfirmed", "confirmed"}]
        /\ \A q \in Persons : pool[q] = "confirmed" => pool'[q] = "confirmed"
    BY <1>0, <2>1
  <2>3. door' \in Door /\ door'.at # "welcome"
    BY <1>p, <2>1, HomeRecords DEF Doors
  <2>4. Backed(authCalls')
    BY <1>0, <1>o, <2>1, StartedIsBacked
  <2>. QED  BY <1>0, <2>1, <2>2, <2>3, <2>4, BackedKeepsInv
<1>6. CASE ResetEnds(i)
  <2>1. /\ UNCHANGED serverVars /\ tab' = tab /\ header' = header /\ authCalls' = Over(i)
        /\ \/ door' = [Home EXCEPT !.at = ShownDoor("login")]
           \/ door' = DoorIdle(i)
    BY <1>6 DEF ResetEnds
  <2>2. ShownDoor("login") \in Doors /\ ShownDoor("login") # "welcome"
    BY ShownDoors DEF Doors
  <2>3. /\ [Home EXCEPT !.at = ShownDoor("login")] \in Door
        /\ [Home EXCEPT !.at = ShownDoor("login")].at = ShownDoor("login")
    BY <2>2, HomeRecords
  <2>4. /\ door' \in Door
        /\ door'.at # "welcome" \/ (door'.at = door.at /\ door'.who = door.who)
    BY <1>d, <2>1, <2>2, <2>3
  <2>. QED  BY <1>0, <1>o, <2>1, <2>4, BrowserKeepsInv
<1>7. CASE WipeEnds(i)
  <2>. DEFINE w == Wiped(tab)
  <2>1. /\ UNCHANGED serverVars /\ header' = header /\ door' = door /\ authCalls' = Over(i)
        /\ tab' = [w EXCEPT !.handling = FALSE, !.told = tab.banner]
    BY <1>7 DEF WipeEnds
  <2>2. w \in Tab /\ w.superseded = tab.superseded /\ w.banner = tab.banner
    BY <1>0, TabRecords
  <2>. HIDE DEF w
  <2>3. tab' \in Tab /\ tab'.superseded = tab.superseded /\ tab'.banner = tab.banner
    BY <1>0, <2>1, <2>2 DEF Tab
  <2>. QED  BY <1>0, <1>o, <2>1, <2>3, BrowserKeepsInv
<1>8. CASE SignOutEnds(i)
  <2>. DEFINE w == Released(Wiped(tab))
  <2>1. /\ UNCHANGED serverVars /\ header' = SignedOutHeader /\ door' = Home
        /\ authCalls' \in Started(UnheardDoor(Over(i)), "probe", Nobody)
        /\ tab' = [w EXCEPT !.handling = @ /\ ~authCalls[i].live]
    BY <1>8 DEF SignOutEnds
  <2>2. w \in Tab /\ w.superseded = FALSE /\ w.banner = FALSE
    BY <1>0, TabRecords
  <2>. HIDE DEF w
  <2>3. tab' \in Tab /\ tab'.superseded = FALSE /\ tab'.banner = FALSE
    BY <1>0, <2>1, <2>2 DEF Tab
  <2>4. Backed(authCalls')
    BY <1>0, <1>o, <2>1, StartedIsBacked
  <2>5. header' \in Header /\ door' \in Door /\ door'.at # "welcome"
    BY <2>1, AccountValues DEF Home
  <2>. QED  BY <2>1, <2>3, <2>4, <2>5, BrowserKeepsInv
<1>. QED
  BY <1>1, <1>2, <1>3, <1>4, <1>5, <1>6, <1>7, <1>8

\* From the code to the welcome: who is confirmed is let in, and whose profile
\* was stored is welcomed.
LEMMA VerifyingKeepsInv ==
  ASSUME AccountInv, NEW i \in AuthSlots,
         \/ ConfirmsCode(i) \/ EntersConfirmed(i) \/ SavesProfile(i) \/ Welcomes(i) \/ VerifyFails(i)
  PROVE  AccountInv'
<1>. DEFINE p == authCalls[i].who
<1>0. /\ AccountTypeOK
      /\ tab \in Tab /\ header \in Header /\ door \in Door
      /\ tab.superseded <=> tab.banner
      /\ DOMAIN authCalls = AuthSlots
      /\ authCalls[i] \in AuthCall
      /\ pool \in [Persons -> {"none", "unconfirmed", "confirmed"}]
      /\ profiles \in SUBSET Persons /\ current \in [Persons -> 0 .. MaxSessions]
      /\ issued \in 0 .. MaxSessions
      /\ Backed(authCalls)
  BY AccountFacts
<1>o. Backed(Over(i)) /\ Backed(UnheardDoor(Over(i)))
  BY OverIsBacked, UnheardIsBacked
<1>b. /\ authCalls \in [AuthSlots -> AuthCall]
      /\ \A j \in AuthSlots : BackedBy(authCalls[j], pool, profiles)
      /\ BackedBy(authCalls[i], pool, profiles)
  BY <1>0 DEF Backed
<1>d. DoorIdle(i) \in Door /\ DoorIdle(i).at = door.at /\ DoorIdle(i).who = door.who
  BY <1>0, DoorRecords DEF DoorIdle, Door
<1>n. TRUE \in BOOLEAN /\ FALSE \in BOOLEAN
  OBVIOUS
<1>1. CASE ConfirmsCode(i)
  <2>. DEFINE n == [authCalls[i] EXCEPT !.kind = "enter"]
  <2>1. /\ authCalls[i].kind = "confirm" /\ pool[p] = "unconfirmed"
        /\ pool' = [pool EXCEPT ![p] = "confirmed"]
        /\ authCalls' = [authCalls EXCEPT ![i] = n]
        /\ profiles' = profiles /\ current' = current /\ issued' = issued
        /\ tab' = tab /\ header' = header /\ door' = door
    BY <1>1 DEF ConfirmsCode
  <2>2. n \in AuthCall /\ n.kind = "enter" /\ n.who = p /\ n.step = "asked" /\ p \in Persons
    BY <1>0, <1>b, <2>1 DEF AuthCall, BackedBy
  <2>. HIDE DEF n
  <2>3. /\ pool' \in [Persons -> {"none", "unconfirmed", "confirmed"}]
        /\ \A q \in Persons : pool[q] = "confirmed" => pool'[q] = "confirmed"
        /\ pool'[p] = "confirmed"
    BY <1>0, <2>1, <2>2
  <2>4. AccountTypeOK'
    BY <1>0, <1>b, <2>1, <2>2, <2>3 DEF AccountTypeOK, AuthSlots
  <2>5. ASSUME NEW j \in AuthSlots
        PROVE  BackedBy(authCalls[j], pool, profiles)'
    <3>1. CASE j = i
      BY <1>b, <2>1, <2>2, <2>3, <3>1 DEF BackedBy
    <3>2. CASE j # i
      BY <1>b, <2>1, <2>3, <3>2 DEF BackedBy
    <3>. QED  BY <3>1, <3>2
  <2>6. SavedAndTold'
    BY <1>0, <2>1, <2>3 DEF AccountInv, SavedAndTold
  <2>. QED  BY <2>4, <2>5, <2>6 DEF AccountInv
<1>2. CASE EntersConfirmed(i)
  <2>. DEFINE s == [who |-> p, id |-> issued + 1]
              n == [authCalls[i] EXCEPT !.kind = "patch", !.session = s]
              calls == [authCalls EXCEPT ![i].kind = "patch", ![i].session = s]
  <2>1. /\ authCalls[i].kind = "enter" /\ Enters(p, calls)
        /\ UNCHANGED <<pool, profiles, header, door>>
    BY <1>2 DEF EntersConfirmed
  <2>2. issued + 1 \in 0 .. MaxSessions
    BY <1>0, <2>1, AccountAssumption DEF Enters
  <2>3. s \in Session
    BY <1>0, <2>2 DEF Session, AuthCall
  <2>. HIDE DEF s
  <2>4. n \in AuthCall /\ n.kind = "patch" /\ n.who = p /\ n.step = authCalls[i].step
    BY <1>0, <2>3 DEF AuthCall
  <2>5. calls = [authCalls EXCEPT ![i] = n]
    BY <1>b
  <2>6. p \in Persons /\ pool[p] = "confirmed"
    BY <1>b, <2>1 DEF BackedBy
  <2>7. authCalls[i].step = "asked"
    BY <1>b, <2>1 DEF BackedBy
  <2>. HIDE DEF n, calls
  <2>8. BackedBy(n, pool, profiles)
    BY <2>4, <2>6, <2>7 DEF BackedBy
  <2>9. Backed(calls)
    BY <1>b, <2>4, <2>5, <2>8 DEF Backed
  <2>10. p \in Persons \cup {Nobody} /\ door' \in Door /\ door' = door
    BY <1>0, <2>1, <2>6
  <2>. QED  BY <2>1, <2>9, <2>10, EntersKeepsInv
<1>3. CASE SavesProfile(i)
  <2>1. /\ authCalls[i].kind = "patch" /\ pool' = pool /\ current' = current /\ issued' = issued
        /\ tab' = tab /\ header' = header /\ door' = door
    BY <1>3 DEF SavesProfile
  <2>2. p \in Persons /\ pool[p] = "confirmed"
    BY <1>b, <2>1 DEF BackedBy
  <2>3. PICK step \in {"answered", "superseded", "failed"} :
          /\ authCalls' = [authCalls EXCEPT ![i].step = step]
          /\ profiles' = IF step = "answered" THEN profiles \cup {p} ELSE profiles
    BY <1>3 DEF SavesProfile
  <2>. DEFINE n == [authCalls[i] EXCEPT !.step = step]
  <2>4. n \in AuthCall /\ n.kind = "patch" /\ n.who = p /\ n.step = step
    BY <1>0, <2>1 DEF AuthCall
  <2>5. authCalls' = [authCalls EXCEPT ![i] = n]
    BY <2>3
  <2>. HIDE DEF n
  <2>6. profiles' \in SUBSET Persons /\ profiles \subseteq profiles' /\ (step = "answered" => p \in profiles')
    BY <1>0, <2>2, <2>3
  <2>7. AccountTypeOK'
    BY <1>0, <1>b, <2>1, <2>4, <2>5, <2>6 DEF AccountTypeOK, AuthSlots
  <2>8. ASSUME NEW j \in AuthSlots
        PROVE  BackedBy(authCalls[j], pool, profiles)'
    <3>1. CASE j = i
      BY <1>b, <2>1, <2>2, <2>4, <2>5, <2>6, <3>1 DEF BackedBy
    <3>2. CASE j # i
      BY <1>b, <2>1, <2>5, <2>6, <3>2 DEF BackedBy
    <3>. QED  BY <3>1, <3>2
  <2>9. SavedAndTold'
    BY <2>1, <2>6 DEF AccountInv, SavedAndTold
  <2>. QED  BY <2>7, <2>8, <2>9 DEF AccountInv
<1>4. CASE Welcomes(i)
  <2>. DEFINE w == [at |-> "welcome", who |-> p, busy |-> FALSE]
  <2>1. /\ UNCHANGED serverVars /\ header' = header
        /\ authCalls[i].kind = "patch" /\ authCalls[i].step = "answered"
        /\ tab' = [tab EXCEPT !.draft = Nobody]
        /\ authCalls' = UnheardDoor(Over(i))
        /\ door' = IF authCalls[i].heard THEN w ELSE door
    BY <1>4 DEF Welcomes, ProfileSaved
  <2>2. p \in Persons /\ pool[p] = "confirmed" /\ p \in profiles
    BY <1>b, <2>1 DEF BackedBy
  <2>3. w \in Door /\ w.who = p
    BY <2>2 DEF Door, Doors
  <2>. HIDE DEF w
  <2>4. door' \in Door /\ (door' = door \/ door'.who = p)
    BY <1>0, <2>1, <2>3
  <2>5. tab' \in Tab /\ tab'.superseded = tab.superseded /\ tab'.banner = tab.banner
    BY <1>0, <2>1 DEF Tab
  <2>6. CASE door' = door
    BY <1>0, <1>o, <2>1, <2>4, <2>5, <2>6, BrowserKeepsInv
  <2>7. CASE door'.who = p
    BY <1>0, <1>o, <2>1, <2>2, <2>4, <2>5, <2>7, BrowserKeepsInv
  <2>. QED  BY <2>4, <2>6, <2>7
<1>5. CASE VerifyFails(i)
  <2>1. /\ UNCHANGED serverVars /\ header' = header /\ door' = DoorIdle(i)
        /\ \/ authCalls' = Over(i) /\ tab' = tab
           \/ Notifies(Over(i))
    BY <1>5 DEF VerifyFails
  <2>2. CASE authCalls' = Over(i) /\ tab' = tab
    BY <1>0, <1>o, <1>d, <2>1, <2>2, BrowserKeepsInv
  <2>3. CASE Notifies(Over(i))
    BY <1>0, <1>o, <1>d, <2>1, <2>3, NotifiedKeepsInv
  <2>. QED  BY <2>1, <2>2, <2>3
<1>. QED
  BY <1>1, <1>2, <1>3, <1>4, <1>5

\* The rest of the forms, the banner and the menu of the header.
LEMMA MenusKeepInv ==
  ASSUME AccountInv, EntersCode \/ ResetsPassword \/ Dismisses \/ SignsOut
  PROVE  AccountInv'
<1>0. /\ AccountTypeOK
      /\ tab \in Tab /\ header \in Header /\ door \in Door
      /\ tab.superseded <=> tab.banner
      /\ DOMAIN authCalls = AuthSlots
      /\ Backed(authCalls)
  BY AccountFacts
<1>1. CASE EntersCode
  <2>1. /\ UNCHANGED serverVars /\ tab' = tab /\ header' = header
        /\ door' = [door EXCEPT !.busy = TRUE] /\ door.who # Nobody
        /\ authCalls' \in Started(authCalls, "confirm", door.who)
    BY <1>1 DEF EntersCode
  <2>2. door.who \in Persons
    BY <1>0, <2>1 DEF Door
  <2>3. Backed(authCalls')
    BY <1>0, <2>1, <2>2, StartedIsBacked
  <2>4. door' \in Door /\ door'.at = door.at /\ door'.who = door.who
    BY <1>0, <2>1 DEF Door
  <2>. QED  BY <1>0, <2>1, <2>3, <2>4, BrowserKeepsInv
<1>2. CASE ResetsPassword
  <2>1. /\ UNCHANGED serverVars /\ tab' = tab /\ header' = header
        /\ door' = [door EXCEPT !.busy = TRUE] /\ door.at \in {"forgot", "reset"}
        /\ authCalls' \in Started(authCalls, door.at, Nobody)
    BY <1>2 DEF ResetsPassword
  <2>2. CASE door.at = "forgot"
    <3>1. Backed(authCalls')
      BY <1>0, <2>1, <2>2, StartedIsBacked
    <3>2. door' \in Door /\ door'.at = door.at /\ door'.who = door.who
      BY <1>0, <2>1 DEF Door
    <3>. QED  BY <1>0, <2>1, <3>1, <3>2, BrowserKeepsInv
  <2>3. CASE door.at = "reset"
    <3>1. Backed(authCalls')
      BY <1>0, <2>1, <2>3, StartedIsBacked
    <3>2. door' \in Door /\ door'.at = door.at /\ door'.who = door.who
      BY <1>0, <2>1 DEF Door
    <3>. QED  BY <1>0, <2>1, <3>1, <3>2, BrowserKeepsInv
  <2>. QED  BY <2>1, <2>2, <2>3
<1>3. CASE Dismisses
  <2>. DEFINE w == Released(tab)
  <2>1. PICK tokens \in {tab.tokens, NoSession} :
          tab' = [w EXCEPT !.told = FALSE, !.tokens = tokens]
    BY <1>3 DEF Dismisses
  <2>2. UNCHANGED serverVars /\ header' = header /\ door' = door /\ authCalls' = authCalls
    BY <1>3 DEF Dismisses
  <2>3. w \in Tab /\ w.superseded = FALSE /\ w.banner = FALSE /\ tokens \in Session
    BY <1>0, TabRecords, TokensAreSessions, AccountValues
  <2>. HIDE DEF w
  <2>4. tab' \in Tab /\ tab'.superseded = FALSE /\ tab'.banner = FALSE
    BY <2>1, <2>3 DEF Tab
  <2>. QED  BY <1>0, <2>2, <2>4, BrowserKeepsInv
<1>4. CASE SignsOut
  <2>. DEFINE calls == EndsLookups(UnheardHeader(authCalls))
              n == [NoAuthCall EXCEPT !.kind = "signOut", !.live = ~tab.superseded, !.heard = TRUE]
  <2>1. PICK i \in FreeAuthSlots(authCalls) : authCalls' = [calls EXCEPT ![i] = n]
    BY <1>4 DEF SignsOut
  <2>2. UNCHANGED serverVars /\ header' = header /\ door' = door /\ tab' = Forgets(tab)
    BY <1>4 DEF SignsOut
  <2>3. Backed(calls) /\ i \in AuthSlots
    BY <1>0, UnheardIsBacked DEF FreeAuthSlots
  <2>4. n \in AuthCall /\ n.kind = "signOut"
    BY AccountValues DEF NoAuthCall, AuthCall
  <2>5. BackedBy(n, pool, profiles)
    BY <2>4 DEF BackedBy
  <2>. HIDE DEF calls, n
  <2>6. Backed(authCalls')
    BY <2>1, <2>3, <2>4, <2>5 DEF Backed
  <2>7. tab' \in Tab /\ tab'.superseded = tab.superseded /\ tab'.banner = tab.banner
    BY <1>0, <2>2, TabRecords
  <2>. QED  BY <1>0, <2>2, <2>6, <2>7, BrowserKeepsInv
<1>. QED
  BY <1>1, <1>2, <1>3, <1>4

LEMMA AccountStep == AccountInv /\ [AccountNext]_accountVars => AccountInv'
<1>. SUFFICES ASSUME AccountInv, [AccountNext]_accountVars PROVE AccountInv'
  OBVIOUS
<1>1. CASE UNCHANGED accountVars
  <2>1. /\ pool' = pool /\ profiles' = profiles /\ current' = current /\ issued' = issued
        /\ tab' = tab /\ header' = header /\ authCalls' = authCalls /\ door' = door
    BY <1>1 DEF accountVars
  <2>2. Backed(authCalls') /\ UNCHANGED serverVars
    BY <2>1, AccountFacts DEF serverVars
  <2>. QED  BY <2>1, <2>2, AccountFacts, BrowserKeepsInv
<1>2. DOMAIN authCalls = AuthSlots
  BY AccountFacts
<1>. QED
  BY <1>1, <1>2, PagesKeepInv, HeaderKeepsInv, SignInsKeepInv, FormsKeepInv, VerifyingKeepsInv,
     MenusKeepInv DEF AccountNext

\* In every run of the tab its state and its requests are of the declared types.
THEOREM AccountTypeCorrect == AccountSpec => []AccountTypeOK
<1>1. AccountInv => AccountTypeOK
  BY DEF AccountInv
<1>. QED
  BY AccountInitInv, AccountStep, <1>1, PTL DEF AccountSpec

\* In every run whom the verification page welcomes is confirmed and has the
\* details of the registration in the profile, and a superseded tab, and no
\* other, has its banner, whatever answers and navigations come in between.
THEOREM AlwaysSavedAndTold == AccountSpec => []SavedAndTold
<1>1. AccountInv => SavedAndTold
  BY DEF AccountInv
<1>. QED
  BY AccountInitInv, AccountStep, <1>1, PTL DEF AccountSpec

-----------------------------------------------------------------------------
(* Certificates: types *)

LEMMA InitType == Init => CertificateTypeOK
  BY CertificatesAssumption
  DEF Init, CertificateTypeOK, Fact, RequestState, RevokerState, NoRequest, NoRevoker

\* What a request in its place in try_issue knows.
Placed(q) == q.pc \in {"existing", "entitled", "passed", "insert"} => q.course \in Courses

LEMMA NewRequest ==
  ASSUME CertificateTypeOK, NEW r \in Requests, NEW q \in RequestState, Placed(q),
         request' = [request EXCEPT ![r] = q], UNCHANGED <<Facts, revoker>>,
         cert' \in [Courses -> {"none", "valid", "revoked", "dropped"}],
         \A c \in Courses : cert'[c] \in {"valid", "revoked"} => c \in exists,
         bundle' \in {"none", "valid", "revoked"}
  PROVE  CertificateTypeOK'
  BY DEF CertificateTypeOK, Placed, Facts

\* The two ways a request goes on.
LEMMA Continues ==
  ASSUME CertificateTypeOK, NEW r \in Requests, NEW pc \in {"entitled", "passed", "insert", "select", "mint"}
  PROVE  /\ [request[r] EXCEPT !.pc = pc] \in RequestState
         /\ [request[r] EXCEPT !.pc = "next", !.course = NoCourse] \in RequestState
         /\ [request[r] EXCEPT !.pc = pc].pc = pc
         /\ [request[r] EXCEPT !.pc = pc].course = request[r].course
         /\ [request[r] EXCEPT !.pc = "next", !.course = NoCourse].pc = "next"
  BY DEF CertificateTypeOK, RequestState

\* The facts and the certificate rows keep their types by themselves.
LEMMA StepType == CertificateTypeOK /\ [Next]_vars => CertificateTypeOK'
<1>. SUFFICES ASSUME CertificateTypeOK, [Next]_vars
              PROVE  CertificateTypeOK'
  OBVIOUS
<1>. USE CertificatesAssumption
<1>1. ASSUME NEW c \in Courses, FactStep(c)
      PROVE  CertificateTypeOK'
  <2>1. CASE ChangeEntitlement(c)
    BY <2>1 DEF ChangeEntitlement, CertificateTypeOK, Fact
  <2>2. CASE ChangeRequirements(c)
    BY <2>2 DEF ChangeRequirements, CertificateTypeOK, Fact
  <2>3. CASE DeleteCourse(c)
    BY <2>3 DEF DeleteCourse, CertificateTypeOK
  <2>. QED  BY <1>1, <2>1, <2>2, <2>3 DEF FactStep
<1>2. ASSUME NEW r \in Requests, RequestStep(r)
      PROVE  CertificateTypeOK'
  <2>. DEFINE q == request[r]
  <2>0. /\ q \in RequestState
        /\ Placed(q)
        /\ cert \in [Courses -> {"none", "valid", "revoked", "dropped"}]
        /\ \A c \in Courses : cert[c] \in {"valid", "revoked"} => c \in exists
        /\ bundle \in {"none", "valid", "revoked"}
    BY DEF CertificateTypeOK, Placed
  <2>n. ASSUME NextCourse(r), UNCHANGED <<Facts, bundle, revoker>>,
               cert' \in [Courses -> {"none", "valid", "revoked", "dropped"}],
               \A c \in Courses : cert'[c] \in {"valid", "revoked"} => c \in exists
        PROVE  CertificateTypeOK'
    <3>. DEFINE n == [q EXCEPT !.pc = "next", !.course = NoCourse]
    <3>1. n \in RequestState /\ Placed(n)
      BY Continues DEF Placed
    <3>. QED  BY <2>0, <2>n, <3>1, NewRequest DEF NextCourse
  <2>p. ASSUME NEW pc \in {"entitled", "passed", "insert", "select", "mint"}, RequestAt(r, pc),
               UNCHANGED <<Facts, cert, bundle, revoker>>,
               pc \in {"entitled", "passed", "insert"} => q.course \in Courses
        PROVE  CertificateTypeOK'
    <3>. DEFINE n == [q EXCEPT !.pc = pc]
    <3>1. n \in RequestState /\ n.pc = pc /\ n.course = q.course
      BY Continues
    <3>2. Placed(n)
      BY <2>p, <3>1 DEF Placed
    <3>3. request' = [request EXCEPT ![r] = n]
      BY <2>p DEF RequestAt
    <3>. QED  BY <2>0, <2>p, <3>1, <3>2, <3>3, NewRequest
  <2>e. NoRequest \in RequestState /\ Placed(NoRequest)
    BY DEF NoRequest, RequestState, Placed
  <2>1. ASSUME NEW c \in Courses, StartHook(r, c)
        PROVE  CertificateTypeOK'
    <3>. DEFINE n == [NoRequest EXCEPT !.pc = "next", !.todo = {c}]
    <3>1. n \in RequestState /\ Placed(n)
      BY DEF NoRequest, RequestState, Placed
    <3>. QED  BY <2>0, <2>1, <3>1, NewRequest DEF StartHook
  <2>2. ASSUME NEW page \in BOOLEAN, StartAll(r, page)
        PROVE  CertificateTypeOK'
    <3>. DEFINE n == [NoRequest EXCEPT !.pc = "next", !.todo = Entitled, !.page = page]
    <3>1. n \in RequestState /\ Placed(n)
      BY DEF NoRequest, RequestState, Placed, Entitled, CertificateTypeOK
    <3>. QED  BY <2>0, <2>2, <3>1, NewRequest DEF StartAll
  <2>3. ASSUME NEW c \in Courses, PickCourse(r, c)
        PROVE  CertificateTypeOK'
    <3>. DEFINE n == [q EXCEPT !.pc = "existing", !.course = c, !.todo = @ \ {c}]
    <3>1. n \in RequestState /\ Placed(n)
      BY <2>0 DEF RequestState, Placed
    <3>. QED  BY <2>0, <2>3, <3>1, NewRequest DEF PickCourse
  <2>4. CASE GetExisting(r)
    BY <2>0, <2>4, <2>n, <2>p DEF GetExisting, Placed
  <2>5. CASE CheckEntitled(r)
    BY <2>0, <2>5, <2>n, <2>p DEF CheckEntitled, Placed
  <2>6. CASE CheckPassed(r)
    BY <2>0, <2>6, <2>n, <2>p DEF CheckPassed, Placed
  <2>7. CASE InsertCertificate(r)
    BY <2>0, <2>7, <2>n DEF InsertCertificate, Facts
  <2>8. CASE GiveUp(r)
    BY <2>0, <2>8, <2>e, NewRequest DEF GiveUp, EndRequest
  <2>9. CASE GetBundle(r)
    BY <2>9, <2>p DEF GetBundle
  <2>10. CASE SelectPathway(r)
    BY <2>10, <2>p DEF SelectPathway
  <2>11. CASE MintBundle(r)
    BY <2>0, <2>11, <2>e, NewRequest DEF MintBundle, EndRequest
  <2>. QED
    BY <1>2, <2>1, <2>2, <2>3, <2>4, <2>5, <2>6, <2>7, <2>8, <2>9, <2>10, <2>11
    DEF RequestStep
<1>3. ASSUME NEW t \in Teachers, RevokeStep(t)
      PROVE  CertificateTypeOK'
  <2>. USE DEF CertificateTypeOK, RevokerState, Facts
  <2>1. ASSUME NEW c \in Courses, StartRevoke(t, c)
        PROVE  CertificateTypeOK'
    BY <2>1 DEF StartRevoke
  <2>2. CASE RevokeCertificate(t)
    BY <2>2 DEF RevokeCertificate, HasRow, NoRevoker
  <2>3. CASE RevokeBundle(t)
    BY <2>3 DEF RevokeBundle, NoRevoker
  <2>4. CASE LoseRevoke(t)
    BY <2>4 DEF LoseRevoke, NoRevoker
  <2>. QED  BY <1>3, <2>1, <2>2, <2>3, <2>4 DEF RevokeStep
<1>4. CASE UNCHANGED vars
  BY <1>4 DEF vars, CertificateTypeOK
<1>. QED  BY <1>1, <1>2, <1>3, <1>4 DEF Next

\* Every reachable state is of the declared types, and every certificate row
\* refers to a course that exists.
THEOREM CertificateTypeCorrect == Spec => []CertificateTypeOK
<1>. QED  BY InitType, StepType, PTL DEF Spec

-----------------------------------------------------------------------------
(* Rows only move forward *)

LEMMA StepMoves == CertificateTypeOK /\ [Next]_vars => CertificateMoves
<1>. SUFFICES ASSUME CertificateTypeOK, [Next]_vars
              PROVE  CertificateMoves
  OBVIOUS
<1>1. ASSUME NEW c \in Courses, FactStep(c)
      PROVE  CertificateMoves
  BY <1>1 DEF FactStep, ChangeEntitlement, ChangeRequirements, DeleteCourse,
              CertificateMoves, CertificateTypeOK
<1>2. ASSUME NEW r \in Requests, InsertCertificate(r)
      PROVE  CertificateMoves
  BY <1>2 DEF InsertCertificate, CertificateMoves, CertificateTypeOK
<1>3. ASSUME NEW r \in Requests, MintBundle(r)
      PROVE  CertificateMoves
  BY <1>3 DEF MintBundle, CertificateMoves, CertificateTypeOK
<1>4. ASSUME NEW t \in Teachers, RevokeCertificate(t)
      PROVE  CertificateMoves
  BY <1>4 DEF RevokeCertificate, HasRow, CertificateMoves, CertificateTypeOK
<1>5. ASSUME NEW t \in Teachers, RevokeBundle(t)
      PROVE  CertificateMoves
  BY <1>5 DEF RevokeBundle, CertificateMoves, CertificateTypeOK
<1>6. CASE UNCHANGED <<cert, bundle>>
  BY <1>6 DEF CertificateMoves
<1>. QED
  BY <1>1, <1>2, <1>3, <1>4, <1>5, <1>6
  DEF Next, RequestStep, RevokeStep, vars, StartHook, StartAll, PickCourse, GetExisting,
      CheckEntitled, CheckPassed, GiveUp, GetBundle, SelectPathway, StartRevoke, LoseRevoke

\* No certificate and no bundle is ever issued twice or comes back after it was
\* revoked or dropped, with any number of requests and revocations under way.
THEOREM NeverEverReissued == Spec => NeverReissued
<1>. QED  BY InitType, StepType, StepMoves, PTL DEF Spec, NeverReissued

-----------------------------------------------------------------------------
(* What was issued had been earned *)

\* What a request has read stays true as history, though not as a fact.
RequestsKnow ==
  \A r \in Requests :
    /\ request[r].pc \in {"passed", "insert"} => entitled[request[r].course] # "never"
    /\ request[r].pc = "insert" => passed[request[r].course] # "never"
    /\ request[r].pc = "mint" => \A c \in Pathway : cert[c] # "none"

EarnedInv == RequestsKnow /\ IssuedWasEarned /\ BundleWasEarned

LEMMA InitEarned == Init => EarnedInv
  BY CertificatesAssumption
  DEF Init, NoRequest, EarnedInv, RequestsKnow, IssuedWasEarned, BundleWasEarned

\* Nothing becomes "never" or "none" again.
LEMMA HistoryStands ==
  CertificateTypeOK /\ [Next]_vars =>
    /\ \A c \in Courses : entitled[c] # "never" => entitled'[c] # "never"
    /\ \A c \in Courses : passed[c] # "never" => passed'[c] # "never"
    /\ \A c \in Courses : cert[c] # "none" => cert'[c] # "none"
<1>. SUFFICES ASSUME CertificateTypeOK, [Next]_vars
              PROVE  /\ \A c \in Courses : entitled[c] # "never" => entitled'[c] # "never"
                     /\ \A c \in Courses : passed[c] # "never" => passed'[c] # "never"
                     /\ \A c \in Courses : cert[c] # "none" => cert'[c] # "none"
  OBVIOUS
<1>1. \A c \in Courses : cert[c] # "none" => cert'[c] # "none"
  BY StepMoves DEF CertificateMoves
<1>2. ASSUME NEW d \in Courses, FactStep(d)
      PROVE  /\ \A c \in Courses : entitled[c] # "never" => entitled'[c] # "never"
             /\ \A c \in Courses : passed[c] # "never" => passed'[c] # "never"
  BY <1>2 DEF FactStep, ChangeEntitlement, ChangeRequirements, DeleteCourse, CertificateTypeOK
<1>3. CASE UNCHANGED <<entitled, passed>>
  BY <1>1, <1>3
<1>. QED
  BY <1>1, <1>2, <1>3
  DEF Next, RequestStep, RevokeStep, vars, Facts, StartHook, StartAll, PickCourse, GetExisting,
      CheckEntitled, CheckPassed, InsertCertificate, GiveUp, GetBundle, SelectPathway,
      MintBundle, StartRevoke, RevokeCertificate, RevokeBundle, LoseRevoke

LEMMA StepEarned == CertificateTypeOK /\ EarnedInv /\ [Next]_vars => EarnedInv'
<1>. SUFFICES ASSUME CertificateTypeOK, EarnedInv, [Next]_vars
              PROVE  EarnedInv'
  OBVIOUS
<1>. USE CertificatesAssumption
<1>h. /\ \A c \in Courses : entitled[c] # "never" => entitled'[c] # "never"
      /\ \A c \in Courses : passed[c] # "never" => passed'[c] # "never"
      /\ \A c \in Courses : cert[c] # "none" => cert'[c] # "none"
  BY HistoryStands
<1>1. RequestsKnow'
  <2>. SUFFICES ASSUME NEW q \in Requests
                PROVE  /\ request'[q].pc \in {"passed", "insert"} =>
                             entitled'[request'[q].course] # "never"
                       /\ request'[q].pc = "insert" => passed'[request'[q].course] # "never"
                       /\ request'[q].pc = "mint" => \A c \in Pathway : cert'[c] # "none"
    BY DEF RequestsKnow
  <2>1. CASE request'[q] = request[q]
    BY <1>h, <2>1 DEF EarnedInv, RequestsKnow, CertificateTypeOK
  <2>2. ASSUME NEW pc \in {"entitled", "passed", "insert", "select", "mint"}
        PROVE  /\ RequestAt(q, pc) => request'[q].pc = pc /\ request'[q].course = request[q].course
               /\ NextCourse(q) => request'[q].pc = "next"
    <3>1. request \in [Requests -> RequestState] /\ request[q] \in RequestState
      BY DEF CertificateTypeOK
    <3>. QED  BY <3>1 DEF RequestAt, NextCourse, RequestState
  <2>3. CASE CheckEntitled(q)
    BY <2>2, <2>3 DEF CheckEntitled, Entitled, Facts
  <2>4. CASE CheckPassed(q)
    BY <2>2, <2>4 DEF CheckPassed, Facts, EarnedInv, RequestsKnow
  <2>5. CASE SelectPathway(q)
    BY <2>2, <2>5 DEF SelectPathway
  <2>6. CASE request'[q].pc \notin {"passed", "insert", "mint"}
    BY <2>6
  <2>7. ASSUME NEW r \in Requests, RequestStep(r), r # q
        PROVE  request'[q] = request[q]
    BY <2>7 DEF RequestStep, StartHook, StartAll, PickCourse, GetExisting, CheckEntitled,
                CheckPassed, InsertCertificate, GiveUp, GetBundle, SelectPathway, MintBundle,
                RequestAt, NextCourse, EndRequest, CertificateTypeOK
  <2>8. ASSUME RequestStep(q)
        PROVE  \/ CheckEntitled(q) \/ CheckPassed(q) \/ SelectPathway(q)
               \/ request'[q].pc \notin {"passed", "insert", "mint"}
    <3>. DEFINE o == request[q]
    <3>1. o \in RequestState /\ request \in [Requests -> RequestState]
      BY DEF CertificateTypeOK
    <3>2. ASSUME NEW c \in Courses
          PROVE  /\ [NoRequest EXCEPT !.pc = "next", !.todo = {c}].pc = "next"
                 /\ \A page \in BOOLEAN :
                      [NoRequest EXCEPT !.pc = "next", !.todo = Entitled, !.page = page].pc = "next"
                 /\ [o EXCEPT !.pc = "existing", !.course = c, !.todo = @ \ {c}].pc = "existing"
      BY <3>1 DEF NoRequest, RequestState
    <3>3. \A page \in BOOLEAN : StartAll(q, page) => request'[q].pc = "next"
      BY <3>1 DEF StartAll, NoRequest
    <3>4. \A c \in Courses : StartHook(q, c) \/ PickCourse(q, c) =>
                              request'[q].pc \in {"next", "existing"}
      BY <3>1, <3>2 DEF StartHook, PickCourse
    <3>5. GetExisting(q) \/ InsertCertificate(q) \/ GetBundle(q) =>
            request'[q].pc \in {"next", "entitled", "select"}
      BY <2>2 DEF GetExisting, InsertCertificate, GetBundle
    <3>6. GiveUp(q) \/ MintBundle(q) => request'[q].pc = "idle"
      BY <3>1 DEF GiveUp, MintBundle, EndRequest, NoRequest
    <3>. QED  BY <2>8, <3>3, <3>4, <3>5, <3>6 DEF RequestStep
  <2>9. \/ UNCHANGED request
        \/ \E r \in Requests : RequestStep(r)
    BY DEF Next, FactStep, ChangeEntitlement, ChangeRequirements, DeleteCourse, RevokeStep,
           StartRevoke, RevokeCertificate, RevokeBundle, LoseRevoke, vars
  <2>. QED  BY <2>1, <2>3, <2>4, <2>5, <2>6, <2>7, <2>8, <2>9
<1>2. IssuedWasEarned'
  <2>. SUFFICES ASSUME NEW c \in Courses, cert'[c] # "none"
                PROVE  entitled'[c] # "never" /\ passed'[c] # "never"
    BY DEF IssuedWasEarned
  <2>1. CASE cert[c] # "none"
    BY <1>h, <2>1 DEF EarnedInv, IssuedWasEarned
  <2>2. CASE cert[c] = "none"
    <3>1. PICK r \in Requests : InsertCertificate(r) /\ request[r].course = c
      BY <2>2 DEF Next, FactStep, ChangeEntitlement, ChangeRequirements, DeleteCourse,
           RequestStep, RevokeStep, vars, StartHook, StartAll, PickCourse, GetExisting,
           CheckEntitled, CheckPassed, InsertCertificate, GiveUp, GetBundle, SelectPathway,
           MintBundle, StartRevoke, RevokeCertificate, RevokeBundle, LoseRevoke, HasRow,
           CertificateTypeOK
    <3>. QED
      BY <1>h, <3>1 DEF InsertCertificate, EarnedInv, RequestsKnow
  <2>. QED  BY <2>1, <2>2
<1>3. BundleWasEarned'
  <2>1. CASE bundle # "none"
    BY <1>h, <2>1 DEF EarnedInv, BundleWasEarned
  <2>2. ASSUME NEW r \in Requests, MintBundle(r)
        PROVE  BundleWasEarned'
    BY <1>h, <2>2 DEF MintBundle, EarnedInv, RequestsKnow, BundleWasEarned
  <2>3. CASE bundle' = bundle
    BY <1>h, <2>3 DEF EarnedInv, BundleWasEarned
  <2>4. \/ bundle' = bundle
        \/ \E r \in Requests : MintBundle(r)
        \/ bundle # "none"
    BY DEF Next, FactStep, ChangeEntitlement, ChangeRequirements, DeleteCourse,
           RequestStep, RevokeStep, vars, StartHook, StartAll, PickCourse, GetExisting,
           CheckEntitled, CheckPassed, InsertCertificate, GiveUp, GetBundle, SelectPathway,
           StartRevoke, RevokeCertificate, RevokeBundle, LoseRevoke
  <2>. QED  BY <2>1, <2>2, <2>3, <2>4
<1>. QED  BY <1>1, <1>2, <1>3 DEF EarnedInv

LEMMA AlwaysEarnedInv == Spec => []EarnedInv
<1>. QED  BY InitType, StepType, InitEarned, StepEarned, PTL DEF Spec

\* Nobody ever holds a certificate of a course they were never entitled to or
\* whose requirements they never met.
THEOREM IssuedAlwaysEarned == Spec => []IssuedWasEarned
<1>1. EarnedInv => IssuedWasEarned
  BY DEF EarnedInv
<1>. QED  BY <1>1, AlwaysEarnedInv, PTL

\* Nobody ever holds the bundle without having got every pathway certificate.
THEOREM BundleAlwaysEarned == Spec => []BundleWasEarned
<1>1. EarnedInv => BundleWasEarned
  BY DEF EarnedInv
<1>. QED  BY <1>1, AlwaysEarnedInv, PTL

-----------------------------------------------------------------------------
(* Requests and revocations come to diplomas *)

\* Who goes on to revoke the bundle has brought a pathway certificate down.
RevokersKnow ==
  \A t \in Teachers : revoker[t].pc = "bundle" =>
    revoker[t].course \in Pathway /\ cert[revoker[t].course] \in {"revoked", "dropped"}

\* What is down stays down.
LEMMA StepRevokers == CertificateTypeOK /\ RevokersKnow /\ [Next]_vars => RevokersKnow'
<1>. SUFFICES ASSUME CertificateTypeOK, RevokersKnow, [Next]_vars, NEW t \in Teachers,
                     revoker'[t].pc = "bundle"
              PROVE  /\ revoker'[t].course \in Pathway
                     /\ cert'[revoker'[t].course] \in {"revoked", "dropped"}
  BY DEF RevokersKnow
<1>. USE CertificatesAssumption
<1>1. \A c \in Courses : cert[c] \in {"revoked", "dropped"} => cert'[c] \in {"revoked", "dropped"}
  BY StepMoves DEF CertificateMoves
<1>2. CASE revoker'[t] = revoker[t]
  BY <1>1, <1>2 DEF RevokersKnow
<1>3. CASE RevokeCertificate(t)
  <2>. DEFINE c == revoker[t].course
  <2>1. /\ revoker[t] \in RevokerState /\ c \in Courses
        /\ revoker \in [Teachers -> RevokerState] /\ cert' = [cert EXCEPT ![c] = "revoked"]
        /\ revoker' = [revoker EXCEPT ![t] = IF c \in Pathway THEN [@ EXCEPT !.pc = "bundle"]
                                             ELSE NoRevoker]
    BY <1>3 DEF RevokeCertificate, CertificateTypeOK
  <2>2. c \in Pathway /\ revoker'[t].course = c
    BY <2>1 DEF RevokerState, NoRevoker
  <2>3. cert'[c] = "revoked"
    BY <2>1 DEF CertificateTypeOK
  <2>. QED  BY <2>2, <2>3
<1>4. ASSUME NEW u \in Teachers, RevokeStep(u)
      PROVE  RevokeCertificate(t) \/ revoker'[t] = revoker[t]
  <2>1. CASE u # t
    BY <1>4, <2>1 DEF RevokeStep, StartRevoke, RevokeCertificate, RevokeBundle, LoseRevoke,
                      CertificateTypeOK
  <2>2. CASE u = t
    BY <1>4, <2>2 DEF RevokeStep, StartRevoke, RevokeBundle, LoseRevoke, NoRevoker,
                      CertificateTypeOK
  <2>. QED  BY <2>1, <2>2
<1>5. ASSUME NEW r \in Requests, RequestStep(r)
      PROVE  revoker' = revoker
  BY <1>5 DEF RequestStep, StartHook, StartAll, PickCourse, GetExisting, CheckEntitled,
              CheckPassed, InsertCertificate, GiveUp, GetBundle, SelectPathway, MintBundle
<1>6. ASSUME NEW c \in Courses, FactStep(c)
      PROVE  revoker' = revoker
  BY <1>6 DEF FactStep, ChangeEntitlement, ChangeRequirements, DeleteCourse
<1>. QED  BY <1>2, <1>3, <1>4, <1>5, <1>6 DEF Next, vars

LEMMA AlwaysRevokersKnow == Spec => []RevokersKnow
<1>1. Init => RevokersKnow
  BY DEF Init, NoRevoker, RevokersKnow
<1>. QED  BY <1>1, InitType, StepType, StepRevokers, PTL DEF Spec

\* What a course's facts change is what has been earned, or its certificate.
LEMMA FactIsDiploma ==
  ASSUME CertificateTypeOK, NEW c \in Courses, FactStep(c)
  PROVE  [Diploma!Next]_(Diploma!diplomaVars)
<1>1. CASE DeleteCourse(c)
  <2>1. UNCHANGED <<entitled, passed, bundle>>
        /\ cert' = [cert EXCEPT ![c] = IF @ = "none" THEN @ ELSE "dropped"]
    BY <1>1 DEF DeleteCourse
  <2>2. Earned' = Earned
    BY <2>1 DEF Earned
  <2>3. CASE cert[c] \in {"none", "dropped"}
    BY <2>1, <2>2, <2>3 DEF CertificateTypeOK, Diploma!diplomaVars
  <2>4. CASE cert[c] \in {"valid", "revoked"}
    <3>1. Diploma!Drop(c)
      BY <2>1, <2>2, <2>4 DEF Diploma!Drop, Diploma!Becomes
    <3>. QED  BY <3>1 DEF Diploma!Next
  <2>. QED  BY <2>3, <2>4 DEF CertificateTypeOK
<1>2. CASE ChangeEntitlement(c) \/ ChangeRequirements(c)
  <2>1. UNCHANGED <<cert, bundle>>
    BY <1>2 DEF ChangeEntitlement, ChangeRequirements
  <2>2. \A d \in Courses \ {c} : entitled'[d] = entitled[d] /\ passed'[d] = passed[d]
    BY <1>2 DEF ChangeEntitlement, ChangeRequirements, CertificateTypeOK
  <2>3. /\ entitled[c] # "never" => entitled'[c] # "never"
        /\ passed[c] # "never" => passed'[c] # "never"
    BY <1>2 DEF ChangeEntitlement, ChangeRequirements, CertificateTypeOK
  <2>4. Earned' = Earned \/ (c \notin Earned /\ Earned' = Earned \cup {c})
    BY <2>2, <2>3 DEF Earned
  <2>. QED  BY <2>1, <2>4 DEF Diploma!Next, Diploma!Earn, Diploma!diplomaVars
<1>. QED  BY <1>1, <1>2 DEF FactStep

\* The two inserts issue what was earned when it was read.
LEMMA RequestIsDiploma ==
  ASSUME CertificateTypeOK, EarnedInv, NEW r \in Requests, RequestStep(r)
  PROVE  [Diploma!Next]_(Diploma!diplomaVars)
<1>1. UNCHANGED <<entitled, passed>>
  BY DEF RequestStep, StartHook, StartAll, PickCourse, GetExisting, CheckEntitled,
         CheckPassed, InsertCertificate, GiveUp, GetBundle, SelectPathway, MintBundle, Facts
<1>2. Earned' = Earned
  BY <1>1 DEF Earned
<1>3. CASE InsertCertificate(r)
  <2>. DEFINE c == request[r].course
  <2>1. c \in Courses /\ c \in Earned /\ bundle' = bundle
        /\ cert' = [cert EXCEPT ![c] = IF @ = "none" THEN "valid" ELSE @]
    BY <1>3 DEF InsertCertificate, CertificateTypeOK, EarnedInv, RequestsKnow, Earned
  <2>2. CASE cert[c] = "none"
    <3>1. Diploma!Issue(c)
      BY <1>2, <2>1, <2>2 DEF Diploma!Issue, Diploma!Becomes
    <3>. QED  BY <2>1, <3>1 DEF Diploma!Next
  <2>3. CASE cert[c] # "none"
    BY <1>2, <2>1, <2>3 DEF CertificateTypeOK, Diploma!diplomaVars
  <2>. QED  BY <2>2, <2>3
<1>4. CASE MintBundle(r)
  <2>1. UNCHANGED cert /\ bundle' = IF bundle = "none" THEN "valid" ELSE bundle
    BY <1>4 DEF MintBundle
  <2>2. \A c \in Pathway : cert[c] # "none"
    BY <1>4 DEF MintBundle, EarnedInv, RequestsKnow
  <2>. QED
    BY <1>2, <2>1, <2>2 DEF Diploma!Next, Diploma!IssueBundle, Diploma!diplomaVars
<1>5. CASE UNCHANGED <<cert, bundle>>
  BY <1>2, <1>5 DEF Diploma!diplomaVars
<1>. QED
  BY <1>3, <1>4, <1>5
  DEF RequestStep, StartHook, StartAll, PickCourse, GetExisting, CheckEntitled, CheckPassed,
      GiveUp, GetBundle, SelectPathway

\* The two updates of a revocation revoke, and the second for a reason.
LEMMA RevokeIsDiploma ==
  ASSUME CertificateTypeOK, RevokersKnow, NEW t \in Teachers, RevokeStep(t)
  PROVE  [Diploma!Next]_(Diploma!diplomaVars)
<1>1. UNCHANGED <<entitled, passed>>
  BY DEF RevokeStep, StartRevoke, RevokeCertificate, RevokeBundle, LoseRevoke, Facts
<1>2. Earned' = Earned
  BY <1>1 DEF Earned
<1>3. CASE RevokeCertificate(t)
  <2>. DEFINE c == revoker[t].course
  <2>1. c \in Courses /\ bundle' = bundle /\ cert[c] \in {"valid", "revoked"}
        /\ cert' = [cert EXCEPT ![c] = "revoked"]
    BY <1>3 DEF RevokeCertificate, HasRow, CertificateTypeOK
  <2>2. CASE cert[c] = "valid"
    <3>1. Diploma!Revoke(c)
      BY <1>2, <2>1, <2>2 DEF Diploma!Revoke, Diploma!Becomes
    <3>. QED  BY <2>1, <3>1 DEF Diploma!Next
  <2>3. CASE cert[c] = "revoked"
    BY <1>2, <2>1, <2>3 DEF CertificateTypeOK, Diploma!diplomaVars
  <2>. QED  BY <2>1, <2>2, <2>3
<1>4. CASE RevokeBundle(t)
  <2>1. UNCHANGED cert /\ bundle' = IF bundle = "valid" THEN "revoked" ELSE bundle
    BY <1>4 DEF RevokeBundle
  <2>2. \E c \in Pathway : cert[c] \in {"revoked", "dropped"}
    BY <1>4 DEF RevokeBundle, RevokersKnow
  <2>. QED
    BY <1>2, <2>1, <2>2 DEF Diploma!Next, Diploma!RevokeBundle, Diploma!diplomaVars
<1>5. CASE UNCHANGED <<cert, bundle>>
  BY <1>2, <1>5 DEF Diploma!diplomaVars
<1>. QED
  BY <1>3, <1>4, <1>5 DEF RevokeStep, StartRevoke, LoseRevoke

\* Requests, revocations and deletions of any number, statement by statement and
\* on facts that may no longer hold, come to certificates that are earned, issued
\* once, revoked and dropped at once.
THEOREM CertificatesImplementDiplomas == Spec => ImplementsDiplomas
<1>1. Init => Diploma!Init
  BY DEF Init, Earned, Diploma!Init
<1>2. CertificateTypeOK /\ EarnedInv /\ RevokersKnow /\ [Next]_vars
        => [Diploma!Next]_(Diploma!diplomaVars)
  <2>1. CASE UNCHANGED vars
    <3>1. UNCHANGED <<entitled, passed, cert, bundle>>
      BY <2>1 DEF vars
    <3>. QED  BY <3>1 DEF Earned, Diploma!diplomaVars
  <2>. QED
    BY <2>1, FactIsDiploma, RequestIsDiploma, RevokeIsDiploma DEF Next
<1>. QED
  BY <1>1, <1>2, CertificateTypeCorrect, AlwaysEarnedInv, AlwaysRevokersKnow, PTL
  DEF Spec, ImplementsDiplomas, Diploma!Spec

-----------------------------------------------------------------------------
(* The two together *)

LEMMA SidesAreKept ==
  /\ AccountAppInit => AccountInit /\ Init
  /\ [AccountAppNext]_accountAppVars => [AccountNext]_accountVars /\ [Next]_vars
<1>1. AccountAppInit => AccountInit /\ Init
  BY DEF AccountAppInit
<1>2. ASSUME [AccountAppNext]_accountAppVars
      PROVE  [AccountNext]_accountVars /\ [Next]_vars
  BY <1>2 DEF AccountAppNext, accountAppVars
<1>. QED
  BY <1>1, <1>2

\* What the account does with the certificates beside it, each does alone.
THEOREM AccountAppImplementsSides == AccountAppSpec => AccountSpec /\ Spec
BY SidesAreKept, PTL DEF AccountAppSpec, AccountSpec, Spec

\* In every run of both a welcome was deserved and a superseded tab says so, what
\* was issued was earned, and nothing is issued twice.
THEOREM AccountAppIsSafe ==
  AccountAppSpec =>
    /\ [](SavedAndTold /\ CertificateTypeOK /\ IssuedWasEarned /\ BundleWasEarned)
    /\ NeverReissued /\ ImplementsDiplomas
BY AccountAppImplementsSides, AlwaysSavedAndTold, CertificateTypeCorrect, IssuedAlwaysEarned,
   BundleAlwaysEarned, NeverEverReissued, CertificatesImplementDiplomas, PTL

=============================================================================
