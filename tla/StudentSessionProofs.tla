------------------------- MODULE StudentSessionProofs -------------------------
(***************************************************************************)
(* Proofs about StudentSession, for any devices and session ids.           *)
(*                                                                         *)
(* No id is carried by two devices (in tokens or on their way) and a fresh *)
(* id is carried by none; so a bump shuts everybody out and only the flow  *)
(* that committed it can bring its device back.                            *)
(***************************************************************************)
EXTENDS StudentSession, TLAPS

\* Two devices never carry one session id.
CarriedOnce ==
  \A d, e \in Devices, id \in SessionIds :
    Carries(d, id) /\ Carries(e, id) => d = e

\* Every id in use was issued.
UsedIsIssued ==
  /\ active \in issued \cup {Empty}
  /\ mirror \in issued \cup {Empty}
  /\ \A d \in Devices, id \in SessionIds : Carries(d, id) => id \in issued

\* A sign-in starts signed out and a refresh from the tokens it will replace.
FlowsAreHonest ==
  \A d \in Devices :
    /\ trigger[d].pc \in {"postAuth", "bump", "issue"} => tokens[d] = NoToken
    /\ trigger[d].pc \in {"compare", "reissue"} =>
         tokens[d] \in {NoToken, trigger[d].id}
    /\ trigger[d].pc = "issue" => active # Empty

IInv == SessionTypeOK /\ CarriedOnce /\ UsedIsIssued /\ FlowsAreHonest

LEMMA InitInv == Init => IInv
<1>. SUFFICES ASSUME Init PROVE IInv
  OBVIOUS
<1>. USE SessionAssumption DEF Init
<1>1. SessionTypeOK
  BY DEF SessionTypeOK, Claims, Flow, Idle
<1>2. CarriedOnce
  BY DEF CarriedOnce, Carries, Idle
<1>3. UsedIsIssued
  BY DEF UsedIsIssued, Carries, Idle, Claims
<1>4. FlowsAreHonest
  BY DEF FlowsAreHonest, Idle
<1>. QED
  BY <1>1, <1>2, <1>3, <1>4 DEF IInv

\* A fresh id is carried by no device.
LEMMA FreshIsUncarried ==
  ASSUME IInv, NEW id \in SessionIds, Fresh(id), NEW d \in Devices
  PROVE  ~Carries(d, id) /\ tokens[d] # id
  BY DEF IInv, UsedIsIssued, Fresh, Carries

LEMMA StepInv == IInv /\ [Next]_vars => IInv'
<1>. SUFFICES ASSUME IInv, [Next]_vars PROVE IInv'
  OBVIOUS
<1>. USE SessionAssumption
<1>1. ASSUME NEW d \in Devices, SignIn(d) PROVE IInv'
  BY <1>1 DEF IInv, SessionTypeOK, CarriedOnce, UsedIsIssued, FlowsAreHonest, Carries, SignIn, Goto, Flow, Claims
<1>2. ASSUME NEW d \in Devices, PostAuthentication(d) PROVE IInv'
  BY <1>2 DEF IInv, SessionTypeOK, CarriedOnce, UsedIsIssued, FlowsAreHonest, Carries, PostAuthentication, Goto, Flow, Claims
<1>3. ASSUME NEW d \in Devices, NEW id \in SessionIds, Bump(d, id) PROVE IInv'
  <2>1. SessionTypeOK'
    BY <1>3 DEF IInv, SessionTypeOK, Bump, Goto, Flow, Claims, Fresh
  <2>2. CarriedOnce'
    BY <1>3, FreshIsUncarried DEF IInv, SessionTypeOK, CarriedOnce, Carries, Bump, Goto
  <2>3. UsedIsIssued'
    BY <1>3 DEF IInv, SessionTypeOK, UsedIsIssued, Carries, Bump, Goto
  <2>4. FlowsAreHonest'
    BY <1>3 DEF IInv, SessionTypeOK, FlowsAreHonest, Bump, Goto, Fresh
  <2>. QED
    BY <2>1, <2>2, <2>3, <2>4 DEF IInv
<1>4. ASSUME NEW d \in Devices, GiveUpRun(d) PROVE IInv'
  BY <1>4 DEF IInv, SessionTypeOK, CarriedOnce, UsedIsIssued, FlowsAreHonest, Carries, GiveUpRun
<1>5. ASSUME NEW id \in SessionIds, OrphanBump(id) PROVE IInv'
  BY <1>5 DEF IInv, SessionTypeOK, CarriedOnce, UsedIsIssued, FlowsAreHonest, Carries, OrphanBump, Fresh, Claims
<1>6. ASSUME NEW d \in Devices, RetryRun(d) PROVE IInv'
  BY <1>6 DEF IInv, SessionTypeOK, CarriedOnce, UsedIsIssued, FlowsAreHonest, Carries, RetryRun, Goto, Flow, Claims
<1>7. ASSUME NEW d \in Devices, IssueTokens(d) PROVE IInv'
  BY <1>7 DEF IInv, SessionTypeOK, CarriedOnce, UsedIsIssued, FlowsAreHonest, Carries, IssueTokens, Finish, Idle, Flow, Claims
<1>8. ASSUME NEW d \in Devices, Refresh(d) PROVE IInv'
  BY <1>8 DEF IInv, SessionTypeOK, CarriedOnce, UsedIsIssued, FlowsAreHonest, Carries, Refresh, Goto, Flow, Claims
<1>9. ASSUME NEW d \in Devices, CompareAccepts(d) PROVE IInv'
  BY <1>9 DEF IInv, SessionTypeOK, CarriedOnce, UsedIsIssued, FlowsAreHonest, Carries, CompareAccepts, Goto, Flow, Claims
<1>10. ASSUME NEW d \in Devices, CompareDenies(d) PROVE IInv'
  BY <1>10 DEF IInv, SessionTypeOK, CarriedOnce, UsedIsIssued, FlowsAreHonest, Carries, CompareDenies, Finish, Idle, Flow, Claims
<1>11. ASSUME NEW d \in Devices, ReissueTokens(d) PROVE IInv'
  BY <1>11 DEF IInv, SessionTypeOK, CarriedOnce, UsedIsIssued, FlowsAreHonest, Carries, ReissueTokens, Finish, Idle, Flow, Claims
<1>12. ASSUME NEW d \in Devices, AbandonFlow(d) PROVE IInv'
  BY <1>12 DEF IInv, SessionTypeOK, CarriedOnce, UsedIsIssued, FlowsAreHonest, Carries, AbandonFlow, Finish, Idle, Flow, Claims
<1>13. ASSUME NEW d \in Devices, GuardRejects(d) \/ SignOut(d) PROVE IInv'
  BY <1>13 DEF IInv, SessionTypeOK, CarriedOnce, UsedIsIssued, FlowsAreHonest, Carries, GuardRejects, SignOut, Flow, Claims
<1>14. CASE UNCHANGED vars
  BY <1>14 DEF vars, IInv, SessionTypeOK, CarriedOnce, UsedIsIssued, FlowsAreHonest, Carries
<1>. QED
  BY <1>1, <1>2, <1>3, <1>4, <1>5, <1>6, <1>7, <1>8, <1>9, <1>10, <1>11, <1>12, <1>13, <1>14
  DEF Next, SignInStep, RefreshStep

LEMMA SpecInv == Spec => []IInv
  BY InitInv, StepInv, PTL DEF Spec

\* Every reachable state is of the declared types.
THEOREM SessionTypeCorrect == Spec => []SessionTypeOK
<1>. IInv => SessionTypeOK
  BY DEF IInv
<1>. QED
  BY SpecInv, PTL

\* Once the student has signed in, no two devices pass the guard.
THEOREM OneSessionAtMost == Spec => []AtMostOneSession
<1>. IInv => AtMostOneSession
  BY DEF IInv, SessionTypeOK, CarriedOnce, AtMostOneSession, Passes, Carries, Claims
<1>. QED
  BY SpecInv, PTL

\* A device signed in elsewhere passes again only by a sign-in of its own.
THEOREM SupersededNeverReturns == Spec => SupersededStaysOut
<1>. DEFINE Stays(d) == Superseded(d) /\ trigger[d].pc # "issue" => ~Passes(d)'
<1>1. ASSUME IInv, [Next]_vars, NEW d \in Devices PROVE Stays(d)
  <2>. SUFFICES ASSUME Superseded(d), trigger[d].pc # "issue" PROVE ~Passes(d)'
    OBVIOUS
  <2>1. ASSUME active' = active, tokens'[d] \in {tokens[d], NoToken} PROVE ~Passes(d)'
    BY <2>1 DEF Superseded, Passes
  <2>2. ASSUME NEW id \in SessionIds, Fresh(id), active' = id, tokens' = tokens PROVE ~Passes(d)'
    <3>1. tokens[d] # id
      BY <1>1, <2>2, FreshIsUncarried
    <3>. QED
      BY <2>2, <3>1, SessionAssumption DEF Passes
  <2>3. ASSUME NEW e \in Devices, IssueTokens(e) PROVE ~Passes(d)'
    <3>1. e # d
      BY <2>3 DEF IssueTokens
    <3>. QED
      BY <1>1, <2>1, <2>3, <3>1 DEF IssueTokens, IInv, SessionTypeOK
  <2>4. ASSUME NEW e \in Devices, ReissueTokens(e) PROVE ~Passes(d)'
    <3>1. tokens'[d] \in {tokens[d], NoToken}
      <4>1. CASE e = d
        <5>1. tokens'[d] = trigger[d].id
          BY <1>1, <2>4, <4>1 DEF ReissueTokens, IInv, SessionTypeOK
        <5>2. tokens[d] = trigger[d].id
          BY <1>1, <2>4, <4>1 DEF ReissueTokens, IInv, FlowsAreHonest, Superseded
        <5>. QED
          BY <5>1, <5>2
      <4>2. CASE e # d
        BY <1>1, <2>4, <4>2 DEF ReissueTokens, IInv, SessionTypeOK
      <4>. QED
        BY <4>1, <4>2
    <3>. QED
      BY <2>1, <2>4, <3>1 DEF ReissueTokens
  <2>5. ASSUME NEW e \in Devices, NEW id \in SessionIds, Bump(e, id) PROVE ~Passes(d)'
    BY <2>2, <2>5 DEF Bump
  <2>6. ASSUME NEW id \in SessionIds, OrphanBump(id) PROVE ~Passes(d)'
    BY <2>2, <2>6 DEF OrphanBump
  <2>7. ASSUME NEW e \in Devices,
               SignIn(e) \/ PostAuthentication(e) \/ GiveUpRun(e) \/ RetryRun(e)
                 \/ Refresh(e) \/ CompareAccepts(e) \/ AbandonFlow(e)
        PROVE  ~Passes(d)'
    BY <2>1, <2>7 DEF SignIn, PostAuthentication, GiveUpRun, RetryRun, Refresh, CompareAccepts, AbandonFlow
  <2>8. ASSUME NEW e \in Devices, CompareDenies(e) \/ GuardRejects(e) \/ SignOut(e)
        PROVE  ~Passes(d)'
    BY <1>1, <2>1, <2>8 DEF CompareDenies, GuardRejects, SignOut, IInv, SessionTypeOK
  <2>9. CASE UNCHANGED vars
    BY <2>1, <2>9 DEF vars
  <2>. QED
    BY <1>1, <2>3, <2>4, <2>5, <2>6, <2>7, <2>8, <2>9 DEF Next, SignInStep, RefreshStep
<1>2. IInv /\ [Next]_vars => [\A d \in Devices : Stays(d)]_vars
  BY <1>1
<1>. QED
  BY <1>2, SpecInv, PTL DEF Spec, SupersededStaysOut

-----------------------------------------------------------------------------
(* Refinement *)

LEMMA InitMaps == Init => Single!Init
  BY DEF Init, Single!Init, Heirs, Passes

\* A bump shuts everybody out and leaves at most the heirs it names.
LEMMA TakeOverMaps ==
  ASSUME IInv, NEW id \in SessionIds, Fresh(id), active' = id, tokens' = tokens,
         NEW H \in {{}} \cup {{d} : d \in Devices}, Heirs' = H
  PROVE  Single!Next
<1>1. \A d \in Devices : ~Passes(d)'
  <2>. SUFFICES ASSUME NEW d \in Devices PROVE ~Passes(d)'
    OBVIOUS
  <2>1. tokens[d] # id
    BY FreshIsUncarried
  <2>. QED
    BY <2>1, SessionAssumption DEF Passes
<1>2. {d \in Devices : Passes(d)}' = {}
  BY <1>1
<1>3. Single!TakeOver(H)
  BY <1>2, SessionAssumption DEF Single!TakeOver
<1>. QED
  BY <1>3 DEF Single!Next

\* A step of one device's flow that gives it no session it did not carry.
LEMMA LocalMaps ==
  ASSUME NEW d \in Devices, active' = active,
         \A e \in Devices \ {d} :
           Passes(e)' = Passes(e) /\ Carries(e, active)' = Carries(e, active),
         active # Empty /\ Carries(d, active)' => Carries(d, active)
  PROVE  [Single!Next]_Single!sessionVars
<1>. DEFINE Adm == {e \in Devices : Passes(e)}
<1>1. Adm' \in {Adm, Adm \cup {d}, Adm \ {d}}
  <2>1. CASE Passes(d)'
    <3>. Adm' = Adm \cup {d}
      BY <2>1
    <3>. QED
      OBVIOUS
  <2>2. CASE ~Passes(d)'
    <3>. Adm' = Adm \ {d}
      BY <2>2
    <3>. QED
      OBVIOUS
  <2>. QED
    BY <2>1, <2>2
<1>2. Heirs' \in {Heirs, Heirs \ {d}}
  <2>1. CASE active = Empty
    BY <2>1 DEF Heirs
  <2>2. CASE active # Empty /\ Carries(d, active)'
    <3>. Heirs' = Heirs
      BY <2>2 DEF Heirs
    <3>. QED
      OBVIOUS
  <2>3. CASE active # Empty /\ ~Carries(d, active)'
    <3>. Heirs' = Heirs \ {d}
      BY <2>3 DEF Heirs
    <3>. QED
      OBVIOUS
  <2>. QED
    BY <2>1, <2>2, <2>3
<1>3. d \in Adm' => d \in Heirs'
  BY DEF Heirs, Passes, Carries
<1>4. active = Empty => Heirs' = Heirs
  BY DEF Heirs
<1>5. CASE Heirs' = Heirs /\ Adm' = Adm \cup {d} /\ d \in Adm'
  <2>. Single!Admit(d)
    BY <1>3, <1>5 DEF Single!Admit
  <2>. QED
    BY DEF Single!Next
<1>6. CASE Heirs' = Heirs /\ Adm' = Adm
  BY <1>6 DEF Single!sessionVars
<1>7. CASE Heirs' = Heirs /\ Adm' = Adm \ {d}
  <2>. Single!Leave(d)
    BY <1>7 DEF Single!Leave
  <2>. QED
    BY DEF Single!Next
<1>8. CASE Heirs' # Heirs
  <2>1. Heirs' = Heirs \ {d}
    BY <1>2, <1>8
  <2>2. d \notin Adm'
    BY <1>3, <2>1
  <2>3. Adm' = Adm \ {d}
    BY <1>1, <2>2
  <2>4. Single!Renounce(d)
    BY <1>4, <1>8, <2>1, <2>3 DEF Single!Renounce
  <2>. QED
    BY <2>4 DEF Single!Next
<1>. QED
  BY <1>1, <1>2, <1>5, <1>6, <1>7, <1>8

LEMMA NextMaps == IInv /\ [Next]_vars => [Single!Next]_Single!sessionVars
<1>. SUFFICES ASSUME IInv, [Next]_vars PROVE [Single!Next]_Single!sessionVars
  OBVIOUS
<1>. USE SessionAssumption
<1>1. ASSUME NEW d \in Devices, NEW id \in SessionIds, Bump(d, id)
      PROVE  Single!Next
  <2>1. \A e \in Devices : Carries(e, active)' <=> e = d
    <3>. SUFFICES ASSUME NEW e \in Devices PROVE Carries(e, active)' <=> e = d
      OBVIOUS
    <3>1. ~Carries(e, id)
      BY <1>1, FreshIsUncarried DEF Bump
    <3>. QED
      BY <1>1, <3>1 DEF Bump, Goto, Carries, IInv, SessionTypeOK
  <2>2. Heirs' = {d}
    BY <1>1, <2>1 DEF Heirs, Bump
  <2>. QED
    BY <1>1, <2>2, TakeOverMaps DEF Bump
<1>2. ASSUME NEW id \in SessionIds, OrphanBump(id) PROVE Single!Next
  <2>1. \A e \in Devices : ~Carries(e, active)'
    <3>. SUFFICES ASSUME NEW e \in Devices PROVE ~Carries(e, active)'
      OBVIOUS
    <3>1. ~Carries(e, id)
      BY <1>2, FreshIsUncarried DEF OrphanBump
    <3>. QED
      BY <1>2, <3>1 DEF OrphanBump, Carries
  <2>2. Heirs' = {}
    BY <1>2, <2>1 DEF Heirs, OrphanBump
  <2>. QED
    BY <1>2, <2>2, TakeOverMaps DEF OrphanBump
<1>3. ASSUME NEW d \in Devices,
             SignIn(d) \/ PostAuthentication(d) \/ RetryRun(d) \/ Refresh(d)
               \/ CompareAccepts(d) \/ AbandonFlow(d)
      PROVE  [Single!Next]_Single!sessionVars
  <2>1. active' = active /\ tokens' = tokens
    BY <1>3 DEF SignIn, PostAuthentication, RetryRun, Refresh, CompareAccepts, AbandonFlow
  <2>2. \A e \in Devices \ {d} : trigger'[e] = trigger[e]
    BY <1>3 DEF SignIn, PostAuthentication, RetryRun, Refresh, CompareAccepts, AbandonFlow, Goto, Finish, IInv, SessionTypeOK
  <2>3. \A e \in Devices \ {d} :
          Passes(e)' = Passes(e) /\ Carries(e, active)' = Carries(e, active)
    BY <2>1, <2>2 DEF Passes, Carries
  <2>4. active # Empty /\ Carries(d, active)' => Carries(d, active)
    BY <1>3, <2>1 DEF SignIn, PostAuthentication, RetryRun, Refresh, CompareAccepts, AbandonFlow, Goto, Finish, Idle, Carries, IInv, SessionTypeOK
  <2>. QED
    BY <2>1, <2>3, <2>4, LocalMaps
<1>4. ASSUME NEW d \in Devices,
             IssueTokens(d) \/ ReissueTokens(d) \/ CompareDenies(d)
               \/ GuardRejects(d) \/ SignOut(d)
      PROVE  [Single!Next]_Single!sessionVars
  <2>1. active' = active
    BY <1>4 DEF IssueTokens, ReissueTokens, CompareDenies, GuardRejects, SignOut
  <2>2. \A e \in Devices \ {d} : trigger'[e] = trigger[e] /\ tokens'[e] = tokens[e]
    BY <1>4 DEF IssueTokens, ReissueTokens, CompareDenies, GuardRejects, SignOut, Finish, IInv, SessionTypeOK
  <2>3. \A e \in Devices \ {d} :
          Passes(e)' = Passes(e) /\ Carries(e, active)' = Carries(e, active)
    BY <2>1, <2>2 DEF Passes, Carries
  <2>4. active # Empty /\ Carries(d, active)' => Carries(d, active)
    BY <1>4, <2>1 DEF IssueTokens, ReissueTokens, CompareDenies, GuardRejects, SignOut, Finish, Idle, Carries, IInv, SessionTypeOK, Claims
  <2>. QED
    BY <2>1, <2>3, <2>4, LocalMaps
<1>5. ASSUME NEW d \in Devices, GiveUpRun(d)
      PROVE  [Single!Next]_Single!sessionVars
  BY <1>5 DEF GiveUpRun, Single!sessionVars, Heirs, Carries, Passes
<1>6. CASE UNCHANGED vars
  BY <1>6 DEF vars, Single!sessionVars, Heirs, Carries, Passes
<1>. QED
  BY <1>1, <1>2, <1>3, <1>4, <1>5, <1>6 DEF Next, SignInStep, RefreshStep

\* The triggers, refreshes and guards implement the abstract single session.
THEOREM SessionImplementsSingle == Spec => ImplementsSingleSession
  BY InitMaps, NextMaps, SpecInv, PTL DEF Spec, Single!Spec, ImplementsSingleSession

=============================================================================
