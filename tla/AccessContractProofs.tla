------------------------ MODULE AccessContractProofs ------------------------
(***************************************************************************)
(* AccessFlow implements AccessContract, for every set of agents whose     *)
(* dialogs report the button that was pressed.  A user's answer is the     *)
(* contract's Confirm, an installed key its Grant, and every other step a  *)
(* Record or nothing.  OutcomeInv has most of what is needed; what it does *)
(* not say is where approvals come from: whatever claims that r was        *)
(* approved, in memory, in the file or on its way, somebody confirmed r.   *)
(***************************************************************************)
EXTENDS AccessFlowProofs

USE DEF Absent, Pending, DeniedLocal, Approved, Expired, VerificationFailed, Connected,
        Durable!Absent, Durable!Pending, Durable!DeniedLocal, Durable!Approved,
        Durable!Expired, Durable!VerificationFailed, Durable!Connected,
        Contract!Absent, Contract!Pending, Contract!DeniedLocal, Contract!Approved,
        Contract!Expired, Contract!VerificationFailed, Contract!Connected

-----------------------------------------------------------------------------
(* The statuses of a request that was approved and did not expire.         *)
ApprovedOrLater == {Approved} \union Results

(* Somebody says, or may yet say, that r was approved.                     *)
Claimed(r) ==
  \/ items[r].status \in ApprovedOrLater
  \/ disk[r].status \in ApprovedOrLater
  \/ <<"approve", r>> \in late

ClaimIsConfirmed ==
  \A r \in RequestIds : Claimed(r) => \E a \in Agents : <<a, r>> \in confirmed

(* The inductive invariant of the refinement.                              *)
ContractInv == OutcomeInv /\ HeldIsConfirmed /\ ClaimIsConfirmed

-----------------------------------------------------------------------------
(* Only SetLocalDecision approves.                                         *)
NoNewApproval ==
  \A r \in RequestIds :
    /\ items'[r].status \in ApprovedOrLater =>
         items[r].status \in ApprovedOrLater \/ disk[r].status \in ApprovedOrLater
    /\ disk'[r].status \in {disk[r].status, items'[r].status}

LEMMA OthersApproveNothing ==
  ASSUME TypeOK, StoreAssumption,
         \/ \E q \in RequestIds : \/ Create(q) \/ Get(q)
                                  \/ SetLocalDecision(q, DeniedLocal)
                                  \/ TooLate(q)
         \/ \E q \in RequestIds, result \in Results : SetResult(q, result)
         \/ ListPendingForDevice \/ InstallOperationPersists \/ Restart \/ Tick
         \/ UNCHANGED storeVars
  PROVE  NoNewApproval
  <1> USE DEF NoNewApproval, ApprovedOrLater, Results, Persisted, PersistFails
  <1>0. \A r \in RequestIds : items[r] \in Request
    BY DEF TypeOK
  <1>1. ASSUME NEW q \in RequestIds, Create(q) PROVE NoNewApproval
    <2>1. Draw(q) /\ (disk' = items' \/ disk' = disk)
      BY <1>1 DEF Create, CreateSaved, CreateUnsaved
    <2> QED
      BY <2>1, DrawSteps
  <1>2. ASSUME NEW q \in RequestIds, ExpireItem(q), disk' = items' \/ disk' = disk
        PROVE  NoNewApproval
    <2>1. \A r \in RequestIds : items'[r] = items[r] \/ items'[r].status = Expired
      BY <1>0, <1>2, ExpireItemSteps DEF expireIfNeeded, Request
    <2> QED
      BY <1>2, <2>1
  <1>3. ASSUME NEW q \in RequestIds, NEW from \in Unfinished, NEW to \in Statuses,
               from = Approved \/ to = DeniedLocal,
               MoveSaved(q, from, to) \/ MoveUnsaved(q, from, to)
        PROVE  NoNewApproval
    <2>1. Move(q, from, to) /\ (disk' = items' \/ disk' = disk)
      BY <1>3 DEF MoveSaved, MoveUnsaved
    <2> QED
      BY <1>3, <2>1, MoveSteps
  <1>4. ASSUME ListPendingForDevice PROVE NoNewApproval
    <2>1. ExpireAll /\ (disk' = items' \/ disk' = disk)
      BY <1>4 DEF ListPendingForDevice, ListSaved, ListUnsaved
    <2>2. \A r \in RequestIds : items'[r] = items[r] \/ items'[r].status = Expired
      BY <1>0, <2>1, ExpireAllSteps DEF expireIfNeeded, Request
    <2> QED
      BY <2>1, <2>2
  <1>5. ASSUME InstallOperationPersists \/ Restart \/ Tick \/ UNCHANGED storeVars
        PROVE  NoNewApproval
    BY <1>5 DEF InstallOperationPersists, Restart, Tick, storeVars
  <1>6. ASSUME NEW q \in RequestIds, Get(q) \/ TooLate(q) PROVE NoNewApproval
    BY <1>2, <1>6 DEF Get, TooLate
  <1>7. ASSUME NEW q \in RequestIds, SetLocalDecision(q, DeniedLocal) PROVE NoNewApproval
    <2>1. Pending \in Unfinished /\ DeniedLocal \in Statuses
      BY DEF Unfinished, Finished, Statuses
    <2> QED
      BY <1>3, <1>6, <1>7, <2>1 DEF SetLocalDecision
  <1>8. ASSUME NEW q \in RequestIds, NEW result \in Results, SetResult(q, result)
        PROVE  NoNewApproval
    <2>1. Approved \in Unfinished /\ result \in Statuses
      BY DEF Unfinished, Finished, Statuses
    <2> QED
      BY <1>3, <1>6, <1>8, <2>1 DEF SetResult
  <1> QED
    BY <1>1, <1>4, <1>5, <1>6, <1>7, <1>8

(* An approval is written for its own request.                             *)
LEMMA ApprovalMade ==
  ASSUME TypeOK, NEW q \in RequestIds,
         MoveSaved(q, Pending, Approved) \/ MoveUnsaved(q, Pending, Approved)
  PROVE  /\ \A r \in RequestIds : r = q \/ items'[r] = items[r]
         /\ \A r \in RequestIds : disk'[r].status \in {disk[r].status, items'[r].status}
  <1>1. Move(q, Pending, Approved) /\ (disk' = items' \/ disk' = disk)
    BY DEF MoveSaved, MoveUnsaved, Persisted, PersistFails
  <1>2. Pending \in Unfinished /\ Approved \in Statuses
    BY DEF Unfinished, Finished, Statuses
  <1> QED
    BY <1>1, <1>2, MoveSteps

-----------------------------------------------------------------------------
(* What is claimed was claimed before, or its agent just approved it.      *)
NewClaimsAreHeld ==
  \A r \in RequestIds :
    Claimed(r)' => Claimed(r) \/ \E a \in Agents : req[a] = r /\ pc[a] = "approve"

LEMMA ClaimsComeFromAgents ==
  ASSUME StoreAssumption, FlowTypeOK, TypeOK, [FlowNext]_flowVars
  PROVE  NewClaimsAreHeld
  <1> USE DEF NewClaimsAreHeld
  <1>1. ASSUME NoNewApproval, late' \subseteq late PROVE NewClaimsAreHeld
    BY <1>1 DEF NoNewApproval, Claimed
  <1>2. ASSUME NEW a \in Agents, UNCHANGED storeVars,
               late' = late \/ late' = late \union {<<pc[a], req[a]>>}
        PROVE  NewClaimsAreHeld
    BY <1>2 DEF Claimed, storeVars
  <1>3. ASSUME NEW q \in RequestIds, late' \subseteq late,
               Claimed(q) \/ \E a \in Agents : req[a] = q /\ pc[a] = "approve",
               MoveSaved(q, Pending, Approved) \/ MoveUnsaved(q, Pending, Approved)
        PROVE  NewClaimsAreHeld
    BY <1>3, ApprovalMade DEF Claimed
  <1>4. ASSUME NEW a \in Agents, PostLocalDecision(a) PROVE NewClaimsAreHeld
    <2>1. req[a] \in RequestIds /\ late' = late
      BY <1>4 DEF PostLocalDecision, FlowTypeOK
    <2>2. CASE TooLate(req[a]) \/ Rejected(req[a], Pending)
      BY <1>1, <2>1, <2>2, OthersApproveNothing DEF Rejected
    <2>3. CASE pc[a] = "approve"
      BY <1>3, <1>4, <2>1, <2>2, <2>3 DEF PostLocalDecision, Verdict
    <2>4. CASE pc[a] = "deny"
      BY <1>1, <1>4, <2>1, <2>4, OthersApproveNothing
      DEF PostLocalDecision, Verdict, SetLocalDecision, Rejected
    <2> QED
      BY <1>4, <2>3, <2>4 DEF PostLocalDecision
  <1>5. ASSUME NEW a \in Agents, PostResult(a) PROVE NewClaimsAreHeld
    <2>1. /\ req[a] \in RequestIds /\ Outcome(pc[a]) \in Results /\ late' = late
      BY <1>5 DEF PostResult, FlowTypeOK, Outcome, Results
    <2> QED
      BY <1>1, <1>5, <2>1, OthersApproveNothing DEF PostResult, SetResult, Rejected
  <1>6. ASSUME NEW call \in Calls, NEW q \in RequestIds, HandleLate(call, q)
        PROVE  NewClaimsAreHeld
    <2>1. late' \subseteq late /\ <<call, q>> \in late
      BY <1>6 DEF HandleLate
    <2>2. CASE call = "approve"
      <3>1. Claimed(q)
        BY <2>1, <2>2 DEF Claimed
      <3>2. SetLocalDecision(q, Approved)
        BY <1>6, <2>2 DEF HandleLate, Verdict
      <3>3. CASE TooLate(q)
        BY <1>1, <2>1, <3>3, OthersApproveNothing
      <3> QED
        BY <1>3, <2>1, <3>1, <3>2, <3>3 DEF SetLocalDecision
    <2>3. CASE call # "approve"
      <3>1. Verdict(call) = DeniedLocal /\ Outcome(call) \in Results
        BY <2>3 DEF Verdict, Outcome, Results
      <3> QED
        BY <1>1, <1>6, <2>1, <3>1, OthersApproveNothing DEF HandleLate
    <2> QED
      BY <2>2, <2>3
  <1>7. ASSUME NEW a \in Agents, GiveUp(a) \/ AgentRestart(a) PROVE NewClaimsAreHeld
    BY <1>2, <1>7 DEF GiveUp, AgentRestart
  <1>8. ASSUME NEW a \in Agents, Poll(a) \/ BundleLookup(a) PROVE NewClaimsAreHeld
    <2>1. BundleLookup(a) => req[a] \in RequestIds
      BY DEF BundleLookup, FlowTypeOK
    <2> QED
      BY <1>1, <1>8, <2>1, OthersApproveNothing DEF Poll, BundleLookup
  <1>9. ASSUME NEW a \in Agents,
               \/ \E r \in RequestIds : Begin(a, r)
               \/ \E choice, approved \in BOOLEAN : UserAnswers(a, choice, approved)
               \/ NobodyAnswers(a) \/ BundleSign(a) \/ Verify(a) \/ InstallKey(a)
        PROVE  NewClaimsAreHeld
    BY <1>2, <1>9 DEF Begin, UserAnswers, NobodyAnswers, BundleSign, Verify, InstallKey
  <1>10. ASSUME NEW call \in Calls, NEW r \in RequestIds, LoseLate(call, r)
         PROVE  NewClaimsAreHeld
    BY <1>1, <1>10, OthersApproveNothing DEF LoseLate
  <1>11. ASSUME ControlPlaneRestart \/ Environment PROVE NewClaimsAreHeld
    BY <1>1, <1>11, OthersApproveNothing DEF ControlPlaneRestart, Environment
  <1>12. ASSUME UNCHANGED flowVars PROVE NewClaimsAreHeld
    BY <1>1, <1>12, OthersApproveNothing DEF flowVars, storeVars
  <1> QED
    BY <1>4, <1>5, <1>6, <1>7, <1>8, <1>9, <1>10, <1>11, <1>12 DEF FlowNext, Process

-----------------------------------------------------------------------------
(* The three kinds of step the contract tells apart.                       *)
Answers(a) ==
  /\ pc[a] = "prompt"
  /\ confirmed' = confirmed \union {<<a, req[a]>>}
  /\ UNCHANGED <<storeVars, keys>>

Installs(a) ==
  /\ pc[a] = "install"
  /\ keys' = keys \union {<<a, req[a]>>}
  /\ UNCHANGED <<storeVars, confirmed>>

LEMMA HistorySteps ==
  ASSUME [FlowNext]_flowVars
  PROVE  UNCHANGED <<confirmed, keys>> \/ \E a \in Agents : Answers(a) \/ Installs(a)
  <1>1. ASSUME NEW a \in Agents, NEW choice \in BOOLEAN, NEW approved \in BOOLEAN,
               UserAnswers(a, choice, approved)
        PROVE  UNCHANGED <<confirmed, keys>> \/ Answers(a)
    BY <1>1 DEF UserAnswers, Answers
  <1>2. ASSUME NEW a \in Agents, InstallKey(a)
        PROVE  UNCHANGED <<confirmed, keys>> \/ Installs(a)
    BY <1>2 DEF InstallKey, Installs
  <1>3. ASSUME NEW a \in Agents,
               \/ Poll(a) \/ \E r \in RequestIds : Begin(a, r)
               \/ NobodyAnswers(a) \/ PostLocalDecision(a) \/ BundleLookup(a)
               \/ BundleSign(a) \/ Verify(a) \/ PostResult(a) \/ GiveUp(a)
               \/ AgentRestart(a)
        PROVE  UNCHANGED <<confirmed, keys>>
    BY <1>3
    DEF Poll, Begin, NobodyAnswers, PostLocalDecision, BundleLookup, BundleSign, Verify,
        PostResult, GiveUp, AgentRestart
  <1>4. ASSUME \/ \E call \in Calls, r \in RequestIds :
                    HandleLate(call, r) \/ LoseLate(call, r)
               \/ ControlPlaneRestart \/ Environment \/ UNCHANGED flowVars
        PROVE  UNCHANGED <<confirmed, keys>>
    BY <1>4 DEF HandleLate, LoseLate, ControlPlaneRestart, Environment, flowVars
  <1> QED
    BY <1>1, <1>2, <1>3, <1>4 DEF FlowNext, Process

LEMMA ContractInvStep ==
  ASSUME StoreAssumption, FlowAssumption, MacAgents = {}, ContractInv, [FlowNext]_flowVars
  PROVE  ContractInv'
  <1>1. OutcomeInv'
    BY WorkInvStep, ReportsStep, KeyIsReportedNextStep, SignsUnlessExpiredStep
    DEF ContractInv, OutcomeInv
  <1>2. HeldIsConfirmed'
    BY HeldIsConfirmedStep DEF ContractInv, OutcomeInv, WorkInv
  <1>3. confirmed \subseteq confirmed'
    BY HistorySteps DEF Answers, Installs
  <1>4. NewClaimsAreHeld
    BY ClaimsComeFromAgents DEF ContractInv, OutcomeInv, WorkInv, StoreInv
  <1>5. ClaimIsConfirmed'
    BY <1>3, <1>4
    DEF NewClaimsAreHeld, ContractInv, ClaimIsConfirmed, HeldIsConfirmed, Holds
  <1> QED
    BY <1>1, <1>2, <1>5 DEF ContractInv

-----------------------------------------------------------------------------
(* The key of a request is installed once, on an approval that stands.     *)
LEMMA InstallIsGrant ==
  ASSUME ContractInv, NEW a \in Agents, Installs(a)
  PROVE  Contract!Grant(a, req[a])
  <1>1. /\ req[a] \in RequestIds /\ WorksFor(a, req[a]) /\ AtWork(a, req[a])
        /\ <<a, req[a]>> \notin keys
        /\ <<a, req[a]>> \in confirmed
    BY DEF Installs, ContractInv, OutcomeInv, WorkInv, FlowTypeOK, WorksFor, AtWork,
           PastApproval, KeyIsReportedNext, HeldIsConfirmed, Holds
  <1>2. Approved \in acked[req[a]]
    BY <1>1 DEF ContractInv, OutcomeInv, WorkInv
  <1>3. disk[req[a]].status \notin Results
    BY <1>1 DEF ContractInv, OutcomeInv, ReportEndsWork, Reported
  <1>4. Durable!Reached(Approved, disk[req[a]].status)
    BY <1>1, <1>2 DEF ContractInv, OutcomeInv, WorkInv, StoreInv, AnswersAreDurable
  <1>5. disk[req[a]].status \in {Approved, Expired}
    BY <1>3, <1>4
    DEF Durable!Reached, Durable!Precedes, Durable!Unfinished, Durable!Finished, Results
  <1>6. \A b \in Agents : <<b, req[a]>> \notin keys
    BY <1>1 DEF ContractInv, OutcomeInv, WorkInv, OneAgentPerRequest, WorksFor
  <1> QED
    BY <1>1, <1>2, <1>5, <1>6
    DEF Installs, Contract!Grant, Contract!Granted, storeVars

(* What the file comes to say of a request is true.                        *)
LEMMA FileIsTrue ==
  ASSUME ContractInv', UNCHANGED <<confirmed, keys>>, NEW r \in RequestIds
  PROVE  Contract!IsTrueOf(r, disk'[r].status)
  <1>1. disk'[r].status \in {Approved, VerificationFailed, Connected} => Contract!Confirmed(r)
    BY DEF ContractInv, ClaimIsConfirmed, Claimed, ApprovedOrLater, Results,
           Contract!Confirmed
  <1>2. disk'[r].status = Connected => Contract!Granted(r)
    BY DEF ContractInv, OutcomeInv, ReportIsTrue, Reported, Contract!Granted
  <1>3. disk'[r].status = VerificationFailed => ~Contract!Granted(r)
    BY DEF ContractInv, OutcomeInv, ReportIsTrue, Reported, Contract!Granted
  <1>4. ASSUME disk'[r].status = DeniedLocal, NEW a \in Agents, <<a, r>> \in keys
        PROVE  FALSE
    <2>1. Approved \in acked'[r]
      BY <1>4 DEF ContractInv, OutcomeInv, WorkInv, WorksFor
    <2>2. Durable!Reached(Approved, DeniedLocal)
      BY <1>4, <2>1
      DEF ContractInv, OutcomeInv, WorkInv, StoreInv, AnswersAreDurable, Durable!Reached,
          Durable!Precedes
    <2> QED
      BY <2>2 DEF Durable!Reached, Durable!Precedes
  <1> QED
    BY <1>1, <1>2, <1>3, <1>4 DEF Contract!IsTrueOf, Contract!Granted

(* The contract's own lifecycle is that of DurableLifecycle.               *)
LEMMA SameLifecycle ==
  ASSUME Durable!Next
  PROVE  Contract!Next
  BY DEF Durable!Next, Durable!Progress, Durable!Answer, Durable!MovesForward,
         Durable!Reached, Durable!Precedes, Durable!Statuses, Durable!Unfinished,
         Durable!Finished, Contract!Next, Contract!Progress, Contract!Answer,
         Contract!MovesForward, Contract!Reached, Contract!Precedes, Contract!Statuses,
         Contract!Unfinished, Contract!Finished

LEMMA StepIsContractual ==
  ASSUME StoreAssumption, FlowAssumption, MacAgents = {}, ContractInv, [FlowNext]_flowVars
  PROVE  [Contract!ContractNext]_Contract!contractVars
  <1> USE DEF Contract!ContractNext
  <1>1. ASSUME NEW a \in Agents, Answers(a) PROVE Contract!ContractNext
    <2>1. req[a] \in RequestIds
      BY <1>1 DEF Answers, ContractInv, OutcomeInv, WorkInv, FlowTypeOK
    <2>2. Contract!Confirm(a, req[a])
      BY <1>1 DEF Answers, Contract!Confirm, storeVars
    <2> QED
      BY <2>1, <2>2
  <1>2. ASSUME NEW a \in Agents, Installs(a) PROVE Contract!ContractNext
    <2>1. req[a] \in RequestIds
      BY <1>2 DEF Installs, ContractInv, OutcomeInv, WorkInv, FlowTypeOK
    <2> QED
      BY <1>2, <2>1, InstallIsGrant
  <1>3. CASE UNCHANGED <<confirmed, keys>>
    <2>1. [Durable!Next]_Durable!vars
      BY StepUsesStore, StepImplements DEF ContractInv, OutcomeInv, WorkInv
    <2>2. CASE UNCHANGED Durable!vars
      BY <1>3, <2>2 DEF Durable!vars, Contract!contractVars
    <2>3. CASE Durable!Next
      <3>1. Contract!Next
        BY <2>3, SameLifecycle
      <3>2. ASSUME NEW r \in RequestIds PROVE Contract!IsTrueOf(r, disk'[r].status)
        BY <1>3, ContractInvStep, FileIsTrue
      <3>3. Contract!Record
        BY <1>3, <3>1, <3>2 DEF Contract!Record
      <3> QED
        BY <3>3
    <2> QED
      BY <2>1, <2>2, <2>3
  <1> QED
    BY <1>1, <1>2, <1>3, HistorySteps

-----------------------------------------------------------------------------
(* The whole access flow, with its messages, restarts and failed writes,   *)
(* implements the contract with the device's users, if the dialogs report  *)
(* the button that was pressed (the one on macOS does not).                *)
THEOREM FlowKeepsTheContract ==
  ASSUME MacAgents = {}
  PROVE  FlowSpec => ImplementsContract
  <1> USE StoreAssumption, FlowAssumption
  <1>1. FlowInit => Contract!ContractInit
    BY DEF FlowInit, Init, NoRequest, Contract!ContractInit, Contract!Init
  <1>2. FlowInit => HeldIsConfirmed /\ ClaimIsConfirmed
    BY DEF FlowInit, Init, NoRequest, HeldIsConfirmed, Holds, PastApproval,
           ClaimIsConfirmed, Claimed, ApprovedOrLater, Results
  <1>3. OutcomeInv /\ HeldIsConfirmed /\ ClaimIsConfirmed /\ [FlowNext]_flowVars
          => HeldIsConfirmed' /\ ClaimIsConfirmed'
    BY ContractInvStep DEF ContractInv
  <1>4. OutcomeInv /\ HeldIsConfirmed /\ ClaimIsConfirmed /\ [FlowNext]_flowVars
          => [Contract!ContractNext]_Contract!contractVars
    BY StepIsContractual DEF ContractInv
  <1> QED
    BY <1>1, <1>2, <1>3, <1>4, OutcomeInvariant, PTL
    DEF FlowSpec, ImplementsContract, Contract!ContractSpec
=============================================================================
