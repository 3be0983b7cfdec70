-------------------------- MODULE AccessFlowProofs --------------------------
(***************************************************************************)
(* Proofs about AccessFlow for every set of agents and requests.  The      *)
(* composed system uses the store by its operations only (StepUsesStore),  *)
(* so StoreInv holds of it.  An agent starts to work for a request only by *)
(* a step that answers its approval, from pending; by StoreInv nobody was  *)
(* answered before, so nobody worked for the request before: OneAgent      *)
(* follows.  What an agent holds, it asked its user for: KeysAreConfirmed. *)
(* A report of the result ends the one agent's work, so what is reported,  *)
(* saved or still on its way stays true of the device: OutcomeIsTrue.      *)
(***************************************************************************)
EXTENDS AccessFlow, RequestStoreProofs

(* No agent works for a request it did not work for before.                *)
OldWork == \A b \in Agents, r \in RequestIds : WorksFor(b, r)' => WorksFor(b, r)

(* Agent a's approval of its request is answered.                          *)
NewWork(a) ==
  /\ pc[a] = "approve"
  /\ MoveSaved(req[a], Pending, Approved)
  /\ Goto(a, "fetch")
  /\ UNCHANGED <<late, confirmed, keys>>

-----------------------------------------------------------------------------
(* Every step of the flow is an operation of the store or leaves it alone, *)
(* unless the control plane restarts.                                      *)
LEMMA StepRunsStore ==
  ASSUME FlowTypeOK, [FlowNext]_flowVars
  PROVE  [Running]_vars \/ ControlPlaneRestart
  <1> USE DEF vars, storeVars
  <1>1. ASSUME NEW a \in Agents, Poll(a) PROVE Running
    BY <1>1 DEF Poll, Running
  <1>2. ASSUME NEW a \in Agents, PostLocalDecision(a) PROVE [Running]_vars
    <2>1. req[a] \in RequestIds /\ Verdict(pc[a]) \in Verdicts
      BY <1>2 DEF PostLocalDecision, FlowTypeOK, Verdict, Verdicts
    <2> QED
      BY <1>2, <2>1 DEF PostLocalDecision, Rejected, SetLocalDecision, Running
  <1>3. ASSUME NEW a \in Agents, BundleLookup(a) PROVE [Running]_vars
    <2>1. req[a] \in RequestIds
      BY <1>3 DEF BundleLookup, FlowTypeOK
    <2> QED
      BY <1>3, <2>1 DEF BundleLookup, Running
  <1>4. ASSUME NEW a \in Agents, PostResult(a) PROVE [Running]_vars
    <2>1. req[a] \in RequestIds /\ Outcome(pc[a]) \in Results
      BY <1>4 DEF PostResult, FlowTypeOK, Outcome, Results
    <2> QED
      BY <1>4, <2>1 DEF PostResult, Rejected, SetResult, Running
  <1>5. ASSUME NEW call \in Calls, NEW r \in RequestIds, HandleLate(call, r) PROVE Running
    BY <1>5 DEF HandleLate, Verdict, Verdicts, Outcome, Results, Running
  <1>6. ASSUME Environment PROVE Running
    BY <1>6 DEF Environment, Running
  <1>7. ASSUME NEW a \in Agents,
               \/ \E r \in RequestIds : Begin(a, r)
               \/ \E choice, approved \in BOOLEAN : UserAnswers(a, choice, approved)
               \/ NobodyAnswers(a) \/ BundleSign(a) \/ Verify(a) \/ InstallKey(a)
               \/ GiveUp(a) \/ AgentRestart(a)
        PROVE  UNCHANGED vars
    BY <1>7
    DEF Begin, UserAnswers, NobodyAnswers, BundleSign, Verify, InstallKey, GiveUp,
        AgentRestart
  <1>8. ASSUME NEW call \in Calls, NEW r \in RequestIds, LoseLate(call, r)
        PROVE  UNCHANGED vars
    BY <1>8 DEF LoseLate
  <1>9. ASSUME UNCHANGED flowVars PROVE UNCHANGED vars
    BY <1>9 DEF flowVars
  <1> QED
    BY <1>1, <1>2, <1>3, <1>4, <1>5, <1>6, <1>7, <1>8, <1>9 DEF FlowNext, Process

LEMMA StepUsesStore ==
  ASSUME FlowTypeOK, [FlowNext]_flowVars
  PROVE  [Next]_vars
  BY StepRunsStore DEF ControlPlaneRestart, Running, Next

(* Every step keeps the flow well typed.                                   *)
LEMMA FlowTypeStep ==
  ASSUME FlowAssumption, FlowTypeOK, [FlowNext]_flowVars
  PROVE  FlowTypeOK'
  <1> USE DEF FlowTypeOK, Steps, Calls
  <1>1. ASSUME NEW a \in Agents, Poll(a) PROVE FlowTypeOK'
    BY <1>1 DEF Poll
  <1>2. ASSUME NEW a \in Agents, NEW r \in RequestIds, Begin(a, r) PROVE FlowTypeOK'
    BY <1>2, FlowAssumption DEF Begin
  <1>3. ASSUME NEW a \in Agents, pc[a] # "idle", Drop(a),
               late' \subseteq Calls \X RequestIds, UNCHANGED <<confirmed, keys>>
        PROVE  FlowTypeOK'
    BY <1>3 DEF Drop
  <1>4. ASSUME NEW a \in Agents, pc[a] # "idle", NEW step \in Steps \ {"idle"},
               Goto(a, step), UNCHANGED late,
               confirmed' \subseteq Agents \X RequestIds, keys' \subseteq Agents \X RequestIds
        PROVE  FlowTypeOK'
    BY <1>4 DEF Goto
  <1>5. ASSUME NEW a \in Agents, NEW choice \in BOOLEAN, NEW approved \in BOOLEAN,
               UserAnswers(a, choice, approved)
        PROVE  FlowTypeOK'
    BY <1>4, <1>5 DEF UserAnswers
  <1>6. ASSUME NEW a \in Agents, NobodyAnswers(a) \/ BundleSign(a) PROVE FlowTypeOK'
    BY <1>3, <1>4, <1>6 DEF NobodyAnswers, BundleSign
  <1>7. ASSUME NEW a \in Agents, PostLocalDecision(a) \/ BundleLookup(a) PROVE FlowTypeOK'
    BY <1>3, <1>4, <1>7 DEF PostLocalDecision, BundleLookup
  <1>8. ASSUME NEW a \in Agents, Verify(a) \/ InstallKey(a) PROVE FlowTypeOK'
    BY <1>4, <1>8 DEF Verify, InstallKey
  <1>9. ASSUME NEW a \in Agents, PostResult(a) \/ GiveUp(a) PROVE FlowTypeOK'
    BY <1>3, <1>9 DEF PostResult, GiveUp
  <1>10. ASSUME NEW a \in Agents, AgentRestart(a) PROVE FlowTypeOK'
    BY <1>10 DEF AgentRestart
  <1>11. ASSUME NEW call \in Calls, NEW r \in RequestIds,
                HandleLate(call, r) \/ LoseLate(call, r)
         PROVE  FlowTypeOK'
    BY <1>11 DEF HandleLate, LoseLate, agentVars
  <1>12. ASSUME ControlPlaneRestart PROVE FlowTypeOK'
    BY <1>12 DEF ControlPlaneRestart
  <1>13. ASSUME Environment \/ UNCHANGED flowVars PROVE FlowTypeOK'
    BY <1>13 DEF Environment, agentVars, flowVars
  <1> QED
    BY <1>1, <1>2, <1>5, <1>6, <1>7, <1>8, <1>9, <1>10, <1>11, <1>12, <1>13
    DEF FlowNext, Process

-----------------------------------------------------------------------------
(* Answers are never forgotten.                                            *)
LEMMA AnswersGrow ==
  ASSUME StoreAssumption, StoreInv, [Next]_vars, NEW r \in RequestIds
  PROVE  acked[r] \subseteq acked'[r]
  <1>1. Operation \/ Restart
    BY OperationsMoveForward DEF StoreInv
  <1>2. acked \in [RequestIds -> SUBSET Statuses]
    BY DEF StoreInv, TypeOK
  <1> QED
    BY <1>1, <1>2 DEF Operation, Restart, Answered

(* An agent goes on, or stops, with the work it has; only the answer to an *)
(* approval starts new work.                                               *)
LEMMA WorkSteps ==
  ASSUME FlowTypeOK, [FlowNext]_flowVars
  PROVE  OldWork \/ \E a \in Agents : NewWork(a)
  <1> USE DEF OldWork, WorksFor, FlowTypeOK, PastApproval
  <1>1. ASSUME NEW a \in Agents, Drop(a), UNCHANGED keys PROVE OldWork
    BY <1>1 DEF Drop
  <1>2. ASSUME NEW a \in Agents, NEW step, Goto(a, step), UNCHANGED keys,
               step \notin PastApproval \/ pc[a] \in PastApproval
        PROVE  OldWork
    BY <1>2 DEF Goto
  <1>3. ASSUME UNCHANGED <<pc, req, keys>> PROVE OldWork
    BY <1>3
  <1>4. ASSUME NEW a \in Agents, NEW r \in RequestIds, Begin(a, r) PROVE OldWork
    BY <1>4 DEF Begin
  <1>5. ASSUME NEW a \in Agents, NEW choice \in BOOLEAN, NEW approved \in BOOLEAN,
               UserAnswers(a, choice, approved)
        PROVE  OldWork
    BY <1>2, <1>5 DEF UserAnswers
  <1>6. ASSUME NEW a \in Agents, NobodyAnswers(a) \/ BundleSign(a) \/ BundleLookup(a)
        PROVE  OldWork
    BY <1>1, <1>2, <1>6 DEF NobodyAnswers, BundleSign, BundleLookup
  <1>7. ASSUME NEW a \in Agents, PostLocalDecision(a) PROVE OldWork \/ NewWork(a)
    BY <1>1, <1>7 DEF PostLocalDecision, NewWork, Verdict
  <1>8. ASSUME NEW a \in Agents, Verify(a) PROVE OldWork
    BY <1>2, <1>8 DEF Verify
  <1>9. ASSUME NEW a \in Agents, InstallKey(a) PROVE OldWork
    BY <1>9 DEF InstallKey, Goto
  <1>10. ASSUME NEW a \in Agents, PostResult(a) \/ GiveUp(a) PROVE OldWork
    BY <1>1, <1>10 DEF PostResult, GiveUp
  <1>11. ASSUME NEW a \in Agents, AgentRestart(a) PROVE OldWork
    BY <1>11 DEF AgentRestart
  <1>12. ASSUME ControlPlaneRestart PROVE OldWork
    BY <1>12 DEF ControlPlaneRestart
  <1>13. ASSUME \/ \E a \in Agents : Poll(a)
                \/ \E call \in Calls, r \in RequestIds :
                     HandleLate(call, r) \/ LoseLate(call, r)
                \/ Environment
                \/ UNCHANGED flowVars
         PROVE  OldWork
    BY <1>3, <1>13 DEF Poll, HandleLate, LoseLate, Environment, agentVars, flowVars
  <1> QED
    BY <1>4, <1>5, <1>6, <1>7, <1>8, <1>9, <1>10, <1>11, <1>12, <1>13
    DEF FlowNext, Process

(* A request that is still pending in memory was never answered approved.  *)
LEMMA PendingIsUnanswered ==
  ASSUME StoreInv, NEW r \in RequestIds, items[r].status = Pending
  PROVE  Approved \notin acked[r]
  <1>1. SUFFICES ASSUME Approved \in acked[r] PROVE FALSE
    OBVIOUS
  <1>2. Durable!Reached(Approved, disk[r].status)
    BY <1>1 DEF StoreInv, AnswersAreDurable
  <1>3. Durable!Reached(disk[r].status, items[r].status)
    BY DEF StoreInv, MemoryAheadOfDisk
  <1>4. Durable!Reached(Approved, Pending)
    BY <1>2, <1>3, ReachedTransitive
  <1> QED
    BY <1>4
    DEF Durable!Reached, Durable!Precedes, Durable!Absent, Durable!Pending, Durable!Approved,
        Durable!Expired, Durable!VerificationFailed, Durable!Connected, Durable!Unfinished,
        Durable!Finished, Pending, Approved

(* Who works for a request does so alone and on an answered approval.      *)
WorkInv ==
  /\ FlowTypeOK
  /\ StoreInv
  /\ \A a \in Agents, r \in RequestIds : WorksFor(a, r) => Approved \in acked[r]
  /\ OneAgentPerRequest

LEMMA NewWorkIsFirst ==
  ASSUME FlowTypeOK, StoreInv, NEW a \in Agents, NewWork(a)
  PROVE  /\ req[a] \in RequestIds
         /\ items[req[a]].status = Pending
         /\ Approved \notin acked[req[a]]
         /\ Approved \in acked'[req[a]]
         /\ \A b \in Agents, r \in RequestIds :
              WorksFor(b, r)' => WorksFor(b, r) \/ (b = a /\ r = req[a])
  <1>1. req[a] \in RequestIds
    BY DEF NewWork, FlowTypeOK
  <1>2. items[req[a]].status = Pending
    <2>1. Move(req[a], Pending, Approved) /\ TypeOK
      BY DEF NewWork, MoveSaved, StoreInv
    <2>2. Pending \in Unfinished /\ Approved \in Statuses
      BY DEF Unfinished, Statuses
    <2> QED
      BY <1>1, <2>1, <2>2, MoveSteps
  <1>3. Approved \in acked'[req[a]]
    BY <1>1 DEF NewWork, MoveSaved, Answered, StoreInv, TypeOK
  <1>4. \A b \in Agents, r \in RequestIds :
          WorksFor(b, r)' => WorksFor(b, r) \/ (b = a /\ r = req[a])
    BY DEF NewWork, Goto, WorksFor, FlowTypeOK
  <1> QED
    BY <1>1, <1>2, <1>3, <1>4, PendingIsUnanswered

LEMMA WorkInvStep ==
  ASSUME StoreAssumption, FlowAssumption, WorkInv, [FlowNext]_flowVars
  PROVE  WorkInv'
  <1>1. [Next]_vars
    BY StepUsesStore DEF WorkInv
  <1>2. FlowTypeOK' /\ StoreInv'
    BY <1>1, FlowTypeStep, StoreInvStep DEF WorkInv
  <1>3. \A r \in RequestIds : acked[r] \subseteq acked'[r]
    BY <1>1, AnswersGrow DEF WorkInv
  <1>4. CASE OldWork
    BY <1>2, <1>3, <1>4 DEF WorkInv, OldWork, OneAgentPerRequest
  <1>5. ASSUME NEW a \in Agents, NewWork(a) PROVE WorkInv'
    BY <1>2, <1>3, <1>5, NewWorkIsFirst DEF WorkInv, OneAgentPerRequest
  <1> QED
    BY <1>4, <1>5, WorkSteps DEF WorkInv

LEMMA WorkInvInit ==
  ASSUME StoreAssumption, FlowAssumption, FlowInit
  PROVE  WorkInv
  BY StoreInvInit
  DEF FlowInit, WorkInv, FlowTypeOK, Steps, Calls, WorksFor, PastApproval, OneAgentPerRequest

LEMMA WorkInvariant == FlowSpec => []WorkInv
  <1>1. FlowInit => WorkInv
    BY WorkInvInit, StoreAssumption, FlowAssumption
  <1>2. WorkInv /\ [FlowNext]_flowVars => WorkInv'
    BY WorkInvStep, StoreAssumption, FlowAssumption
  <1> QED
    BY <1>1, <1>2, PTL DEF FlowSpec

-----------------------------------------------------------------------------
(* The composed system runs the store by its operations only, so every     *)
(* theorem of RequestStoreProofs is one of the access flow.                *)
THEOREM FlowUsesTheStore == FlowSpec => UsesTheStore
  <1>1. FlowInit => Init
    BY DEF FlowInit
  <1>2. WorkInv /\ [FlowNext]_flowVars => [Next]_vars
    BY StepUsesStore DEF WorkInv
  <1> QED
    BY <1>1, <1>2, WorkInvariant, PTL DEF FlowSpec, UsesTheStore, Spec

(* The agents' state is well formed: busy exactly with one request.        *)
THEOREM FlowTypeCorrectness == FlowSpec => []FlowTypeOK
  <1>1. WorkInv => FlowTypeOK
    BY DEF WorkInv
  <1> QED
    BY <1>1, WorkInvariant, PTL

(* Past its approval a request has one agent, however many poll for its    *)
(* device id and whatever calls are late.                                  *)
THEOREM OneAgent == FlowSpec => []OneAgentPerRequest
  <1>1. WorkInv => OneAgentPerRequest
    BY DEF WorkInv
  <1> QED
    BY <1>1, WorkInvariant, PTL
-----------------------------------------------------------------------------
(* What an agent holds without asking its user again: a key, or a request  *)
(* it is about to approve or works for.                                    *)
Holds(a, r) ==
  <<a, r>> \in keys \/ (req[a] = r /\ pc[a] \in {"approve"} \union PastApproval)

HeldIsConfirmed ==
  \A a \in Agents, r \in RequestIds : Holds(a, r) => <<a, r>> \in confirmed

(* A step gives an agent nothing it did not hold, or its user confirmed it.*)
LEMMA HeldIsConfirmedStep ==
  ASSUME MacAgents = {}, FlowTypeOK, HeldIsConfirmed, [FlowNext]_flowVars
  PROVE  HeldIsConfirmed'
  <1> USE DEF HeldIsConfirmed, Holds, FlowTypeOK, PastApproval
  <1>1. ASSUME NEW a \in Agents, Drop(a), UNCHANGED <<confirmed, keys>>
        PROVE  HeldIsConfirmed'
    BY <1>1 DEF Drop
  <1>2. ASSUME NEW a \in Agents, NEW step, Goto(a, step), UNCHANGED <<confirmed, keys>>,
               step \notin {"approve"} \union PastApproval
                 \/ pc[a] \in {"approve"} \union PastApproval
        PROVE  HeldIsConfirmed'
    BY <1>2 DEF Goto
  <1>3. ASSUME NEW a \in Agents, NEW r \in RequestIds, Begin(a, r) PROVE HeldIsConfirmed'
    BY <1>3 DEF Begin
  <1>4. ASSUME NEW a \in Agents, NEW choice \in BOOLEAN, NEW approved \in BOOLEAN,
               UserAnswers(a, choice, approved)
        PROVE  HeldIsConfirmed'
    <2>1. approved = choice
      BY <1>4 DEF UserAnswers, ConfirmReturns
    <2>2. CASE choice
      BY <1>4, <2>2 DEF UserAnswers, Goto
    <2>3. CASE ~choice
      BY <1>2, <1>4, <2>1, <2>3 DEF UserAnswers
    <2> QED
      BY <2>2, <2>3
  <1>5. ASSUME NEW a \in Agents, NobodyAnswers(a) \/ BundleSign(a) \/ BundleLookup(a)
        PROVE  HeldIsConfirmed'
    BY <1>1, <1>2, <1>5 DEF NobodyAnswers, BundleSign, BundleLookup
  <1>6. ASSUME NEW a \in Agents, PostLocalDecision(a) PROVE HeldIsConfirmed'
    BY <1>1, <1>2, <1>6 DEF PostLocalDecision
  <1>7. ASSUME NEW a \in Agents, Verify(a) PROVE HeldIsConfirmed'
    BY <1>2, <1>7 DEF Verify
  <1>8. ASSUME NEW a \in Agents, InstallKey(a) PROVE HeldIsConfirmed'
    BY <1>8 DEF InstallKey, Goto
  <1>9. ASSUME NEW a \in Agents, PostResult(a) \/ GiveUp(a) PROVE HeldIsConfirmed'
    BY <1>1, <1>9 DEF PostResult, GiveUp
  <1>10. ASSUME NEW a \in Agents, AgentRestart(a) PROVE HeldIsConfirmed'
    BY <1>10 DEF AgentRestart
  <1>11. ASSUME ControlPlaneRestart PROVE HeldIsConfirmed'
    BY <1>11 DEF ControlPlaneRestart
  <1>12. ASSUME \/ \E a \in Agents : Poll(a)
                \/ \E call \in Calls, r \in RequestIds :
                     HandleLate(call, r) \/ LoseLate(call, r)
                \/ Environment
                \/ UNCHANGED flowVars
         PROVE  HeldIsConfirmed'
    BY <1>12 DEF Poll, HandleLate, LoseLate, Environment, agentVars, flowVars
  <1> QED
    BY <1>3, <1>4, <1>5, <1>6, <1>7, <1>8, <1>9, <1>10, <1>11, <1>12
    DEF FlowNext, Process

(* With dialogs that report the button that was pressed, no key is on a    *)
(* device without the confirmation of the user of that device and an       *)
(* approval the state file holds.  (On macOS Confirm reports approval for  *)
(* either button, hence the assumption.)                                   *)
THEOREM KeysAreConfirmed ==
  ASSUME MacAgents = {}
  PROVE  FlowSpec => []NoKeyWithoutConfirmation
  <1>1. FlowInit => HeldIsConfirmed
    BY DEF FlowInit, HeldIsConfirmed, Holds, PastApproval
  <1>2. WorkInv /\ HeldIsConfirmed /\ [FlowNext]_flowVars => HeldIsConfirmed'
    BY HeldIsConfirmedStep DEF WorkInv
  <1>3. WorkInv /\ HeldIsConfirmed => NoKeyWithoutConfirmation
    BY DEF WorkInv, FlowTypeOK, HeldIsConfirmed, Holds, WorksFor, NoKeyWithoutConfirmation
  <1> QED
    BY <1>1, <1>2, <1>3, WorkInvariant, PTL DEF FlowSpec

-----------------------------------------------------------------------------
(* Agent a works for request r.                                            *)
AtWork(a, r) == req[a] = r /\ pc[a] \in PastApproval

(* Somebody says, or may yet say, that r ended in s: memory, the state     *)
(* file, or a report nobody waits for.                                     *)
Reported(r, s) ==
  \/ s \in {items[r].status, disk[r].status}
  \/ \E call \in {"connected", "failed"} : <<call, r>> \in late /\ Outcome(call) = s

(* A report ends the work for its request for good, ...                    *)
ReportEndsWork ==
  \A r \in RequestIds, s \in Results :
    Reported(r, s) => Approved \in acked[r] /\ \A a \in Agents : ~AtWork(a, r)

(* ... says what is on the device, ...                                     *)
ReportIsTrue ==
  \A r \in RequestIds :
    /\ Reported(r, Connected) => \E a \in Agents : <<a, r>> \in keys
    /\ Reported(r, VerificationFailed) => \A a \in Agents : <<a, r>> \notin keys

(* ... and who is at work has the key exactly when it is about to say so.  *)
KeyIsReportedNext ==
  \A a \in Agents :
    pc[a] \in PastApproval => (<<a, req[a]>> \in keys <=> pc[a] = "connected")

(* Between the lookup and the signature a request can only expire.         *)
SignsUnlessExpired ==
  \A a \in Agents : pc[a] = "sign" => items[req[a]].status \in {Approved, Expired}

OutcomeInv ==
  /\ WorkInv
  /\ ReportEndsWork
  /\ ReportIsTrue
  /\ KeyIsReportedNext
  /\ SignsUnlessExpired

-----------------------------------------------------------------------------
(* How a step changes who is at work and which keys are installed.         *)
WorkGoesOn ==
  \A b \in Agents :
    pc'[b] \in PastApproval =>
      /\ req'[b] = req[b]
      /\ pc[b] \in PastApproval \/ NewWork(b)
      /\ pc[b] = "connected" => pc'[b] = "connected"
      /\ pc'[b] = "connected" => pc[b] = "connected" \/ <<b, req[b]>> \in keys'

KeysGrow ==
  \/ keys' = keys
  \/ \E a \in Agents : /\ pc[a] = "install" /\ pc'[a] = "connected" /\ req'[a] = req[a]
                        /\ keys' = keys \union {<<a, req[a]>>}

LEMMA WorkShape ==
  ASSUME FlowTypeOK, [FlowNext]_flowVars
  PROVE  WorkGoesOn /\ KeysGrow
  <1> USE DEF WorkGoesOn, KeysGrow, FlowTypeOK, PastApproval
  <1>1. ASSUME NEW a \in Agents, Drop(a), UNCHANGED keys PROVE WorkGoesOn /\ KeysGrow
    BY <1>1 DEF Drop
  <1>2. ASSUME NEW a \in Agents, NEW step, Goto(a, step), UNCHANGED keys,
               \/ step \notin PastApproval
               \/ pc[a] \in PastApproval \ {"connected"} /\ step # "connected"
        PROVE  WorkGoesOn /\ KeysGrow
    BY <1>2 DEF Goto
  <1>3. ASSUME UNCHANGED <<pc, req, keys>> PROVE WorkGoesOn /\ KeysGrow
    BY <1>3
  <1>4. ASSUME NEW a \in Agents, NEW r \in RequestIds, Begin(a, r)
        PROVE  WorkGoesOn /\ KeysGrow
    BY <1>4 DEF Begin
  <1>5. ASSUME NEW a \in Agents, NEW choice \in BOOLEAN, NEW approved \in BOOLEAN,
               UserAnswers(a, choice, approved)
        PROVE  WorkGoesOn /\ KeysGrow
    BY <1>2, <1>5 DEF UserAnswers
  <1>6. ASSUME NEW a \in Agents, NobodyAnswers(a) \/ BundleSign(a) \/ BundleLookup(a)
        PROVE  WorkGoesOn /\ KeysGrow
    BY <1>1, <1>2, <1>6 DEF NobodyAnswers, BundleSign, BundleLookup
  <1>7. ASSUME NEW a \in Agents, PostLocalDecision(a) PROVE WorkGoesOn /\ KeysGrow
    <2>1. CASE NewWork(a)
      BY <2>1 DEF NewWork, Goto
    <2>2. CASE Drop(a)
      BY <1>1, <1>7, <2>2 DEF PostLocalDecision
    <2> QED
      BY <1>7, <2>1, <2>2 DEF PostLocalDecision, NewWork, Verdict
  <1>8. ASSUME NEW a \in Agents, Verify(a) PROVE WorkGoesOn /\ KeysGrow
    BY <1>2, <1>8 DEF Verify
  <1>9. ASSUME NEW a \in Agents, InstallKey(a) PROVE WorkGoesOn /\ KeysGrow
    BY <1>9 DEF InstallKey, Goto
  <1>10. ASSUME NEW a \in Agents, PostResult(a) \/ GiveUp(a) PROVE WorkGoesOn /\ KeysGrow
    BY <1>1, <1>10 DEF PostResult, GiveUp
  <1>11. ASSUME NEW a \in Agents, AgentRestart(a) PROVE WorkGoesOn /\ KeysGrow
    BY <1>11 DEF AgentRestart
  <1>12. ASSUME ControlPlaneRestart PROVE WorkGoesOn /\ KeysGrow
    BY <1>12 DEF ControlPlaneRestart
  <1>13. ASSUME \/ \E a \in Agents : Poll(a)
                \/ \E call \in Calls, r \in RequestIds :
                     HandleLate(call, r) \/ LoseLate(call, r)
                \/ Environment
                \/ UNCHANGED flowVars
         PROVE  WorkGoesOn /\ KeysGrow
    BY <1>3, <1>13 DEF Poll, HandleLate, LoseLate, Environment, agentVars, flowVars
  <1> QED
    BY <1>4, <1>5, <1>6, <1>7, <1>8, <1>9, <1>10, <1>11, <1>12, <1>13
    DEF FlowNext, Process

-----------------------------------------------------------------------------
USE DEF Absent, Pending, DeniedLocal, Approved, Expired, VerificationFailed, Connected

(* Only SetResult makes a result that neither memory nor the file had.     *)
NoNewResult ==
  \A r \in RequestIds :
    /\ items'[r].status \in Results => items'[r].status \in {items[r].status, disk[r].status}
    /\ disk'[r].status \in {disk[r].status, items'[r].status}

LEMMA OthersMakeNoResult ==
  ASSUME TypeOK, StoreAssumption,
         \/ \E q \in RequestIds : Create(q) \/ Get(q) \/ TooLate(q)
         \/ \E q \in RequestIds, verdict \in Verdicts : SetLocalDecision(q, verdict)
         \/ ListPendingForDevice \/ InstallOperationPersists \/ Restart \/ Tick
         \/ UNCHANGED storeVars
  PROVE  NoNewResult
  <1> USE DEF NoNewResult, Persisted, PersistFails
  <1>0. \A r \in RequestIds : items[r] \in Request
    BY DEF TypeOK
  <1>1. ASSUME NEW q \in RequestIds, Create(q) PROVE NoNewResult
    <2>1. Draw(q) /\ (disk' = items' \/ disk' = disk)
      BY <1>1 DEF Create, CreateSaved, CreateUnsaved
    <2> QED
      BY <2>1, DrawSteps DEF Results
  <1>2. ASSUME NEW q \in RequestIds, ExpireItem(q), disk' = items' \/ disk' = disk
        PROVE  NoNewResult
    <2>1. \A r \in RequestIds : items'[r] = items[r] \/ items'[r].status = Expired
      BY <1>0, <1>2, ExpireItemSteps DEF expireIfNeeded, Request
    <2> QED
      BY <1>2, <2>1 DEF Results
  <1>3. ASSUME NEW q \in RequestIds, NEW verdict \in Verdicts,
               MoveSaved(q, Pending, verdict) \/ MoveUnsaved(q, Pending, verdict)
        PROVE  NoNewResult
    <2>1. Move(q, Pending, verdict) /\ (disk' = items' \/ disk' = disk)
      BY <1>3 DEF MoveSaved, MoveUnsaved
    <2>2. Pending \in Unfinished /\ verdict \in Statuses /\ verdict \notin Results
      BY DEF Unfinished, Finished, Statuses, Verdicts, Results
    <2> QED
      BY <2>1, <2>2, MoveSteps
  <1>4. ASSUME ListPendingForDevice PROVE NoNewResult
    <2>1. ExpireAll /\ (disk' = items' \/ disk' = disk)
      BY <1>4 DEF ListPendingForDevice, ListSaved, ListUnsaved
    <2>2. \A r \in RequestIds : items'[r] = items[r] \/ items'[r].status = Expired
      BY <1>0, <2>1, ExpireAllSteps DEF expireIfNeeded, Request
    <2> QED
      BY <2>1, <2>2 DEF Results
  <1>5. ASSUME InstallOperationPersists \/ Restart \/ Tick \/ UNCHANGED storeVars
        PROVE  NoNewResult
    BY <1>5 DEF InstallOperationPersists, Restart, Tick, storeVars
  <1>6. ASSUME NEW q \in RequestIds, Get(q) \/ TooLate(q) PROVE NoNewResult
    BY <1>2, <1>6 DEF Get, TooLate
  <1> QED
    BY <1>1, <1>3, <1>4, <1>5, <1>6 DEF SetLocalDecision

(* A result is written for its own request.                                *)
LEMMA ResultMade ==
  ASSUME TypeOK, NEW q \in RequestIds, NEW result \in Results,
         MoveSaved(q, Approved, result) \/ MoveUnsaved(q, Approved, result)
  PROVE  /\ \A r \in RequestIds :
              items'[r].status \in Results =>
                \/ items'[r].status = items[r].status
                \/ r = q /\ items'[r].status = result
         /\ \A r \in RequestIds : disk'[r].status \in {disk[r].status, items'[r].status}
  <1>1. Move(q, Approved, result) /\ (disk' = items' \/ disk' = disk)
    BY DEF MoveSaved, MoveUnsaved, Persisted, PersistFails
  <1>2. Approved \in Unfinished /\ result \in Statuses
    BY DEF Unfinished, Finished, Statuses, Results
  <1> QED
    BY <1>1, <1>2, MoveSteps

(* Agent a ends its work for r with a report of s.                         *)
Finishes(a, r, s) ==
  /\ req[a] = r /\ pc[a] \in {"connected", "failed"} /\ Outcome(pc[a]) = s
  /\ pc'[a] = "idle"

NewReportsAreFinal ==
  \A r \in RequestIds, s \in Results :
    Reported(r, s)' => Reported(r, s) \/ \E a \in Agents : Finishes(a, r, s)

(* What is reported was reported before, or its agent is done.             *)
LEMMA ReportsComeFromWork ==
  ASSUME StoreAssumption, FlowTypeOK, TypeOK, [FlowNext]_flowVars
  PROVE  NewReportsAreFinal
  <1> USE DEF NewReportsAreFinal
  <1>1. ASSUME NoNewResult, late' \subseteq late PROVE NewReportsAreFinal
    BY <1>1 DEF NoNewResult, Reported
  <1>2. ASSUME NEW a \in Agents, UNCHANGED storeVars, pc'[a] = "idle",
               \/ late' \subseteq late
               \/ pc[a] \in Calls /\ late' = late \union {<<pc[a], req[a]>>}
        PROVE  NewReportsAreFinal
    <2>1. NoNewResult
      BY <1>2, OthersMakeNoResult
    <2> QED
      BY <1>2, <2>1 DEF NoNewResult, Reported, Finishes
  <1>3. ASSUME NEW a \in Agents, PostResult(a) PROVE NewReportsAreFinal
    <2>1. /\ req[a] \in RequestIds /\ Outcome(pc[a]) \in Results
          /\ pc[a] \in {"connected", "failed"} /\ late' = late
          /\ pc'[a] = "idle"
      BY <1>3 DEF PostResult, FlowTypeOK, Outcome, Results, Drop
    <2>2. CASE TooLate(req[a]) \/ Rejected(req[a], Approved)
      BY <1>1, <2>1, <2>2, OthersMakeNoResult DEF Rejected
    <2>3. CASE MoveSaved(req[a], Approved, Outcome(pc[a]))
                 \/ MoveUnsaved(req[a], Approved, Outcome(pc[a]))
      <3>1. /\ \A r \in RequestIds :
                 items'[r].status \in Results =>
                   \/ items'[r].status = items[r].status
                   \/ r = req[a] /\ items'[r].status = Outcome(pc[a])
            /\ \A r \in RequestIds : disk'[r].status \in {disk[r].status, items'[r].status}
        BY <2>1, <2>3, ResultMade
      <3> QED
        BY <2>1, <3>1 DEF Reported, Finishes
    <2> QED
      BY <1>3, <2>2, <2>3 DEF PostResult
  <1>4. ASSUME NEW call \in Calls, NEW q \in RequestIds, HandleLate(call, q)
        PROVE  NewReportsAreFinal
    <2>1. late' \subseteq late /\ <<call, q>> \in late
      BY <1>4 DEF HandleLate
    <2>2. CASE \/ \E verdict \in Verdicts : SetLocalDecision(q, verdict)
               \/ Get(q) \/ TooLate(q)
      BY <1>1, <2>1, <2>2, OthersMakeNoResult
    <2>3. ASSUME call \in {"connected", "failed"},
                 MoveSaved(q, Approved, Outcome(call))
                   \/ MoveUnsaved(q, Approved, Outcome(call))
          PROVE  NewReportsAreFinal
      <3>1. Outcome(call) \in Results
        BY DEF Outcome, Results
      <3>2. /\ \A r \in RequestIds :
                 items'[r].status \in Results =>
                   \/ items'[r].status = items[r].status
                   \/ r = q /\ items'[r].status = Outcome(call)
            /\ \A r \in RequestIds : disk'[r].status \in {disk[r].status, items'[r].status}
        BY <2>3, <3>1, ResultMade
      <3> QED
        BY <2>1, <2>3, <3>2 DEF Reported
    <2>4. Verdict(call) \in Verdicts
      BY DEF Verdict, Verdicts
    <2> QED
      BY <1>4, <2>2, <2>3, <2>4 DEF HandleLate, SetResult
  <1>5. ASSUME NEW a \in Agents, GiveUp(a) \/ AgentRestart(a) PROVE NewReportsAreFinal
    BY <1>2, <1>5 DEF GiveUp, AgentRestart, Drop, FlowTypeOK
  <1>6. ASSUME NEW a \in Agents, Poll(a) \/ BundleLookup(a) PROVE NewReportsAreFinal
    <2>1. BundleLookup(a) => req[a] \in RequestIds
      BY DEF BundleLookup, FlowTypeOK
    <2> QED
      BY <1>1, <1>6, <2>1, OthersMakeNoResult DEF Poll, BundleLookup
  <1>7. ASSUME NEW a \in Agents, PostLocalDecision(a) PROVE NewReportsAreFinal
    <2>1. req[a] \in RequestIds /\ Verdict(pc[a]) \in Verdicts
      BY <1>7 DEF PostLocalDecision, FlowTypeOK, Verdict, Verdicts
    <2> QED
      BY <1>1, <1>7, <2>1, OthersMakeNoResult
      DEF PostLocalDecision, Rejected, SetLocalDecision
  <1>8. ASSUME NEW a \in Agents,
               \/ \E r \in RequestIds : Begin(a, r)
               \/ \E choice, approved \in BOOLEAN : UserAnswers(a, choice, approved)
               \/ NobodyAnswers(a) \/ BundleSign(a) \/ Verify(a) \/ InstallKey(a)
        PROVE  NewReportsAreFinal
    BY <1>1, <1>8, OthersMakeNoResult
    DEF Begin, UserAnswers, NobodyAnswers, BundleSign, Verify, InstallKey
  <1>9. ASSUME NEW call \in Calls, NEW r \in RequestIds, LoseLate(call, r)
        PROVE  NewReportsAreFinal
    BY <1>1, <1>9, OthersMakeNoResult DEF LoseLate
  <1>10. ASSUME ControlPlaneRestart \/ Environment PROVE NewReportsAreFinal
    BY <1>1, <1>10, OthersMakeNoResult DEF ControlPlaneRestart, Environment
  <1>11. ASSUME UNCHANGED flowVars PROVE NewReportsAreFinal
    BY <1>1, <1>11, OthersMakeNoResult DEF flowVars, storeVars
  <1> QED
    BY <1>3, <1>4, <1>5, <1>6, <1>7, <1>8, <1>9, <1>10, <1>11 DEF FlowNext, Process

-----------------------------------------------------------------------------
(* Reports stay true: one is new only when the one agent at work for its   *)
(* request has finished, and a key is new only for a request at work.      *)
LEMMA ReportsStep ==
  ASSUME StoreAssumption, FlowAssumption, OutcomeInv, [FlowNext]_flowVars
  PROVE  ReportEndsWork' /\ ReportIsTrue'
  <1>1. WorkGoesOn /\ KeysGrow /\ NewReportsAreFinal /\ WorkInv'
    BY WorkShape, ReportsComeFromWork, WorkInvStep DEF OutcomeInv, WorkInv, StoreInv
  <1>2. \A r \in RequestIds : acked[r] \subseteq acked'[r]
    BY StepUsesStore, AnswersGrow DEF OutcomeInv, WorkInv
  (* Who is at work for r was, unless nobody was answered before.          *)
  <1>3. ASSUME NEW r \in RequestIds, Approved \in acked[r], NEW b \in Agents, AtWork(b, r)'
        PROVE  AtWork(b, r)
    <2>1. ~(NewWork(b) /\ req[b] = r)
      BY <1>3, NewWorkIsFirst DEF OutcomeInv, WorkInv
    <2> QED
      BY <1>1, <1>3, <2>1 DEF AtWork, WorkGoesOn
  <1>4. ASSUME NEW r \in RequestIds, NEW s \in Results, Reported(r, s)
        PROVE  /\ Approved \in acked'[r] /\ \A b \in Agents : ~AtWork(b, r)'
               /\ \A b \in Agents : <<b, r>> \in keys' <=> <<b, r>> \in keys
    <2>1. Approved \in acked[r] /\ \A b \in Agents : ~AtWork(b, r)
      BY <1>4 DEF OutcomeInv, ReportEndsWork
    <2>2. \A b \in Agents : <<b, r>> \in keys' <=> <<b, r>> \in keys
      BY <1>1, <2>1 DEF KeysGrow, AtWork, PastApproval
    <2> QED
      BY <1>2, <1>3, <2>1, <2>2
  <1>5. ASSUME NEW r \in RequestIds, NEW s \in Results, NEW a \in Agents, Finishes(a, r, s)
        PROVE  /\ Approved \in acked'[r] /\ \A b \in Agents : ~AtWork(b, r)'
               /\ s = Connected => <<a, r>> \in keys'
               /\ s = VerificationFailed => \A b \in Agents : <<b, r>> \notin keys'
    <2>1. AtWork(a, r) /\ ~AtWork(a, r)' /\ (s = Connected <=> pc[a] = "connected")
      BY <1>5 DEF Finishes, AtWork, PastApproval, Outcome, Results
    <2>2. \A b \in Agents : WorksFor(b, r) => b = a
      BY <2>1 DEF OutcomeInv, WorkInv, OneAgentPerRequest, WorksFor, AtWork
    <2>3. Approved \in acked[r]
      BY <2>1 DEF OutcomeInv, WorkInv, WorksFor, AtWork
    <2>4. \A b \in Agents : ~AtWork(b, r)'
      BY <1>3, <2>1, <2>2, <2>3 DEF WorksFor, AtWork
    <2>5. <<a, r>> \in keys <=> s = Connected
      BY <2>1 DEF OutcomeInv, KeyIsReportedNext, AtWork
    <2>6. \A b \in Agents : <<b, r>> \in keys' <=> <<b, r>> \in keys
      BY <1>1, <2>4 DEF KeysGrow, AtWork, PastApproval
    <2>7. s = VerificationFailed => \A b \in Agents : <<b, r>> \notin keys'
      BY <2>2, <2>5, <2>6 DEF WorksFor
    <2> QED
      BY <1>2, <2>3, <2>4, <2>5, <2>6, <2>7
  <1>6. ReportEndsWork'
    BY <1>1, <1>4, <1>5 DEF ReportEndsWork, NewReportsAreFinal
  <1>7. ASSUME NEW r \in RequestIds
        PROVE  /\ Reported(r, Connected)' => \E a \in Agents : <<a, r>> \in keys'
               /\ Reported(r, VerificationFailed)' => \A a \in Agents : <<a, r>> \notin keys'
    <2>1. Connected \in Results /\ VerificationFailed \in Results
      BY DEF Results
    <2>2. ASSUME NEW s \in Results, Reported(r, s)
          PROVE  \/ s = Connected /\ \E a \in Agents : <<a, r>> \in keys'
                 \/ s = VerificationFailed /\ \A a \in Agents : <<a, r>> \notin keys'
      BY <1>4, <2>2 DEF OutcomeInv, ReportIsTrue, Results
    <2> QED
      BY <1>1, <1>5, <2>1, <2>2 DEF NewReportsAreFinal
  <1>8. ReportIsTrue'
    BY <1>7 DEF ReportIsTrue
  <1> QED
    BY <1>6, <1>8

LEMMA KeyIsReportedNextStep ==
  ASSUME StoreAssumption, FlowAssumption, OutcomeInv, [FlowNext]_flowVars
  PROVE  KeyIsReportedNext'
  <1>1. WorkGoesOn /\ KeysGrow
    BY WorkShape DEF OutcomeInv, WorkInv
  <1>2. SUFFICES ASSUME NEW b \in Agents, pc'[b] \in PastApproval
                 PROVE  <<b, req'[b]>> \in keys' <=> pc'[b] = "connected"
    BY DEF KeyIsReportedNext
  <1>3. req'[b] = req[b] /\ req[b] \in RequestIds
    BY <1>1, <1>2, WorkInvStep DEF WorkGoesOn, OutcomeInv, WorkInv, FlowTypeOK, PastApproval
  <1>4. CASE NewWork(b)
    <2>1. <<b, req[b]>> \notin keys
      BY <1>3, <1>4, NewWorkIsFirst DEF OutcomeInv, WorkInv, WorksFor
    <2>2. keys' = keys /\ pc'[b] = "fetch"
      BY <1>4 DEF NewWork, Goto, OutcomeInv, WorkInv, FlowTypeOK
    <2> QED
      BY <1>3, <2>1, <2>2
  <1>5. CASE pc[b] \in PastApproval
    <2>1. <<b, req[b]>> \in keys <=> pc[b] = "connected"
      BY <1>5 DEF OutcomeInv, KeyIsReportedNext
    <2>2. CASE pc'[b] = "connected"
      BY <1>1, <1>2, <1>3, <2>1, <2>2 DEF WorkGoesOn, KeysGrow
    <2>3. CASE pc'[b] # "connected"
      BY <1>1, <1>2, <1>3, <2>1, <2>3 DEF WorkGoesOn, KeysGrow
    <2> QED
      BY <2>2, <2>3
  <1> QED
    BY <1>1, <1>2, <1>4, <1>5 DEF WorkGoesOn

-----------------------------------------------------------------------------
(* How an agent gets to the signature and past it.                         *)
SignShape ==
  \A b \in Agents :
    /\ pc'[b] = "sign" => /\ req'[b] = req[b]
                          /\ pc[b] = "sign" \/ items'[req[b]].status = Approved
    /\ pc[b] = "sign" /\ pc'[b] = "verify" => ~(now > items[req[b]].expiresAt)

LEMMA SignSteps ==
  ASSUME FlowTypeOK, [FlowNext]_flowVars
  PROVE  SignShape
  <1> USE DEF SignShape, FlowTypeOK
  <1>1. ASSUME NEW a \in Agents, Drop(a) PROVE SignShape
    BY <1>1 DEF Drop
  <1>2. ASSUME NEW a \in Agents, NEW step, Goto(a, step),
               step # "sign" \/ items'[req[a]].status = Approved,
               pc[a] = "sign" /\ step = "verify" => ~(now > items[req[a]].expiresAt)
        PROVE  SignShape
    BY <1>2 DEF Goto
  <1>3. ASSUME UNCHANGED <<pc, req>> PROVE SignShape
    BY <1>3
  <1>4. ASSUME NEW a \in Agents, NEW r \in RequestIds, Begin(a, r) PROVE SignShape
    BY <1>4 DEF Begin
  <1>5. ASSUME NEW a \in Agents, NEW choice \in BOOLEAN, NEW approved \in BOOLEAN,
               UserAnswers(a, choice, approved)
        PROVE  SignShape
    BY <1>2, <1>5 DEF UserAnswers
  <1>6. ASSUME NEW a \in Agents, NobodyAnswers(a) \/ PostLocalDecision(a) PROVE SignShape
    BY <1>1, <1>2, <1>6 DEF NobodyAnswers, PostLocalDecision
  <1>7. ASSUME NEW a \in Agents, BundleLookup(a) PROVE SignShape
    BY <1>1, <1>2, <1>7 DEF BundleLookup
  <1>8. ASSUME NEW a \in Agents, BundleSign(a) PROVE SignShape
    BY <1>1, <1>2, <1>8 DEF BundleSign
  <1>9. ASSUME NEW a \in Agents, Verify(a) \/ InstallKey(a) PROVE SignShape
    BY <1>2, <1>9 DEF Verify, InstallKey
  <1>10. ASSUME NEW a \in Agents, PostResult(a) \/ GiveUp(a) PROVE SignShape
    BY <1>1, <1>10 DEF PostResult, GiveUp
  <1>11. ASSUME NEW a \in Agents, AgentRestart(a) PROVE SignShape
    BY <1>11 DEF AgentRestart
  <1>12. ASSUME ControlPlaneRestart PROVE SignShape
    BY <1>12 DEF ControlPlaneRestart
  <1>13. ASSUME \/ \E a \in Agents : Poll(a)
                \/ \E call \in Calls, r \in RequestIds :
                     HandleLate(call, r) \/ LoseLate(call, r)
                \/ Environment
                \/ UNCHANGED flowVars
         PROVE  SignShape
    BY <1>3, <1>13 DEF Poll, HandleLate, LoseLate, Environment, agentVars, flowVars
  <1> QED
    BY <1>4, <1>5, <1>6, <1>7, <1>8, <1>9, <1>10, <1>11, <1>12, <1>13
    DEF FlowNext, Process

(* An approved request moves to a result only when nobody works for it, so *)
(* one that waits for its signature can but expire; a restart of the       *)
(* control plane, which could undo the expiry, ends the wait too.          *)
LEMMA SignsUnlessExpiredStep ==
  ASSUME StoreAssumption, FlowAssumption, OutcomeInv, [FlowNext]_flowVars
  PROVE  SignsUnlessExpired'
  <1>1. SUFFICES ASSUME NEW a \in Agents, pc'[a] = "sign"
                 PROVE  items'[req'[a]].status \in {Approved, Expired}
    BY DEF SignsUnlessExpired
  <1>2. SignShape /\ WorkInv' /\ ReportEndsWork'
    BY SignSteps, WorkInvStep, ReportsStep DEF OutcomeInv, WorkInv
  <1>3. req'[a] = req[a] /\ (pc[a] = "sign" \/ items'[req[a]].status = Approved)
    BY <1>1, <1>2 DEF SignShape
  <1>4. req[a] \in RequestIds
    BY <1>1, <1>2, <1>3 DEF WorkInv, FlowTypeOK
  <1>5. CASE pc[a] = "sign" /\ items'[req[a]].status # Approved
    <2>1. ~ControlPlaneRestart
      BY <1>1 DEF ControlPlaneRestart
    <2>2. Operation
      BY <2>1, StepRunsStore, RunningMovesForward DEF OutcomeInv, WorkInv, StoreInv
    <2>3. Durable!Reached(items[req[a]].status, items'[req[a]].status)
      BY <1>4, <2>2 DEF Operation, ItemsForward
    <2>4. items[req[a]].status \in {Approved, Expired}
      BY <1>5 DEF OutcomeInv, SignsUnlessExpired
    <2>5. items'[req[a]].status \in {Approved, Expired} \union Results
      BY <2>3, <2>4
      DEF Durable!Reached, Durable!Precedes, Durable!Unfinished, Durable!Finished,
          Durable!Absent, Durable!Pending, Durable!Approved, Durable!Expired,
          Durable!DeniedLocal, Durable!VerificationFailed, Durable!Connected, Results
    <2>6. AtWork(a, req[a])'
      BY <1>1, <1>3 DEF AtWork, PastApproval
    <2>7. items'[req[a]].status \notin Results
      BY <1>2, <1>3, <1>4, <2>6 DEF ReportEndsWork, Reported
    <2> QED
      BY <1>3, <2>5, <2>7
  <1> QED
    BY <1>3, <1>5

LEMMA OutcomeInvariant == FlowSpec => []OutcomeInv
  <1>1. FlowInit => OutcomeInv
    BY WorkInvInit, StoreAssumption, FlowAssumption
    DEF FlowInit, Init, OutcomeInv, ReportEndsWork, ReportIsTrue, KeyIsReportedNext,
        SignsUnlessExpired, Reported, NoRequest, Results, PastApproval
  <1>2. OutcomeInv /\ [FlowNext]_flowVars => OutcomeInv'
    BY StoreAssumption, FlowAssumption, WorkInvStep, ReportsStep, KeyIsReportedNextStep,
       SignsUnlessExpiredStep
    DEF OutcomeInv
  <1> QED
    BY <1>1, <1>2, PTL DEF FlowSpec

-----------------------------------------------------------------------------
(* A request that some agent holds a key for is not denied.                *)
LEMMA KeyMeansNotDenied ==
  ASSUME WorkInv, NEW r \in RequestIds, NEW a \in Agents, <<a, r>> \in keys
  PROVE  items[r].status # DeniedLocal
  <1>1. Approved \in acked[r]
    BY DEF WorkInv, WorksFor
  <1>2. Durable!Reached(Approved, disk[r].status)
    BY <1>1 DEF WorkInv, StoreInv, AnswersAreDurable
  <1>3. Durable!Reached(disk[r].status, items[r].status)
    BY DEF WorkInv, StoreInv, MemoryAheadOfDisk
  <1>4. Durable!Reached(Approved, items[r].status)
    BY <1>2, <1>3, ReachedTransitive
  <1> QED
    BY <1>4
    DEF Durable!Reached, Durable!Precedes, Durable!Unfinished, Durable!Finished,
        Durable!Absent, Durable!Pending, Durable!Approved, Durable!Expired,
        Durable!DeniedLocal, Durable!VerificationFailed, Durable!Connected

(* The status the control plane shows for a finished request is what       *)
(* happened on the device, for any number of agents and requests and with  *)
(* reports that are late, lost, unsaved or undone by a restart.            *)
THEOREM OutcomeIsTrue == FlowSpec => []OutcomeMatchesDevice
  <1>1. ASSUME OutcomeInv PROVE OutcomeMatchesDevice
    <2>1. ASSUME NEW r \in RequestIds
          PROVE  /\ items[r].status = Connected => \E a \in Agents : <<a, r>> \in keys
                 /\ items[r].status \in {DeniedLocal, VerificationFailed} =>
                      \A a \in Agents : <<a, r>> \notin keys
      BY <1>1, KeyMeansNotDenied DEF OutcomeInv, ReportIsTrue, Reported
    <2> QED
      BY <2>1 DEF OutcomeMatchesDevice
  <1>2. OutcomeInv => OutcomeMatchesDevice
    BY <1>1
  <1> QED
    BY <1>2, OutcomeInvariant, PTL

(* The handler of GET attestation-bundle signs without holding the store,  *)
(* yet only for a request that is approved, durably and in time.           *)
THEOREM SignedWhileApproved == FlowSpec => SignedOnlyWhileApproved
  <1> DEFINE Signed ==
        \A a \in Agents :
          pc[a] = "sign" /\ pc'[a] = "verify" =>
            /\ items[req[a]].status = Approved
            /\ Durable!Reached(Approved, disk[req[a]].status)
            /\ now <= items[req[a]].expiresAt
  <1>1. ASSUME OutcomeInv, [FlowNext]_flowVars PROVE Signed
    <2>1. SUFFICES ASSUME NEW a \in Agents, pc[a] = "sign", pc'[a] = "verify"
                   PROVE  /\ items[req[a]].status = Approved
                          /\ Durable!Reached(Approved, disk[req[a]].status)
                          /\ now <= items[req[a]].expiresAt
      OBVIOUS
    <2>2. req[a] \in RequestIds /\ WorksFor(a, req[a])
      BY <1>1, <2>1 DEF OutcomeInv, WorkInv, FlowTypeOK, WorksFor, PastApproval
    <2>3. ~(now > items[req[a]].expiresAt)
      BY <1>1, <2>1, SignSteps DEF SignShape, OutcomeInv, WorkInv
    <2>4. now <= items[req[a]].expiresAt
      BY <1>1, <2>2, <2>3 DEF OutcomeInv, WorkInv, StoreInv, TypeOK, Request
    <2>5. items[req[a]].status # Expired
      BY <1>1, <2>2, <2>3 DEF OutcomeInv, WorkInv, StoreInv, ExpiredOnlyAfterDeadline
    <2>6. items[req[a]].status = Approved
      BY <1>1, <2>1, <2>5 DEF OutcomeInv, SignsUnlessExpired
    <2>7. Durable!Reached(Approved, disk[req[a]].status)
      BY <1>1, <2>2 DEF OutcomeInv, WorkInv, StoreInv, AnswersAreDurable
    <2> QED
      BY <2>4, <2>6, <2>7
  <1>2. OutcomeInv /\ [FlowNext]_flowVars => [Signed]_flowVars
    BY <1>1
  <1>3. FlowSpec => [][Signed]_flowVars
    BY <1>2, OutcomeInvariant, PTL DEF FlowSpec
  <1> QED
    BY <1>3 DEF SignedOnlyWhileApproved
=============================================================================
