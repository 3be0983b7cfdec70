----------------------------- MODULE AccessFlow -----------------------------
(***************************************************************************)
(* The access flow: local agents (cmd/agent, flow.Runner) that poll the    *)
(* control plane, prompt their user, post the decision, fetch the signed   *)
(* bundle, verify it, install the key and post the result, composed with   *)
(* the store of RequestStore behind the HTTP handlers.                     *)
(*                                                                         *)
(* A call is handled by one step of the store while its agent waits for    *)
(* the answer.  An agent gives up after its client's timeout; its call may *)
(* then still be handled, later and in any order, or be lost.  Agents and  *)
(* control plane stop and restart at any point.  Several agents may poll   *)
(* for one device id: it is a host name unless the operator sets it.       *)
(***************************************************************************)
EXTENDS RequestStore

CONSTANTS
  Agents,      \* running local agents
  MacAgents,   \* those built from native_darwin.go
  Serves,      \* <<a, r>>: request r names the device id agent a polls for
  Published    \* requests whose connector has a bundle in StaticBundleSource

NoId == "none"

ASSUME FlowAssumption ==
  /\ NoId \notin RequestIds
  /\ MacAgents \subseteq Agents
  /\ Serves \subseteq Agents \X RequestIds
  /\ Published \subseteq RequestIds

VARIABLES
  pc,          \* pc[a]: where Process stands
  todo,        \* todo[a]: requests of the last poll not yet processed
  req,         \* req[a]: the request being processed, or NoId
  late,        \* calls whose agent gave up and that may still be handled
  confirmed,   \* <<a, r>>: the user of a chose to approve r (history)
  keys         \* <<a, r>>: a installed the key of r (history)

storeVars == <<now, items, disk, issued, acked>>
agentVars == <<pc, todo, req>>
flowVars  == <<now, items, disk, issued, acked, pc, todo, req, late, confirmed, keys>>

Calls == {"approve", "deny", "fetch", "connected", "failed"}
Steps == {"idle", "prompt", "sign", "verify", "install"} \union Calls

(* Where an agent stands after its approval was answered.                  *)
PastApproval == {"fetch", "sign", "verify", "install", "connected", "failed"}

Contract == INSTANCE AccessContract
              WITH status <- [r \in RequestIds |-> disk[r].status]

-----------------------------------------------------------------------------
Goto(a, step) ==
  /\ pc' = [pc EXCEPT ![a] = step]
  /\ UNCHANGED <<todo, req>>

(* Process returns; the loop of cmd/agent takes the next request.          *)
DropKeepingRequest(a) == Goto(a, "idle")

Drop(a) ==
  /\ pc' = [pc EXCEPT ![a] = "idle"]
  /\ req' = [req EXCEPT ![a] = NoId]
  /\ UNCHANGED todo

(* The handlers answer a call that finds its request in a status it cannot *)
(* leave with 404 or 409.                                                  *)
Rejected(r, from) ==
  /\ expireIfNeeded(items[r]).status \notin {from, Expired}
  /\ UNCHANGED storeVars

Verdict(call) == IF call = "approve" THEN Approved ELSE DeniedLocal
Outcome(call) == IF call = "connected" THEN Connected ELSE VerificationFailed

FlowInit ==
  /\ Init
  /\ pc = [a \in Agents |-> "idle"]
  /\ todo = [a \in Agents |-> {}]
  /\ req = [a \in Agents |-> NoId]
  /\ late = {}
  /\ confirmed = {}
  /\ keys = {}

-----------------------------------------------------------------------------
(* One round of the ticker: PollPending, when the last batch is done.      *)
Poll(a) ==
  /\ pc[a] = "idle" /\ todo[a] = {}
  /\ ListPendingForDevice
  /\ todo' = [todo EXCEPT ![a] =
                {r \in RequestIds : <<a, r>> \in Serves /\ items'[r].status = Pending}]
  /\ UNCHANGED <<pc, req, late, confirmed, keys>>

(* The batch is processed in the order of a Go map's iteration, and is not *)
(* looked up again: a request in it may be stale.                          *)
Begin(a, r) ==
  /\ pc[a] = "idle" /\ r \in todo[a]
  /\ pc' = [pc EXCEPT ![a] = "prompt"]
  /\ todo' = [todo EXCEPT ![a] = @ \ {r}]
  /\ req' = [req EXCEPT ![a] = r]
  /\ UNCHANGED <<storeVars, late, confirmed, keys>>

(* What Confirm returns for the choice of the user: the native dialog, or  *)
(* the terminal when the dialog cannot be shown.  The macOS dialog returns *)
(* osascript's output, which names the button and is never empty.          *)
ConfirmReturns(a, choice, approved) ==
  approved = choice \/ (a \in MacAgents /\ approved)

UserAnswers(a, choice, approved) ==
  /\ pc[a] = "prompt"
  /\ ConfirmReturns(a, choice, approved)
  /\ confirmed' = IF choice THEN confirmed \union {<<a, req[a]>>} ELSE confirmed
  /\ Goto(a, IF approved THEN "approve" ELSE "deny")
  /\ UNCHANGED <<storeVars, late, keys>>

(* No dialog and no terminal: the end of standard input is a denial, any   *)
(* other read error ends Process before anything is posted.                *)
NobodyAnswers(a) ==
  /\ pc[a] = "prompt"
  /\ Goto(a, "deny") \/ Drop(a)
  /\ UNCHANGED <<storeVars, late, confirmed, keys>>

(* PostLocalDecision.  Any answer but success ends Process.                *)
PostIgnoringErrors(a) ==
  /\ pc[a] \in {"approve", "deny"}
  /\ LET r == req[a]
         s == Verdict(pc[a])
     IN  /\ \/ MoveSaved(r, Pending, s) \/ MoveUnsaved(r, Pending, s)
            \/ TooLate(r) \/ Rejected(r, Pending)
         /\ IF pc[a] = "approve" THEN Goto(a, "fetch") ELSE Drop(a)
  /\ UNCHANGED <<late, confirmed, keys>>

PostIgnoringDenial(a) ==
  /\ pc[a] \in {"approve", "deny"}
  /\ \/ MoveSaved(req[a], Pending, Approved) /\ Goto(a, "fetch")
     \/ (TooLate(req[a]) \/ Rejected(req[a], Pending)) /\ Drop(a)
  /\ UNCHANGED <<late, confirmed, keys>>

PostLocalDecision(a) ==
  /\ pc[a] \in {"approve", "deny"}
  /\ LET r == req[a]
         s == Verdict(pc[a])
     IN  \/ /\ MoveSaved(r, Pending, s)
            /\ IF pc[a] = "approve" THEN Goto(a, "fetch") ELSE Drop(a)
         \/ /\ MoveUnsaved(r, Pending, s) \/ TooLate(r) \/ Rejected(r, Pending)
            /\ Drop(a)
  /\ UNCHANGED <<late, confirmed, keys>>

(* The handler of GET attestation-bundle looks the request up, expires and *)
(* saves it, and goes on only with an approved one whose connector has a   *)
(* bundle ...                                                              *)
BundleLookup(a) ==
  /\ pc[a] = "fetch"
  /\ LET r == req[a]
     IN  \/ /\ Get(r)
            /\ IF items'[r].status = Approved /\ r \in Published
               THEN Goto(a, "sign") ELSE Drop(a)
         \/ ~Present(r) /\ Drop(a) /\ UNCHANGED storeVars
  /\ UNCHANGED <<late, confirmed, keys>>

(* ... and, no longer holding the store, signs it unless the deadline has  *)
(* passed since.                                                           *)
SignWithoutDeadline(a) ==
  /\ pc[a] = "sign"
  /\ Goto(a, "verify")
  /\ UNCHANGED <<storeVars, late, confirmed, keys>>

BundleSign(a) ==
  /\ pc[a] = "sign"
  /\ IF now > items[req[a]].expiresAt THEN Drop(a) ELSE Goto(a, "verify")
  /\ UNCHANGED <<storeVars, late, confirmed, keys>>

(* TrustedKeys, the signature, the payload, the quote, the policy and the  *)
(* report data: whatever fails first, a failure is reported.  The payload's*)
(* request id, nonce and deadline are not looked at.                       *)
Verify(a) ==
  /\ pc[a] = "verify"
  /\ Goto(a, "install") \/ Goto(a, "failed")
  /\ UNCHANGED <<storeVars, late, confirmed, keys>>

(* keys.Install replaces the file by a rename, or fails and leaves it.     *)
InstallIgnoringError(a) ==
  /\ pc[a] = "install"
  /\ Goto(a, "connected")
  /\ keys' = keys \union {<<a, req[a]>>} \/ keys' = keys
  /\ UNCHANGED <<storeVars, late, confirmed>>

InstallKey(a) ==
  /\ pc[a] = "install"
  /\ \/ keys' = keys \union {<<a, req[a]>>} /\ Goto(a, "connected")
     \/ keys' = keys /\ Goto(a, "failed")
  /\ UNCHANGED <<storeVars, late, confirmed>>

(* PostResult: Process returns, whatever the answer.                       *)
PostResult(a) ==
  /\ pc[a] \in {"connected", "failed"}
  /\ LET r == req[a]
         s == Outcome(pc[a])
     IN  \/ MoveSaved(r, Approved, s)
         \/ MoveUnsaved(r, Approved, s)
         \/ TooLate(r)
         \/ Rejected(r, Approved)
  /\ Drop(a)
  /\ UNCHANGED <<late, confirmed, keys>>

(* The client's timeout, or a broken connection, before the answer: the    *)
(* call may still be on its way.                                           *)
GiveUp(a) ==
  /\ pc[a] \in Calls \union {"sign"}
  /\ late' = IF pc[a] \in Calls THEN late \union {<<pc[a], req[a]>>} ELSE late
  /\ Drop(a)
  /\ UNCHANGED <<storeVars, confirmed, keys>>

(* The control plane handles a call nobody waits for any more.             *)
HandleLate(call, r) ==
  /\ <<call, r>> \in late
  /\ late' = late \ {<<call, r>>}
  /\ \/ call \in {"approve", "deny"} /\ SetLocalDecision(r, Verdict(call))
     \/ call = "fetch" /\ Get(r)
     \/ call \in {"connected", "failed"} /\ SetResult(r, Outcome(call))
  /\ UNCHANGED <<agentVars, confirmed, keys>>

(* A late call is lost, or has no effect when it is handled.               *)
LoseLate(call, r) ==
  /\ <<call, r>> \in late
  /\ late' = late \ {<<call, r>>}
  /\ UNCHANGED <<storeVars, agentVars, confirmed, keys>>

(* An agent is stopped and started: it remembers nothing.                  *)
AgentRestart(a) ==
  /\ pc[a] # "idle" \/ todo[a] # {}
  /\ pc' = [pc EXCEPT ![a] = "idle"]
  /\ todo' = [todo EXCEPT ![a] = {}]
  /\ req' = [req EXCEPT ![a] = NoId]
  /\ \/ UNCHANGED late
     \/ pc[a] \in Calls /\ late' = late \union {<<pc[a], req[a]>>}
  /\ UNCHANGED <<storeVars, confirmed, keys>>

(* The control plane stops and starts: what it was handling or had not     *)
(* read yet is gone.                                                       *)
RestartForgets ==
  /\ LoadForgotten
  /\ late' = {}
  /\ pc' = [a \in Agents |-> IF pc[a] = "sign" THEN "idle" ELSE pc[a]]
  /\ req' = [a \in Agents |-> IF pc[a] = "sign" THEN NoId ELSE req[a]]
  /\ UNCHANGED <<todo, confirmed, keys>>

ControlPlaneRestart ==
  /\ Restart
  /\ late' = {}
  /\ pc' = [a \in Agents |-> IF pc[a] = "sign" THEN "idle" ELSE pc[a]]
  /\ req' = [a \in Agents |-> IF pc[a] = "sign" THEN NoId ELSE req[a]]
  /\ UNCHANGED <<todo, confirmed, keys>>

(* The chat asks for access, agents of other devices poll, install         *)
(* sessions are used, time passes.                                         *)
Environment ==
  /\ \/ \E r \in RequestIds : Create(r)
     \/ ListPendingForDevice
     \/ InstallOperationPersists
     \/ Tick
  /\ UNCHANGED <<agentVars, late, confirmed, keys>>

(* What Process does next by itself, by its user or by its call's end.     *)
Process(a) ==
  \/ \E r \in RequestIds : Begin(a, r)
  \/ \E choice, approved \in BOOLEAN : UserAnswers(a, choice, approved)
  \/ NobodyAnswers(a)
  \/ PostLocalDecision(a)
  \/ BundleLookup(a)
  \/ BundleSign(a)
  \/ Verify(a)
  \/ InstallKey(a)
  \/ PostResult(a)
  \/ GiveUp(a)

FlowNext ==
  \/ \E a \in Agents : Poll(a) \/ Process(a) \/ AgentRestart(a)
  \/ \E call \in Calls, r \in RequestIds : HandleLate(call, r) \/ LoseLate(call, r)
  \/ ControlPlaneRestart
  \/ Environment

FlowSpec == FlowInit /\ [][FlowNext]_flowVars

(* Time passes; an agent polls when it is idle; its prompts are answered   *)
(* and its calls are answered or time out.  Other devices need not exist.  *)
LiveFlowSpec ==
  /\ FlowSpec
  /\ WF_flowVars(Environment /\ Tick)
  /\ \A a \in Agents : WF_flowVars(Poll(a)) /\ WF_flowVars(Process(a))

-----------------------------------------------------------------------------
(* The one type invariant; an agent has a request exactly when it is busy. *)
FlowTypeOK ==
  /\ pc \in [Agents -> Steps]
  /\ todo \in [Agents -> SUBSET RequestIds]
  /\ req \in [Agents -> RequestIds \union {NoId}]
  /\ \A a \in Agents : pc[a] = "idle" <=> req[a] = NoId
  /\ late \subseteq Calls \X RequestIds
  /\ confirmed \subseteq Agents \X RequestIds
  /\ keys \subseteq Agents \X RequestIds

(* "No connection without local confirmation for that request ID": a key   *)
(* is on a device only for a request that the user of this very agent      *)
(* approved, and whose approval the state file holds.                      *)
NoKeyWithoutConfirmation ==
  \A p \in keys : p \in confirmed /\ Approved \in acked[p[2]]

(* Past its approval, agent a alone works for request r, or has.           *)
WorksFor(a, r) ==
  <<a, r>> \in keys \/ (req[a] = r /\ pc[a] \in PastApproval)

(* Agents that poll for one device id never both act on an approval, though*)
(* they may both have prompted and both have posted one.                   *)
OneAgentPerRequest ==
  \A a, b \in Agents, r \in RequestIds : WorksFor(a, r) /\ WorksFor(b, r) => a = b

(* What the control plane says of a finished request is what happened on   *)
(* the device: connected has a key, and a denial or a failed verification  *)
(* has none, with late, lost and unsaved reports and restarts.             *)
OutcomeMatchesDevice ==
  \A r \in RequestIds :
    LET devices == {a \in Agents : <<a, r>> \in keys}
    IN  /\ items[r].status = Connected => devices # {}
        /\ items[r].status \in {DeniedLocal, VerificationFailed} => devices = {}

(* A bundle is signed only for a request that is approved, for good and    *)
(* not yet expired, when it is signed: nothing that happens between the    *)
(* lookup and the signature changes that.                                  *)
SignedOnlyWhileApproved ==
  [][\A a \in Agents :
       pc[a] = "sign" /\ pc'[a] = "verify" =>
         /\ items[req[a]].status = Approved
         /\ Durable!Reached(Approved, disk[req[a]].status)
         /\ now <= items[req[a]].expiresAt]_flowVars

(* With every message, crash and failed write hidden, what the users and   *)
(* the state file see is AccessContract: a request is approved only after  *)
(* a confirmation, its key is installed once and only while that approval  *)
(* may stand, and the file says connected, denied or failed only when that *)
(* is so and stays so.                                                     *)
ImplementsContract == Contract!ContractSpec

(* The composed system uses the store by its operations only, so what is   *)
(* proved of RequestStore holds here (the handlers call nothing else).     *)
UsesTheStore == Spec

(* Every request leaves pending and approved, whichever calls are late or  *)
(* lost and whoever restarts, by the polls of the agents alone.            *)
EveryRequestSettlesInFlow == EveryRequestSettles

(* docs/runbooks/connector-access-flow.md has the agent verify the bundle's*)
(* freshness; the agent does not, and installs after the deadline.         *)
KeyInstalledBeforeDeadline ==
  [][\A a \in Agents, r \in RequestIds :
       <<a, r>> \in keys' \ keys => now <= items[r].expiresAt]_flowVars
=============================================================================
