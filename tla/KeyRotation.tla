----------------------------- MODULE KeyRotation -----------------------------
(***************************************************************************)
(* Rotation of the keys that sign attestation bundles.  The control plane  *)
(* publishes the keys it was deployed with (signing.SignerSet) and signs   *)
(* with the active one; every agent verifies against a copy of the keyset  *)
(* that trust.KeysetSource keeps for TTL.  Who deploys follows the runbook *)
(* signing-key-rotation.md: a key is added, becomes active, and its        *)
(* predecessor is removed, with a wait of Overlap before each of the last  *)
(* two.  Overlap = 0 is the runbook's emergency: rotate at once.           *)
(*                                                                         *)
(* A key is its kid: no kid ever names two keys.                           *)
(***************************************************************************)
EXTENDS Naturals

CONSTANTS
  Kids,        \* the key ids there will ever be
  FirstKid,    \* the one the system was set up with
  Agents,
  Bootstraps,  \* keysets an agent's environment may hold; {} if it holds none
  TTL,         \* SIGNING_KEYSET_CACHE_TTL
  CallTime,    \* the client's timeout
  Overlap,     \* how long the operator waits
  MaxTime      \* bound: the clock stops here

ASSUME RotationAssumption ==
  /\ FirstKid \in Kids
  /\ Bootstraps \subseteq SUBSET Kids
  /\ TTL \in Nat \ {0}
  /\ CallTime \in Nat
  /\ Overlap \in Nat
  /\ MaxTime \in Nat

VARIABLES
  now,
  keys,        \* the keys of the control plane, SIGNING_KEYS_JSON
  active,      \* SIGNING_ACTIVE_KID
  since,       \* when a kid was added (history)
  gone,        \* when it was removed (history)
  lastActive,  \* when it was last active, for those that no longer are (history)
  used,        \* the kids added so far
  boot,        \* each agent's bootstrap keyset
  trusted,     \* KeysetSource.trusted
  expiresAt,   \* KeysetSource.expiresAt
  pc,          \* where an agent is with the bundle in hand
  kid,         \* the bundle's kid
  began,       \* when the bundle was signed, then when the fetch began
  reply        \* the keyset served to that fetch

operator == <<keys, active, since, gone, lastActive, used>>
cache    == <<boot, trusted, expiresAt>>
work     == <<pc, kid, began, reply>>
vars     == <<now, operator, cache, work>>

NoReply == {}

-----------------------------------------------------------------------------
(* Deployments.  config.Load and NewSignerSetFromSeedMap refuse to start a *)
(* control plane whose keyset does not contain the active kid.             *)
ConfiguredVariant(ks, k) == ks # {}
Configured(ks, k) == k \in ks

Deploy(ks, k) ==
  /\ Configured(ks, k)
  /\ keys'   = ks
  /\ active' = k

(* Steps 3 to 5 of the runbook.                                            *)
AddKey(k) ==
  /\ k \notin used
  /\ Deploy(keys \union {k}, active)
  /\ since' = [since EXCEPT ![k] = now]
  /\ lastActive' = [lastActive EXCEPT ![k] = now]
  /\ used'  = used \union {k}
  /\ UNCHANGED <<now, gone, cache, work>>

(* Step 8, and the rollback, which goes back to a key added long ago.      *)
Switch(k) ==
  /\ k # active
  /\ now >= since[k] + Overlap
  /\ Deploy(keys, k)
  /\ lastActive' = [lastActive EXCEPT ![active] = now]
  /\ UNCHANGED <<now, since, gone, used, cache, work>>

(* Step 12.                                                                *)
Retire(k) ==
  /\ k \in keys
  /\ now > lastActive[k] + Overlap
  /\ Deploy(keys \ {k}, active)
  /\ gone' = [gone EXCEPT ![k] = now]
  /\ UNCHANGED <<now, since, lastActive, used, cache, work>>

-----------------------------------------------------------------------------
(* The agent's cache.  NewKeysetSource trusts a bootstrap keyset for TTL   *)
(* from the start of the process.                                          *)
FreshVariant(a) == trusted[a] # {}
Fresh(a) == trusted[a] # {} /\ now < expiresAt[a]

(* What is fetched is trusted for TTL from before the call.                *)
StoreFromReturn(a) ==
  /\ trusted'   = [trusted EXCEPT ![a] = reply[a]]
  /\ expiresAt' = [expiresAt EXCEPT ![a] = now + TTL]
  /\ UNCHANGED boot
Store(a) ==
  /\ trusted'   = [trusted EXCEPT ![a] = reply[a]]
  /\ expiresAt' = [expiresAt EXCEPT ![a] = began[a] + TTL]
  /\ UNCHANGED boot

Go(a, where) == pc' = [pc EXCEPT ![a] = where]

(* verifyBundleSignature looks the bundle's kid up in the keys it is given.*)
Verdict(a, ks) ==
  /\ Go(a, IF kid[a] \in ks THEN "accepted" ELSE "refused")
  /\ began' = [began EXCEPT ![a] = 0]
  /\ reply' = [reply EXCEPT ![a] = NoReply]
  /\ UNCHANGED kid

Forget(a) ==
  /\ Go(a, "idle")
  /\ kid'   = [kid EXCEPT ![a] = FirstKid]
  /\ began' = [began EXCEPT ![a] = 0]
  /\ reply' = [reply EXCEPT ![a] = NoReply]

(* The bundle is signed with the active key.                               *)
GetBundle(a) ==
  /\ pc[a] = "idle"
  /\ Go(a, "held")
  /\ kid'   = [kid EXCEPT ![a] = active]
  /\ began' = [began EXCEPT ![a] = now]
  /\ UNCHANGED <<now, operator, cache, reply>>

(* TrustedKeys answers from the cache, or asks the control plane.          *)
UseCache(a) ==
  /\ pc[a] = "held"
  /\ Fresh(a)
  /\ Verdict(a, trusted[a])
  /\ UNCHANGED <<now, operator, cache>>

FetchBegin(a) ==
  /\ pc[a] = "held"
  /\ ~Fresh(a)
  /\ Go(a, "asking")
  /\ began' = [began EXCEPT ![a] = now]
  /\ UNCHANGED <<now, operator, cache, kid, reply>>

FetchServe(a) ==
  /\ pc[a] = "asking"
  /\ Go(a, "served")
  /\ reply' = [reply EXCEPT ![a] = keys]
  /\ UNCHANGED <<now, operator, cache, kid, began>>

(* trustedMapFromKeyset accepts every keyset a control plane can serve.    *)
FetchReturn(a) ==
  /\ pc[a] = "served"
  /\ Store(a)
  /\ Verdict(a, reply[a])
  /\ UNCHANGED <<now, operator>>

(* The call fails or times out.  The request ends without its kid having   *)
(* been looked at, and the cache, though stale, stays.                     *)
FetchFails(a) ==
  /\ pc[a] \in {"asking", "served"}
  /\ Forget(a)
  /\ UNCHANGED <<now, operator, cache>>

Report(a) ==
  /\ pc[a] \in {"accepted", "refused"}
  /\ Forget(a)
  /\ UNCHANGED <<now, operator, cache>>

Booted(a, b) ==
  /\ trusted'   = [trusted EXCEPT ![a] = b]
  /\ expiresAt' = [expiresAt EXCEPT ![a] = now + TTL]

AgentRestart(a) ==
  /\ Booted(a, boot[a])
  /\ Forget(a)
  /\ UNCHANGED <<now, operator, boot>>

-----------------------------------------------------------------------------
(* No call outlasts the client's timeout, and between the calls the agent  *)
(* does not wait.                                                          *)
InTime(a) ==
  pc[a] \in {"held", "asking", "served"} => now < began[a] + CallTime

Tick ==
  /\ now < MaxTime
  /\ \A a \in Agents : InTime(a)
  /\ now' = now + 1
  /\ UNCHANGED <<operator, cache, work>>

Init ==
  /\ now        = 0
  /\ keys       = {FirstKid}
  /\ active     = FirstKid
  /\ since      = [k \in Kids |-> 0]
  /\ gone       = [k \in Kids |-> 0]
  /\ lastActive = [k \in Kids |-> 0]
  /\ used       = {FirstKid}
  /\ boot       \in [Agents -> Bootstraps]
  /\ trusted    = boot
  /\ expiresAt  = [a \in Agents |-> TTL]
  /\ pc         = [a \in Agents |-> "idle"]
  /\ kid        = [a \in Agents |-> FirstKid]
  /\ began      = [a \in Agents |-> 0]
  /\ reply      = [a \in Agents |-> NoReply]

Operator == \E k \in Kids : AddKey(k) \/ Switch(k) \/ Retire(k)

Agent(a) ==
  \/ GetBundle(a) \/ UseCache(a)
  \/ FetchBegin(a) \/ FetchServe(a) \/ FetchReturn(a) \/ FetchFails(a)
  \/ Report(a) \/ AgentRestart(a)

Next == Tick \/ Operator \/ \E a \in Agents : Agent(a)

Spec == Init /\ [][Next]_vars

-----------------------------------------------------------------------------
(* Every variable has its type; the active key is one of the published     *)
(* ones (what config.Load and NewSignerSetFromSeedMap insist on).          *)
TypeOK ==
  /\ now \in 0..MaxTime
  /\ keys \subseteq used /\ used \subseteq Kids
  /\ active \in keys
  /\ since \in [Kids -> Nat]
  /\ gone \in [Kids -> Nat]
  /\ lastActive \in [Kids -> Nat]
  /\ boot \in [Agents -> SUBSET Kids]
  /\ trusted \in [Agents -> SUBSET Kids]
  /\ expiresAt \in [Agents -> Nat]
  /\ pc \in [Agents -> {"idle", "held", "asking", "served", "accepted", "refused"}]
  /\ kid \in [Agents -> Kids]
  /\ began \in [Agents -> Nat]
  /\ reply \in [Agents -> SUBSET Kids]

(* A rotation that follows the runbook breaks no verification: no agent    *)
(* meets a bundle whose kid is missing from the keys TrustedKeys gives it. *)
NoBundleRefused == \A a \in Agents : pc[a] # "refused"

(* However hastily keys are deployed, the keyset that cachedIfFresh hands   *)
(* out is less than TTL out of date: a removed key is still in it only for *)
(* less than TTL after its removal, an added one missing only for less than*)
(* TTL after its addition.  What an agent has in its own environment is    *)
(* beyond the reach of a deployment.                                       *)
CacheIsRecent ==
  \A a \in Agents : Fresh(a) =>
    /\ \A k \in trusted[a] \ (keys \union boot[a]) : now < gone[k] + TTL
    /\ boot[a] = {} => \A k \in keys \ trusted[a] : now < since[k] + TTL
=============================================================================
