-------------------------- MODULE KeyRotationProofs --------------------------
(***************************************************************************)
(* Theorems about KeyRotation for every set of kids and agents, every      *)
(* cache lifetime, client timeout and overlap.                             *)
(***************************************************************************)
EXTENDS KeyRotation, TLAPS

Busy(a) == pc[a] \in {"held", "asking", "served"}

(* Nothing happened in the future, and no copy is trusted for more than    *)
(* TTL from now.                                                           *)
PastInv ==
  /\ FirstKid \in used
  /\ \A k \in Kids : since[k] <= now /\ gone[k] <= now /\ lastActive[k] <= now
  /\ \A a \in Agents : expiresAt[a] <= now + TTL
  /\ \A a \in Agents : began[a] <= now

(* A keyset in an agent's hands, known to have been complete and current   *)
(* at some time not before t: its removed keys were removed after t, and   *)
(* the keys missing from it were added after t.                            *)
CurrentAt(ks, t) ==
  /\ \A k \in ks \ keys : t <= gone[k]
  /\ \A k \in keys \ ks : k # FirstKid /\ t <= since[k]

(* The same of a cached copy, of which only t + TTL is known.              *)
RemovedLate(a) ==
  \A k \in trusted[a] \ (keys \union boot[a]) : expiresAt[a] <= gone[k] + TTL
AddedLate(a) ==
  \A k \in keys \ trusted[a] : k # FirstKid /\ expiresAt[a] <= since[k] + TTL

CopyInv ==
  \A a \in Agents :
    /\ RemovedLate(a)
    /\ boot[a] \in {{}, Kids} /\ trusted[a] # {} => AddedLate(a)
    /\ pc[a] = "served" => CurrentAt(reply[a], began[a])

CacheInv == TypeOK /\ PastInv /\ CopyInv

(* An agent that has a bundle in hand got it not long ago; its kid was     *)
(* published long before, and is still.                                    *)
ActiveLong(k, t) == k = FirstKid \/ since[k] + Overlap <= t

HeldInv ==
  \A a \in Agents : Busy(a) =>
    /\ kid[a] \in keys
    /\ now <= began[a] + CallTime
    /\ ActiveLong(kid[a], began[a])
    /\ kid[a] # active =>
         /\ pc[a] = "held" => began[a] <= lastActive[kid[a]]
         /\ began[a] <= lastActive[kid[a]] + CallTime

CarefulInv ==
  /\ ActiveLong(active, now)
  /\ \A a \in Agents : boot[a] \in {{}, Kids}
  /\ HeldInv
  /\ NoBundleRefused

-----------------------------------------------------------------------------
LEMMA TypeInit == Init => TypeOK
  BY RotationAssumption DEF Init, TypeOK, NoReply

LEMMA TypeStep == TypeOK /\ [Next]_vars => TypeOK'
  <1> SUFFICES ASSUME TypeOK, [Next]_vars PROVE TypeOK'
    OBVIOUS
  <1> USE RotationAssumption DEF TypeOK, operator, cache, work
  <1>1. CASE Tick
    BY <1>1 DEF Tick
  <1>2. ASSUME NEW k \in Kids, AddKey(k) PROVE TypeOK'
    BY <1>2 DEF AddKey, Deploy, Configured
  <1>3. ASSUME NEW k \in Kids, Switch(k) PROVE TypeOK'
    BY <1>3 DEF Switch, Deploy, Configured
  <1>4. ASSUME NEW k \in Kids, Retire(k) PROVE TypeOK'
    BY <1>4 DEF Retire, Deploy, Configured
  <1>5. ASSUME NEW a \in Agents, GetBundle(a) PROVE TypeOK'
    BY <1>5 DEF GetBundle, Go
  <1>6. ASSUME NEW a \in Agents, UseCache(a) PROVE TypeOK'
    BY <1>6 DEF UseCache, Verdict, Go, NoReply
  <1>7. ASSUME NEW a \in Agents, FetchBegin(a) PROVE TypeOK'
    BY <1>7 DEF FetchBegin, Go
  <1>8. ASSUME NEW a \in Agents, FetchServe(a) PROVE TypeOK'
    BY <1>8 DEF FetchServe, Go
  <1>9. ASSUME NEW a \in Agents, FetchReturn(a) PROVE TypeOK'
    BY <1>9 DEF FetchReturn, Store, Verdict, Go, NoReply
  <1>10. ASSUME NEW a \in Agents, FetchFails(a) \/ Report(a) PROVE TypeOK'
    BY <1>10 DEF FetchFails, Report, Forget, Go, NoReply
  <1>11. ASSUME NEW a \in Agents, AgentRestart(a) PROVE TypeOK'
    BY <1>11 DEF AgentRestart, Booted, Forget, Go, NoReply
  <1>12. CASE UNCHANGED vars
    BY <1>12 DEF vars
  <1> QED
    BY <1>1, <1>2, <1>3, <1>4, <1>5, <1>6, <1>7, <1>8, <1>9, <1>10, <1>11, <1>12
    DEF Next, Operator, Agent

LEMMA PastStep == TypeOK /\ PastInv /\ [Next]_vars => PastInv'
  <1> SUFFICES ASSUME TypeOK, PastInv, [Next]_vars PROVE PastInv'
    OBVIOUS
  <1> USE RotationAssumption DEF TypeOK, PastInv, operator, cache, work
  <1>1. CASE Tick
    BY <1>1 DEF Tick
  <1>2. ASSUME NEW k \in Kids, AddKey(k) \/ Switch(k) \/ Retire(k) PROVE PastInv'
    BY <1>2 DEF AddKey, Switch, Retire
  <1>3. ASSUME NEW a \in Agents, GetBundle(a) PROVE PastInv'
    BY <1>3 DEF GetBundle
  <1>4. ASSUME NEW a \in Agents, UseCache(a) PROVE PastInv'
    BY <1>4 DEF UseCache, Verdict
  <1>5. ASSUME NEW a \in Agents, FetchBegin(a) \/ FetchServe(a) PROVE PastInv'
    BY <1>5 DEF FetchBegin, FetchServe
  <1>6. ASSUME NEW a \in Agents, FetchReturn(a) PROVE PastInv'
    BY <1>6 DEF FetchReturn, Store, Verdict
  <1>7. ASSUME NEW a \in Agents, FetchFails(a) \/ Report(a) PROVE PastInv'
    BY <1>7 DEF FetchFails, Report, Forget
  <1>8. ASSUME NEW a \in Agents, AgentRestart(a) PROVE PastInv'
    BY <1>8 DEF AgentRestart, Booted, Forget
  <1>9. CASE UNCHANGED vars
    BY <1>9 DEF vars
  <1> QED
    BY <1>1, <1>2, <1>3, <1>4, <1>5, <1>6, <1>7, <1>8, <1>9
    DEF Next, Operator, Agent

-----------------------------------------------------------------------------
(* A deployment removes keys now and adds keys now, after everything an    *)
(* agent has fetched.                                                      *)
LEMMA CopyDeployed ==
  ASSUME CacheInv, NEW k \in Kids, AddKey(k) \/ Switch(k) \/ Retire(k)
  PROVE  CopyInv'
  <1> USE RotationAssumption DEF CacheInv, TypeOK, PastInv, cache, work
  <1> SUFFICES ASSUME NEW a \in Agents
               PROVE  /\ RemovedLate(a)'
                      /\ (boot[a] \in {{}, Kids} /\ trusted[a] # {} => AddedLate(a))'
                      /\ (pc[a] = "served" => CurrentAt(reply[a], began[a]))'
    BY DEF CopyInv
  <1>1. UNCHANGED <<now, boot, trusted, expiresAt, pc, reply, began>>
    BY DEF AddKey, Switch, Retire
  <1>2. /\ RemovedLate(a)
        /\ boot[a] \in {{}, Kids} /\ trusted[a] # {} => AddedLate(a)
        /\ pc[a] = "served" => CurrentAt(reply[a], began[a])
    BY DEF CopyInv
  <1>3. CASE AddKey(k)
    BY <1>1, <1>2, <1>3 DEF AddKey, Deploy, RemovedLate, AddedLate, CurrentAt
  <1>4. CASE Switch(k)
    BY <1>1, <1>2, <1>4 DEF Switch, Deploy, RemovedLate, AddedLate, CurrentAt
  <1>5. CASE Retire(k)
    BY <1>1, <1>2, <1>5 DEF Retire, Deploy, RemovedLate, AddedLate, CurrentAt
  <1> QED
    BY <1>3, <1>4, <1>5

(* What is stored was current when it was asked for.                       *)
LEMMA CopyStored ==
  ASSUME CacheInv, NEW a \in Agents, FetchReturn(a)
  PROVE  CopyInv'
  <1> USE RotationAssumption DEF CacheInv, TypeOK
  <1>1. UNCHANGED <<now, keys, since, gone, boot>>
    BY DEF FetchReturn, Store, operator
  <1>2. /\ trusted'   = [trusted EXCEPT ![a] = reply[a]]
        /\ expiresAt' = [expiresAt EXCEPT ![a] = began[a] + TTL]
        /\ \A b \in Agents : pc'[b] = "served" =>
             b # a /\ pc[b] = "served" /\ reply'[b] = reply[b] /\ began'[b] = began[b]
    BY DEF FetchReturn, Store, Verdict, Go
  <1>3. CurrentAt(reply[a], began[a])
    BY DEF FetchReturn, CopyInv
  <1>4. RemovedLate(a)' /\ AddedLate(a)'
    BY <1>1, <1>2, <1>3 DEF RemovedLate, AddedLate, CurrentAt
  <1>5. ASSUME NEW b \in Agents, b # a
        PROVE  /\ RemovedLate(b)'
               /\ (boot[b] \in {{}, Kids} /\ trusted[b] # {} => AddedLate(b))'
    BY <1>1, <1>2, <1>5 DEF CopyInv, RemovedLate, AddedLate
  <1>6. ASSUME NEW b \in Agents
        PROVE  (pc[b] = "served" => CurrentAt(reply[b], began[b]))'
    BY <1>1, <1>2 DEF CopyInv, CurrentAt
  <1> QED
    BY <1>4, <1>5, <1>6 DEF CopyInv

LEMMA CopyStep == CacheInv /\ [Next]_vars => CopyInv'
  <1> SUFFICES ASSUME CacheInv, [Next]_vars PROVE CopyInv'
    OBVIOUS
  <1> USE DEF CacheInv, TypeOK, operator, cache
  <1>1. CASE Tick \/ UNCHANGED vars
    BY <1>1 DEF Tick, vars, work, CopyInv, RemovedLate, AddedLate, CurrentAt
  <1>2. ASSUME NEW k \in Kids, AddKey(k) \/ Switch(k) \/ Retire(k) PROVE CopyInv'
    BY <1>2, CopyDeployed
  <1>3. ASSUME NEW a \in Agents,
               \/ GetBundle(a) \/ UseCache(a) \/ FetchBegin(a)
               \/ FetchFails(a) \/ Report(a)
        PROVE  CopyInv'
    <2>1. UNCHANGED <<now, keys, since, gone, boot, trusted, expiresAt>>
      BY <1>3 DEF GetBundle, UseCache, FetchBegin, FetchFails, Report
    <2>2. \A b \in Agents : pc'[b] = "served" =>
            pc[b] = "served" /\ reply'[b] = reply[b] /\ began'[b] = began[b]
      BY <1>3
      DEF GetBundle, UseCache, FetchBegin, FetchFails, Report, Verdict, Forget, Go
    <2> QED
      BY <2>1, <2>2 DEF CopyInv, RemovedLate, AddedLate, CurrentAt
  <1>4. ASSUME NEW a \in Agents, FetchServe(a) PROVE CopyInv'
    <2>1. UNCHANGED <<now, keys, since, gone, boot, trusted, expiresAt, began>>
      BY <1>4 DEF FetchServe
    <2>2. \A b \in Agents : pc'[b] = "served" =>
            reply'[b] = keys \/ (pc[b] = "served" /\ reply'[b] = reply[b])
      BY <1>4 DEF FetchServe, Go
    <2> QED
      BY <2>1, <2>2 DEF CopyInv, RemovedLate, AddedLate, CurrentAt
  <1>5. ASSUME NEW a \in Agents, FetchReturn(a) PROVE CopyInv'
    BY <1>5, CopyStored
  <1>6. ASSUME NEW a \in Agents, AgentRestart(a) PROVE CopyInv'
    <2>1. /\ UNCHANGED <<now, keys, since, gone, boot>>
          /\ \A b \in Agents \ {a} : trusted'[b] = trusted[b] /\ expiresAt'[b] = expiresAt[b]
          /\ trusted'[a] = boot[a]
      BY <1>6 DEF AgentRestart, Booted
    <2>2. \A b \in Agents : pc'[b] = "served" =>
            pc[b] = "served" /\ reply'[b] = reply[b] /\ began'[b] = began[b]
      BY <1>6 DEF AgentRestart, Forget, Go
    <2> QED
      BY <2>1, <2>2 DEF CopyInv, RemovedLate, AddedLate, CurrentAt
  <1> QED
    BY <1>1, <1>2, <1>3, <1>4, <1>5, <1>6 DEF Next, Operator, Agent

LEMMA CacheInit == Init => CacheInv
  <1> SUFFICES ASSUME Init PROVE CacheInv
    OBVIOUS
  <1>1. TypeOK
    BY TypeInit
  <1>2. PastInv
    BY RotationAssumption DEF Init, PastInv
  <1>3. CopyInv
    BY RotationAssumption DEF Init, CopyInv, RemovedLate, AddedLate
  <1> QED
    BY <1>1, <1>2, <1>3 DEF CacheInv

THEOREM CacheInvariant == Spec => []CacheInv
  <1>1. CacheInv /\ [Next]_vars => CacheInv'
    BY TypeStep, PastStep, CopyStep DEF CacheInv
  <1> QED
    BY CacheInit, <1>1, PTL DEF Spec

(* Types are kept.                                                         *)
THEOREM RotationTypes == Spec => []TypeOK
  <1>1. CacheInv => TypeOK
    BY DEF CacheInv
  <1> QED
    BY CacheInvariant, <1>1, PTL

(* However keys are deployed, a cached keyset that is still handed out is  *)
(* less than TTL out of date.                                              *)
THEOREM CachesAreRecent == Spec => []CacheIsRecent
  <1>1. CacheInv => CacheIsRecent
    BY RotationAssumption
    DEF CacheInv, TypeOK, CopyInv, CacheIsRecent, Fresh, RemovedLate, AddedLate
  <1> QED
    BY CacheInvariant, <1>1, PTL

-----------------------------------------------------------------------------
(* The procedure: an overlap no shorter than the lifetime of a cached copy *)
(* nor than the two calls an agent makes, and environments that hold no    *)
(* keys or all of them.                                                    *)
Procedure ==
  /\ TTL <= Overlap
  /\ 2 * CallTime <= Overlap
  /\ Bootstraps \subseteq {{}, Kids}

HeldBy(a) ==
  Busy(a) =>
    /\ kid[a] \in keys
    /\ now <= began[a] + CallTime
    /\ ActiveLong(kid[a], began[a])
    /\ kid[a] # active =>
         /\ pc[a] = "held" => began[a] <= lastActive[kid[a]]
         /\ began[a] <= lastActive[kid[a]] + CallTime

(* A deployment leaves the kids of bundles in hand published.              *)
LEMMA HeldDeployed ==
  ASSUME Procedure, CacheInv, CarefulInv,
         NEW k \in Kids, AddKey(k) \/ Switch(k) \/ Retire(k)
  PROVE  CarefulInv'
  <1> USE RotationAssumption DEF CacheInv, TypeOK, PastInv, cache, work
  <1>1. UNCHANGED <<now, boot, pc, kid, began>>
    BY DEF AddKey, Switch, Retire
  <1>2. ActiveLong(active, now)'
    BY <1>1 DEF AddKey, Switch, Retire, Deploy, CarefulInv, ActiveLong
  <1>3. ASSUME NEW a \in Agents PROVE HeldBy(a)'
    <2>1. HeldBy(a)
      BY DEF CarefulInv, HeldInv, HeldBy
    <2>2. CASE AddKey(k)
      BY <1>1, <2>1, <2>2 DEF AddKey, Deploy, HeldBy, Busy, ActiveLong
    <2>3. CASE Switch(k)
      BY <1>1, <2>1, <2>3 DEF Switch, Deploy, HeldBy, Busy, ActiveLong
    <2>4. CASE Retire(k)
      BY <1>1, <2>1, <2>4
      DEF Procedure, Retire, Deploy, Configured, HeldBy, Busy, ActiveLong
    <2> QED
      BY <2>2, <2>3, <2>4
  <1> QED
    BY <1>1, <1>2, <1>3 DEF CarefulInv, HeldInv, HeldBy, NoBundleRefused

(* The keys TrustedKeys gives an agent hold the kid of its bundle.         *)
LEMMA CacheHasKid ==
  ASSUME Procedure, CacheInv, CarefulInv, NEW a \in Agents, UseCache(a)
  PROVE  kid[a] \in trusted[a]
  <1> USE RotationAssumption DEF CacheInv, TypeOK, PastInv
  <1>1. HeldBy(a) /\ Busy(a) /\ Fresh(a)
    BY DEF CarefulInv, HeldInv, HeldBy, UseCache, Busy
  <1>2. AddedLate(a)
    BY <1>1 DEF CopyInv, CarefulInv, Fresh
  <1> QED
    BY <1>1, <1>2 DEF Procedure, HeldBy, ActiveLong, AddedLate, Fresh

LEMMA ReplyHasKid ==
  ASSUME Procedure, CacheInv, CarefulInv, NEW a \in Agents, FetchReturn(a)
  PROVE  kid[a] \in reply[a]
  <1> USE RotationAssumption DEF CacheInv, TypeOK, PastInv
  <1>1. HeldBy(a) /\ Busy(a)
    BY DEF CarefulInv, HeldInv, HeldBy, FetchReturn, Busy
  <1>2. CurrentAt(reply[a], began[a])
    BY DEF FetchReturn, CopyInv
  <1> QED
    BY <1>1, <1>2 DEF Procedure, HeldBy, ActiveLong, CurrentAt

LEMMA CarefulStep ==
  ASSUME Procedure PROVE CacheInv /\ CarefulInv /\ [Next]_vars => CarefulInv'
  <1> SUFFICES ASSUME CacheInv, CarefulInv, [Next]_vars PROVE CarefulInv'
    OBVIOUS
  <1> USE RotationAssumption DEF CacheInv, TypeOK, PastInv, operator, cache
  <1>h. ASSUME NEW a \in Agents PROVE HeldBy(a) /\ pc[a] # "refused"
    BY DEF CarefulInv, HeldInv, HeldBy, NoBundleRefused
  <1>1. CASE Tick \/ UNCHANGED vars
    <2>1. ASSUME NEW a \in Agents PROVE HeldBy(a)'
      BY <1>1, <1>h DEF Tick, InTime, vars, work, HeldBy, Busy, ActiveLong
    <2> QED
      BY <1>1, <2>1
      DEF Tick, vars, work, CarefulInv, HeldInv, HeldBy, ActiveLong, NoBundleRefused
  <1>2. ASSUME NEW k \in Kids, AddKey(k) \/ Switch(k) \/ Retire(k) PROVE CarefulInv'
    BY <1>2, HeldDeployed
  <1>3. ASSUME NEW a \in Agents, Agent(a) PROVE CarefulInv'
    <2>1. UNCHANGED <<now, keys, active, since, lastActive, boot>>
      BY <1>3
      DEF Agent, GetBundle, UseCache, FetchBegin, FetchServe, FetchReturn, Store,
          FetchFails, Report, AgentRestart, Booted
    <2>2. ASSUME NEW b \in Agents, b # a PROVE HeldBy(b)' /\ pc'[b] # "refused"
      <3>1. pc'[b] = pc[b] /\ kid'[b] = kid[b] /\ began'[b] = began[b]
        BY <1>3, <2>2
        DEF Agent, GetBundle, UseCache, FetchBegin, FetchServe, FetchReturn,
            FetchFails, Report, AgentRestart, Verdict, Forget, Go
      <3> QED
        BY <1>h, <2>1, <3>1 DEF HeldBy, Busy, ActiveLong
    <2>3. HeldBy(a)' /\ pc'[a] # "refused"
      <3>1. CASE GetBundle(a)
        BY <2>1, <3>1 DEF GetBundle, Go, HeldBy, Busy, CarefulInv, ActiveLong
      <3>2. CASE UseCache(a)
        BY <3>2, CacheHasKid DEF UseCache, Verdict, Go, HeldBy, Busy
      <3>3. CASE FetchBegin(a)
        BY <1>h, <2>1, <3>3 DEF FetchBegin, Go, HeldBy, Busy, ActiveLong
      <3>4. CASE FetchServe(a)
        BY <1>h, <2>1, <3>4 DEF FetchServe, Go, HeldBy, Busy, ActiveLong
      <3>5. CASE FetchReturn(a)
        BY <3>5, ReplyHasKid DEF FetchReturn, Verdict, Go, HeldBy, Busy
      <3>6. CASE FetchFails(a) \/ Report(a) \/ AgentRestart(a)
        BY <3>6 DEF FetchFails, Report, AgentRestart, Forget, Go, HeldBy, Busy
      <3> QED
        BY <1>3, <3>1, <3>2, <3>3, <3>4, <3>5, <3>6 DEF Agent
    <2>4. \A b \in Agents : HeldBy(b)' /\ pc'[b] # "refused"
      BY <2>2, <2>3
    <2> QED
      BY <2>1, <2>4 DEF CarefulInv, HeldInv, HeldBy, ActiveLong, NoBundleRefused
  <1> QED
    BY <1>1, <1>2, <1>3 DEF Next, Operator

(* A rotation that waits for the lifetime of cached keysets, and for the   *)
(* calls in progress, makes no agent refuse a bundle for its kid: what the *)
(* runbook's overlap is for, on TrustedKeys as written.                    *)
THEOREM RotationBreaksNothing ==
  ASSUME Procedure PROVE Spec => []NoBundleRefused
  <1>1. Init => CarefulInv
    BY RotationAssumption
    DEF Procedure, Init, CarefulInv, HeldInv, Busy, ActiveLong, NoBundleRefused
  <1>2. CacheInv /\ CarefulInv /\ [Next]_vars => CarefulInv'
    BY CarefulStep
  <1>3. CarefulInv => NoBundleRefused
    BY DEF CarefulInv
  <1> QED
    BY CacheInvariant, <1>1, <1>2, <1>3, PTL DEF Spec
=============================================================================
