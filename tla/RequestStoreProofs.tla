------------------------- MODULE RequestStoreProofs -------------------------
(***************************************************************************)
(* Proofs about RequestStore for every set of request ids, every lifetime  *)
(* and every horizon.  The argument: every operation moves memory forward  *)
(* (OperationsMoveForward), the file is a copy of memory or is left alone, *)
(* and a restart falls back to the file, which is never ahead.  So memory  *)
(* stays ahead of the file, the file only moves forward, and an answer,    *)
(* given only when the file has the move, holds for good.                  *)
(***************************************************************************)
EXTENDS RequestStore, TLAPS

USE DEF Absent, Pending, DeniedLocal, Approved, Expired, VerificationFailed,
        Connected, Durable!Absent, Durable!Pending, Durable!DeniedLocal,
        Durable!Approved, Durable!Expired, Durable!VerificationFailed,
        Durable!Connected

(* The inductive invariant.  Neither of the last two parts is inductive    *)
(* without MemoryAheadOfDisk: a persist would carry them only by luck.     *)
StoreInv ==
  /\ TypeOK
  /\ MemoryAheadOfDisk
  /\ AnswersAreDurable
  /\ ExpiredOnlyAfterDeadline

(* Memory moves forward and keeps the deadlines it knows.                  *)
ItemsForward ==
  \A r \in RequestIds :
    /\ Durable!Reached(items[r].status, items'[r].status)
    /\ Present(r) => items'[r].expiresAt = items[r].expiresAt

(* What every step but Restart does, to the file and to the answers too.   *)
Operation ==
  /\ ItemsForward
  /\ disk' = items' \/ disk' = disk
  /\ \/ acked' = acked
     \/ /\ disk' = items'
        /\ \E r \in RequestIds, s \in Verdicts \union Results \union {Pending} :
             /\ Answered(r, s)
             /\ items'[r].status = s
             /\ Durable!Precedes(items[r].status, s)

-----------------------------------------------------------------------------
(* "Comes after" is a strict order on statuses.                            *)
LEMMA ReachedTransitive ==
  ASSUME NEW s, NEW t, NEW u, Durable!Reached(s, t), Durable!Reached(t, u)
  PROVE  Durable!Reached(s, u)
  BY DEF Durable!Reached, Durable!Precedes, Durable!Unfinished, Durable!Finished

LEMMA ReachedThenPrecedes ==
  ASSUME NEW s, NEW t, NEW u, Durable!Reached(s, t), Durable!Precedes(t, u)
  PROVE  Durable!Precedes(s, u)
  BY DEF Durable!Reached, Durable!Precedes, Durable!Unfinished, Durable!Finished

(* Nothing comes before Absent, and nothing comes back to it.              *)
LEMMA OnlyAbsentReachesAbsent ==
  ASSUME NEW s, Durable!Reached(s, Absent)
  PROVE  s = Absent
  BY DEF Durable!Reached, Durable!Precedes, Durable!Unfinished, Durable!Finished

(* expireIfNeeded leaves a request alone or moves it from Unfinished to    *)
(* Expired after its deadline.                                             *)
LEMMA ExpireKeepsRequest ==
  ASSUME NEW req \in Request, now \in Nat
  PROVE  /\ expireIfNeeded(req) \in Request
         /\ expireIfNeeded(req).expiresAt = req.expiresAt
         /\ Durable!Reached(req.status, expireIfNeeded(req).status)
         /\ req.status = Absent <=> expireIfNeeded(req).status = Absent
         /\ expireIfNeeded(req).status = Expired =>
              req.status = Expired \/ now > req.expiresAt
         /\ expireIfNeeded(req).status # Expired => expireIfNeeded(req) = req
  BY DEF expireIfNeeded, Request, Statuses, Unfinished, Finished,
         Durable!Reached, Durable!Precedes, Durable!Unfinished, Durable!Finished

-----------------------------------------------------------------------------
(* What each step does to the items, in one form the proofs below share.   *)

LEMMA DrawSteps ==
  ASSUME TypeOK, StoreAssumption, NEW r \in RequestIds, Draw(r)
  PROVE  /\ items' \in [RequestIds -> Request]
         /\ items'[r].status = Pending
         /\ items[r].status = Absent
         /\ \A q \in RequestIds \ {r} : items'[q] = items[q]
         /\ issued' = issued \union {r}
         /\ now' = now
  <1>1. NewRequest \in Request
    BY DEF NewRequest, Request, Statuses, Unfinished, TypeOK, StoreAssumption
  <1>2. items[r].status = Absent
    BY DEF Draw, TypeOK, Present
  <1> QED
    BY <1>1, <1>2 DEF Draw, TypeOK, NewRequest

LEMMA MoveSteps ==
  ASSUME TypeOK, NEW r \in RequestIds, NEW from \in Unfinished, NEW to \in Statuses,
         Move(r, from, to)
  PROVE  /\ items' \in [RequestIds -> Request]
         /\ items[r].status = from
         /\ items'[r].status = to
         /\ items'[r].expiresAt = items[r].expiresAt
         /\ \A q \in RequestIds \ {r} : items'[q] = items[q]
         /\ issued' = issued
         /\ now' = now
         /\ ~(now > items[r].expiresAt)
  <1>1. items[r] \in Request /\ now \in Nat
    BY DEF TypeOK
  <1>2. expireIfNeeded(items[r]).status = from
    BY DEF Move
  <1>3. items[r].status = from /\ ~(now > items[r].expiresAt)
    BY <1>1, <1>2 DEF expireIfNeeded, Request, Unfinished
  <1>4. items' = [items EXCEPT ![r].status = to]
    BY DEF Move, SetStatus
  <1> QED
    BY <1>1, <1>3, <1>4 DEF Move, Request, TypeOK

LEMMA ExpireItemSteps ==
  ASSUME TypeOK, NEW r \in RequestIds, ExpireItem(r)
  PROVE  /\ items' \in [RequestIds -> Request]
         /\ items'[r] = expireIfNeeded(items[r])
         /\ \A q \in RequestIds \ {r} : items'[q] = items[q]
  <1>1. expireIfNeeded(items[r]) \in Request
    BY ExpireKeepsRequest DEF TypeOK
  <1> QED
    BY <1>1 DEF ExpireItem, TypeOK

LEMMA ExpireAllSteps ==
  ASSUME TypeOK, ExpireAll
  PROVE  /\ items' \in [RequestIds -> Request]
         /\ \A r \in RequestIds : items'[r] = expireIfNeeded(items[r])
  <1>1. ASSUME NEW r \in RequestIds PROVE expireIfNeeded(items[r]) \in Request
    BY ExpireKeepsRequest DEF TypeOK
  <1> QED
    BY <1>1 DEF ExpireAll

-----------------------------------------------------------------------------
(* Each operation is an Operation.                                         *)

LEMMA CreateForward ==
  ASSUME TypeOK, StoreAssumption, NEW r \in RequestIds, Create(r)
  PROVE  Operation
  <1>1. Draw(r)
    BY DEF Create, CreateSaved, CreateUnsaved
  <1>2. /\ items'[r].status = Pending
        /\ items[r].status = Absent
        /\ \A q \in RequestIds \ {r} : items'[q] = items[q]
    BY <1>1, DrawSteps
  <1>3. Durable!Precedes(items[r].status, Pending)
    BY <1>2 DEF Durable!Precedes, Durable!Unfinished
  <1>4. ItemsForward
    BY <1>2, <1>3 DEF ItemsForward, Present, Durable!Reached
  <1> QED
    BY <1>2, <1>3, <1>4
    DEF Operation, Create, CreateSaved, CreateUnsaved, Persisted, PersistFails

LEMMA MoveForward ==
  ASSUME TypeOK, NEW r \in RequestIds, NEW from \in Unfinished,
         NEW to \in Verdicts \union Results,
         \/ from = Pending /\ to \in Verdicts
         \/ from = Approved /\ to \in Results,
         MoveSaved(r, from, to) \/ MoveUnsaved(r, from, to)
  PROVE  Operation
  <1>1. to \in Statuses
    BY DEF Verdicts, Results, Statuses, Unfinished, Finished
  <1>2. /\ items[r].status = from
        /\ items'[r].status = to
        /\ items'[r].expiresAt = items[r].expiresAt
        /\ \A q \in RequestIds \ {r} : items'[q] = items[q]
    BY <1>1, MoveSteps DEF MoveSaved, MoveUnsaved
  <1>3. Durable!Precedes(from, to)
    BY DEF Durable!Precedes, Durable!Finished, Verdicts, Results
  <1>4. ItemsForward
    BY <1>2, <1>3 DEF ItemsForward, Durable!Reached
  <1> QED
    BY <1>2, <1>3, <1>4
    DEF Operation, MoveSaved, MoveUnsaved, Persisted, PersistFails

LEMMA ExpireItemForward ==
  ASSUME TypeOK, NEW r \in RequestIds, ExpireItem(r), acked' = acked,
         disk' = items' \/ disk' = disk
  PROVE  Operation
  <1>1. /\ items'[r] = expireIfNeeded(items[r])
        /\ \A q \in RequestIds \ {r} : items'[q] = items[q]
    BY ExpireItemSteps
  <1>2. /\ Durable!Reached(items[r].status, items'[r].status)
        /\ items'[r].expiresAt = items[r].expiresAt
    BY <1>1, ExpireKeepsRequest DEF TypeOK
  <1>3. ItemsForward
    BY <1>1, <1>2 DEF ItemsForward, Durable!Reached
  <1> QED
    BY <1>3 DEF Operation

LEMMA ListForward ==
  ASSUME TypeOK, ListPendingForDevice
  PROVE  Operation
  <1>1. ExpireAll
    BY DEF ListPendingForDevice, ListSaved, ListUnsaved
  <1>2. ASSUME NEW r \in RequestIds
        PROVE  /\ Durable!Reached(items[r].status, items'[r].status)
               /\ items'[r].expiresAt = items[r].expiresAt
    BY <1>1, ExpireAllSteps, ExpireKeepsRequest DEF TypeOK
  <1>3. ItemsForward
    BY <1>2 DEF ItemsForward
  <1> QED
    BY <1>3
    DEF Operation, ListPendingForDevice, ListSaved, ListUnsaved, Persisted, PersistFails

(* SetLocalDecision and SetResult move the request or find it too late.    *)
LEMMA WriteCases ==
  ASSUME NEW r \in RequestIds,
         \/ \E verdict \in Verdicts : SetLocalDecision(r, verdict)
         \/ \E result \in Results : SetResult(r, result)
  PROVE  \/ TooLate(r)
         \/ \E from \in Unfinished, to \in Verdicts \union Results :
              /\ \/ from = Pending /\ to \in Verdicts
                 \/ from = Approved /\ to \in Results
              /\ MoveSaved(r, from, to) \/ MoveUnsaved(r, from, to)
  BY DEF SetLocalDecision, SetResult, Unfinished

(* The operations that callers run, and the clock: Next without Restart.   *)
Running ==
  \/ \E r \in RequestIds : Create(r) \/ Get(r)
  \/ ListPendingForDevice
  \/ \E r \in RequestIds, verdict \in Verdicts : SetLocalDecision(r, verdict)
  \/ \E r \in RequestIds, result \in Results : SetResult(r, result)
  \/ InstallOperationPersists
  \/ Tick

LEMMA RunningMovesForward ==
  ASSUME TypeOK, StoreAssumption, [Running]_vars
  PROVE  Operation
  <1> USE DEF PersistFails, Persisted
  <1>1. ASSUME NEW r \in RequestIds, Create(r) PROVE Operation
    BY <1>1, CreateForward
  <1>2. ASSUME NEW r \in RequestIds, Get(r) PROVE Operation
    BY <1>2, ExpireItemForward DEF Get
  <1>3. ASSUME ListPendingForDevice PROVE Operation
    BY <1>3, ListForward
  <1>4. ASSUME NEW r \in RequestIds, TooLate(r) PROVE Operation
    BY <1>4, ExpireItemForward DEF TooLate
  <1>5. ASSUME NEW r \in RequestIds,
               \/ \E verdict \in Verdicts : SetLocalDecision(r, verdict)
               \/ \E result \in Results : SetResult(r, result)
        PROVE  Operation
    BY <1>4, <1>5, WriteCases, MoveForward
  <1>6. ASSUME InstallOperationPersists \/ Tick \/ UNCHANGED vars PROVE Operation
    BY <1>6
    DEF InstallOperationPersists, Tick, vars, Operation, ItemsForward, Durable!Reached
  <1> QED
    BY <1>1, <1>2, <1>3, <1>5, <1>6 DEF Running

LEMMA OperationsMoveForward ==
  ASSUME TypeOK, StoreAssumption, [Next]_vars
  PROVE  Operation \/ Restart
  BY RunningMovesForward DEF Next, Running

-----------------------------------------------------------------------------
(* Every step keeps the parts of the invariant.                            *)

LEMMA TypeStep ==
  ASSUME StoreInv, StoreAssumption, [Next]_vars
  PROVE  TypeOK'
  <1> USE DEF Persisted, PersistFails, StoreInv
  <1>1. ASSUME NEW r \in RequestIds, Create(r) PROVE TypeOK'
    <2>1. Draw(r)
      BY <1>1 DEF Create, CreateSaved, CreateUnsaved
    <2>2. items' \in [RequestIds -> Request] /\ issued' = issued \union {r} /\ now' = now
      BY <2>1, DrawSteps
    <2>3. \A q \in RequestIds : Present(q)' => q \in issued'
      BY <2>1, <2>2, DrawSteps DEF TypeOK, Present
    <2>4. acked' \in [RequestIds -> SUBSET Statuses]
      BY <1>1 DEF Create, CreateSaved, CreateUnsaved, Answered, TypeOK, Statuses, Unfinished
    <2>5. disk' \in [RequestIds -> Request]
      BY <1>1, <2>2 DEF Create, CreateSaved, CreateUnsaved, TypeOK
    <2> QED
      BY <2>2, <2>3, <2>4, <2>5 DEF TypeOK
  <1>2. ASSUME NEW r \in RequestIds, NEW from \in Unfinished,
               NEW to \in Verdicts \union Results,
               MoveSaved(r, from, to) \/ MoveUnsaved(r, from, to)
        PROVE  TypeOK'
    <2>1. to \in Statuses /\ from # Absent
      BY DEF Verdicts, Results, Statuses, Unfinished, Finished
    <2>2. Move(r, from, to)
      BY <1>2 DEF MoveSaved, MoveUnsaved
    <2>3. /\ items' \in [RequestIds -> Request]
          /\ items[r].status = from
          /\ \A q \in RequestIds \ {r} : items'[q] = items[q]
          /\ issued' = issued
          /\ now' = now
      BY <2>1, <2>2, MoveSteps
    <2>4. \A q \in RequestIds : Present(q)' => q \in issued'
      BY <2>1, <2>3 DEF TypeOK, Present
    <2>5. acked' \in [RequestIds -> SUBSET Statuses]
      BY <1>2, <2>1 DEF MoveSaved, MoveUnsaved, Answered, TypeOK
    <2>6. disk' \in [RequestIds -> Request]
      BY <1>2, <2>3 DEF MoveSaved, MoveUnsaved, TypeOK
    <2> QED
      BY <2>3, <2>4, <2>5, <2>6 DEF TypeOK
  <1>3. ASSUME NEW r \in RequestIds, ExpireItem(r), disk' = items' \/ disk' = disk,
               UNCHANGED <<now, issued, acked>>
        PROVE  TypeOK'
    <2>1. items' \in [RequestIds -> Request]
      BY <1>3, ExpireItemSteps
    <2>2. \A q \in RequestIds : Present(q)' => q \in issued'
      BY <1>3, ExpireItemSteps, ExpireKeepsRequest DEF TypeOK, Present
    <2> QED
      BY <1>3, <2>1, <2>2 DEF TypeOK
  <1>4. ASSUME ListPendingForDevice PROVE TypeOK'
    <2>1. ExpireAll /\ UNCHANGED <<now, issued, acked>> /\ (disk' = items' \/ disk' = disk)
      BY <1>4 DEF ListPendingForDevice, ListSaved, ListUnsaved
    <2>2. items' \in [RequestIds -> Request]
      BY <2>1, ExpireAllSteps
    <2>3. \A q \in RequestIds : Present(q)' => q \in issued'
      BY <2>1, ExpireAllSteps, ExpireKeepsRequest DEF TypeOK, Present
    <2> QED
      BY <2>1, <2>2, <2>3 DEF TypeOK
  <1>5. ASSUME Restart PROVE TypeOK'
    <2>1. \A r \in RequestIds : disk[r].status # Absent => r \in issued
      BY OnlyAbsentReachesAbsent DEF MemoryAheadOfDisk, TypeOK, Present
    <2> QED
      BY <1>5, <2>1 DEF Restart, TypeOK, Present
  <1>6. ASSUME Tick PROVE TypeOK'
    BY <1>6 DEF Tick, TypeOK, Present, StoreAssumption
  <1>7. ASSUME InstallOperationPersists \/ UNCHANGED vars PROVE TypeOK'
    BY <1>7 DEF InstallOperationPersists, vars, TypeOK, Present
  <1>8. ASSUME NEW r \in RequestIds, TooLate(r) \/ Get(r) PROVE TypeOK'
    BY <1>3, <1>8 DEF TooLate, Get
  <1>9. ASSUME NEW r \in RequestIds,
               \/ \E verdict \in Verdicts : SetLocalDecision(r, verdict)
               \/ \E result \in Results : SetResult(r, result)
        PROVE  TypeOK'
    BY <1>2, <1>8, <1>9, WriteCases
  <1> QED
    BY <1>1, <1>4, <1>5, <1>6, <1>7, <1>8, <1>9 DEF Next

LEMMA MemoryAheadStep ==
  ASSUME MemoryAheadOfDisk, Operation \/ Restart
  PROVE  MemoryAheadOfDisk'
  <1>1. CASE Restart
    BY <1>1 DEF Restart, MemoryAheadOfDisk, Durable!Reached
  <1>2. CASE Operation
    <2>1. CASE disk' = items'
      BY <2>1 DEF MemoryAheadOfDisk, Durable!Reached
    <2>2. CASE disk' = disk
      <3>1. SUFFICES ASSUME NEW r \in RequestIds
                     PROVE  /\ Durable!Reached(disk[r].status, items'[r].status)
                            /\ disk[r].status # Absent =>
                                 disk[r].expiresAt = items'[r].expiresAt
        BY <2>2 DEF MemoryAheadOfDisk
      <3>2. /\ Durable!Reached(disk[r].status, items[r].status)
            /\ Durable!Reached(items[r].status, items'[r].status)
        BY <1>2 DEF MemoryAheadOfDisk, Operation, ItemsForward
      <3>3. disk[r].status # Absent => Present(r)
        BY <3>2, OnlyAbsentReachesAbsent DEF Present
      <3> QED
        BY <1>2, <3>2, <3>3, ReachedTransitive
        DEF MemoryAheadOfDisk, Operation, ItemsForward
    <2> QED
      BY <1>2, <2>1, <2>2 DEF Operation
  <1> QED
    BY <1>1, <1>2

(* The file only moves forward: a copy of memory is ahead of it.           *)
LEMMA DiskForward ==
  ASSUME MemoryAheadOfDisk, Operation \/ Restart, NEW r \in RequestIds
  PROVE  Durable!Reached(disk[r].status, disk'[r].status)
  <1>1. CASE disk' = disk
    BY <1>1 DEF Durable!Reached
  <1>2. CASE Operation /\ disk' = items'
    <2>1. /\ Durable!Reached(disk[r].status, items[r].status)
          /\ Durable!Reached(items[r].status, items'[r].status)
      BY <1>2 DEF MemoryAheadOfDisk, Operation, ItemsForward
    <2> QED
      BY <1>2, <2>1, ReachedTransitive
  <1> QED
    BY <1>1, <1>2 DEF Operation, Restart

LEMMA AnswersStep ==
  ASSUME TypeOK, MemoryAheadOfDisk, AnswersAreDurable, Operation \/ Restart
  PROVE  AnswersAreDurable'
  <1>1. SUFFICES ASSUME NEW r \in RequestIds, NEW s \in acked'[r]
                 PROVE  Durable!Reached(s, disk'[r].status)
    BY DEF AnswersAreDurable
  <1>2. CASE s \in acked[r]
    <2>1. Durable!Reached(s, disk[r].status)
      BY <1>2 DEF AnswersAreDurable
    <2> QED
      BY <2>1, DiskForward, ReachedTransitive
  <1>3. CASE s \notin acked[r]
    <2>1. items'[r].status = s /\ disk' = items'
      BY <1>1, <1>3 DEF Operation, Restart, Answered, TypeOK
    <2> QED
      BY <2>1 DEF Durable!Reached
  <1> QED
    BY <1>2, <1>3

LEMMA ExpiredLateOfMemory ==
  ASSUME StoreInv, StoreAssumption, [Next]_vars
  PROVE  /\ now' >= now
         /\ \A r \in RequestIds :
              items'[r].status = Expired => now' > items'[r].expiresAt
  <1> DEFINE Late == /\ now' >= now
                     /\ \A q \in RequestIds :
                          items'[q].status = Expired => now' > items'[q].expiresAt
  <1> SUFFICES Late
    OBVIOUS
  <1>0. /\ TypeOK
        /\ now \in Nat
        /\ \A q \in RequestIds : /\ items[q] \in Request
                                 /\ items[q].expiresAt \in Nat
                                 /\ disk[q].expiresAt \in Nat
                                 /\ items[q].status = Expired => now > items[q].expiresAt
                                 /\ disk[q].status = Expired => now > disk[q].expiresAt
    BY DEF StoreInv, TypeOK, ExpiredOnlyAfterDeadline, Request
  <1>1. ASSUME NEW r \in RequestIds, Create(r) PROVE Late
    <2>1. Draw(r)
      BY <1>1 DEF Create, CreateSaved, CreateUnsaved
    <2> QED
      BY <1>0, <2>1, DrawSteps
  <1>2. ASSUME NEW r \in RequestIds, NEW from \in Unfinished,
               NEW to \in Verdicts \union Results,
               MoveSaved(r, from, to) \/ MoveUnsaved(r, from, to)
        PROVE  Late
    <2>1. to \in Statuses /\ to # Expired
      BY DEF Verdicts, Results, Statuses, Unfinished, Finished
    <2>2. Move(r, from, to)
      BY <1>2 DEF MoveSaved, MoveUnsaved
    <2> QED
      BY <1>0, <2>1, <2>2, MoveSteps
  <1>3. ASSUME NEW r \in RequestIds, ExpireItem(r), now' = now PROVE Late
    BY <1>0, <1>3, ExpireItemSteps, ExpireKeepsRequest
  <1>4. ASSUME ListPendingForDevice PROVE Late
    <2>1. ExpireAll /\ now' = now
      BY <1>4 DEF ListPendingForDevice, ListSaved, ListUnsaved
    <2> QED
      BY <1>0, <2>1, ExpireAllSteps, ExpireKeepsRequest
  <1>5. ASSUME Restart \/ Tick \/ InstallOperationPersists \/ UNCHANGED vars PROVE Late
    BY <1>0, <1>5 DEF Restart, Tick, InstallOperationPersists, vars
  <1>6. ASSUME NEW r \in RequestIds, TooLate(r) \/ Get(r) PROVE Late
    BY <1>3, <1>6 DEF TooLate, Get
  <1>7. ASSUME NEW r \in RequestIds,
               \/ \E verdict \in Verdicts : SetLocalDecision(r, verdict)
               \/ \E result \in Results : SetResult(r, result)
        PROVE  Late
    BY <1>2, <1>6, <1>7, WriteCases
  <1> QED
    BY <1>1, <1>4, <1>5, <1>6, <1>7 DEF Next

LEMMA ExpiredLateStep ==
  ASSUME StoreInv, StoreAssumption, [Next]_vars
  PROVE  ExpiredOnlyAfterDeadline'
  <1>1. /\ now' >= now
        /\ \A r \in RequestIds : items'[r].status = Expired => now' > items'[r].expiresAt
    BY ExpiredLateOfMemory
  <1>2. disk' = items' \/ disk' = disk
    BY OperationsMoveForward DEF StoreInv, Operation, Restart
  <1>3. now \in Nat /\ now' \in Nat /\ \A r \in RequestIds : disk[r].expiresAt \in Nat
    BY TypeStep DEF StoreInv, TypeOK, Request
  <1>4. \A r \in RequestIds : disk'[r].status = Expired => now' > disk'[r].expiresAt
    BY <1>1, <1>2, <1>3 DEF StoreInv, ExpiredOnlyAfterDeadline
  <1> QED
    BY <1>1, <1>4 DEF ExpiredOnlyAfterDeadline

-----------------------------------------------------------------------------
(* StoreInv holds of every reachable state.                                *)
LEMMA StoreInvInit ==
  ASSUME StoreAssumption, Init
  PROVE  StoreInv
  <1>1. NoRequest \in Request
    BY DEF NoRequest, Request, Statuses
  <1> QED
    BY <1>1
    DEF Init, StoreInv, TypeOK, MemoryAheadOfDisk, AnswersAreDurable,
        ExpiredOnlyAfterDeadline, StoreAssumption, NoRequest, Present, Durable!Reached

LEMMA StoreInvStep ==
  ASSUME StoreAssumption, StoreInv, [Next]_vars
  PROVE  StoreInv'
  <1>1. Operation \/ Restart
    BY OperationsMoveForward DEF StoreInv
  <1> QED
    BY <1>1, TypeStep, MemoryAheadStep, AnswersStep, ExpiredLateStep DEF StoreInv

(* Every reachable state is well typed, the file is never ahead of memory, *)
(* what was answered is in the file, and nothing is expired early.         *)
THEOREM StoreInvariant == Spec => []StoreInv
  <1>1. Init => StoreInv
    BY StoreInvInit, StoreAssumption
  <1>2. StoreInv /\ [Next]_vars => StoreInv'
    BY StoreInvStep, StoreAssumption
  <1> QED
    BY <1>1, <1>2, PTL DEF Spec

(* The maps of the store stay well formed (requests/model.go).             *)
THEOREM TypeCorrectness == Spec => []TypeOK
  <1>1. StoreInv => TypeOK
    BY DEF StoreInv
  <1> QED
    BY <1>1, StoreInvariant, PTL

(* No crash takes a request forward: whatever writes have failed, the file *)
(* holds no status that memory has not reached.                            *)
THEOREM NoDiskAhead == Spec => []MemoryAheadOfDisk
  <1>1. StoreInv => MemoryAheadOfDisk
    BY DEF StoreInv
  <1> QED
    BY <1>1, StoreInvariant, PTL

(* An answer given by SetLocalDecision or SetResult survives any crash.    *)
THEOREM Durability == Spec => []AnswersAreDurable
  <1>1. StoreInv => AnswersAreDurable
    BY DEF StoreInv
  <1> QED
    BY <1>1, StoreInvariant, PTL

(* No request is answered both approved and denied, whatever writes of the *)
(* state file fail and however often the process restarts.                 *)
THEOREM DecidedOnce == Spec => []OneDecision
  <1>1. ASSUME AnswersAreDurable PROVE OneDecision
    <2>1. SUFFICES ASSUME NEW r \in RequestIds,
                          Approved \in acked[r], DeniedLocal \in acked[r]
                   PROVE  FALSE
      BY DEF OneDecision, Verdicts
    <2>2. /\ Durable!Reached(Approved, disk[r].status)
          /\ Durable!Reached(DeniedLocal, disk[r].status)
      BY <1>1, <2>1 DEF AnswersAreDurable
    <2> QED
      BY <2>2 DEF Durable!Reached, Durable!Precedes
  <1>2. StoreInv => OneDecision
    BY <1>1 DEF StoreInv
  <1> QED
    BY <1>2, StoreInvariant, PTL

(* Nothing is expired before its deadline (expireIfNeeded, and every path  *)
(* on which an expiry reaches the file or comes back from it).             *)
THEOREM ExpiryIsLate == Spec => []ExpiredOnlyAfterDeadline
  <1>1. StoreInv => ExpiredOnlyAfterDeadline
    BY DEF StoreInv
  <1> QED
    BY <1>1, StoreInvariant, PTL

-----------------------------------------------------------------------------
(* The store implements DurableLifecycle with the statuses of the file.    *)

LEMMA InitImplements ==
  ASSUME Init
  PROVE  Durable!Init
  BY DEF Init, Durable!Init, NoRequest

LEMMA StepImplements ==
  ASSUME StoreAssumption, StoreInv, [Next]_vars
  PROVE  [Durable!Next]_Durable!vars
  <1>1. Operation \/ Restart
    BY OperationsMoveForward DEF StoreInv
  <1>2. /\ TypeOK
        /\ \A r \in RequestIds : disk'[r].status \in Statuses
    BY TypeStep DEF StoreInv, TypeOK, Request
  <1>3. Durable!MovesForward
    <2>1. \A r \in RequestIds : Durable!Reached(disk[r].status, disk'[r].status)
      BY <1>1, DiskForward DEF StoreInv
    <2> QED
      BY <1>2, <2>1
      DEF Durable!MovesForward, Durable!Statuses, Statuses, Unfinished, Finished,
          Durable!Unfinished, Durable!Finished
  <1>4. CASE acked' = acked
    BY <1>3, <1>4 DEF Durable!Next, Durable!Progress
  <1>5. CASE acked' # acked
    <2>1. PICK r \in RequestIds, s \in Verdicts \union Results \union {Pending} :
            /\ disk' = items'
            /\ Answered(r, s)
            /\ items'[r].status = s
            /\ Durable!Precedes(items[r].status, s)
      BY <1>1, <1>5 DEF Operation, Restart
    <2>2. Durable!Precedes(disk[r].status, s)
      BY <2>1, ReachedThenPrecedes DEF StoreInv, MemoryAheadOfDisk
    <2>3. Durable!Answer(r)
      BY <1>3, <2>1, <2>2 DEF Durable!Answer, Answered, Verdicts, Results
    <2> QED
      BY <2>3 DEF Durable!Next
  <1> QED
    BY <1>4, <1>5

(* The store implements the lifecycle promised to callers: a status moves  *)
(* forward only, and an answer names a durable move of its own step.       *)
THEOREM Refinement == Spec => ImplementsDurableLifecycle
  <1>1. Init => Durable!Init
    BY InitImplements
  <1>2. StoreInv /\ [Next]_vars => [Durable!Next]_Durable!vars
    BY StepImplements, StoreAssumption
  <1> QED
    BY <1>1, <1>2, StoreInvariant, PTL DEF Spec, ImplementsDurableLifecycle, Durable!Spec

-----------------------------------------------------------------------------
(* The deadline is final.                                                  *)

LEMMA LateStep ==
  ASSUME StoreAssumption, StoreInv, [Next]_vars,
         NEW r \in RequestIds, Present(r), now > items[r].expiresAt
  PROVE  /\ items'[r].status \in Verdicts \union Results =>
              items'[r].status \in {items[r].status, disk[r].status}
         /\ acked'[r] = acked[r]
  <1> DEFINE Kept == /\ items'[r].status \in Verdicts \union Results =>
                          items'[r].status \in {items[r].status, disk[r].status}
                     /\ acked'[r] = acked[r]
  <1> SUFFICES Kept
    OBVIOUS
  <1>0. TypeOK /\ items[r] \in Request /\ now \in Nat /\ acked \in [RequestIds -> SUBSET Statuses]
    BY DEF StoreInv, TypeOK
  <1>1. ASSUME NEW q \in RequestIds, Create(q) PROVE Kept
    <2>1. Draw(q) /\ q # r
      BY <1>0, <1>1 DEF Create, CreateSaved, CreateUnsaved, Draw, TypeOK
    <2> QED
      BY <1>0, <1>1, <2>1, DrawSteps DEF Create, CreateSaved, CreateUnsaved, Answered
  <1>2. ASSUME NEW q \in RequestIds, NEW from \in Unfinished,
               NEW to \in Verdicts \union Results,
               MoveSaved(q, from, to) \/ MoveUnsaved(q, from, to)
        PROVE  Kept
    <2>1. to \in Statuses
      BY DEF Verdicts, Results, Statuses, Unfinished, Finished
    <2>2. Move(q, from, to)
      BY <1>2 DEF MoveSaved, MoveUnsaved
    <2>3. q # r
      BY <1>0, <2>1, <2>2, MoveSteps
    <2> QED
      BY <1>0, <1>2, <2>1, <2>2, <2>3, MoveSteps DEF MoveSaved, MoveUnsaved, Answered
  <1>3. ASSUME NEW q \in RequestIds, ExpireItem(q), acked' = acked PROVE Kept
    <2>1. items'[r] = items[r] \/ items'[r].status = Expired
      BY <1>0, <1>3, ExpireItemSteps DEF expireIfNeeded, Request
    <2> QED
      BY <1>3, <2>1 DEF Verdicts, Results
  <1>4. ASSUME ListPendingForDevice PROVE Kept
    <2>1. ExpireAll /\ acked' = acked
      BY <1>4 DEF ListPendingForDevice, ListSaved, ListUnsaved
    <2>2. items'[r] = items[r] \/ items'[r].status = Expired
      BY <1>0, <2>1, ExpireAllSteps DEF expireIfNeeded, Request
    <2> QED
      BY <2>1, <2>2 DEF Verdicts, Results
  <1>5. ASSUME Restart \/ Tick \/ InstallOperationPersists \/ UNCHANGED vars PROVE Kept
    BY <1>5 DEF Restart, Tick, InstallOperationPersists, vars
  <1>6. ASSUME NEW q \in RequestIds, TooLate(q) \/ Get(q) PROVE Kept
    BY <1>3, <1>6 DEF TooLate, Get
  <1>7. ASSUME NEW q \in RequestIds,
               \/ \E verdict \in Verdicts : SetLocalDecision(q, verdict)
               \/ \E result \in Results : SetResult(q, result)
        PROVE  Kept
    BY <1>2, <1>6, <1>7, WriteCases
  <1> QED
    BY <1>1, <1>4, <1>5, <1>6, <1>7 DEF Next

(* After its deadline a request gets no decision, no result and no answer, *)
(* whatever a restart brings back.                                         *)
THEOREM DeadlineIsFinal == Spec => NoProgressAfterDeadline
  <1> DEFINE Final ==
        \A r \in RequestIds :
          Present(r) /\ now > items[r].expiresAt =>
            /\ items'[r].status \in Verdicts \union Results =>
                 items'[r].status \in {items[r].status, disk[r].status}
            /\ acked'[r] = acked[r]
  <1>1. StoreInv /\ [Next]_vars => [Final]_vars
    BY LateStep, StoreAssumption
  <1>2. Spec => [][Final]_vars
    BY <1>1, StoreInvariant, PTL DEF Spec
  <1> QED
    BY <1>2 DEF NoProgressAfterDeadline
=============================================================================
