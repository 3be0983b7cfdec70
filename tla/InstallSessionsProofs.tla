----------------------- MODULE InstallSessionsProofs -----------------------
(***************************************************************************)
(* Proofs about InstallSessions for every set of sessions and identities,  *)
(* every lifetime and every horizon.  The argument: every step but a       *)
(* restart moves the memory of each session forward, and takes tokens but  *)
(* never gives one back; the file is a copy of memory or is left alone;    *)
(* answers and redemptions are given only when it is a copy.  So neither a *)
(* failed write nor a restart brings back a token once it was answered.    *)
(***************************************************************************)
EXTENDS InstallSessions, TLAPS

USE DEF Absent, Requested, Approved, Installed, Failed

(* A token once answered is in the file no more, hence not in memory.      *)
SpentForGood ==
  \A s \in SessionIds : redeems[s] > 0 => s \notin tokens /\ s \notin disk.tokens

IssuedFirst == \A s \in SessionIds : Present(s) => s \in issued

(* The inductive invariant.  RedeemedOnce rests on SpentForGood, and that  *)
(* on RedeemedStaysApproved: only a session that is there keeps its id from*)
(* being issued, with a token, again.                                      *)
SessionInv ==
  /\ TypeOK
  /\ IssuedFirst
  /\ MemoryAheadOfDisk
  /\ TokensOfLiveSessions
  /\ RedeemedOnce
  /\ SpentForGood
  /\ RedeemedStaysApproved
  /\ AnswersAreDurable

-----------------------------------------------------------------------------
(* What every step but Restart does to the memory of s, and what it tells. *)
MemoryForward(s) ==
  /\ Reached(sessions[s].status, sessions'[s].status)
  /\ Present(s) => /\ sessions'[s].expiresAt = sessions[s].expiresAt
                   /\ s \in tokens' => s \in tokens
  /\ s \in tokens' => sessions'[s].status \in Live
  /\ Present(s)' => s \in issued'

Told(s) ==
  /\ \A t \in acked'[s] : t \in acked[s] \/ (Persisted /\ t = sessions'[s].status)
  /\ \/ redeems'[s] = redeems[s]
     \/ /\ redeems'[s] = redeems[s] + 1
        /\ s \in tokens /\ s \notin tokens'
        /\ sessions'[s].status = Approved
        /\ Persisted

Operation ==
  /\ TypeOK'
  /\ \A s \in SessionIds : MemoryForward(s) /\ Told(s)
  /\ Persisted \/ PersistFails

-----------------------------------------------------------------------------
(* "Comes after" is a strict order on statuses.                            *)
LEMMA ReachedTransitive ==
  ASSUME NEW s, NEW t, NEW u, Reached(s, t), Reached(t, u)
  PROVE  Reached(s, u)
  BY DEF Reached, Precedes, Live, Terminal

LEMMA OnlyAbsentReachesAbsent ==
  ASSUME NEW s, Reached(s, Absent)
  PROVE  s = Absent
  BY DEF Reached, Precedes, Live, Terminal

(* A session that no file or memory knows has no token.                    *)
LEMMA FreshSession ==
  ASSUME SessionInv, NEW s \in SessionIds, s \notin issued
  PROVE  /\ sessions[s].status = Absent
         /\ disk.sessions[s].status = Absent
         /\ s \notin tokens
  <1>1. sessions[s].status = Absent
    BY DEF SessionInv, IssuedFirst, Present
  <1>2. disk.sessions[s].status = Absent
    BY <1>1, OnlyAbsentReachesAbsent DEF SessionInv, MemoryAheadOfDisk
  <1>3. s \notin tokens
    BY <1>1 DEF SessionInv, TokensOfLiveSessions, Live
  <1> QED
    BY <1>1, <1>2, <1>3

(* What a step that gives session s status t, and takes its token if t is  *)
(* terminal, does to memory.                                               *)
LEMMA StatusStep ==
  ASSUME SessionInv, NEW s \in SessionIds, NEW t \in Statuses,
         Precedes(sessions[s].status, t), Present(s),
         SetStatus(s, t), issued' = issued,
         (t \in Live /\ KeepTokens) \/ DropToken(s)
  PROVE  /\ sessions' \in [SessionIds -> Session]
         /\ tokens' \in SUBSET SessionIds
         /\ sessions'[s].status = t
         /\ \A q \in SessionIds : MemoryForward(q)
  <1>1. sessions' = [sessions EXCEPT ![s].status = t] /\ sessions \in [SessionIds -> Session]
    BY DEF SetStatus, SessionInv, TypeOK
  <1>2. /\ sessions' \in [SessionIds -> Session]
        /\ sessions'[s].status = t
        /\ sessions'[s].expiresAt = sessions[s].expiresAt
        /\ \A q \in SessionIds \ {s} : sessions'[q] = sessions[q]
    BY <1>1 DEF Session
  <1>3. tokens' \in SUBSET SessionIds
        /\ (\A q \in SessionIds : q \in tokens' => q \in tokens)
        /\ (s \in tokens' => t \in Live)
    BY DEF KeepTokens, DropToken, SessionInv, TypeOK
  <1>4. ASSUME NEW q \in SessionIds PROVE MemoryForward(q)
    BY <1>2, <1>3
    DEF MemoryForward, Reached, Present, SessionInv, IssuedFirst, TokensOfLiveSessions
  <1> QED
    BY <1>2, <1>3, <1>4

(* An overdue session fails and loses its token.                           *)
LEMMA ExpireStep ==
  ASSUME SessionInv, NEW s \in SessionIds, Expire(s), issued' = issued
  PROVE  /\ sessions' \in [SessionIds -> Session]
         /\ tokens' \in SUBSET SessionIds
         /\ sessions'[s].status = Failed
         /\ \A q \in SessionIds : MemoryForward(q)
  <1>1. SetStatus(s, Failed) /\ DropToken(s) /\ sessions[s].status \in Live
    BY DEF Expire, Overdue
  <1>2. Precedes(sessions[s].status, Failed) /\ Present(s) /\ Failed \in Statuses
    BY <1>1 DEF Precedes, Live, Terminal, Present, Statuses
  <1> QED
    BY <1>1, <1>2, StatusStep

(* A step that leaves memory alone.                                        *)
LEMMA SameMemory ==
  ASSUME SessionInv, UNCHANGED <<sessions, tokens, issued>>
  PROVE  \A s \in SessionIds : MemoryForward(s)
  BY DEF MemoryForward, Reached, Present, SessionInv, IssuedFirst, TokensOfLiveSessions

(* The file is well typed when memory is.                                  *)
LEMMA DiskType ==
  ASSUME SessionInv, sessions' \in [SessionIds -> Session], tokens' \in SUBSET SessionIds,
         Persisted \/ PersistFails
  PROVE  disk' \in [sessions : [SessionIds -> Session], tokens : SUBSET SessionIds]
  BY DEF Persisted, PersistFails, SessionInv, TypeOK

-----------------------------------------------------------------------------
(* Each operation is an Operation.                                         *)

LEMMA CreateOperation ==
  ASSUME SessionInv, SessionAssumption, NEW s \in SessionIds,
         NEW id \in Identities \union {NoIdentity}, CreateInstallSession(s, id)
  PROVE  Operation
  <1>1. Draw(s, id) /\ SaveAndAnswer(s, Requested)
    BY DEF CreateInstallSession
  <1>2. NewSession(id) \in Session
    BY DEF NewSession, Session, Statuses, Live, SessionAssumption, SessionInv, TypeOK
  <1>3. /\ sessions' \in [SessionIds -> Session]
        /\ sessions'[s].status = Requested
        /\ \A q \in SessionIds \ {s} : sessions'[q] = sessions[q]
    BY <1>1, <1>2 DEF Draw, SessionInv, TypeOK, NewSession
  <1>4. /\ tokens' = tokens \union {s} /\ issued' = issued \union {s}
        /\ UNCHANGED <<now, redeems, polled>>
    BY <1>1 DEF Draw
  <1>5. sessions[s].status = Absent
    BY <1>1, FreshSession DEF Draw
  <1>6. ASSUME NEW q \in SessionIds PROVE MemoryForward(q)
    BY <1>3, <1>4, <1>5
    DEF MemoryForward, Reached, Precedes, Present, Live, SessionInv, IssuedFirst,
        TokensOfLiveSessions
  <1>7. acked' \in [SessionIds -> SUBSET Statuses] /\ (Persisted \/ PersistFails)
    BY <1>1 DEF SaveAndAnswer, Answered, SessionInv, TypeOK, Statuses, Live
  <1>8. ASSUME NEW q \in SessionIds PROVE Told(q)
    BY <1>1, <1>3, <1>4 DEF Told, SaveAndAnswer, Answered, SessionInv, TypeOK
  <1>9. TypeOK'
    BY <1>3, <1>4, <1>7, DiskType DEF SessionInv, TypeOK
  <1> QED
    BY <1>6, <1>7, <1>8, <1>9 DEF Operation

(* An operation that finds the session overdue, or only looks at it.       *)
LEMMA LookOperation ==
  ASSUME SessionInv, NEW s \in SessionIds,
         Expire(s) \/ UNCHANGED memory,
         Persisted \/ PersistFails,
         UNCHANGED <<now, issued, acked, redeems>>,
         polled' \in [SessionIds -> SUBSET Terminal]
  PROVE  Operation
  <1>1. /\ sessions' \in [SessionIds -> Session]
        /\ tokens' \in SUBSET SessionIds
        /\ \A q \in SessionIds : MemoryForward(q)
    <2>1. CASE Expire(s)
      BY <2>1, ExpireStep
    <2>2. CASE UNCHANGED memory
      BY <2>2, SameMemory DEF memory, SessionInv, TypeOK
    <2> QED
      BY <2>1, <2>2
  <1>2. ASSUME NEW q \in SessionIds PROVE Told(q)
    BY DEF Told
  <1>3. TypeOK'
    BY <1>1, DiskType DEF SessionInv, TypeOK
  <1> QED
    BY <1>1, <1>2, <1>3 DEF Operation

LEMMA TooLateOperation ==
  ASSUME SessionInv, NEW s \in SessionIds, TooLate(s)
  PROVE  Operation
  <1>1. polled' \in [SessionIds -> SUBSET Terminal]
    BY DEF TooLate, told, SessionInv, TypeOK
  <1> QED
    BY <1>1, LookOperation DEF TooLate, told

LEMMA GetOperation ==
  ASSUME SessionInv, NEW s \in SessionIds, GetInstallSession(s)
  PROVE  Operation
  <1>1. polled' \in [SessionIds -> SUBSET Terminal]
    BY DEF GetInstallSession, SessionInv, TypeOK
  <1> QED
    BY <1>1, LookOperation DEF GetInstallSession

LEMMA IdentityOperation ==
  ASSUME SessionInv, NEW s \in SessionIds, NEW id \in Identities, SetInstallIdentity(s, id)
  PROVE  Operation
  <1>1. CASE TooLate(s)
    BY <1>1, TooLateOperation
  <1>2. CASE /\ sessions' = [sessions EXCEPT ![s].identity = id]
             /\ KeepTokens
             /\ Persisted \/ PersistFails
             /\ UNCHANGED <<now, issued, told>>
    <2>1. /\ sessions' \in [SessionIds -> Session]
          /\ \A q \in SessionIds : /\ sessions'[q].status = sessions[q].status
                                   /\ sessions'[q].expiresAt = sessions[q].expiresAt
      BY <1>2 DEF SessionInv, TypeOK, Session
    <2>2. tokens' = tokens /\ UNCHANGED <<acked, redeems, polled>>
      BY <1>2 DEF KeepTokens, told
    <2>3. ASSUME NEW q \in SessionIds PROVE MemoryForward(q) /\ Told(q)
      BY <1>2, <2>1, <2>2
      DEF MemoryForward, Told, Reached, Present, SessionInv, IssuedFirst, TokensOfLiveSessions
    <2>4. TypeOK'
      BY <1>2, <2>1, <2>2, DiskType DEF SessionInv, TypeOK
    <2> QED
      BY <1>2, <2>3, <2>4 DEF Operation
  <1> QED
    BY <1>1, <1>2 DEF SetInstallIdentity

(* Approval, denial and result.                                            *)
LEMMA MoveOperation ==
  ASSUME SessionInv, NEW s \in SessionIds, NEW from \in Live, NEW to \in Statuses,
         Precedes(from, to), Moves(s, from, to), SaveAndAnswer(s, to),
         (to \in Live /\ KeepTokens) \/ DropToken(s)
  PROVE  Operation
  <1>1. /\ SetStatus(s, to) /\ sessions[s].status = from
        /\ UNCHANGED <<now, issued, redeems, polled>>
    BY DEF Moves
  <1>2. Present(s)
    BY <1>1 DEF Present, Live
  <1>3. /\ sessions' \in [SessionIds -> Session]
        /\ tokens' \in SUBSET SessionIds
        /\ sessions'[s].status = to
        /\ \A q \in SessionIds : MemoryForward(q)
    BY <1>1, <1>2, StatusStep
  <1>4. acked' \in [SessionIds -> SUBSET Statuses] /\ (Persisted \/ PersistFails)
    BY DEF SaveAndAnswer, Answered, SessionInv, TypeOK
  <1>5. ASSUME NEW q \in SessionIds PROVE Told(q)
    BY <1>1, <1>3 DEF Told, SaveAndAnswer, Answered, SessionInv, TypeOK
  <1>6. TypeOK'
    BY <1>1, <1>3, <1>4, DiskType DEF SessionInv, TypeOK
  <1> QED
    BY <1>3, <1>4, <1>5, <1>6 DEF Operation

LEMMA ApprovalOperation ==
  ASSUME SessionInv, NEW s \in SessionIds, NEW approved \in BOOLEAN,
         SetInstallApproval(s, approved)
  PROVE  Operation
  <1>1. Precedes(Requested, Approved) /\ Precedes(Requested, Failed)
    BY DEF Precedes, Terminal
  <1>2. Requested \in Live /\ Approved \in Live /\ {Approved, Failed} \subseteq Statuses
    BY DEF Live, Terminal, Statuses
  <1> QED
    BY <1>1, <1>2, MoveOperation, TooLateOperation DEF SetInstallApproval

LEMMA ResultOperation ==
  ASSUME SessionInv, NEW s \in SessionIds, NEW result \in Terminal,
         SetInstallResult(s, result)
  PROVE  Operation
  <1>1. Precedes(Approved, result) /\ Approved \in Live /\ result \in Statuses
    BY DEF Precedes, Live, Statuses
  <1> QED
    BY <1>1, MoveOperation, TooLateOperation DEF SetInstallResult

LEMMA RedeemOperation ==
  ASSUME SessionInv, NEW s \in SessionIds, RedeemInstallToken(s)
  PROVE  Operation
  <1>1. CASE TooLate(s)
    BY <1>1, TooLateOperation
  <1>2. CASE /\ s \in tokens /\ sessions[s].status = Approved /\ DropToken(s)
             /\ UNCHANGED <<now, sessions, issued, acked, polled>>
             /\ \/ Persisted /\ redeems' = [redeems EXCEPT ![s] = @ + 1]
                \/ PersistFails /\ UNCHANGED redeems
    <2>1. tokens' = tokens \ {s} /\ tokens' \in SUBSET SessionIds
      BY <1>2 DEF DropToken, SessionInv, TypeOK
    <2>2. ASSUME NEW q \in SessionIds PROVE MemoryForward(q)
      BY <1>2, <2>1
      DEF MemoryForward, Reached, Present, SessionInv, IssuedFirst, TokensOfLiveSessions
    <2>3. ASSUME NEW q \in SessionIds PROVE Told(q)
      BY <1>2, <2>1 DEF Told, SessionInv, TypeOK
    <2>4. redeems' \in [SessionIds -> Nat]
      BY <1>2 DEF SessionInv, TypeOK
    <2>5. TypeOK'
      BY <1>2, <2>1, <2>4, DiskType DEF SessionInv, TypeOK
    <2> QED
      BY <1>2, <2>2, <2>3, <2>5 DEF Operation
  <1> QED
    BY <1>1, <1>2 DEF RedeemInstallToken

LEMMA StepsAreOperations ==
  ASSUME SessionInv, SessionAssumption, [Next]_vars
  PROVE  Operation \/ Restart
  <1>1. ASSUME NEW s \in SessionIds,
               \/ GetInstallSession(s)
               \/ RedeemInstallToken(s)
               \/ \E id \in Identities \union {NoIdentity} : CreateInstallSession(s, id)
               \/ \E id \in Identities : SetInstallIdentity(s, id)
               \/ \E approved \in BOOLEAN : SetInstallApproval(s, approved)
               \/ \E result \in Terminal : SetInstallResult(s, result)
        PROVE  Operation
    BY <1>1, GetOperation, RedeemOperation, CreateOperation, IdentityOperation,
       ApprovalOperation, ResultOperation
  <1>2. ASSUME UNCHANGED <<sessions, tokens, issued, acked, redeems, polled>>,
               now' \in 0 .. MaxTime, Persisted \/ PersistFails
        PROVE  Operation
    <2>1. ASSUME NEW s \in SessionIds PROVE Told(s)
      BY <1>2 DEF Told
    <2>2. TypeOK'
      BY <1>2, DiskType DEF SessionInv, TypeOK
    <2> QED
      BY <1>2, <2>1, <2>2, SameMemory DEF Operation
  <1>3. ASSUME RequestOperationPersists PROVE Operation
    BY <1>2, <1>3 DEF RequestOperationPersists, told, SessionInv, TypeOK
  <1>4. ASSUME Tick PROVE Operation
    <2>1. now' \in 0 .. MaxTime
      BY <1>4 DEF Tick, SessionInv, TypeOK, SessionAssumption
    <2> QED
      BY <1>2, <1>4, <2>1 DEF Tick, told, PersistFails
  <1>5. ASSUME UNCHANGED vars PROVE Operation
    BY <1>2, <1>5 DEF vars, PersistFails, SessionInv, TypeOK
  <1> QED
    BY <1>1, <1>3, <1>4, <1>5 DEF Next

-----------------------------------------------------------------------------
(* Every step keeps the parts of the invariant.                            *)

(* A session of the file is one of memory.                                 *)
LEMMA OnDiskIsPresent ==
  ASSUME MemoryAheadOfDisk, NEW s \in SessionIds, disk.sessions[s].status # Absent
  PROVE  Present(s)
  BY OnlyAbsentReachesAbsent DEF MemoryAheadOfDisk, Present

LEMMA MemoryAheadStep ==
  ASSUME SessionInv, Operation \/ Restart
  PROVE  MemoryAheadOfDisk'
  <1>1. CASE Restart
    BY <1>1 DEF Restart, MemoryAheadOfDisk, Reached
  <1>2. CASE Operation /\ Persisted
    BY <1>2 DEF Persisted, MemoryAheadOfDisk, Reached
  <1>3. CASE Operation /\ PersistFails
    <2>1. SUFFICES ASSUME NEW s \in SessionIds
                   PROVE  /\ Reached(disk.sessions[s].status, sessions'[s].status)
                          /\ disk.sessions[s].status # Absent =>
                               /\ disk.sessions[s].expiresAt = sessions'[s].expiresAt
                               /\ s \in tokens' => s \in disk.tokens
      BY <1>3 DEF PersistFails, MemoryAheadOfDisk
    <2>2. MemoryForward(s)
      BY <1>3 DEF Operation
    <2>3. Reached(disk.sessions[s].status, sessions'[s].status)
      BY <2>2, ReachedTransitive DEF SessionInv, MemoryAheadOfDisk, MemoryForward
    <2> QED
      BY <2>2, <2>3, OnDiskIsPresent DEF SessionInv, MemoryAheadOfDisk, MemoryForward
  <1> QED
    BY <1>1, <1>2, <1>3 DEF Operation

(* The file only moves forward, and gives no session back its token.       *)
LEMMA DiskForward ==
  ASSUME SessionInv, Operation \/ Restart, NEW s \in SessionIds
  PROVE  /\ Reached(disk.sessions[s].status, disk'.sessions[s].status)
         /\ disk.sessions[s].status # Absent /\ s \in disk'.tokens => s \in disk.tokens
  <1>1. CASE Restart \/ PersistFails
    BY <1>1 DEF Restart, PersistFails, Reached
  <1>2. CASE Operation /\ Persisted
    <2>1. disk'.sessions[s] = sessions'[s] /\ disk'.tokens = tokens'
      BY <1>2 DEF Persisted
    <2>2. MemoryForward(s)
      BY <1>2 DEF Operation
    <2>3. Reached(disk.sessions[s].status, sessions'[s].status)
      BY <2>2, ReachedTransitive DEF SessionInv, MemoryAheadOfDisk, MemoryForward
    <2> QED
      BY <2>1, <2>2, <2>3, OnDiskIsPresent DEF SessionInv, MemoryAheadOfDisk, MemoryForward
  <1> QED
    BY <1>1, <1>2 DEF Operation

LEMMA TokensStep ==
  ASSUME SessionInv, Operation \/ Restart
  PROVE  TokensOfLiveSessions'
  <1>1. CASE Restart
    BY <1>1 DEF Restart, SessionInv, TokensOfLiveSessions
  <1>2. CASE Operation
    <2>1. \A s \in tokens' : s \in SessionIds /\ sessions'[s].status \in Live
      BY <1>2 DEF Operation, MemoryForward, TypeOK
    <2> QED
      BY <1>2, <2>1
      DEF Operation, Persisted, PersistFails, SessionInv, TokensOfLiveSessions
  <1> QED
    BY <1>1, <1>2

(* A session whose token was answered: its step is Persisted, or it was    *)
(* answered before and both its copies were without the token.             *)
LEMMA RedeemStep ==
  ASSUME SessionInv, Operation \/ Restart
  PROVE  RedeemedOnce' /\ SpentForGood' /\ RedeemedStaysApproved'
  <1>1. SUFFICES ASSUME NEW s \in SessionIds
                 PROVE  /\ redeems'[s] <= 1
                        /\ redeems'[s] > 0 =>
                             /\ s \notin tokens' /\ s \notin disk'.tokens
                             /\ Reached(Approved, disk'.sessions[s].status)
    BY DEF RedeemedOnce, SpentForGood, RedeemedStaysApproved
  <1>2. redeems[s] \in Nat /\ redeems[s] <= 1
    BY DEF SessionInv, TypeOK, RedeemedOnce
  <1>3. redeems[s] > 0 =>
          /\ s \notin tokens /\ s \notin disk.tokens
          /\ Reached(Approved, disk.sessions[s].status)
          /\ disk.sessions[s].status # Absent
    <2>1. ~Reached(Approved, Absent)
      BY OnlyAbsentReachesAbsent
    <2> QED
      BY <2>1 DEF SessionInv, SpentForGood, RedeemedStaysApproved
  <1>4. CASE redeems'[s] = redeems[s]
    <2>1. SUFFICES ASSUME redeems[s] > 0
                   PROVE  /\ s \notin tokens' /\ s \notin disk'.tokens
                          /\ Reached(Approved, disk'.sessions[s].status)
      BY <1>2, <1>4
    <2>2. s \notin tokens'
      BY <1>3, <2>1, OnDiskIsPresent
      DEF Operation, MemoryForward, Restart, SessionInv
    <2>3. /\ Reached(disk.sessions[s].status, disk'.sessions[s].status)
          /\ s \notin disk'.tokens
      BY <1>3, <2>1, DiskForward
    <2> QED
      BY <1>3, <2>1, <2>2, <2>3, ReachedTransitive
  <1>5. CASE /\ redeems'[s] = redeems[s] + 1
             /\ s \in tokens /\ s \notin tokens'
             /\ sessions'[s].status = Approved
             /\ Persisted
    BY <1>2, <1>3, <1>5 DEF Persisted, Reached
  <1> QED
    BY <1>4, <1>5 DEF Operation, Told, Restart, told

LEMMA AnswersStep ==
  ASSUME SessionInv, Operation \/ Restart
  PROVE  AnswersAreDurable'
  <1>1. SUFFICES ASSUME NEW s \in SessionIds, NEW t \in acked'[s]
                 PROVE  Reached(t, disk'.sessions[s].status)
    BY DEF AnswersAreDurable
  <1>2. CASE t \in acked[s]
    BY <1>2, DiskForward, ReachedTransitive DEF SessionInv, AnswersAreDurable
  <1>3. CASE Persisted /\ t = sessions'[s].status
    BY <1>3 DEF Persisted, Reached
  <1> QED
    BY <1>2, <1>3 DEF Operation, Told, Restart, told

LEMMA RestartStep ==
  ASSUME SessionInv, Restart
  PROVE  TypeOK' /\ IssuedFirst'
  <1>1. \A s \in SessionIds : disk.sessions[s].status # Absent => s \in issued
    BY OnDiskIsPresent DEF SessionInv, IssuedFirst
  <1> QED
    BY <1>1 DEF Restart, told, SessionInv, TypeOK, IssuedFirst, Present

LEMMA SessionInvStep ==
  ASSUME SessionInv, SessionAssumption, [Next]_vars
  PROVE  SessionInv'
  <1>1. Operation \/ Restart
    BY StepsAreOperations
  <1>2. TypeOK' /\ IssuedFirst'
    BY <1>1, RestartStep DEF Operation, MemoryForward, IssuedFirst
  <1> QED
    BY <1>1, <1>2, MemoryAheadStep, TokensStep, RedeemStep, AnswersStep DEF SessionInv

LEMMA SessionInvInit ==
  ASSUME SessionAssumption, Init
  PROVE  SessionInv
  BY DEF Init, SessionInv, TypeOK, IssuedFirst, MemoryAheadOfDisk, TokensOfLiveSessions,
         RedeemedOnce, SpentForGood, RedeemedStaysApproved, AnswersAreDurable, Reached,
         Present, NoSession, Session, Statuses, SessionAssumption

(* The inductive invariant of the install sessions.                        *)
THEOREM SessionInvariant == Spec => []SessionInv
  <1>1. Init => SessionInv
    BY SessionInvInit, SessionAssumption
  <1>2. SessionInv /\ [Next]_vars => SessionInv'
    BY SessionInvStep, SessionAssumption
  <1> QED
    BY <1>1, <1>2, PTL DEF Spec

-----------------------------------------------------------------------------
(* The maps of sessions and tokens are always well formed.                 *)
THEOREM SessionTypes == Spec => []TypeOK
  <1>1. SessionInv => TypeOK
    BY DEF SessionInv
  <1> QED
    BY <1>1, SessionInvariant, PTL

(* RedeemInstallToken answers a token once, whatever writes fail and       *)
(* however often the process restarts.                                     *)
THEOREM OneInstaller == Spec => []RedeemedOnce
  <1>1. SessionInv => RedeemedOnce
    BY DEF SessionInv
  <1> QED
    BY <1>1, SessionInvariant, PTL

(* A redeemed session stays approved or goes on: no restart after failed   *)
(* writes takes it back to where it could be denied.                       *)
THEOREM ApprovalStays == Spec => []RedeemedStaysApproved
  <1>1. SessionInv => RedeemedStaysApproved
    BY DEF SessionInv
  <1> QED
    BY <1>1, SessionInvariant, PTL

(* A restart takes no session forward, and finds every token that memory   *)
(* has in the file too.                                                    *)
THEOREM NoSessionAhead == Spec => []MemoryAheadOfDisk
  <1>1. SessionInv => MemoryAheadOfDisk
    BY DEF SessionInv
  <1> QED
    BY <1>1, SessionInvariant, PTL

(* No ended session has a token, in memory or in the file.                 *)
THEOREM TokensEnd == Spec => []TokensOfLiveSessions
  <1>1. SessionInv => TokensOfLiveSessions
    BY DEF SessionInv
  <1> QED
    BY <1>1, SessionInvariant, PTL

(* What a caller was told about a session is in the state file for good.   *)
THEOREM SessionDurability == Spec => []AnswersAreDurable
  <1>1. SessionInv => AnswersAreDurable
    BY DEF SessionInv
  <1> QED
    BY <1>1, SessionInvariant, PTL

-----------------------------------------------------------------------------
(* How a step other than a restart changes session s: not at all, by its   *)
(* creation, by its expiry, or while it is live and in time.               *)
Change(s) ==
  \/ sessions'[s] = sessions[s] /\ acked'[s] = acked[s] /\ redeems'[s] = redeems[s]
  \/ ~Present(s) /\ sessions'[s].status = Requested
  \/ /\ sessions[s].status \in Live /\ sessions'[s].status = Failed
     /\ acked'[s] = acked[s] /\ redeems'[s] = redeems[s]
  \/ /\ sessions[s].status \in Live /\ ~(now > sessions[s].expiresAt)
     /\ sessions'[s].status = Installed => sessions'[s].identity # NoIdentity

LEMMA SessionsChange ==
  ASSUME SessionInv, SessionAssumption, [Next]_vars
  PROVE  Restart \/ \A s \in SessionIds : Change(s)
  <1> DEFINE Changes == \A q \in SessionIds : Change(q)
  <1>0. /\ sessions \in [SessionIds -> Session]
        /\ acked \in [SessionIds -> SUBSET Statuses] /\ redeems \in [SessionIds -> Nat]
    BY DEF SessionInv, TypeOK
  <1>1. ASSUME NEW s \in SessionIds, NEW id \in Identities \union {NoIdentity},
               CreateInstallSession(s, id)
        PROVE  Changes
    <2>1. ~Present(s) /\ sessions' = [sessions EXCEPT ![s] = NewSession(id)] /\ redeems' = redeems
      BY <1>1, FreshSession DEF CreateInstallSession, Draw, Present
    <2>2. \A q \in SessionIds \ {s} : acked'[q] = acked[q]
      BY <1>0, <1>1 DEF CreateInstallSession, SaveAndAnswer, Answered
    <2>3. sessions'[s].status = Requested
      BY <1>0, <2>1 DEF NewSession
    <2> QED
      BY <1>0, <2>1, <2>2, <2>3 DEF Change
  <1>2. ASSUME NEW s \in SessionIds, Expire(s), UNCHANGED <<acked, redeems>> PROVE Changes
    BY <1>0, <1>2 DEF Expire, Overdue, SetStatus, Session, Change
  <1>3. ASSUME NEW s \in SessionIds, TooLate(s) PROVE Changes
    BY <1>2, <1>3 DEF TooLate, told
  <1>4. ASSUME NEW s \in SessionIds, GetInstallSession(s) PROVE Changes
    <2>1. CASE Expire(s)
      BY <1>2, <1>4, <2>1 DEF GetInstallSession
    <2>2. CASE UNCHANGED memory
      BY <1>4, <2>2 DEF GetInstallSession, memory, Change
    <2> QED
      BY <1>4, <2>1, <2>2 DEF GetInstallSession
  <1>5. ASSUME NEW s \in SessionIds, NEW id \in Identities, SetInstallIdentity(s, id)
        PROVE  Changes
    <2>1. CASE /\ ~Overdue(s) /\ sessions[s].status \in Live
               /\ sessions' = [sessions EXCEPT ![s].identity = id]
               /\ UNCHANGED <<acked, redeems>>
      <3>1. \A q \in SessionIds \ {s} : sessions'[q] = sessions[q]
        BY <1>0, <2>1
      <3>2. sessions'[s].status = sessions[s].status
        BY <1>0, <2>1 DEF Session
      <3> QED
        BY <2>1, <3>1, <3>2 DEF Change, Overdue, Live
    <2> QED
      BY <1>3, <1>5, <2>1 DEF SetInstallIdentity, told
  <1>6. ASSUME NEW s \in SessionIds, NEW from \in Live, NEW to \in Statuses,
               Moves(s, from, to), SaveAndAnswer(s, to),
               to = Installed => sessions[s].identity # NoIdentity
        PROVE  Changes
    <2>1. /\ ~Overdue(s) /\ sessions[s].status \in Live /\ redeems' = redeems
          /\ sessions' = [sessions EXCEPT ![s].status = to]
      BY <1>6 DEF Moves, SetStatus
    <2>2. \A q \in SessionIds \ {s} : sessions'[q] = sessions[q] /\ acked'[q] = acked[q]
      BY <1>0, <1>6, <2>1 DEF SaveAndAnswer, Answered
    <2>3. sessions'[s].status = to /\ sessions'[s].identity = sessions[s].identity
      BY <1>0, <2>1 DEF Session
    <2> QED
      BY <1>6, <2>1, <2>2, <2>3 DEF Change, Overdue
  <1>7. ASSUME NEW s \in SessionIds, NEW approved \in BOOLEAN, SetInstallApproval(s, approved)
        PROVE  Changes
    <2>1. Requested \in Live /\ Approved \in Statuses /\ Failed \in Statuses
      BY DEF Live, Terminal, Statuses
    <2> QED
      BY <1>3, <1>6, <1>7, <2>1 DEF SetInstallApproval
  <1>8. ASSUME NEW s \in SessionIds, NEW result \in Terminal, SetInstallResult(s, result)
        PROVE  Changes
    <2>1. Approved \in Live /\ result \in Statuses
      BY DEF Live, Statuses
    <2> QED
      BY <1>3, <1>6, <1>8, <2>1 DEF SetInstallResult
  <1>9. ASSUME NEW s \in SessionIds, RedeemInstallToken(s) PROVE Changes
    <2>1. CASE /\ ~Overdue(s) /\ sessions[s].status = Approved
               /\ UNCHANGED <<sessions, acked>>
               /\ redeems' = redeems \/ redeems' = [redeems EXCEPT ![s] = @ + 1]
      BY <1>0, <2>1 DEF Change, Overdue, Live
    <2> QED
      BY <1>3, <1>9, <2>1 DEF RedeemInstallToken
  <1>10. ASSUME RequestOperationPersists \/ Tick \/ UNCHANGED vars PROVE Changes
    BY <1>10 DEF RequestOperationPersists, Tick, vars, told, Change
  <1> QED
    BY <1>1, <1>4, <1>5, <1>7, <1>8, <1>9, <1>10 DEF Next

-----------------------------------------------------------------------------
(* After its deadline a session is not approved, redeemed or installed,    *)
(* and nobody is told that it was, whatever a restart brings back.         *)
THEOREM SessionDeadlineIsFinal == Spec => NoProgressAfterDeadline
  <1> DEFINE Final ==
        \A s \in SessionIds :
          Present(s) /\ now > sessions[s].expiresAt =>
            /\ sessions'[s].status \in {Approved, Installed} =>
                 sessions'[s].status \in {sessions[s].status, disk.sessions[s].status}
            /\ acked'[s] = acked[s]
            /\ redeems'[s] = redeems[s]
  <1>1. ASSUME SessionInv, [Next]_vars PROVE Final
    <2>1. CASE Restart
      BY <2>1 DEF Restart, told
    <2>2. CASE \A s \in SessionIds : Change(s)
      BY <2>2 DEF Change
    <2> QED
      BY <1>1, <2>1, <2>2, SessionsChange, SessionAssumption
  <1>2. SessionInv /\ [Next]_vars => [Final]_vars
    BY <1>1
  <1>3. Spec => [][Final]_vars
    BY <1>2, SessionInvariant, PTL DEF Spec
  <1> QED
    BY <1>3 DEF NoProgressAfterDeadline

(* An installed session has an identity, and a session that the file shows *)
(* installed has the same one in memory.                                   *)
IdentityInv ==
  /\ SessionInv
  /\ \A s \in SessionIds :
       /\ sessions[s].status = Installed => sessions[s].identity # NoIdentity
       /\ disk.sessions[s].status = Installed =>
            /\ disk.sessions[s].identity # NoIdentity
            /\ disk.sessions[s].identity = sessions[s].identity

(* Nothing comes after installed.                                          *)
LEMMA InstalledIsTerminal ==
  ASSUME NEW t, Reached(Installed, t)
  PROVE  t = Installed
  BY DEF Reached, Precedes

LEMMA IdentityInvStep ==
  ASSUME IdentityInv, SessionAssumption, [Next]_vars
  PROVE  IdentityInv'
  <1>1. SessionInv' /\ (Operation \/ Restart)
    BY SessionInvStep, StepsAreOperations DEF IdentityInv
  <1>2. SUFFICES ASSUME NEW s \in SessionIds
                 PROVE  /\ sessions'[s].status = Installed => sessions'[s].identity # NoIdentity
                        /\ disk'.sessions[s].status = Installed =>
                             /\ disk'.sessions[s].identity # NoIdentity
                             /\ disk'.sessions[s].identity = sessions'[s].identity
    BY <1>1 DEF IdentityInv
  <1>3. CASE Restart
    BY <1>3 DEF Restart, IdentityInv
  <1>4. CASE Operation /\ Change(s)
    <2>1. sessions'[s].status = Installed => sessions'[s].identity # NoIdentity
      BY <1>4 DEF Change, IdentityInv
    <2>2. CASE Persisted
      BY <2>1, <2>2 DEF Persisted
    <2>3. CASE PersistFails /\ disk.sessions[s].status = Installed
      <3>1. sessions[s].status = Installed
        BY <2>3, InstalledIsTerminal DEF IdentityInv, SessionInv, MemoryAheadOfDisk
      <3>2. sessions'[s] = sessions[s]
        BY <1>4, <3>1 DEF Change, Live, Present
      <3> QED
        BY <2>1, <2>3, <3>2 DEF PersistFails, IdentityInv
    <2>4. CASE PersistFails /\ disk.sessions[s].status # Installed
      BY <2>1, <2>4 DEF PersistFails
    <2> QED
      BY <1>4, <2>2, <2>3, <2>4 DEF Operation
  <1> QED
    BY <1>1, <1>3, <1>4, SessionsChange DEF IdentityInv

(* The identity the chat reads of an installed session is complete, is the *)
(* one in the state file, and from the answer on never changes.            *)
THEOREM IdentityIsFixed == Spec => InstalledIdentityIsFixed
  <1> DEFINE Fixed ==
        \A s \in SessionIds :
          Installed \in acked'[s] =>
            /\ sessions'[s].identity # NoIdentity
            /\ disk'.sessions[s].identity = sessions'[s].identity
            /\ Installed \in acked[s] => sessions'[s].identity = sessions[s].identity
  <1>1. Init => IdentityInv
    BY SessionInvInit, SessionAssumption DEF Init, IdentityInv, NoSession
  <1>2. IdentityInv /\ [Next]_vars => IdentityInv'
    BY IdentityInvStep, SessionAssumption
  <1>3. ASSUME IdentityInv, IdentityInv', [Next]_vars PROVE Fixed
    <2>1. SUFFICES ASSUME NEW s \in SessionIds, Installed \in acked'[s]
                   PROVE  /\ sessions'[s].identity # NoIdentity
                          /\ disk'.sessions[s].identity = sessions'[s].identity
                          /\ Installed \in acked[s] =>
                               sessions'[s].identity = sessions[s].identity
      OBVIOUS
    <2>2. disk'.sessions[s].status = Installed
      BY <1>3, <2>1, InstalledIsTerminal DEF IdentityInv, SessionInv, AnswersAreDurable
    <2>3. ASSUME Installed \in acked[s] PROVE sessions'[s].identity = sessions[s].identity
      <3>1. disk.sessions[s].status = Installed
        BY <1>3, <2>3, InstalledIsTerminal DEF IdentityInv, SessionInv, AnswersAreDurable
      <3>2. sessions[s].status = Installed
        BY <1>3, <3>1, InstalledIsTerminal DEF IdentityInv, SessionInv, MemoryAheadOfDisk
      <3>3. CASE Restart
        BY <1>3, <3>1, <3>3 DEF Restart, IdentityInv
      <3>4. CASE Change(s)
        BY <3>2, <3>4 DEF Change, Live, Present
      <3> QED
        BY <1>3, <3>3, <3>4, SessionsChange, SessionAssumption DEF IdentityInv
    <2> QED
      BY <1>3, <2>2, <2>3 DEF IdentityInv
  <1>4. IdentityInv /\ IdentityInv' /\ [Next]_vars => [Fixed]_vars
    BY <1>3
  <1>5. Spec => [][Fixed]_vars
    BY <1>1, <1>2, <1>4, PTL DEF Spec
  <1> QED
    BY <1>5 DEF InstalledIdentityIsFixed
=============================================================================
