--------------------------- MODULE InstallerProofs ---------------------------
(***************************************************************************)
(* Theorems about Installer for every set of runs, sessions and identities,*)
(* under either service manager.  Installers and the chat use the session  *)
(* store by its operations only, so SessionInv holds of it.  A redemption  *)
(* is counted, and counted once, so the session of a run that was answered *)
(* one has no other run: OneRun.  Hence nobody else registers an identity  *)
(* for it, and what is on a device is what its session says: ClosedDevice. *)
(***************************************************************************)
EXTENDS Installer, InstallSessionsProofs

(* A run holds a session only past its redemption, and so do the calls it  *)
(* has left behind.                                                        *)
RunInv ==
  /\ InstallerTypeOK
  /\ \A i \in Installers : step[i] \in {"start", "redeem"} => ~HasSession(i)
  /\ \A call \in late : call.kind # "redeem" => HasSession(call.by)

Redeemed == \A i \in Installers : HasSession(i) => redeems[ses[i]] > 0

InstallerInv == SessionInv /\ RunInv /\ Redeemed /\ OneRunPerSession

-----------------------------------------------------------------------------
(* Every step is a step of the sessions or leaves them alone.              *)
LEMMA StepUsesSessions ==
  ASSUME RunInv, [InstallerNext]_installerVars
  PROVE  [Next]_vars
  <1> USE InstallerAssumption DEF RunInv, InstallerTypeOK, vars
  <1>1. ASSUME NEW i \in Installers, Redeem(i) \/ RedeemRefused(i) PROVE [Next]_vars
    BY <1>1 DEF Redeem, RedeemRefused, Next
  <1>2. ASSUME NEW i \in Installers, Register(i) \/ RegisterRefused(i) PROVE [Next]_vars
    <2>1. ses[i] \in SessionIds /\ ident[i] \in Identities
      BY <1>2 DEF Register, RegisterRefused, HasSession
    <2> QED
      BY <1>2, <2>1 DEF Register, RegisterRefused, Next
  <1>3. ASSUME NEW i \in Installers, Report(i) \/ ReportFailure(i) PROVE [Next]_vars
    <2>1. ses[i] \in SessionIds /\ Installed \in Terminal /\ Failed \in Terminal
      BY DEF Terminal
    <2> QED
      BY <1>3, <2>1 DEF Report, ReportFailure, Next
  <1>4. ASSUME NEW i \in Installers,
               \/ \E s \in SessionIds : Start(i, s)
               \/ WriteUnit(i) \/ WriteFails(i) \/ DaemonReload(i) \/ EnableNow(i)
               \/ Bootout(i) \/ Bootstrap(i) \/ Kickstart(i) \/ CommandFails(i)
               \/ ReportRefused(i) \/ GiveUp(i) \/ Killed(i) \/ ServiceRestart(i)
        PROVE  UNCHANGED vars
    BY <1>4
    DEF Start, WriteUnit, WriteFails, DaemonReload, EnableNow, Bootout, Bootstrap,
        Kickstart, CommandFails, OnDevice, ReportRefused, GiveUp, Killed, ServiceRestart
  <1>5. ASSUME NEW call \in late, HandleLate(call) \/ LoseLate(call) PROVE [Next]_vars
    <2>1. call.by \in Installers /\ ses[call.by] \in SessionIds
      BY DEF Calls
    <2>2. call.kind = "register" => ident[call.by] \in Identities
      BY <2>1 DEF HasSession
    <2>3. Installed \in Terminal /\ Failed \in Terminal
      BY DEF Terminal
    <2> QED
      BY <1>5, <2>1, <2>2, <2>3 DEF HandleLate, LoseLate, Handled, Next
  <1>6. ASSUME NEW s \in SessionIds, Chat(s) PROVE Next
    BY <1>6 DEF Chat, Next
  <1>7. ASSUME ControlPlane PROVE Next
    BY <1>7 DEF ControlPlane, Next
  <1>8. ASSUME UNCHANGED installerVars PROVE UNCHANGED vars
    BY <1>8 DEF installerVars
  <1> QED
    BY <1>1, <1>2, <1>3, <1>4, <1>5, <1>6, <1>7, <1>8 DEF InstallerNext, Run

-----------------------------------------------------------------------------
LEMMA RunStep ==
  ASSUME RunInv, SessionInv, [InstallerNext]_installerVars
  PROVE  RunInv'
  <1> USE DEF RunInv, InstallerTypeOK, HasSession, Calls, Goto, Services, run, device
  <1>1. ASSUME NEW i \in Installers, NEW s \in SessionIds, Start(i, s) PROVE RunInv'
    BY <1>1 DEF Start
  <1>2. ASSUME NEW i \in Installers, Redeem(i) PROVE RunInv'
    <2>1. sessions[ses[i]].identity \in Identities \union {NoIdentity}
      BY DEF SessionInv, TypeOK, Session
    <2>2. resolveIdentity(i, sessions[ses[i]].identity) \in Identities
      BY <2>1, InstallerAssumption DEF resolveIdentity
    <2>3. NoIdentity \notin Identities
      BY SessionAssumption DEF SessionAssumption
    <2> QED
      BY <1>2, <2>2, <2>3 DEF Redeem
  <1>3. ASSUME NEW i \in Installers,
               \/ RedeemRefused(i) \/ Register(i) \/ RegisterRefused(i)
               \/ Report(i) \/ ReportRefused(i) \/ ReportFailure(i) \/ Killed(i)
        PROVE  RunInv'
    BY <1>3
    DEF RedeemRefused, Register, RegisterRefused, Report, ReportRefused, ReportFailure,
        Killed
  <1>4. ASSUME NEW i \in Installers, WriteUnit(i) \/ WriteFails(i) PROVE RunInv'
    BY <1>4 DEF WriteUnit, WriteFails
  <1>5. ASSUME NEW i \in Installers,
               \/ DaemonReload(i) \/ EnableNow(i) \/ Bootout(i) \/ Bootstrap(i)
               \/ Kickstart(i) \/ CommandFails(i)
        PROVE  RunInv'
    <2>1. CASE DaemonReload(i) \/ EnableNow(i)
      BY <2>1 DEF DaemonReload, EnableNow, OnDevice
    <2>2. CASE Bootout(i)
      BY <2>2 DEF Bootout, OnDevice
    <2>3. CASE Bootstrap(i)
      BY <2>3 DEF Bootstrap, OnDevice
    <2>4. CASE Kickstart(i)
      BY <2>4 DEF Kickstart, OnDevice
    <2>5. CASE CommandFails(i)
      BY <2>5 DEF CommandFails, OnDevice
    <2> QED
      BY <1>5, <2>1, <2>2, <2>3, <2>4, <2>5
  <1>6. ASSUME NEW i \in Installers, ServiceRestart(i) PROVE RunInv'
    BY <1>6 DEF ServiceRestart
  <1>7. ASSUME NEW i \in Installers, GiveUp(i) PROVE RunInv'
    <2> DEFINE left == [kind |-> step[i], by |-> i]
    <2>1. /\ UNCHANGED <<ses, ident, unit, loaded, running>>
          /\ step[i] \in {"redeem", "register", "report", "fail"}
          /\ late' = late \union {left}
          /\ step' \in [Installers -> {"done", "fail"} \union {step[j] : j \in Installers}]
          /\ \A j \in Installers : j # i => step'[j] = step[j]
          /\ step'[i] \in {"done", "fail"}
          /\ step'[i] = "fail" => step[i] = "register"
      BY <1>7 DEF GiveUp
    <2>2. left \in Calls /\ left.by = i /\ left.kind = step[i]
      BY <2>1
    <2> HIDE DEF left
    <2>3. \A call \in late' : call.kind # "redeem" => HasSession(call.by)'
      <3>1. ASSUME NEW call \in late', call.kind # "redeem" PROVE HasSession(call.by)'
        <4>1. CASE call = left
          BY <2>1, <2>2, <3>1, <4>1
        <4>2. CASE call \in late
          BY <2>1, <3>1, <4>2
        <4> QED
          BY <2>1, <4>1, <4>2
      <3> QED
        BY <3>1
    <2>4. \A j \in Installers : step'[j] \notin {"start", "redeem", "done"} => HasSession(j)'
      BY <2>1
    <2>5. \A j \in Installers : step'[j] \in {"start", "redeem"} => ~HasSession(j)'
      BY <2>1
    <2>6. InstallerTypeOK'
      BY <2>1, <2>2, <2>4
    <2> QED
      BY <2>3, <2>5, <2>6
  <1>8. ASSUME NEW call \in late, HandleLate(call) \/ LoseLate(call) PROVE RunInv'
    BY <1>8 DEF HandleLate, LoseLate
  <1>9. ASSUME NEW s \in SessionIds, Chat(s) PROVE RunInv'
    BY <1>9 DEF Chat
  <1>10. ASSUME ControlPlane PROVE RunInv'
    BY <1>10 DEF ControlPlane
  <1>11. ASSUME UNCHANGED installerVars PROVE RunInv'
    BY <1>11 DEF installerVars
  <1> QED
    BY <1>1, <1>2, <1>3, <1>4, <1>5, <1>6, <1>7, <1>8, <1>9, <1>10, <1>11
    DEF InstallerNext, Run

(* No redemption is ever uncounted.                                        *)
LEMMA RedeemsGrow ==
  ASSUME SessionInv, [Next]_vars, NEW s \in SessionIds
  PROVE  /\ redeems[s] \in Nat /\ redeems'[s] \in Nat
         /\ redeems'[s] \in {redeems[s], redeems[s] + 1}
  <1>1. Operation \/ Restart
    BY StepsAreOperations, SessionAssumption
  <1>2. TypeOK /\ TypeOK'
    BY SessionInvStep, SessionAssumption DEF SessionInv
  <1> QED
    BY <1>1, <1>2 DEF Operation, Told, Restart, told, TypeOK

(* Whose session and identity a step sets.                                 *)
LEMMA WhoRedeems ==
  ASSUME RunInv, [InstallerNext]_installerVars, NEW i \in Installers,
         HasSession(i)'
  PROVE  /\ ses'[i] = ses[i]
         /\ \/ HasSession(i) /\ ident'[i] = ident[i]
            \/ Redeem(i) /\ ~HasSession(i) /\ ident' = [ident EXCEPT ![i] = ident'[i]]
  <1> USE DEF RunInv, InstallerTypeOK, HasSession, run, device
  <1>1. CASE UNCHANGED <<ses, ident>>
    BY <1>1
  <1>2. ASSUME NEW j \in Installers, NEW s \in SessionIds, Start(j, s)
        PROVE  UNCHANGED ident /\ (j = i => ~HasSession(i)) /\ (j # i => ses'[i] = ses[i])
    BY <1>2 DEF Start
  <1>3. ASSUME NEW j \in Installers, Redeem(j)
        PROVE  /\ UNCHANGED ses /\ ~HasSession(j)
               /\ \E id : ident' = [ident EXCEPT ![j] = id]
    BY <1>3 DEF Redeem
  <1>4. ASSUME NEW j \in Installers,
               \/ RedeemRefused(j) \/ Register(j) \/ RegisterRefused(j)
               \/ WriteUnit(j) \/ WriteFails(j) \/ DaemonReload(j) \/ EnableNow(j)
               \/ Bootout(j) \/ Bootstrap(j) \/ Kickstart(j) \/ CommandFails(j)
               \/ Report(j) \/ ReportRefused(j) \/ ReportFailure(j)
               \/ GiveUp(j) \/ Killed(j) \/ ServiceRestart(j)
        PROVE  UNCHANGED <<ses, ident>>
    BY <1>4
    DEF RedeemRefused, Register, RegisterRefused, WriteUnit, WriteFails, DaemonReload,
        EnableNow, Bootout, Bootstrap, Kickstart, CommandFails, OnDevice, Report,
        ReportRefused, ReportFailure, GiveUp, Killed, ServiceRestart
  <1>5. ASSUME \/ \E call \in late : HandleLate(call) \/ LoseLate(call)
               \/ \E s \in SessionIds : Chat(s)
               \/ ControlPlane \/ UNCHANGED installerVars
        PROVE  UNCHANGED <<ses, ident>>
    BY <1>5 DEF HandleLate, LoseLate, Chat, ControlPlane, installerVars
  <1>6. CASE \E j \in Installers, s \in SessionIds : Start(j, s)
    BY <1>2, <1>6
  <1>7. CASE \E j \in Installers : Redeem(j)
    <2>1. PICK j \in Installers : Redeem(j)
      BY <1>7
    <2>2. CASE j = i
      BY <1>3, <2>1, <2>2
    <2>3. CASE j # i
      BY <1>3, <2>1, <2>3
    <2> QED
      BY <2>2, <2>3
  <1> QED
    BY <1>1, <1>4, <1>5, <1>6, <1>7 DEF InstallerNext, Run

(* A run whose redemption is answered finds its session never redeemed.    *)
LEMMA RedeemsFirst ==
  ASSUME InstallerInv, NEW i \in Installers, Redeem(i), SessionInv'
  PROVE  redeems[ses[i]] = 0 /\ redeems'[ses[i]] = 1
  <1>1. ses[i] \in SessionIds
    BY DEF InstallerInv, RunInv, InstallerTypeOK
  <1>2. redeems' = [redeems EXCEPT ![ses[i]] = @ + 1]
    BY DEF Redeem, RedeemInstallToken, TooLate, told
  <1>3. redeems \in [SessionIds -> Nat] /\ redeems'[ses[i]] <= 1
    BY <1>1 DEF InstallerInv, SessionInv, TypeOK, RedeemedOnce
  <1> QED
    BY <1>1, <1>2, <1>3

LEMMA OneRunStep ==
  ASSUME InstallerInv, [InstallerNext]_installerVars
  PROVE  InstallerInv'
  <1>1. [Next]_vars
    BY StepUsesSessions DEF InstallerInv
  <1>2. SessionInv' /\ RunInv'
    BY <1>1, SessionInvStep, SessionAssumption, RunStep DEF InstallerInv
  <1>3. Redeemed'
    <2>1. SUFFICES ASSUME NEW i \in Installers, HasSession(i)' PROVE redeems'[ses'[i]] > 0
      BY DEF Redeemed
    <2>2. ses'[i] = ses[i] /\ ses[i] \in SessionIds
      BY <2>1, WhoRedeems DEF InstallerInv, RunInv, InstallerTypeOK
    <2>3. CASE HasSession(i)
      BY <1>1, <2>2, <2>3, RedeemsGrow DEF InstallerInv, Redeemed
    <2>4. CASE Redeem(i)
      BY <1>2, <2>2, <2>4, RedeemsFirst
    <2> QED
      BY <2>1, <2>3, <2>4, WhoRedeems DEF InstallerInv
  <1>4. OneRunPerSession'
    <2>1. SUFFICES ASSUME NEW i \in Installers, NEW j \in Installers, i # j,
                          HasSession(i)', HasSession(j)', ses'[i] = ses'[j]
                   PROVE  FALSE
      BY DEF OneRunPerSession
    <2>2. ses[i] = ses[j]
      BY <2>1, WhoRedeems DEF InstallerInv
    <2>3. ASSUME NEW k \in Installers, NEW l \in Installers, k # l, ses[k] = ses[l],
                 HasSession(l)', Redeem(k)
          PROVE  FALSE
      <3>1. ~HasSession(l)
        BY <1>2, <2>3, RedeemsFirst DEF InstallerInv, Redeemed
      <3>2. ident'[l] = ident[l]
        BY <2>3 DEF Redeem, InstallerInv, RunInv, InstallerTypeOK
      <3> QED
        BY <2>3, <3>1, <3>2 DEF HasSession
    <2>4. ~Redeem(i) /\ ~Redeem(j)
      BY <2>1, <2>2, <2>3
    <2>5. HasSession(i) /\ HasSession(j)
      BY <2>1, <2>4, WhoRedeems DEF InstallerInv
    <2> QED
      BY <2>1, <2>2, <2>5 DEF InstallerInv, OneRunPerSession
  <1> QED
    BY <1>2, <1>3, <1>4 DEF InstallerInv

(* The inductive invariant: the sessions' own, who holds a session has     *)
(* redeemed it, and nobody else has.                                       *)
THEOREM InstallerInvariant == InstallerSpec => []InstallerInv
  <1>1. InstallerInit => InstallerInv
    BY SessionInvInit, SessionAssumption, InstallerAssumption
    DEF InstallerInit, InstallerInv, RunInv, InstallerTypeOK, Redeemed, OneRunPerSession,
        HasSession, Services
  <1>2. InstallerInv /\ [InstallerNext]_installerVars => InstallerInv'
    BY OneRunStep
  <1> QED
    BY <1>1, <1>2, PTL DEF InstallerSpec

(* Runs of the installer, their late calls and the chat use the sessions   *)
(* by the store's operations only, so every theorem of                     *)
(* InstallSessionsProofs holds of the composed system.                     *)
THEOREM InstallerUsesTheSessions == InstallerSpec => Spec
  <1>1. InstallerInit => Init
    BY DEF InstallerInit
  <1>2. InstallerInv /\ [InstallerNext]_installerVars => [Next]_vars
    BY StepUsesSessions DEF InstallerInv
  <1> QED
    BY <1>1, <1>2, InstallerInvariant, PTL DEF InstallerSpec, Spec

(* Every run has an identity once it is past its redemption.               *)
THEOREM InstallerTypes == InstallerSpec => []InstallerTypeOK
  <1>1. InstallerInv => InstallerTypeOK
    BY DEF InstallerInv, RunInv
  <1> QED
    BY InstallerInvariant, <1>1, PTL

(* A token lets one run of the installer through, whatever times out, fails*)
(* or restarts.                                                            *)
THEOREM OneRun == InstallerSpec => []OneRunPerSession
  <1>1. InstallerInv => OneRunPerSession
    BY DEF InstallerInv
  <1> QED
    BY InstallerInvariant, <1>1, PTL

-----------------------------------------------------------------------------
(* A run that has registered finds its identity in memory and in the file. *)
AtWork == {"write", "load", "bootstrap", "kickstart", "start service", "report", "reported"}

Bound(s, id) == sessions[s].identity = id /\ disk.sessions[s].identity = id

Registered == \A i \in Installers : step[i] \in AtWork => Bound(ses[i], ident[i])

(* A step of the sessions that registers nothing but id for s.             *)
Quiet(s, id) ==
  \/ \E q \in SessionIds :
       \/ GetInstallSession(q) \/ RedeemInstallToken(q)
       \/ \E x \in Identities \union {NoIdentity} : CreateInstallSession(q, x)
       \/ \E x \in Identities : SetInstallIdentity(q, x) /\ (q = s => x = id)
       \/ \E approved \in BOOLEAN : SetInstallApproval(q, approved)
       \/ \E result \in Terminal : SetInstallResult(q, result)
  \/ RequestOperationPersists \/ Restart \/ Tick \/ UNCHANGED vars

LEMMA IdentityKept ==
  ASSUME SessionInv, NEW s \in SessionIds, redeems[s] > 0, NEW id,
         Bound(s, id), Quiet(s, id)
  PROVE  Bound(s, id)'
  <1>1. s \in issued
    <2>1. disk.sessions[s].status # Absent
      BY DEF SessionInv, RedeemedStaysApproved, Reached, Precedes, Terminal, Approved, Absent,
             Installed, Failed
    <2> QED
      BY <2>1, OnDiskIsPresent DEF SessionInv, IssuedFirst
  <1>2. sessions \in [SessionIds -> Session]
    BY DEF SessionInv, TypeOK
  <1> USE DEF Bound
  <1>3. CASE Restart
    BY <1>3 DEF Restart
  <1>4. CASE RequestOperationPersists \/ Tick \/ UNCHANGED vars
    BY <1>4 DEF RequestOperationPersists, Tick, vars, Persisted
  <1>5. ASSUME NEW q \in SessionIds,
               SetStatus(q, Failed) \/ UNCHANGED sessions,
               Persisted \/ PersistFails
        PROVE  Bound(s, id)'
    BY <1>2, <1>5 DEF SetStatus, Persisted, PersistFails, Session
  <1>6. ASSUME NEW q \in SessionIds, TooLate(q) PROVE Bound(s, id)'
    BY <1>5, <1>6 DEF TooLate, Expire
  <1>7. ASSUME NEW q \in SessionIds, GetInstallSession(q) PROVE Bound(s, id)'
    BY <1>5, <1>7 DEF GetInstallSession, Expire, memory
  <1>8. ASSUME NEW q \in SessionIds, RedeemInstallToken(q) PROVE Bound(s, id)'
    BY <1>5, <1>6, <1>8 DEF RedeemInstallToken
  <1>9. ASSUME NEW q \in SessionIds, NEW x, CreateInstallSession(q, x) PROVE Bound(s, id)'
    BY <1>1, <1>2, <1>9 DEF CreateInstallSession, Draw, SaveAndAnswer, Persisted, PersistFails
  <1>10. ASSUME NEW q \in SessionIds, NEW x \in Identities,
                SetInstallIdentity(q, x), q = s => x = id
         PROVE  Bound(s, id)'
    BY <1>2, <1>6, <1>10 DEF SetInstallIdentity, Persisted, PersistFails, Session
  <1>11. ASSUME NEW q \in SessionIds, NEW from, NEW to, Moves(q, from, to), SaveAndAnswer(q, to)
         PROVE  Bound(s, id)'
    BY <1>2, <1>11 DEF Moves, SetStatus, SaveAndAnswer, Persisted, PersistFails, Session
  <1>12. ASSUME NEW q \in SessionIds, NEW approved \in BOOLEAN, SetInstallApproval(q, approved)
         PROVE  Bound(s, id)'
    BY <1>6, <1>11, <1>12 DEF SetInstallApproval
  <1>13. ASSUME NEW q \in SessionIds, NEW result \in Terminal, SetInstallResult(q, result)
         PROVE  Bound(s, id)'
    BY <1>6, <1>11, <1>13 DEF SetInstallResult
  <1> QED
    BY <1>3, <1>4, <1>7, <1>8, <1>9, <1>10, <1>12, <1>13 DEF Quiet

(* Nobody registers another identity for a session that a run holds.       *)
LEMMA StepIsQuiet ==
  ASSUME InstallerInv, [InstallerNext]_installerVars, NEW i \in Installers, HasSession(i)
  PROVE  Quiet(ses[i], ident[i])
  <1> USE DEF InstallerInv, RunInv, InstallerTypeOK
  <1>1. Installed \in Terminal /\ Failed \in Terminal
    BY DEF Terminal
  <1>2. ASSUME NEW j \in Installers, HasSession(j), SetInstallIdentity(ses[j], ident[j])
        PROVE  Quiet(ses[i], ident[i])
    <2>1. ses[j] \in SessionIds /\ ident[j] \in Identities
      BY <1>2 DEF HasSession
    <2>2. ses[j] = ses[i] => ident[j] = ident[i]
      BY <1>2 DEF OneRunPerSession
    <2> QED
      BY <1>2, <2>1, <2>2 DEF Quiet
  <1>3. ASSUME NEW j \in Installers, Register(j) \/ RegisterRefused(j)
        PROVE  Quiet(ses[i], ident[i])
    <2>1. HasSession(j)
      BY <1>3 DEF Register, RegisterRefused
    <2>2. SetInstallIdentity(ses[j], ident[j]) \/ UNCHANGED vars
      BY <1>3 DEF Register, RegisterRefused
    <2> QED
      BY <1>2, <2>1, <2>2 DEF Quiet
  <1>4. ASSUME NEW j \in Installers, Redeem(j) \/ RedeemRefused(j)
        PROVE  Quiet(ses[i], ident[i])
    BY <1>4 DEF Redeem, RedeemRefused, Quiet
  <1>5. ASSUME NEW j \in Installers, Report(j) \/ ReportFailure(j)
        PROVE  Quiet(ses[i], ident[i])
    BY <1>1, <1>5 DEF Report, ReportFailure, Quiet
  <1>6. ASSUME NEW j \in Installers,
               \/ \E s \in SessionIds : Start(j, s)
               \/ WriteUnit(j) \/ WriteFails(j) \/ DaemonReload(j) \/ EnableNow(j)
               \/ Bootout(j) \/ Bootstrap(j) \/ Kickstart(j) \/ CommandFails(j)
               \/ ReportRefused(j) \/ GiveUp(j) \/ Killed(j) \/ ServiceRestart(j)
        PROVE  UNCHANGED vars
    BY <1>6
    DEF Start, WriteUnit, WriteFails, DaemonReload, EnableNow, Bootout, Bootstrap,
        Kickstart, CommandFails, OnDevice, ReportRefused, GiveUp, Killed, ServiceRestart
  <1>7. ASSUME NEW call \in late, HandleLate(call) \/ LoseLate(call)
        PROVE  Quiet(ses[i], ident[i])
    <2>1. call.by \in Installers /\ ses[call.by] \in SessionIds
      BY DEF Calls
    <2>2. CASE LoseLate(call)
      BY <2>2 DEF LoseLate, Quiet
    <2>3. CASE call.kind = "register" /\ SetInstallIdentity(ses[call.by], ident[call.by])
      BY <1>2, <2>1, <2>3
    <2>4. CASE \/ RedeemInstallToken(ses[call.by])
               \/ \E result \in Terminal : SetInstallResult(ses[call.by], result)
      BY <2>1, <2>4 DEF Quiet
    <2> QED
      BY <1>1, <1>7, <2>2, <2>3, <2>4 DEF HandleLate, Handled
  <1>8. ASSUME NEW s \in SessionIds, Chat(s) PROVE Quiet(ses[i], ident[i])
    BY <1>8 DEF Chat, Quiet
  <1>9. ASSUME ControlPlane PROVE Quiet(ses[i], ident[i])
    BY <1>9 DEF ControlPlane, Quiet
  <1>10. ASSUME UNCHANGED vars PROVE Quiet(ses[i], ident[i])
    BY <1>10 DEF Quiet
  <1>11. ASSUME UNCHANGED installerVars PROVE UNCHANGED vars
    BY <1>11 DEF installerVars
  <1> QED
    BY <1>3, <1>4, <1>5, <1>6, <1>7, <1>8, <1>9, <1>10, <1>11 DEF InstallerNext, Run

(* A run gets to work on its device by registering, and in no other way.   *)
LEMMA WhoWorks ==
  ASSUME RunInv, [InstallerNext]_installerVars, NEW i \in Installers,
         step'[i] \in AtWork
  PROVE  step[i] \in AtWork \/ Register(i)
  <1> USE DEF RunInv, InstallerTypeOK, Goto, AtWork, run, device
  <1>1. CASE UNCHANGED step
    BY <1>1
  <1>2. ASSUME NEW j \in Installers, j # i, Run(j) PROVE step'[i] = step[i]
    BY <1>2
    DEF Run, Start, Redeem, RedeemRefused, Register, RegisterRefused, WriteUnit, WriteFails,
        DaemonReload, EnableNow, Bootout, Bootstrap, Kickstart, CommandFails, OnDevice,
        Report, ReportRefused, ReportFailure, GiveUp, Killed, ServiceRestart
  <1>3. ASSUME Run(i) PROVE step[i] \in AtWork \/ Register(i)
    BY <1>3
    DEF Run, Start, Redeem, RedeemRefused, RegisterRefused, WriteUnit, WriteFails,
        DaemonReload, EnableNow, Bootout, Bootstrap, Kickstart, CommandFails, OnDevice,
        Report, ReportRefused, ReportFailure, GiveUp, Killed, ServiceRestart
  <1>4. ASSUME \/ \E call \in late : HandleLate(call) \/ LoseLate(call)
               \/ \E s \in SessionIds : Chat(s)
               \/ ControlPlane \/ UNCHANGED installerVars
        PROVE  UNCHANGED step
    BY <1>4 DEF HandleLate, LoseLate, Chat, ControlPlane, installerVars
  <1> QED
    BY <1>1, <1>2, <1>3, <1>4 DEF InstallerNext

LEMMA RegisteredStep ==
  ASSUME InstallerInv, Registered, [InstallerNext]_installerVars
  PROVE  Registered'
  <1>1. SUFFICES ASSUME NEW i \in Installers, step'[i] \in AtWork
                 PROVE  Bound(ses[i], ident[i])'
    BY DEF Registered
  <1>2. step[i] \in AtWork \/ Register(i)
    BY <1>1, WhoWorks DEF InstallerInv
  <1>3. HasSession(i) /\ ses[i] \in SessionIds
    BY <1>2 DEF InstallerInv, RunInv, InstallerTypeOK, AtWork, Register
  <1>4. RunInv'
    BY RunStep DEF InstallerInv
  <1>5. ses'[i] = ses[i] /\ ident'[i] = ident[i]
    <2>1. HasSession(i)'
      BY <1>1, <1>4 DEF RunInv, InstallerTypeOK, AtWork
    <2> QED
      BY <1>3, <2>1, WhoRedeems DEF InstallerInv
  <1>6. CASE step[i] \in AtWork
    <2>1. Bound(ses[i], ident[i]) /\ redeems[ses[i]] > 0
      BY <1>3, <1>6 DEF Registered, InstallerInv, Redeemed
    <2>2. ASSUME NEW s \in SessionIds, NEW id, s = ses[i], id = ident[i]
          PROVE  sessions'[s].identity = id /\ disk'.sessions[s].identity = id
      BY <1>3, <2>1, <2>2, StepIsQuiet, IdentityKept DEF InstallerInv, Bound
    <2> QED
      BY <1>3, <1>5, <2>2 DEF Bound
  <1>7. CASE Register(i)
    <2>1. sessions' = [sessions EXCEPT ![ses[i]].identity = ident[i]]
      <3>1. ~TooLate(ses[i])
        BY <1>3, <1>7
        DEF Register, TooLate, Expire, SetStatus, Live, InstallerInv, SessionInv, TypeOK, Session,
            Requested, Approved, Failed
      <3> QED
        BY <1>7, <3>1 DEF Register, SetInstallIdentity
    <2>2. sessions'[ses[i]].identity = ident[i]
      BY <1>3, <2>1 DEF InstallerInv, SessionInv, TypeOK, Session
    <2> QED
      BY <1>5, <1>7, <2>2 DEF Register, Persisted, Bound
  <1> QED
    BY <1>2, <1>6, <1>7

(* A device is changed only for a session that was redeemed and is approved*)
(* in the file, and to run under the identity the file has for it.         *)
THEOREM ClosedDevice == InstallerSpec => FailClosed
  <1>1. InstallerInit => Registered
    BY DEF InstallerInit, Registered, AtWork
  <1>2. InstallerInv /\ Registered /\ [InstallerNext]_installerVars => Registered'
    BY RegisteredStep
  <1> DEFINE Closed ==
        \A i \in Installers :
          unit'[i] # unit[i] \/ loaded'[i] # loaded[i] =>
            /\ redeems[ses[i]] > 0
            /\ Reached(Approved, disk.sessions[ses[i]].status)
            /\ disk.sessions[ses[i]].identity = ident[i]
            /\ unit'[i] \in {unit[i], ident[i], NoService}
            /\ loaded'[i] \in {loaded[i], unit[i], NoService}
  <1>3. InstallerInv /\ Registered /\ [InstallerNext]_installerVars => Closed
    <2> SUFFICES ASSUME InstallerInv, Registered, [InstallerNext]_installerVars,
                        NEW i \in Installers, unit'[i] # unit[i] \/ loaded'[i] # loaded[i]
                 PROVE  /\ redeems[ses[i]] > 0
                        /\ Reached(Approved, disk.sessions[ses[i]].status)
                        /\ disk.sessions[ses[i]].identity = ident[i]
                        /\ unit'[i] \in {unit[i], ident[i], NoService}
                        /\ loaded'[i] \in {loaded[i], unit[i], NoService}
      OBVIOUS
    <2>1. \/ WriteUnit(i) \/ WriteFails(i) \/ DaemonReload(i) \/ Bootout(i) \/ Bootstrap(i)
      <3> USE DEF InstallerInv, RunInv, InstallerTypeOK, run, device
      <3>1. ASSUME NEW j \in Installers,
                   \/ WriteUnit(j) \/ WriteFails(j) \/ DaemonReload(j) \/ Bootout(j)
                   \/ Bootstrap(j)
            PROVE  j = i
        BY <3>1 DEF WriteUnit, WriteFails, DaemonReload, Bootout, Bootstrap, OnDevice
      <3>2. ASSUME NEW j \in Installers,
                   \/ \E s \in SessionIds : Start(j, s)
                   \/ Redeem(j) \/ RedeemRefused(j) \/ Register(j) \/ RegisterRefused(j)
                   \/ EnableNow(j) \/ Kickstart(j) \/ CommandFails(j)
                   \/ Report(j) \/ ReportRefused(j) \/ ReportFailure(j)
                   \/ GiveUp(j) \/ Killed(j) \/ ServiceRestart(j)
            PROVE  UNCHANGED <<unit, loaded>>
        BY <3>2
        DEF Start, Redeem, RedeemRefused, Register, RegisterRefused, EnableNow, Kickstart,
            CommandFails, OnDevice, Report, ReportRefused, ReportFailure, GiveUp, Killed,
            ServiceRestart
      <3>3. ASSUME \/ \E call \in late : HandleLate(call) \/ LoseLate(call)
                   \/ \E s \in SessionIds : Chat(s)
                   \/ ControlPlane \/ UNCHANGED installerVars
            PROVE  UNCHANGED <<unit, loaded>>
        BY <3>3 DEF HandleLate, LoseLate, Chat, ControlPlane, installerVars
      <3> QED
        BY <3>1, <3>2, <3>3 DEF InstallerNext, Run
    <2>2. step[i] \in AtWork
      BY <2>1 DEF WriteUnit, WriteFails, DaemonReload, Bootout, Bootstrap, OnDevice, AtWork
    <2>3. HasSession(i) /\ ses[i] \in SessionIds
      BY <2>2 DEF InstallerInv, RunInv, InstallerTypeOK, AtWork
    <2>4. redeems[ses[i]] > 0 /\ Reached(Approved, disk.sessions[ses[i]].status)
      BY <2>3 DEF InstallerInv, Redeemed, SessionInv, RedeemedStaysApproved
    <2>5. disk.sessions[ses[i]].identity = ident[i]
      BY <2>2 DEF Registered, Bound
    <2>6. /\ unit'[i] \in {unit[i], ident[i], NoService}
          /\ loaded'[i] \in {loaded[i], unit[i], NoService}
      <3> USE DEF InstallerInv, RunInv, InstallerTypeOK
      <3>1. ASSUME WriteUnit(i) \/ WriteFails(i)
            PROVE  loaded' = loaded /\ unit'[i] \in {unit[i], ident[i], NoService}
        BY <3>1 DEF WriteUnit, WriteFails
      <3>2. ASSUME DaemonReload(i) \/ Bootout(i) \/ Bootstrap(i)
            PROVE  unit' = unit /\ loaded'[i] \in {loaded[i], unit[i], NoService}
        BY <3>2 DEF DaemonReload, Bootout, Bootstrap, OnDevice
      <3> QED
        BY <2>1, <3>1, <3>2
    <2> QED
      BY <2>4, <2>5, <2>6
  <1>4. InstallerInv /\ Registered /\ [InstallerNext]_installerVars => [Closed]_installerVars
    BY <1>3
  <1> QED
    BY InstallerInvariant, <1>1, <1>2, <1>4, PTL DEF InstallerSpec, FailClosed

-----------------------------------------------------------------------------
(* No older agent runs on a device whose manager is systemd: enable --now  *)
(* would leave it running under its old definition.                        *)
FreshSystemd ==
  \A i \in Installers : Manager[i] = "systemd" => OldServices[i] \subseteq {NoService}

(* What a run has made of its device by the time it is at a step.          *)
DeviceInv(i) ==
  /\ Manager[i] = "systemd" =>
       /\ step[i] \notin {"bootstrap", "kickstart"}
       /\ step[i] \in {"start", "redeem", "register", "write", "load", "start service"} =>
            running[i] = NoService
  /\ Manager[i] = "launchd" => step[i] # "start service"
  /\ step[i] \in AtWork \ {"write"} => unit[i] = ident[i]
  /\ step[i] = "start service" => loaded[i] = ident[i]
  /\ step[i] \in {"kickstart", "report", "reported"} =>
       loaded[i] = ident[i] /\ running[i] = ident[i]

(* A run that was answered installed finds its session so in the file.     *)
ReportedIsInstalled ==
  \A i \in Installers : step[i] = "reported" => disk.sessions[ses[i]].status = Installed

DevicesInv == (\A i \in Installers : DeviceInv(i)) /\ ReportedIsInstalled

LEMMA DeviceStep ==
  ASSUME InstallerInv, [InstallerNext]_installerVars, NEW i \in Installers, DeviceInv(i)
  PROVE  DeviceInv(i)'
  <1> USE DEF DeviceInv, AtWork
  <1>0. /\ step \in [Installers -> {step[j] : j \in Installers}]
        /\ ident \in [Installers -> Identities \union {NoIdentity}]
        /\ unit \in [Installers -> Services] /\ loaded \in [Installers -> Services]
        /\ running \in [Installers -> Services]
        /\ Manager[i] \in {"launchd", "systemd"}
    BY InstallerAssumption DEF InstallerAssumption, InstallerInv, RunInv, InstallerTypeOK
  <1>1. ASSUME UNCHANGED <<step[i], ident[i], unit[i], loaded[i], running[i]>>
        PROVE  DeviceInv(i)'
    BY <1>1
  <1>2. ASSUME NEW j \in Installers, j # i, Run(j)
        PROVE  UNCHANGED <<step[i], ident[i], unit[i], loaded[i], running[i]>>
    <2> USE <1>0 DEF Goto, run, device
    <2>1. CASE \/ \E s \in SessionIds : Start(j, s)
               \/ Redeem(j) \/ RedeemRefused(j) \/ Register(j) \/ RegisterRefused(j)
               \/ Report(j) \/ ReportRefused(j) \/ ReportFailure(j) \/ GiveUp(j) \/ Killed(j)
      BY <1>2, <2>1
      DEF Start, Redeem, RedeemRefused, Register, RegisterRefused, Report, ReportRefused,
          ReportFailure, GiveUp, Killed
    <2>2. CASE WriteUnit(j) \/ WriteFails(j) \/ ServiceRestart(j)
      BY <1>2, <2>2 DEF WriteUnit, WriteFails, ServiceRestart
    <2>3. CASE DaemonReload(j) \/ EnableNow(j) \/ CommandFails(j)
      BY <1>2, <2>3 DEF DaemonReload, EnableNow, CommandFails, OnDevice
    <2>4. CASE Bootout(j) \/ Bootstrap(j) \/ Kickstart(j)
      BY <1>2, <2>4 DEF Bootout, Bootstrap, Kickstart, OnDevice
    <2> QED
      BY <1>2, <2>1, <2>2, <2>3, <2>4 DEF Run
  <1>3. ASSUME \/ \E call \in late : HandleLate(call) \/ LoseLate(call)
               \/ \E s \in SessionIds : Chat(s)
               \/ ControlPlane \/ UNCHANGED installerVars
        PROVE  UNCHANGED <<step[i], ident[i], unit[i], loaded[i], running[i]>>
    BY <1>3 DEF HandleLate, LoseLate, Chat, ControlPlane, installerVars, run, device
  (* The run's own steps, in their order.                                  *)
  <1>4. ASSUME \/ \E s \in SessionIds : Start(i, s)
               \/ Redeem(i) \/ RedeemRefused(i) \/ Register(i) \/ RegisterRefused(i)
        PROVE  DeviceInv(i)'
    <2>1. /\ UNCHANGED <<unit, loaded, running>>
          /\ step[i] \in {"start", "redeem", "register"}
          /\ step'[i] \in {"redeem", "register", "write", "fail", "done"}
      BY <1>0, <1>4 DEF Start, Redeem, RedeemRefused, Register, RegisterRefused, Goto, device
    <2> QED
      BY <2>1
  <1>5. ASSUME WriteUnit(i) PROVE DeviceInv(i)'
    <2>1. /\ step[i] = "write" /\ step'[i] = "load" /\ unit'[i] = ident[i]
          /\ UNCHANGED <<ident, loaded, running>>
      BY <1>0, <1>5 DEF WriteUnit, Goto
    <2> QED
      BY <2>1
  <1>6. ASSUME WriteFails(i) \/ CommandFails(i) \/ ReportFailure(i) \/ ReportRefused(i)
                 \/ GiveUp(i) \/ Killed(i)
        PROVE  DeviceInv(i)'
    <2>1. step'[i] \in {"fail", "done"}
      BY <1>0, <1>6
      DEF WriteFails, CommandFails, OnDevice, ReportFailure, ReportRefused, GiveUp, Killed, Goto
    <2> QED
      BY <2>1
  <1>7. ASSUME DaemonReload(i) PROVE DeviceInv(i)'
    <2>1. /\ Manager[i] = "systemd" /\ step[i] = "load" /\ step'[i] = "start service"
          /\ loaded'[i] = unit[i] /\ UNCHANGED <<ident, unit, running>>
      BY <1>0, <1>7 DEF DaemonReload, OnDevice, Goto
    <2> QED
      BY <2>1
  <1>8. ASSUME EnableNow(i) PROVE DeviceInv(i)'
    <2>1. /\ Manager[i] = "systemd" /\ step[i] = "start service" /\ step'[i] = "report"
          /\ running'[i] = IF running[i] = NoService THEN loaded[i] ELSE running[i]
          /\ UNCHANGED <<ident, unit, loaded>>
      BY <1>0, <1>8 DEF EnableNow, OnDevice, Goto
    <2> QED
      BY <2>1
  <1>9. ASSUME Bootout(i) PROVE DeviceInv(i)'
    <2>1. /\ Manager[i] = "launchd" /\ step[i] = "load" /\ step'[i] = "bootstrap"
          /\ UNCHANGED <<ident, unit>>
      BY <1>0, <1>9 DEF Bootout, OnDevice, Goto
    <2> QED
      BY <2>1
  <1>10. ASSUME Bootstrap(i) PROVE DeviceInv(i)'
    <2>1. /\ step[i] = "bootstrap" /\ step'[i] = "kickstart"
          /\ loaded'[i] = unit[i] /\ running'[i] = unit[i] /\ UNCHANGED <<ident, unit>>
      BY <1>0, <1>10 DEF Bootstrap, OnDevice, Goto
    <2> QED
      BY <1>0, <2>1
  <1>11. ASSUME Kickstart(i) PROVE DeviceInv(i)'
    <2>1. /\ step[i] = "kickstart" /\ step'[i] = "report"
          /\ running'[i] = loaded[i] /\ UNCHANGED <<ident, unit, loaded>>
      BY <1>0, <1>11 DEF Kickstart, OnDevice, Goto
    <2> QED
      BY <1>0, <2>1
  <1>12. ASSUME Report(i) PROVE DeviceInv(i)'
    <2>1. /\ step[i] = "report" /\ step'[i] \in {"reported", "done"}
          /\ UNCHANGED <<ident, unit, loaded, running>>
      BY <1>0, <1>12 DEF Report, Goto, device
    <2> QED
      BY <2>1
  <1>13. ASSUME ServiceRestart(i) PROVE DeviceInv(i)'
    <2>1. /\ running[i] # NoService /\ running'[i] = loaded[i]
          /\ UNCHANGED <<step, ident, unit, loaded>>
      BY <1>0, <1>13 DEF ServiceRestart, run
    <2> QED
      BY <2>1
  <1> QED
    BY <1>1, <1>2, <1>3, <1>4, <1>5, <1>6, <1>7, <1>8, <1>9, <1>10, <1>11, <1>12, <1>13
    DEF InstallerNext, Run

(* The answer to a report comes with the result in the file, and nothing   *)
(* takes it out again.                                                     *)
LEMMA ReportedStep ==
  ASSUME InstallerInv, ReportedIsInstalled, [InstallerNext]_installerVars
  PROVE  ReportedIsInstalled'
  <1>1. SUFFICES ASSUME NEW i \in Installers, step'[i] = "reported"
                 PROVE  disk'.sessions[ses'[i]].status = Installed
    BY DEF ReportedIsInstalled
  <1>2. step[i] = "reported" \/ Report(i)
    <2> USE DEF InstallerInv, RunInv, InstallerTypeOK, Goto, run, device
    <2>1. ASSUME NEW j \in Installers, j # i, Run(j) PROVE step'[i] = step[i]
      BY <2>1
      DEF Run, Start, Redeem, RedeemRefused, Register, RegisterRefused, WriteUnit, WriteFails,
          DaemonReload, EnableNow, Bootout, Bootstrap, Kickstart, CommandFails, OnDevice,
          Report, ReportRefused, ReportFailure, GiveUp, Killed, ServiceRestart
    <2>2. ASSUME Run(i) PROVE step[i] = "reported" \/ Report(i)
      BY <1>1, <2>2
      DEF Run, Start, Redeem, RedeemRefused, Register, RegisterRefused, WriteUnit, WriteFails,
          DaemonReload, EnableNow, Bootout, Bootstrap, Kickstart, CommandFails, OnDevice,
          ReportRefused, ReportFailure, GiveUp, Killed, ServiceRestart
    <2>3. ASSUME \/ \E call \in late : HandleLate(call) \/ LoseLate(call)
                 \/ \E s \in SessionIds : Chat(s)
                 \/ ControlPlane \/ UNCHANGED installerVars
          PROVE  UNCHANGED step
      BY <2>3 DEF HandleLate, LoseLate, Chat, ControlPlane, installerVars
    <2> QED
      BY <1>1, <2>1, <2>2, <2>3 DEF InstallerNext
  <1>3. ses[i] \in SessionIds
    BY DEF InstallerInv, RunInv, InstallerTypeOK
  <1>4. CASE Report(i)
    <2>1. SetInstallResult(ses[i], Installed) /\ acked' # acked /\ ses' = ses
      BY <1>1, <1>4 DEF Report, Goto, InstallerInv, RunInv, InstallerTypeOK
    <2>2. Moves(ses[i], Approved, Installed) /\ Persisted
      BY <2>1 DEF SetInstallResult, TooLate, told, SaveAndAnswer
    <2>3. sessions'[ses[i]].status = Installed
      BY <1>3, <2>2 DEF Moves, SetStatus, InstallerInv, SessionInv, TypeOK, Session
    <2> QED
      BY <2>1, <2>2, <2>3 DEF Persisted
  <1>5. CASE step[i] = "reported"
    <2>1. RunInv' /\ [Next]_vars
      BY RunStep, StepUsesSessions DEF InstallerInv
    <2>2. ses'[i] = ses[i]
      BY <1>1, <2>1, WhoRedeems DEF InstallerInv, RunInv, InstallerTypeOK
    <2>3. Operation \/ Restart
      BY <2>1, StepsAreOperations, SessionAssumption DEF InstallerInv
    <2>4. Reached(disk.sessions[ses[i]].status, disk'.sessions[ses[i]].status)
      BY <1>3, <2>3, DiskForward DEF InstallerInv
    <2> QED
      BY <1>5, <2>2, <2>4, InstalledIsTerminal DEF ReportedIsInstalled
  <1> QED
    BY <1>2, <1>4, <1>5

(* Once a run was answered installed, the agent of its device runs under   *)
(* the identity of its session, which the file shows installed, whatever   *)
(* restarts.  Without the assumption this is false: on Linux an upgrade    *)
(* leaves the old agent running.                                           *)
THEOREM InstalledAgentRuns ==
  ASSUME FreshSystemd
  PROVE  InstallerSpec => []InstalledMeansRunning
  <1>1. InstallerInit => Registered /\ DevicesInv
    <2>1. ASSUME InstallerInit, NEW i \in Installers PROVE DeviceInv(i)
      BY <2>1, InstallerAssumption DEF InstallerInit, DeviceInv, AtWork, FreshSystemd
    <2> QED
      BY <2>1 DEF InstallerInit, Registered, AtWork, DevicesInv, ReportedIsInstalled
  <1>2. InstallerInv /\ Registered /\ DevicesInv /\ [InstallerNext]_installerVars
          => Registered' /\ DevicesInv'
    BY RegisteredStep, DeviceStep, ReportedStep DEF DevicesInv
  <1>3. InstallerInv /\ Registered /\ DevicesInv => InstalledMeansRunning
    BY DEF Registered, Bound, AtWork, DevicesInv, DeviceInv, ReportedIsInstalled,
           InstalledMeansRunning
  <1> QED
    BY InstallerInvariant, <1>1, <1>2, <1>3, PTL DEF InstallerSpec
=============================================================================
