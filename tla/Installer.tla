------------------------------ MODULE Installer ------------------------------
(***************************************************************************)
(* Installers at work on install sessions: install.Run, its calls to the   *)
(* control plane, and the service manager of the device, launchd or        *)
(* systemd.  The chat creates, approves and polls sessions with its        *)
(* intents; the user starts installers with the token the chat shows, on   *)
(* any device and as often as they like.  A call that times out at the     *)
(* client may be handled later or be lost, every command of the service    *)
(* manager may fail, an installer may be killed.                           *)
(*                                                                         *)
(* Every installer run has a device of its own, on which an agent of an    *)
(* earlier installation may be running.  A service definition is reduced   *)
(* to the identity in its environment.                                     *)
(***************************************************************************)
EXTENDS InstallSessions, FiniteSets

CONSTANTS
  Installers,  \* runs of the installer
  Override,    \* Override[i]: CONNECTOR_ID and DEVICE_ID of its environment
  Host,        \* Host[i]: the identity derived from its host name
  Manager,     \* Manager[i]: "launchd" or "systemd"
  OldServices, \* OldServices[i]: what may run on its device beforehand
  NoService

ASSUME InstallerAssumption ==
  /\ Override \in [Installers -> Identities \union {NoIdentity}]
  /\ Host \in [Installers -> Identities]
  /\ Manager \in [Installers -> {"launchd", "systemd"}]
  /\ OldServices \in [Installers -> SUBSET (Identities \union {NoService})]
  /\ NoService \notin Identities

VARIABLES
  ses,      \* ses[i]: the session whose token run i was given
  step,     \* step[i]: where run i is
  ident,    \* ident[i]: the identity it resolved after its redemption
  unit,     \* unit[i]: the service file on its device
  loaded,   \* loaded[i]: the definition its service manager knows
  running,  \* running[i]: the agent that runs there
  late      \* calls whose caller has given up, and that may still be handled

device == <<unit, loaded, running>>
run    == <<ses, step, ident>>
installerVars == <<vars, run, device, late>>

Services == Identities \union {NoService}
Calls    == [kind : {"redeem", "register", "report", "fail"}, by : Installers]

Goto(i, where) == step' = [step EXCEPT ![i] = where]

HasSession(i) == ident[i] # NoIdentity

-----------------------------------------------------------------------------
(* The definitions named ...Variant are slips kept beside the definition   *)
(* they replace; the runs use none of them.                                *)
resolveIdentityVariant(i, id) == IF Override[i] # NoIdentity THEN Override[i] ELSE id

(* resolveInstallIdentity: the environment, the session, the host name.    *)
resolveIdentity(i, id) ==
  IF Override[i] # NoIdentity THEN Override[i]
  ELSE IF id # NoIdentity THEN id ELSE Host[i]

(* install.Run starts with the token that the chat was given.              *)
Start(i, s) ==
  /\ step[i] = "start"
  /\ Known(s)
  /\ ses' = [ses EXCEPT ![i] = s]
  /\ Goto(i, "redeem")
  /\ UNCHANGED <<vars, ident, device, late>>

(* The session comes back; validateConfig may find the configuration       *)
(* incomplete, which is reported.                                          *)
Redeem(i) ==
  /\ step[i] = "redeem"
  /\ RedeemInstallToken(ses[i])
  /\ redeems' # redeems
  /\ ident' = [ident EXCEPT ![i] = resolveIdentity(i, sessions[ses[i]].identity)]
  /\ Goto(i, "register") \/ Goto(i, "fail")
  /\ UNCHANGED <<ses, device, late>>

Unredeemable(s) == s \notin tokens \/ (~Overdue(s) /\ sessions[s].status # Approved)

RedeemRefused(i) ==
  /\ step[i] = "redeem"
  /\ \/ RedeemInstallToken(ses[i]) /\ UNCHANGED redeems
     \/ Unredeemable(ses[i]) /\ UNCHANGED vars
  /\ Goto(i, "done")
  /\ UNCHANGED <<ses, ident, device, late>>

(* RegisterInstallIdentity                                                 *)
Register(i) ==
  /\ step[i] = "register"
  /\ SetInstallIdentity(ses[i], ident[i])
  /\ sessions'[ses[i]].status \in Live
  /\ Persisted
  /\ Goto(i, "write")
  /\ UNCHANGED <<ses, ident, device, late>>

RegisterRefused(i) ==
  /\ step[i] = "register"
  /\ \/ SetInstallIdentity(ses[i], ident[i]) /\ PersistFails
     \/ sessions[ses[i]].status \notin Live /\ UNCHANGED vars
  /\ Goto(i, "fail")
  /\ UNCHANGED <<ses, ident, device, late>>

-----------------------------------------------------------------------------
(* The device.  os.WriteFile truncates the file before it writes it.       *)
WriteUnitVariant(i) ==
  /\ step[i] = "write"
  /\ unit' = [unit EXCEPT ![i] = Host[i]]
  /\ Goto(i, "load")
  /\ UNCHANGED <<vars, ses, ident, loaded, running, late>>
WriteUnit(i) ==
  /\ step[i] = "write"
  /\ unit' = [unit EXCEPT ![i] = ident[i]]
  /\ Goto(i, "load")
  /\ UNCHANGED <<vars, ses, ident, loaded, running, late>>

WriteFails(i) ==
  /\ step[i] = "write"
  /\ \/ unit' = [unit EXCEPT ![i] = NoService]
     \/ UNCHANGED unit
  /\ Goto(i, "fail")
  /\ UNCHANGED <<vars, ses, ident, loaded, running, late>>

OnDevice(i, where, next) ==
  /\ step[i] = where
  /\ Goto(i, next)
  /\ UNCHANGED <<vars, ses, ident, unit, late>>

(* systemctl daemon-reload, then enable --now, which starts the service if *)
(* it does not run.                                                        *)
DaemonReload(i) ==
  /\ Manager[i] = "systemd"
  /\ OnDevice(i, "load", "start service")
  /\ loaded' = [loaded EXCEPT ![i] = unit[i]]
  /\ UNCHANGED running

EnableNow(i) ==
  /\ Manager[i] = "systemd"
  /\ OnDevice(i, "start service", "report")
  /\ running' = [running EXCEPT ![i] = IF @ = NoService THEN loaded[i] ELSE @]
  /\ UNCHANGED loaded

(* launchctl bootout, whose failure is ignored; bootstrap, which refuses   *)
(* a label that is loaded and starts the agent (RunAtLoad); enable and     *)
(* kickstart -k, which starts it anew.                                     *)
Bootout(i) ==
  /\ Manager[i] = "launchd"
  /\ OnDevice(i, "load", "bootstrap")
  /\ \/ /\ loaded'  = [loaded EXCEPT ![i] = NoService]
        /\ running' = [running EXCEPT ![i] = NoService]
     \/ UNCHANGED <<loaded, running>>

Bootstrap(i) ==
  /\ loaded[i] = NoService
  /\ OnDevice(i, "bootstrap", "kickstart")
  /\ loaded'  = [loaded EXCEPT ![i] = unit[i]]
  /\ running' = [running EXCEPT ![i] = unit[i]]

Kickstart(i) ==
  /\ OnDevice(i, "kickstart", "report")
  /\ running' = [running EXCEPT ![i] = loaded[i]]
  /\ UNCHANGED loaded

CommandFails(i) ==
  /\ \E where \in {"load", "start service", "bootstrap", "kickstart"} :
       OnDevice(i, where, "fail")
  /\ Manager[i] = "launchd" => step[i] # "load"
  /\ UNCHANGED <<loaded, running>>

(* Restart=always, KeepAlive: an agent that stops is started again, as the *)
(* service manager knows it.                                               *)
ServiceRestart(i) ==
  /\ running[i] # NoService
  /\ running' = [running EXCEPT ![i] = loaded[i]]
  /\ UNCHANGED <<vars, run, unit, loaded, late>>

-----------------------------------------------------------------------------
(* PostInstallResult.  If the result is refused, Run returns the error.    *)
Report(i) ==
  /\ step[i] = "report"
  /\ SetInstallResult(ses[i], Installed)
  /\ IF acked' # acked THEN Goto(i, "reported") ELSE Goto(i, "done")
  /\ UNCHANGED <<ses, ident, device, late>>

Settled(s) == sessions[s].status # Approved /\ ~Overdue(s)

ReportRefused(i) ==
  /\ step[i] = "report"
  /\ Settled(ses[i])
  /\ Goto(i, "done")
  /\ UNCHANGED <<vars, ses, ident, device, late>>

(* failInstall: the run ends whatever becomes of its report.               *)
ReportFailure(i) ==
  /\ step[i] = "fail"
  /\ \/ SetInstallResult(ses[i], Failed)
     \/ Settled(ses[i]) /\ UNCHANGED vars
  /\ Goto(i, "done")
  /\ UNCHANGED <<ses, ident, device, late>>

(* The client's timeout.                                                   *)
GiveUp(i) ==
  /\ step[i] \in {"redeem", "register", "report", "fail"}
  /\ late' = late \union {[kind |-> step[i], by |-> i]}
  /\ Goto(i, IF step[i] = "register" THEN "fail" ELSE "done")
  /\ UNCHANGED <<vars, ses, ident, device>>

Handled(call) ==
  LET i == call.by
      s == ses[i]
  IN  \/ call.kind = "redeem"   /\ RedeemInstallToken(s)
      \/ call.kind = "register" /\ SetInstallIdentity(s, ident[i])
      \/ call.kind = "report"   /\ SetInstallResult(s, Installed)
      \/ call.kind = "fail"     /\ SetInstallResult(s, Failed)

HandleLate(call) ==
  /\ Handled(call)
  /\ late' = late \ {call}
  /\ UNCHANGED <<run, device>>

(* Lost, or refused without effect.                                        *)
LoseLate(call) ==
  /\ late' = late \ {call}
  /\ UNCHANGED <<vars, run, device>>

Killed(i) ==
  /\ step[i] \notin {"start", "reported", "done"}
  /\ Goto(i, "done")
  /\ UNCHANGED <<vars, ses, ident, device, late>>

-----------------------------------------------------------------------------
(* The intents of the chat, its polls, and the control plane itself.       *)
Chat(s) ==
  /\ \/ \E id \in Identities \union {NoIdentity} : CreateInstallSession(s, id)
     \/ \E approved \in BOOLEAN : SetInstallApproval(s, approved)
     \/ \E result \in Terminal : SetInstallResult(s, result)
     \/ GetInstallSession(s)
  /\ UNCHANGED <<run, device, late>>

ControlPlane ==
  /\ RequestOperationPersists \/ Restart \/ Tick
  /\ UNCHANGED <<run, device, late>>

Run(i) ==
  \/ \E s \in SessionIds : Start(i, s)
  \/ Redeem(i) \/ RedeemRefused(i) \/ Register(i) \/ RegisterRefused(i)
  \/ WriteUnit(i) \/ WriteFails(i)
  \/ DaemonReload(i) \/ EnableNow(i)
  \/ Bootout(i) \/ Bootstrap(i) \/ Kickstart(i)
  \/ CommandFails(i)
  \/ Report(i) \/ ReportRefused(i) \/ ReportFailure(i)
  \/ GiveUp(i) \/ Killed(i) \/ ServiceRestart(i)

InstallerInit ==
  /\ Init
  /\ ses     \in [Installers -> SessionIds]
  /\ step    = [i \in Installers |-> "start"]
  /\ ident   = [i \in Installers |-> NoIdentity]
  /\ unit    \in [Installers -> Services]
  /\ \A i \in Installers : unit[i] \in OldServices[i]
  /\ loaded  = unit
  /\ running = unit
  /\ late    = {}

InstallerNext ==
  \/ \E i \in Installers : Run(i)
  \/ \E call \in late : HandleLate(call) \/ LoseLate(call)
  \/ \E s \in SessionIds : Chat(s)
  \/ ControlPlane

InstallerSpec == InstallerInit /\ [][InstallerNext]_installerVars

(* Time passes, and the chat polls a session it was told of until it is    *)
(* terminal.  Nothing is assumed of installers, devices and calls.         *)
PolledInstallerSpec ==
  /\ InstallerSpec
  /\ WF_installerVars(ControlPlane /\ Tick)
  /\ \A s \in SessionIds : WF_installerVars(Chat(s) /\ GetInstallSession(s))

-----------------------------------------------------------------------------
(* Every variable has its type, and a run that was answered its redemption *)
(* has an identity: resolveInstallIdentity always finds one.               *)
InstallerTypeOK ==
  /\ ses \in [Installers -> SessionIds]
  /\ step \in [Installers -> {"start", "redeem", "register", "write", "load", "bootstrap",
                            "kickstart", "start service", "report", "fail", "reported", "done"}]
  /\ ident \in [Installers -> Identities \union {NoIdentity}]
  /\ unit \in [Installers -> Services]
  /\ loaded \in [Installers -> Services]
  /\ running \in [Installers -> Services]
  /\ late \subseteq Calls
  /\ \A i \in Installers : step[i] \notin {"start", "redeem", "done"} => HasSession(i)

(* However often a token is used, on however many devices, and whatever    *)
(* calls time out, one run at most gets past its redemption.               *)
OneRunPerSession ==
  \A i, j \in Installers :
    HasSession(i) /\ HasSession(j) /\ ses[i] = ses[j] => i = j

(* A device is changed only for a session that was redeemed and is, on     *)
(* disk, approved or later, and only to run under the identity the file    *)
(* has for it, even if the session's result never gets through.            *)
FailClosed ==
  [][\A i \in Installers :
       unit'[i] # unit[i] \/ loaded'[i] # loaded[i] =>
         /\ redeems[ses[i]] > 0
         /\ Reached(Approved, disk.sessions[ses[i]].status)
         /\ disk.sessions[ses[i]].identity = ident[i]
         /\ unit'[i] \in {unit[i], ident[i], NoService}
         /\ loaded'[i] \in {loaded[i], unit[i], NoService}]_installerVars

(* connector-access-flow.md: the installer writes the service config,      *)
(* starts the agent and posts installed on success, and the channel goes   *)
(* on with the registered ids.  So once a run was answered installed, the  *)
(* agent on its device runs under the ids of the session, restarts of the  *)
(* agent and of the control plane included.                                *)
InstalledMeansRunning ==
  \A i \in Installers : step[i] = "reported" =>
    /\ running[i] = disk.sessions[ses[i]].identity
    /\ disk.sessions[ses[i]].status = Installed
=============================================================================
