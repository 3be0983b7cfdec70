----------------------------- MODULE MCInstaller -----------------------------
EXTENDS Installer, TLC

CONSTANTS mac, linux, ids1, ids2

(* The run on the Mac has its ids from the session or, failing that, from  *)
(* its host name, the run on Linux has them in its environment.            *)
Environments == mac :> NoIdentity @@ linux :> ids1
HostNames    == mac :> ids2 @@ linux :> ids2
Managers     == mac :> "launchd" @@ linux :> "systemd"

(* The Mac may have an older agent; Linux has none, or certainly has one.  *)
NewOnLinux   == mac :> {NoService, ids1} @@ linux :> {NoService}
OldOnLinux   == mac :> {NoService} @@ linux :> {ids2}
=============================================================================
