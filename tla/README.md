# A verification of enclout

enclout lets a chat (OpenClaw) ask for SSH access to a device on behalf of a
connector that runs in a TEE. A *control plane* keeps the requests and signs
attestation bundles; a *local agent* on the device polls for requests, asks its
user, verifies the bundle strictly and installs the key. Agents themselves are
deployed through *install sessions* with one-time tokens.

The modules here model that system from its Go sources, TLC checks them on small
instances, and TLAPS proves the main safety results for every value of the
constants.

    tlc  -config RequestStore.cfg RequestStore.tla
    tlapm RequestStoreProofs.tla

Paths below are relative to `services/`; `cp` is `control-plane`, `la` is
`local-agent`.

## 1. Inventory

| Component | State | Operations | Talks to |
|---|---|---|---|
| **Connection request store** `cp/internal/requests/{store,file_store}.go` | map id -> request in memory, a JSON file with a copy | `Create`, `Get`, `ListPendingForDevice`, `SetLocalDecision`, `SetResult`, `load` | called by the handlers; shares its mutex and its file with the install sessions |
| **Install session store** (same files) | map id -> session, map token -> session | `CreateInstallSession`, `GetInstallSession`, `SetInstallIdentity`, `SetInstallApproval`, `SetInstallResult`, `RedeemInstallToken` | called by the install handlers and the OpenClaw intents |
| **Access flow handlers** `cp/internal/http` | none (a static table of bundles) | create, list, decision, bundle, result | one or two store operations each |
| **Local agent** `la/cmd/agent`, `la/internal/flow`, `la/internal/api`, `la/internal/approval` | the batch of the last poll, the request in hand | poll, `Runner.Process` | handlers over HTTP with a client timeout; the user |
| **Install handlers and OpenClaw intents** `cp/internal/openclaw` | none | one store operation each | stores |
| **Keyset cache and rotation** `la/internal/trust`, `cp/internal/signing` | cached keys and their expiry; configured keys and active kid | `TrustedKeys`; deploy a keyset | `GET /v1/signing-keys` |
| **Strict verification** `la/internal/verify` | none | signature, payload, quote, policy, report data | the DCAP verifier |
| **Installer** `la/internal/install` | a service definition, a running service | `Run`, `InstallAndStart` | install handlers, launchd or systemd |
| **Managed key file** `la/internal/sshkeys` | `authorized_keys` and its temporary file | `Install` | the file system |
| **Bearer authentication**, **connector TEE**, **configuration**, **scripts** | none, or read once at start | | |

What is hard, and what would make each component correct:

* *Requests and sessions.* The clock drives expiry, but only when somebody looks
  (it is lazy); a write of the state file may fail after memory has changed, and
  is not rolled back; a later operation on anything else writes it after all; a
  stop and start falls back to the file. Correct means: what a caller was told
  holds for good, nothing is decided twice or after its deadline, a token is
  answered once and dies with its session, an installed identity does not change,
  and nothing stays unfinished for ever.
* *Access flow.* Several agents may poll for one device id; a batch is processed
  prompt by prompt and goes stale; a call that timed out may be handled later, in
  any order, or never; all processes may stop and start. Correct means: no key
  without the confirmation of the very user and a durable approval; one agent per
  approved request; a final status that is true of the device; bundles signed only
  while the approval stands.
* *Keyset cache.* A cached keyset is stale during a rotation, a fetch takes time,
  a restart brings back the keys of the environment, and a bundle may be verified
  after its key is gone. Correct means: a rotation by the runbook refuses no bundle,
  and a cache is never older than its lifetime.
* *Verification.* Checks in a fixed order, three dependencies that may fail, a
  verifier that answers in several forms. Correct means: a key is installed only when
  nothing speaks against it, and a failure says what came first.
* *Installer.* Three calls that may time out and be handled later, four commands of a
  service manager that may fail, a kill anywhere, a second run with the same token, an
  agent from before. Correct means: one run per token, nothing on the device without a
  durable approval, and `installed` means that the agent runs as registered.
* *Key file.* One file and one temporary file of a user, read by sshd at any moment.
  Correct means: whoever reads it reads one whole key, after failures and kills too.

`PROJECT.json` lists these as hazards, each with the line where it bites and the
properties that watch it.

## 2. Modules

| Module | What it is |
|---|---|
| `DurableLifecycle` | What the control plane promises of a request: a status that only moves forward, and answers that name moves. No store, file, clock or crash. |
| `RequestStore` | The request store with its file. Implements `DurableLifecycle`. |
| `InstallSessions` | The install session store with its tokens and file. |
| `AccessContract` | What the whole flow promises a device's user: `DurableLifecycle`, with who confirmed and who got a key. No messages, polls or crashes. |
| `AccessFlow` | Agents, handlers, calls in flight and restarts, around `RequestStore` (EXTENDS). Implements `AccessContract`. |
| `Installer` | Runs of the installer and the service managers of their devices, around `InstallSessions` (EXTENDS). |
| `KeyRotation` | Signing keys, their deployments, and the agents' keyset caches. |
| `Verification` | What an agent does with one bundle, check by check. |
| `ManagedKey` | What installing a key promises: one step replaces one whole key by another. |
| `KeyFile` | `sshkeys.Manager.Install` by system calls, and sshd. Implements `ManagedKey`. |
| `RequestStoreProofs`, `InstallSessionsProofs`, `AccessFlowProofs`, `AccessContractProofs`, `InstallerProofs`, `KeyRotationProofs`, `VerificationProofs`, `KeyFileProofs` | The theorems. |
| `MCInstallSessions`, `MCAccessFlow`, `MCInstaller`, `MCKeyRotation`, `MCVerification`, `MCKeyFile` | Constants and symmetry for TLC. |

### RequestStore

Every `FileStore` operation holds one mutex from its first read to its last write,
so each is one step. Variables: `now` (the wall clock), `items` (the map), `disk`
(the map in the file), `issued` (drawn ids), `acked` (history: which moves were
answered with success).

| Code | Definition |
|---|---|
| `InMemoryStore.expireIfNeeded` | `expireIfNeeded` |
| `FileStore.persistLocked` | `Persisted` / `PersistFails`: the file is a copy of memory, or as it was |
| `FileStore.Create` | `CreateSaved`, `CreateUnsaved` (an error is answered, the request stays in memory) |
| `FileStore.Get`, `ListPendingForDevice` | `Get`, `ListSaved`, `ListUnsaved` (the write error is dropped) |
| `SetLocalDecision`, `SetResult` | `MoveSaved`, `MoveUnsaved`, `TooLate` (expired in memory, not in the file) |
| an operation on an install session | `InstallOperationPersists` |
| process stop, `FileStore.load` | `Restart` |

Calls that change nothing (unknown id, wrong status) are stuttering steps. Fields
that never change after `Create`, and the reason code, are left out: no operation
reads them.

### InstallSessions

The same shape. A session has one token all its life, so the map of tokens is the
set `tokens` of sessions whose token is still there. An identity stands for the
pair of ids, `NoIdentity` for a pair with a blank. `acked`, `redeems` and `polled`
record what callers were told: moves, redemptions, and final statuses reported by
`GET`. Operations require `Known(s)`: ids and tokens are random, and only an
answered `Create` reveals them (a file that was written although the answer is an
error would need the rename to fail, and then it was not written).

### AccessFlow

Each agent has a program counter `pc[a]` that follows `Runner.Process`: `prompt`,
`approve` or `deny` (a decision being posted), `fetch`, `sign` (the bundle handler
between its lookup and its signature), `verify`, `install`, `connected` or `failed`
(a result being posted). `todo[a]` is what is left of the last poll's batch. A call
is handled in one store step while its agent waits. `GiveUp` is the client timeout:
the agent drops the request, the call goes to `late` and is handled later in any
order, or lost. `confirmed` and `keys` are histories of what the user chose and
which keys were installed. What verification decides is a choice: properties here do
not depend on its reasons.

`ConfirmReturns` is what the prompt reports for the button pressed. On macOS it
may report approval for a denial (see Findings), which is why `MacAgents` is a constant.

`AccessContract` has three actions: a user confirms (`Confirm`), an agent gets the key
of a request once, confirmed by its own user, on an answered approval (`Grant`), and the
state file records statuses that are true: approved after a confirmation, connected
after the key, denied or failed without one (`Record`). Its `status` is the file's.

### KeyRotation

A key is its kid. Three actors share the clock:

| Code | Definition |
|---|---|
| `config.Load`, `NewSignerSetFromSeedMap` refuse a keyset without the active kid | `Configured`, `Deploy` |
| an operator who follows `signing-key-rotation.md` (steps 3-5, 8 and the rollback, 12) | `AddKey`, `Switch`, `Retire`, with a wait of `Overlap` before the last two |
| `SignerSet.SignBundle`, `SignerSet.Keyset` | `GetBundle` (signed with `active`), `FetchServe` (all of `keys`) |
| `newKeysetSource`: bootstrap keys trusted for `TTL` from the start | `Booted`, `AgentRestart`, `Init` |
| `TrustedKeys`: `cachedIfFresh`, else a fetch whose lifetime counts from before it | `Fresh`, `UseCache`, `FetchBegin`, `FetchServe`, `FetchReturn` with `Store`, `FetchFails` |
| the kid lookup of `VerifySignedBundleWithKeyset` | `Verdict` |

The bundle's way to the agent, the fetch's way to the control plane and back are
separate steps, and the clock may advance between them up to the client's timeout
(`InTime`); deployments happen anywhere between. `since`, `gone` and `lastActive` are
histories. An agent has one goroutine that asks for keys, so its refreshes do not overlap.

### Verification

`bundle`, `quote` and `policy` are arbitrary and fixed; `pc` goes through the checks of
`Runner.Process` and `StrictVerifier.Verify` in the order of the code. Cryptography is a
fact about the bundle or the quote (`signed`, `flags`); the hash in the report data is
the key that was hashed, its other 32 bytes are zeros or not. `VerifierAnswers` takes the
verifier's answer plain or wrapped in `result` (`Unwrap`), with report data absent,
undecodable, of 32 bytes (which the code pads) or of 64. The measurements checked are the
ones the bundle claims, as in the code. `faults` records which dependency failed.
`Applies` restates what each code means, from the facts and the failure-code runbook, and
`StrictOutcome` compares the outcome with it.

### Installer

`step[i]` is where run `i` of `install.Run` is; `unit`, `loaded` and `running` are the
service file, what the service manager knows, and the agent that runs, each reduced to
the identity in its environment.

| Code | Definition |
|---|---|
| `RedeemInstallToken`, `resolveInstallIdentity`, `validateConfig` | `Redeem`, `RedeemRefused`, `resolveIdentity` |
| `RegisterInstallIdentity`, `PostInstallResult`, `failInstall` | `Register`, `RegisterRefused`, `Report`, `ReportRefused`, `ReportFailure` |
| `systemd.go`: write, `daemon-reload`, `enable --now` | `WriteUnit`, `WriteFails`, `DaemonReload`, `EnableNow`, `CommandFails` |
| `launchd.go`: write, `bootout` (error ignored), `bootstrap`, `enable` and `kickstart -k` | `WriteUnit`, `WriteFails`, `Bootout`, `Bootstrap`, `Kickstart`, `CommandFails` |
| client timeout, a call handled after it or lost | `GiveUp`, `HandleLate`, `LoseLate` |
| OpenClaw intents and polls; the rest of the control plane | `Chat`, `ControlPlane` |

Every call to the control plane is an operation of `InstallSessions`, taken whole. The
service managers are external: `enable --now` leaves an active unit alone, `bootstrap`
refuses a loaded label, `ServiceRestart` is `Restart=always` and `KeepAlive`.

### KeyFile

Files are inodes, so that a process which has one open keeps it when its name moves.
`Install` is `Begin`, `MkdirAll` (where a blank key is refused), `OpenTmp` (create and
truncate), `Write` piece by piece, `Close`, `Rename`; `Fails` may happen at any of them
and `Killed` between any two, both leaving the temporary file behind. sshd opens
`authorized_keys`, reads it piece by piece and closes it.

### Variants

Definitions with names such as `MoveUnguarded` or `...Variant` are slips kept
beside the definition they would replace. No run uses them; they are the mutants
`PROJECT.json` pairs with each property, to show that the property can fail.

## 3. Runs

| Run | Shows |
|---|---|
| `store` | Two requests, every operation, failed writes and restarts anywhere: `MemoryAheadOfDisk`, `AnswersAreDurable`, `OneDecision`, `ExpiredOnlyAfterDeadline`, `NoProgressAfterDeadline`, `ImplementsDurableLifecycle` (refinement, `status` read from the file). `EveryRequestSettles`: polls expire what nobody finishes, even if every write fails; `EveryRequestSettlesOnDisk`: the same of the file, if the writes of polls succeed again and again. |
| `sessions` | Two sessions and two identities, every operation: `TokensOfLiveSessions`, `RedeemedOnce`, `RedeemedStaysApproved`, `AnswersAreDurable`, `MemoryAheadOfDisk`, `NoProgressAfterDeadline`, `InstalledIdentityIsFixed`. |
| `flow` | Two agents for one device id and one request, late and lost calls, restarts of all: `NoKeyWithoutConfirmation`, `OneAgentPerRequest`, `OutcomeMatchesDevice`, `SignedOnlyWhileApproved`, `UsesTheStore`, `ImplementsContract` (refinement of `AccessContract`); `EveryRequestSettlesInFlow`: the agents alone settle every request. |
| `flow_batch` | One agent, batches of two requests, one connector without a bundle: late calls of an earlier request meet the next. |
| `installer` | Two runs with one token, on a Mac that may have an older agent and on Linux: `OneRunPerSession`, `InstalledMeansRunning`, `FailClosed`; `EverySessionSettles`: a session the chat polls ends, whatever becomes of its installers. |
| `key_rotation` | Three keys added, switched to, rolled back and removed, agents restarting, fetches failing or slow: `NoBundleRefused`, `CacheIsRecent`. |
| `verification` | Every bundle, quote, policy and answer: `StrictOutcome`. |
| `key_file` | Keys installed one after the other, every call failing, kills, logins: `NoPartialReads`, `ReplacedAtomically` (refinement of `ManagedKey`). |
| `sessions_poll_final`, `flow_freshness`, `flow_macos_denial`, `installer_upgrade` | Expected violations, see Findings. |

**Bounds.** `TTL = 1` and `MaxTime = 3` or `4`. Every comparison in the code is
between the clock and one deadline, so what matters is before, at and after it; a
second request created later has its deadline at another instant. `Create` is
enabled only while `now + TTL < MaxTime`, so every deadline lies inside the run and
there is always an instant after it. Two requests or sessions are enough for an
operation on one to write, expire or carry the other; two agents for a race (with
one request: they meet only there). Ids are drawn once, which bounds `Create`; the
other operations have no counters. Symmetry is used where only
safety is checked.
In `KeyRotation` the lifetime is 2, a call takes up to 1, the overlap is 2 (the least
the theorem allows), and 6 ticks are enough to add, switch and remove a key with a
stale cache in between; agents do not interact, so one is enough. In `Verification`
two keys and two measurements give every equality and inequality that is compared.
`Installer` has one session and two runs: the runs meet only at the session. `KeyFile`
has a key of three pieces, so that a reader can meet a writer at the beginning, in the
middle and at the end, and an inode more than names and processes can hold; two
users never share a file, and are covered by the proof.

**Deadlock** is checked everywhere: an overdue clock never stops a poll or a restart, and
a verified bundle is followed by the next request (`Done`).

**Fairness.** `Tick`: time passes. `PolledSpec`: some agent polls, as `cmd/agent` does
every five seconds. That a write of a poll succeeds now and then is a hypothesis of
`EveryRequestSettlesOnDisk` alone: a disk that never accepts a write keeps its old
statuses. `PolledInstallerSpec`: the chat polls a session until it is terminal, as the
skill contract demands; nothing is assumed of installers. `LiveFlowSpec`:
every agent polls when idle, and a step of `Process` is taken in the end: calls return or hit the client timeout (ten seconds by default),
and prompts are answered. The last is an assumption about users: a dialog nobody
touches blocks the agent's loop, and if no other agent polls, nothing expires. No
fairness is assumed of late calls, restarts, creations or writes in flows.

## 4. Proofs

All are for every set of ids, agents, identities, keys and inodes, every `TTL` and
`MaxTime`, from the `ASSUME`s of the modules, and from what is named below.

**RequestStoreProofs.** Every step but a restart is an `Operation`: memory moves
forward, the file is a copy of memory or left alone, an answer is given only with a
copy (`OperationsMoveForward`). A restart falls back to the file. `StoreInv` is
`TypeOK`, `MemoryAheadOfDisk`, `AnswersAreDurable` and `ExpiredOnlyAfterDeadline`;
answers alone are not inductive, since a persist copies memory over what was
answered, and it is `MemoryAheadOfDisk` that says the copy is not behind. From it:
`TypeCorrectness`, `NoDiskAhead`, `Durability`, `DecidedOnce` (two verdicts would both
precede one status), `ExpiryIsLate`, `DeadlineIsFinal` (an action property), and `Refinement`:
each step maps to a `Progress`, an `Answer` or a stutter of `DurableLifecycle`.

**InstallSessionsProofs.** The same argument with tokens: memory gives no token
back to a session it knows, so the file does not either. `SessionInv` adds
`SpentForGood` (a token that was answered is in neither copy) and `IssuedFirst`: a
redeemed session is on disk approved or later, hence known, hence its id, with a
token, is not issued again. Theorems: `SessionTypes`, `OneInstaller`, `ApprovalStays`,
`TokensEnd`, `NoSessionAhead`, `SessionDurability`. `SessionsChange`: a step
other than a restart leaves a session alone, creates it, expires it, or changes it while it
is live and in time (`Change`); hence `SessionDeadlineIsFinal`, an action property.
`IdentityInv`: an installed session has a whole identity, and one that the file shows
installed has the same in memory; nothing comes after installed, whence `IdentityIsFixed`.

**AccessFlowProofs.** `StepUsesStore`: every step of the flow is a step of the store
or leaves it alone, so all of the above holds of the flow (`FlowUsesTheStore`).
`WorkSteps`: only an answered approval makes an agent work for a request; by
`StoreInv` the request was pending in memory and so had never been answered approved;
by `WorkInv` (who works has an answered approval) nobody worked for it before. Hence
`OneAgent`. `KeysAreConfirmed` adds what an agent holds to what its user confirmed; it
assumes `MacAgents = {}`, and the run `flow_macos_denial` shows that it must.

`OutcomeMatchesDevice` is about memory, but a status may come from the file or from a call
still on its way, so `OutcomeInv` speaks of what is `Reported`: in memory, in the file or
in a late call. A report ends the work of the one agent that can make it
(`ReportEndsWork`), says what is on the device (`ReportIsTrue`), and an agent at work has
the key exactly when it is about to say so (`KeyIsReportedNext`). A report is new only when
its agent finishes (`ReportsComeFromWork`); as by `OneAgentPerRequest` nobody else works
for the request, no key is installed for it any more and the report stays true:
`OutcomeIsTrue`. A request that waits for its signature can, by the same parts, only
expire, and the handler compares the deadline: `SignedWhileApproved`.

**AccessContractProofs.** `FlowKeepsTheContract`: a confirmed prompt is `Confirm`, an installed
key is `Grant`, every other step a `Record` or a stutter. `ContractInv` adds to `OutcomeInv`
where approvals come from: whatever claims that a request was approved, in memory, in the
file or in a late call, some user confirmed it (`ClaimIsConfirmed`). It too assumes
`MacAgents = {}`.

**KeyRotationProofs.** `CacheInv` relates what an agent holds to the histories: a served
or stored keyset was published after the fetch began, so what it lacks was added, and
what it has too many was removed, later than that. `CachesAreRecent` follows for any
operator. `RotationBreaksNothing` assumes `Procedure`: the overlap covers the cache's
lifetime and two calls, and an agent's environment holds no key or all of them.
`CarefulInv` adds that the kid of a bundle in hand was published an overlap before the
bundle was signed, so that no fresh cache lacks it, and is still published, since it was
active less than two calls ago.

**InstallerProofs.** Every step of the installers is a step of `InstallSessions` or leaves
it alone, so `SessionInv` holds of the composition. A run has an identity only if its
session was redeemed (`RunInv`), and the redemption that gives a run its identity is the
first of its session, so by `RedeemedOnce` nobody had one before: `OneRun`. From then on
no other run changes the identity of the session: a late registration can only be of
the same run, with the same identity, and a registration answered with success is in
the file, whence `ClosedDevice`. Both rest on the theorems of the sessions, restarts and
failed writes included.

`InstalledAgentRuns` needs what the step of a run says of its device's `unit`, `loaded` and
`running` (`DeviceInv`), and that a run answered installed has its session installed in
the file (`ReportedIsInstalled`), where by the lifecycle it stays. It assumes
`FreshSystemd`: no older agent runs under systemd beforehand. Without it the property is
false, which is what the run `installer_upgrade` shows; launchd needs no such assumption.
`InstallerUsesTheSessions` carries every theorem about the sessions over to the composition.

**VerificationProofs.** `VerificationInv`: the step an agent has reached implies that the checks
before it agreed (`Passed`), and a rejection carries the first reason code that applies
(`Rejected`). From it `VerificationTypeCorrect` and `VerificationIsStrict`, for every set
of keys, measurements, bundles, quotes, policies and answers.

**KeyFileProofs.** `OneAgentEach`: an agent of their own for every user. Then
`TmpIsPrivate` (no reader and no other user has the inode of the temporary file),
`WrittenInOrder` (what is open for writing is that file, its first `pos` pieces are of
the wanted key, and all of them from `Close` on) and `FinalIsWhole` are inductive together with
`ReadsOneKey`; from them `LoginsReadOneKey`, and `InstallIsAtomic`: `Rename` maps to
`ManagedKey!Install`, and every other step to a stutter, a question or a failure.

**Model-checked only.** Liveness, since fairness is out of the prover's reach:
`EveryRequestSettles`, `EveryRequestSettlesOnDisk`, `EveryRequestSettlesInFlow` and
`EverySessionSettles`. Every safety property of the passing runs is also a theorem.

## 5. Findings

1. `sessions_poll_final`. `FileStore.GetInstallSession` (`file_store.go:125`) drops the
   error of `persistLocked` and reports memory. A result whose write failed is answered
   with an error, yet the next poll reports `installed`, which the skill contract calls
   terminal; after a restart the session is `approved` again.
2. `flow_freshness`. The access-flow runbook has the agent verify the bundle's freshness;
   `parseBundlePayload` drops `expires_at`, and a key is installed after the deadline. The
   result is then refused, so the request ends as `expired` with a key on the device.
3. `flow_macos_denial`. The macOS dialog's `Deny` button is not a cancel button, so
   `osascript` exits 0 and prints which button was clicked; `Confirm` takes any output
   for an approval.
4. `installer_upgrade`. `systemctl --user enable --now` does not restart an active unit: the
   older agent goes on with its old ids while the session is reported `installed`.

Three more disagreements were met outside the runs' instances. They are the reason for
hypotheses that the proofs and the runs make visible:

* `Bootstraps` is `{}` or all keys. The installer writes the signing keys of its environment
  into the service definition, and `newKeysetSource` trusts them for a whole lifetime after
  every start without asking. With `Bootstraps = {{FirstKid}}` an agent installed before a
  rotation refuses the new key's bundles after a restart (`NoBundleRefused` fails), however
  long the overlap; the runbook lists a restart of the agents as the remedy.
* `OneAgentEach`. All agents of a user share `authorized_keys.tmp`. With two of them one
  truncates what the other is about to rename, or has renamed, and sshd reads an empty or
  mixed file (`NoPartialReads` fails); `SecureConnectorTEE.md` says that the rename prevents it.
* In `Applies`, an undecodable report data is a failed dependency, whatever the flags say. The
  code parses the report data before it reads the flags, so a verifier that answers
  "invalid" without report data is not reported as `QuoteInvalid`, the code the
  failure-code runbook has for it.

## 6. Assumptions, and what is left out

* The wall clock is not set back. `randomID` does not repeat an id (on a failure of
  the random source `id.go` falls back to a constant; that is left out).
* A stop is one of the process, not of the machine: `os.Rename` is atomic and what was
  written stays written. A stop between the write of the temporary file and the rename
  leaves the old file, as `PersistFails` followed by `Restart` does.
* The control plane runs as one process on one file, as `cmd/api` does.
* A kid names one key for ever; the hash of report data has no collisions; a blank kid is
  an unknown one.
* Connector id and device id of an installation are one identity; an environment that
  overrides only one of them is another identity.
* A command of a service manager that fails has changed nothing (but `bootout` may or may
  not have worked when its error is ignored). Reboots and logouts of the device are left
  out, and the agent's own crashes are `ServiceRestart`.
* A rename of `authorized_keys` survives whatever the file system makes survive.
* Values of quotes, keys and payloads; parsing, wording, HTTP status codes.

**Not modelled.** Bearer authentication (a stateless comparison of a header), the
connector TEE (derives a key, asks for one quote, posts one document, keeps nothing and
runs once), rendering of service files and shell scripts: they have no state that
steps could interleave on.

## 7. What is left

Every component with state of its own is modelled, and every safety property of the
passing runs is proved. Worth stating next, in this order:

1. An abstract specification of the installation, as `AccessContract` is of the access flow: a
   session is approved, redeemed by one run, bound to one identity, and reported
   installed when that identity runs on the device. `InstallerInv` and `DevicesInv` have
   most of what its refinement needs.
2. The composition of `AccessFlow` with `KeyRotation` and `Verification`: `Verify` here is a
   free choice, which covers both, but a theorem could say that under `Procedure` no
   request fails for its signing key.
