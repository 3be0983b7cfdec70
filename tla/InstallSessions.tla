--------------------------- MODULE InstallSessions ---------------------------
(***************************************************************************)
(* The control plane's install sessions and their one-time tokens:         *)
(* requests.FileStore around requests.InMemoryStore.  A session is created *)
(* with one token, is approved from the chat, its token is redeemed by the *)
(* installer, which registers the identity it found and reports a result.  *)
(*                                                                         *)
(* A session has one token for its whole life, so the map of tokens is the *)
(* set of the sessions whose token is still in it.  An identity stands for *)
(* the pair of a connector id and a device id, NoIdentity for a pair with  *)
(* a blank in it.  User, channel and reason code are left out.             *)
(***************************************************************************)
EXTENDS Naturals

CONSTANTS
  SessionIds,   \* the ids randomID may draw; it never draws one twice
  Identities,   \* pairs of a connector id and a device id
  NoIdentity,   \* a pair with a blank in it
  TTL,          \* lifetime of a session
  MaxTime       \* bound: the clock stops here

ASSUME SessionAssumption ==
  TTL \in Nat \ {0} /\ MaxTime \in Nat /\ NoIdentity \notin Identities

VARIABLES
  now,        \* the wall clock; it is assumed never to be set back
  sessions,   \* InMemoryStore.installSessions
  tokens,     \* InMemoryStore.installTokens
  disk,       \* both, as they are in the state file
  issued,     \* the ids randomID has drawn
  acked,      \* acked[s]: what callers were told, with a 2xx answer, they moved
              \* session s to (history)
  redeems,    \* redeems[s]: how often the token of s was answered with s (history)
  polled      \* polled[s]: the final statuses GET reported of s (history)

memory == <<sessions, tokens>>
told   == <<acked, redeems, polled>>
vars   == <<now, sessions, tokens, disk, issued, acked, redeems, polled>>

-----------------------------------------------------------------------------
Absent    == "absent"
Requested == "requested"
Approved  == "approved"
Installed == "installed"
Failed    == "failed"

Live     == {Requested, Approved}
Terminal == {Installed, Failed}
Statuses == {Absent} \union Live \union Terminal

Session == [status    : Statuses,
            identity  : Identities \union {NoIdentity},
            expiresAt : Nat]

NoSession == [status |-> Absent, identity |-> NoIdentity, expiresAt |-> 0]

(* The definitions named ...Variant are slips kept beside the definition   *)
(* they replace; the runs use none of them.                                *)
NewSessionVariant(id) == [status |-> "", identity |-> id, expiresAt |-> now + TTL]

NewSession(id) == [status |-> Requested, identity |-> id, expiresAt |-> now + TTL]

(* s precedes t: a session with status s may come to have status t.        *)
Precedes(s, t) ==
  \/ s = Absent    /\ t \in Live \union Terminal
  \/ s = Requested /\ t \in {Approved} \union Terminal
  \/ s = Approved  /\ t \in Terminal

Reached(s, t) == s = t \/ Precedes(s, t)

Present(s) == sessions[s].status # Absent

(* The id and the token of a session are known to the chat only if Create  *)
(* answered: nothing lists sessions.                                       *)
Known(s) == Requested \in acked[s]

-----------------------------------------------------------------------------
OverdueRequestedVariant(s) == now > sessions[s].expiresAt /\ sessions[s].status = Requested

(* expireInstallIfNeeded: s is past its deadline and not yet terminal.     *)
Overdue(s) == now > sessions[s].expiresAt /\ sessions[s].status \in Live

DropTokenVariant(s) == tokens' = tokens

(* deleteInstallTokensForSessionLocked                                     *)
DropToken(s) == tokens' = tokens \ {s}
KeepTokens   == tokens' = tokens

SetStatus(s, t) == sessions' = [sessions EXCEPT ![s].status = t]

(* What an operation leaves in memory when it finds s overdue.             *)
Expire(s) == Overdue(s) /\ SetStatus(s, Failed) /\ DropToken(s)

(* persistLocked: the file becomes a copy of memory, or stays as it was.   *)
PersistedMergingVariant ==
  disk' = [sessions |-> sessions', tokens |-> disk.tokens \union tokens']

Persisted    == disk' = [sessions |-> sessions', tokens |-> tokens']
PersistFails == disk' = disk

Answered(s, t) == acked' = [acked EXCEPT ![s] = @ \union {t}]

(* The caller is told of a move only when the file has it; memory keeps it *)
(* all the same.                                                           *)
SaveAndAnswerVariant(s, to) == (Persisted \/ PersistFails) /\ Answered(s, to)

SaveAndAnswer(s, to) ==
  \/ Persisted /\ Answered(s, to)
  \/ PersistFails /\ UNCHANGED acked

-----------------------------------------------------------------------------
Init ==
  /\ now      = 0
  /\ sessions = [s \in SessionIds |-> NoSession]
  /\ tokens   = {}
  /\ disk     = [sessions |-> sessions, tokens |-> tokens]
  /\ issued   = {}
  /\ acked    = [s \in SessionIds |-> {}]
  /\ redeems  = [s \in SessionIds |-> 0]
  /\ polled   = [s \in SessionIds |-> {}]

(* CreateInstallSession.  The chat may name an identity or leave it blank. *)
(* The bound leaves every deadline inside the run.                         *)
Draw(s, id) ==
  /\ s \notin issued
  /\ now + TTL < MaxTime
  /\ issued' = issued \union {s}
  /\ sessions' = [sessions EXCEPT ![s] = NewSession(id)]
  /\ tokens' = tokens \union {s}
  /\ UNCHANGED <<now, redeems, polled>>

CreateInstallSession(s, id) ==
  /\ Draw(s, id)
  /\ SaveAndAnswer(s, Requested)

(* An operation that is to change s is refused with ErrExpired when s is   *)
(* overdue: memory keeps the expiry, the file does not get it.             *)
TooLate(s) ==
  /\ Known(s)
  /\ Expire(s)
  /\ PersistFails
  /\ UNCHANGED <<now, issued, told>>

(* GetInstallSession expires s, drops the error of persistLocked, and      *)
(* reports what memory holds.                                              *)
GetInstallSession(s) ==
  /\ Known(s) /\ Present(s)
  /\ Expire(s) \/ (~Overdue(s) /\ UNCHANGED memory)
  /\ Persisted \/ PersistFails
  /\ polled' = [polled EXCEPT ![s] = @ \union ({sessions'[s].status} \intersect Terminal)]
  /\ UNCHANGED <<now, issued, acked, redeems>>

(* SetInstallIdentity refuses blanks before it looks anything up, and      *)
(* rebinds a session that is requested or approved.                        *)
SetInstallIdentity(s, id) ==
  \/ TooLate(s)
  \/ /\ Known(s) /\ ~Overdue(s)
     /\ sessions[s].status \in Live
     /\ sessions' = [sessions EXCEPT ![s].identity = id]
     /\ KeepTokens
     /\ Persisted \/ PersistFails
     /\ UNCHANGED <<now, issued, told>>

Moves(s, from, to) ==
  /\ Known(s) /\ ~Overdue(s)
  /\ sessions[s].status = from
  /\ SetStatus(s, to)
  /\ UNCHANGED <<now, issued, redeems, polled>>

SetInstallApproval(s, approved) ==
  \/ TooLate(s)
  \/ /\ approved
     /\ Moves(s, Requested, Approved) /\ KeepTokens
     /\ SaveAndAnswer(s, Approved)
  \/ /\ ~approved
     /\ Moves(s, Requested, Failed) /\ DropToken(s)
     /\ SaveAndAnswer(s, Failed)

SetInstallResultVariant(s, result) ==
  \/ TooLate(s)
  \/ /\ Moves(s, Approved, result) /\ DropToken(s)
     /\ SaveAndAnswer(s, result)

SetInstallResult(s, result) ==
  \/ TooLate(s)
  \/ /\ result = Installed => sessions[s].identity # NoIdentity
     /\ Moves(s, Approved, result) /\ DropToken(s)
     /\ SaveAndAnswer(s, result)

(* RedeemInstallToken deletes the token of an approved session; the status *)
(* stays approved.  A token that is redeemed too early stays valid.        *)
RedeemAnyVariant(s) ==
  /\ Known(s) /\ s \in tokens /\ ~Overdue(s)
  /\ DropToken(s)
  /\ UNCHANGED <<now, sessions, issued, acked, polled>>
  /\ \/ Persisted /\ redeems' = [redeems EXCEPT ![s] = @ + 1]
     \/ PersistFails /\ UNCHANGED redeems

RedeemInstallToken(s) ==
  \/ s \in tokens /\ TooLate(s)
  \/ /\ Known(s) /\ s \in tokens /\ ~Overdue(s)
     /\ sessions[s].status = Approved
     /\ DropToken(s)
     /\ UNCHANGED <<now, sessions, issued, acked, polled>>
     /\ \/ Persisted /\ redeems' = [redeems EXCEPT ![s] = @ + 1]
        \/ PersistFails /\ UNCHANGED redeems

(* Connection requests live in the same file: any operation on them that   *)
(* writes it writes the sessions as well.                                  *)
RequestOperationPersists ==
  /\ UNCHANGED <<now, sessions, tokens, issued, told>>
  /\ Persisted

(* The process stops at any point and load reads the file back.            *)
RestartVariant ==
  /\ sessions' = [s \in SessionIds |-> NoSession]
  /\ tokens' = {}
  /\ UNCHANGED <<now, disk, issued, told>>

Restart ==
  /\ sessions' = disk.sessions
  /\ tokens' = disk.tokens
  /\ UNCHANGED <<now, disk, issued, told>>

Tick ==
  /\ now < MaxTime
  /\ now' = now + 1
  /\ UNCHANGED <<sessions, tokens, disk, issued, told>>

Next ==
  \/ \E s \in SessionIds :
       \/ GetInstallSession(s)
       \/ RedeemInstallToken(s)
       \/ \E id \in Identities \union {NoIdentity} : CreateInstallSession(s, id)
       \/ \E id \in Identities : SetInstallIdentity(s, id)
       \/ \E approved \in BOOLEAN : SetInstallApproval(s, approved)
       \/ \E result \in Terminal : SetInstallResult(s, result)
  \/ RequestOperationPersists
  \/ Restart
  \/ Tick

Spec == Init /\ [][Next]_vars

-----------------------------------------------------------------------------
(* The one type invariant: the maps hold well-formed sessions.             *)
TypeOK ==
  /\ now \in 0 .. MaxTime
  /\ sessions \in [SessionIds -> Session]
  /\ tokens \in SUBSET SessionIds
  /\ disk \in [sessions : [SessionIds -> Session], tokens : SUBSET SessionIds]
  /\ issued \in SUBSET SessionIds
  /\ acked \in [SessionIds -> SUBSET Statuses]
  /\ redeems \in [SessionIds -> Nat]
  /\ polled \in [SessionIds -> SUBSET Terminal]

(* Memory is never behind the file, across failed writes and restarts, and *)
(* a token that is spent in the file is spent in memory.                   *)
MemoryAheadOfDisk ==
  \A s \in SessionIds :
    /\ Reached(disk.sessions[s].status, sessions[s].status)
    /\ disk.sessions[s].status # Absent =>
         /\ disk.sessions[s].expiresAt = sessions[s].expiresAt
         /\ s \in tokens => s \in disk.tokens

(* In memory and in the file alike, only a live session has a token: every *)
(* way for a session to end takes its token with it.                       *)
TokensOfLiveSessions ==
  /\ \A s \in tokens : sessions[s].status \in Live
  /\ \A s \in disk.tokens : disk.sessions[s].status \in Live

(* A token admits one installer, whatever writes fail and however often    *)
(* the process restarts between the redemption and a replay.               *)
RedeemedOnce == \A s \in SessionIds : redeems[s] <= 1

(* A redeemed session was approved for good: no restart takes it back to   *)
(* where it could be denied, though the approval itself may never have     *)
(* been answered (its write failed, the redemption's write carried it).    *)
RedeemedStaysApproved ==
  \A s \in SessionIds :
    redeems[s] > 0 => Reached(Approved, disk.sessions[s].status)

(* What a caller was told is in the file and no restart undoes it.         *)
AnswersAreDurable ==
  \A s \in SessionIds : \A t \in acked[s] : Reached(t, disk.sessions[s].status)

(* The chat reads the ids of an installed session and requests access with *)
(* them: they are both there, and from the answer on they do not change,   *)
(* across restarts too.                                                    *)
InstalledIdentityIsFixed ==
  [][\A s \in SessionIds :
       Installed \in acked'[s] =>
         /\ sessions'[s].identity # NoIdentity
         /\ disk'.sessions[s].identity = sessions'[s].identity
         /\ Installed \in acked[s] =>
              sessions'[s].identity = sessions[s].identity]_vars

(* Once its deadline has passed a session is not approved, redeemed or     *)
(* installed, not even when a restart brings back the status it had before *)
(* it was expired in memory.                                               *)
NoProgressAfterDeadline ==
  [][\A s \in SessionIds :
       Present(s) /\ now > sessions[s].expiresAt =>
         /\ sessions'[s].status \in {Approved, Installed} =>
              sessions'[s].status \in {sessions[s].status, disk.sessions[s].status}
         /\ acked'[s] = acked[s]
         /\ redeems'[s] = redeems[s]]_vars

(* A session that the chat polls ends, though its installer may be gone.   *)
EverySessionSettles ==
  \A s \in SessionIds :
    Known(s) /\ sessions[s].status \in Live ~> sessions[s].status \notin Live

(* docs/runbooks/openclaw-skill-contract.md calls installed a terminal     *)
(* success and tells the chat to stop polling at it.  GetInstallSession    *)
(* reports it before the file has it.                                      *)
PolledInstalledIsFinal ==
  \A s \in SessionIds : Installed \in polled[s] => sessions[s].status = Installed
=============================================================================
