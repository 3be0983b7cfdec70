---------------------------- MODULE RequestStore ----------------------------
(***************************************************************************)
(* The control plane's store of connection requests: requests.FileStore    *)
(* around requests.InMemoryStore.  Every operation holds the store's mutex *)
(* from its first read to its last write, so an operation is one step.     *)
(* The state file is replaced as a whole, by a rename, and a write that    *)
(* fails leaves the old file and is not rolled back in memory.             *)
(*                                                                         *)
(* The fields of a request that never change after Create (user, device,   *)
(* connector, channel, nonce) and the reason code are left out.            *)
(***************************************************************************)
EXTENDS Naturals

CONSTANTS
  RequestIds,   \* the ids randomID may draw; it never draws one twice
  TTL,          \* lifetime of a request
  MaxTime       \* bound: the clock stops here

ASSUME StoreAssumption == TTL \in Nat \ {0} /\ MaxTime \in Nat

VARIABLES
  now,      \* the wall clock; it is assumed never to be set back
  items,    \* InMemoryStore.items; an id that is not a key is NoRequest
  disk,     \* the items in the state file
  issued,   \* the ids randomID has drawn
  acked     \* acked[r]: the statuses callers were told, with a 2xx answer, they
            \* moved request r to (history)

vars == <<now, items, disk, issued, acked>>

-----------------------------------------------------------------------------
Durable == INSTANCE DurableLifecycle
             WITH status <- [r \in RequestIds |-> disk[r].status]

Absent             == "absent"
Pending            == "pending_local_confirm"
DeniedLocal        == "denied_local"
Approved           == "approved"
Expired            == "expired"
VerificationFailed == "verification_failed"
Connected          == "connected"

Unfinished == {Pending, Approved}
Finished   == {DeniedLocal, Expired, VerificationFailed, Connected}
Statuses   == {Absent} \union Unfinished \union Finished
Verdicts   == {Approved, DeniedLocal}
Results    == {Connected, VerificationFailed}

Request   == [status : Statuses, expiresAt : Nat]
NoRequest == [status |-> Absent, expiresAt |-> 0]

NewRequestBlank == [status |-> "", expiresAt |-> now + TTL]
NewRequest      == [status |-> Pending, expiresAt |-> now + TTL]

Present(r) == items[r].status # Absent

-----------------------------------------------------------------------------
(* Variants of the definitions below, each a slip that would be easy to    *)
(* make in the code, are kept beside the definition they replace; the runs *)
(* use none of them.                                                       *)

ExpireAtDeadline(req) ==
  IF now >= req.expiresAt /\ req.status \in Unfinished
  THEN [req EXCEPT !.status = Expired]
  ELSE req

ExpirePendingOnly(req) ==
  IF now > req.expiresAt /\ req.status = Pending
  THEN [req EXCEPT !.status = Expired]
  ELSE req

(* A request past its deadline is expired by whoever looks at it next.     *)
expireIfNeeded(req) ==
  IF now > req.expiresAt /\ req.status \in Unfinished
  THEN [req EXCEPT !.status = Expired]
  ELSE req

SetStatus(r, s) == items' = [items EXCEPT ![r].status = s]

(* Looking r up stores what expireIfNeeded made of it.                     *)
ExpireItem(r) == items' = [items EXCEPT ![r] = expireIfNeeded(@)]

(* persistLocked: the file becomes a copy of memory, or stays as it was.   *)
Persisted   == disk' = items'
PersistTruncates == disk' = [r \in RequestIds |-> NoRequest]
PersistFails     == disk' = disk

(* The caller is told that r moved to s.                                   *)
Answered(r, s) == acked' = [acked EXCEPT ![r] = @ \union {s}]

-----------------------------------------------------------------------------
Init ==
  /\ now    = 0
  /\ items  = [r \in RequestIds |-> NoRequest]
  /\ disk   = items
  /\ issued = {}
  /\ acked  = [r \in RequestIds |-> {}]

(* Create.  If the file cannot be written the caller gets an error, but    *)
(* the request stays in memory, where agents find it.  The bound leaves    *)
(* every deadline inside the run.                                          *)
Draw(r) ==
  /\ r \notin issued
  /\ now + TTL < MaxTime
  /\ issued' = issued \union {r}
  /\ items' = [items EXCEPT ![r] = NewRequest]
  /\ UNCHANGED now

CreateSaved(r)   == Draw(r) /\ Persisted /\ Answered(r, Pending)
CreateUnsaved(r) == Draw(r) /\ PersistFails /\ UNCHANGED acked

Create(r) == CreateSaved(r) \/ CreateUnsaved(r)

(* Get expires the request it returns and drops the error of persistLocked,*)
(* so its caller sees what is in memory whether or not the file has it.    *)
Get(r) ==
  /\ Present(r)
  /\ ExpireItem(r)
  /\ Persisted \/ PersistFails
  /\ UNCHANGED <<now, issued, acked>>

(* ListPendingForDevice expires every request, whatever its device, and    *)
(* drops the error of persistLocked too.                                   *)
ExpireAll == items' = [r \in RequestIds |-> expireIfNeeded(items[r])]

ListWithoutSaving ==
  /\ ExpireAll
  /\ PersistFails
  /\ UNCHANGED <<now, issued, acked>>

ListSaved ==
  /\ ExpireAll
  /\ Persisted
  /\ UNCHANGED <<now, issued, acked>>

ListUnsaved ==
  /\ ExpireAll
  /\ PersistFails
  /\ UNCHANGED <<now, issued, acked>>

ListPendingForDevice == ListSaved \/ ListUnsaved

(* SetLocalDecision and SetResult look the request up, refuse it when it   *)
(* has expired (the memory keeps the expiry, the file does not get it) or  *)
(* when it is not in the status the call needs (nothing changes then), and *)
(* write.  An error of persistLocked is returned but memory keeps the move.*)
MoveAfterDeadline(r, from, to) ==
  /\ items[r].status = from
  /\ SetStatus(r, to)
  /\ UNCHANGED <<now, issued>>

MoveUnguarded(r, from, to) ==
  /\ Present(r)
  /\ expireIfNeeded(items[r]).status # Expired
  /\ SetStatus(r, to)
  /\ UNCHANGED <<now, issued>>

Move(r, from, to) ==
  /\ expireIfNeeded(items[r]).status = from
  /\ SetStatus(r, to)
  /\ UNCHANGED <<now, issued>>

ErrorIgnored(r, from, to) ==
  Move(r, from, to) /\ (Persisted \/ PersistFails) /\ Answered(r, to)

MoveSaved(r, from, to) ==
  Move(r, from, to) /\ Persisted /\ Answered(r, to)

MoveUnsaved(r, from, to) ==
  Move(r, from, to) /\ PersistFails /\ UNCHANGED acked

TooLate(r) ==
  /\ expireIfNeeded(items[r]).status = Expired
  /\ ExpireItem(r)
  /\ UNCHANGED <<now, disk, issued, acked>>

SetLocalDecision(r, verdict) ==
  \/ MoveSaved(r, Pending, verdict)
  \/ MoveUnsaved(r, Pending, verdict)
  \/ TooLate(r)

SetResult(r, result) ==
  \/ MoveSaved(r, Approved, result)
  \/ MoveUnsaved(r, Approved, result)
  \/ TooLate(r)

(* Install sessions live in the same file: any operation on them that      *)
(* writes it writes the requests as well.                                  *)
InstallOperationPersists ==
  /\ UNCHANGED <<now, items, issued, acked>>
  /\ Persisted

(* The process stops at any point and load reads the file back.            *)
LoadForgotten ==
  /\ items' = [r \in RequestIds |-> NoRequest]
  /\ UNCHANGED <<now, disk, issued, acked>>

Restart ==
  /\ items' = disk
  /\ UNCHANGED <<now, disk, issued, acked>>

Tick ==
  /\ now < MaxTime
  /\ now' = now + 1
  /\ UNCHANGED <<items, disk, issued, acked>>

Next ==
  \/ \E r \in RequestIds : Create(r) \/ Get(r)
  \/ ListPendingForDevice
  \/ \E r \in RequestIds, verdict \in Verdicts : SetLocalDecision(r, verdict)
  \/ \E r \in RequestIds, result \in Results : SetResult(r, result)
  \/ InstallOperationPersists
  \/ Restart
  \/ Tick

Spec == Init /\ [][Next]_vars

(* Agents poll every five seconds, and a poll lists.                       *)
PolledSpec == Spec /\ WF_vars(Tick) /\ WF_vars(ListPendingForDevice)

-----------------------------------------------------------------------------
(* The one type invariant: maps of requests/model.go hold well-formed      *)
(* requests, and only ids that were drawn are in them.                     *)
TypeOK ==
  /\ now \in 0 .. MaxTime
  /\ items \in [RequestIds -> Request]
  /\ disk \in [RequestIds -> Request]
  /\ issued \in SUBSET RequestIds
  /\ acked \in [RequestIds -> SUBSET Statuses]
  /\ \A r \in RequestIds : Present(r) => r \in issued

(* Memory is never behind the file, across failed writes and restarts: a   *)
(* request in the file is in memory with the same deadline, at that status *)
(* or a later one.  persistLocked copies memory out, load copies it in.    *)
MemoryAheadOfDisk ==
  \A r \in RequestIds :
    /\ Durable!Reached(disk[r].status, items[r].status)
    /\ disk[r].status # Absent => disk[r].expiresAt = items[r].expiresAt

(* What a caller was told is in the file and no restart undoes it:         *)
(* SetLocalDecision and SetResult answer only after persistLocked.         *)
AnswersAreDurable ==
  \A r \in RequestIds : \A s \in acked[r] : Durable!Reached(s, disk[r].status)

(* A request is decided once: whatever writes fail and however often the   *)
(* process restarts, it is never answered both approved and denied.        *)
OneDecision ==
  \A r \in RequestIds : ~(Verdicts \subseteq acked[r])

(* A request is expired, in memory or in the file, only after its deadline *)
(* (expireIfNeeded compares with After: the deadline itself still counts). *)
ExpiredOnlyAfterDeadline ==
  \A r \in RequestIds, store \in {items, disk} :
    store[r].status = Expired => now > store[r].expiresAt

(* Once its deadline has passed a request gets no decision and no result,  *)
(* not even when a restart brings back the status it had before it was     *)
(* expired in memory.                                                      *)
NoProgressAfterDeadline ==
  [][\A r \in RequestIds :
       Present(r) /\ now > items[r].expiresAt =>
         /\ items'[r].status \in Verdicts \union Results =>
              items'[r].status \in {items[r].status, disk[r].status}
         /\ acked'[r] = acked[r]]_vars

(* Every status the file shows was reached by forward moves, and every     *)
(* answer was a move made durable by the step that gave it.                *)
ImplementsDurableLifecycle == Durable!Spec

(* Nothing stays pending or approved for ever, though the agent that was   *)
(* to decide it or report on it may be gone: polls expire all requests.    *)
EveryRequestSettles ==
  \A r \in RequestIds :
    items[r].status \in Unfinished ~> items[r].status \notin Unfinished

(* The same of the file, where no restart brings the old status back, on a *)
(* disk that does not refuse the writes of polls for ever.                 *)
EveryRequestSettlesOnDisk ==
  WF_vars(ListSaved) =>
    \A r \in RequestIds :
      disk[r].status \in Unfinished ~> disk[r].status \in Finished
=============================================================================
