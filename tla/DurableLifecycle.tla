-------------------------- MODULE DurableLifecycle --------------------------
(***************************************************************************)
(* What the control plane promises about a connection request, with no     *)
(* store, no file, no clock and no crash: every request has a status that  *)
(* only moves forward, and a call is answered with success only by a step  *)
(* that itself moves the request to the status the answer names.           *)
(* RequestStore implements this with `status' read from the state file.    *)
(***************************************************************************)
CONSTANT RequestIds

VARIABLES
  status,   \* status[r]: how far request r has come, for good
  acked     \* acked[r]: the statuses callers were told request r moved to

vars == <<status, acked>>

-----------------------------------------------------------------------------
(* The statuses of requests/model.go; Absent stands for an id that is not  *)
(* in the store.                                                           *)
Absent             == "absent"
Pending            == "pending_local_confirm"
DeniedLocal        == "denied_local"
Approved           == "approved"
Expired            == "expired"
VerificationFailed == "verification_failed"
Connected          == "connected"

Unfinished == {Pending, Approved}
Finished   == {DeniedLocal, Expired, VerificationFailed, Connected}
Statuses   == {Absent} \union Unfinished \union Finished

(* s precedes t: a request with status s may come to have status t.        *)
Precedes(s, t) ==
  \/ s = Absent   /\ t \in Unfinished \union Finished
  \/ s = Pending  /\ t \in {Approved} \union Finished
  \/ s = Approved /\ t \in {Expired, VerificationFailed, Connected}

(* Status t is s, or comes after it.                                       *)
Reached(s, t) == s = t \/ Precedes(s, t)

-----------------------------------------------------------------------------
Init ==
  /\ status = [r \in RequestIds |-> Absent]
  /\ acked  = [r \in RequestIds |-> {}]

(* One write of the state file may carry the progress of many requests.    *)
MovesForward ==
  /\ status' \in [RequestIds -> Statuses]
  /\ \A r \in RequestIds : Reached(status[r], status'[r])

Progress == MovesForward /\ UNCHANGED acked

(* A caller is answered: the answer names a move made by this very step.   *)
(* No call is answered by telling the caller it expired the request.       *)
Answer(r) ==
  /\ MovesForward
  /\ Precedes(status[r], status'[r])
  /\ status'[r] # Expired
  /\ acked' = [acked EXCEPT ![r] = @ \union {status'[r]}]

Next == Progress \/ \E r \in RequestIds : Answer(r)

Spec == Init /\ [][Next]_vars

-----------------------------------------------------------------------------
(* What was answered was reached, and is never taken back.                 *)
AnswersHold ==
  \A r \in RequestIds : \A s \in acked[r] : Reached(s, status[r])
=============================================================================
