--------------------------- MODULE AccessContract ---------------------------
(***************************************************************************)
(* What the access flow as a whole promises to the user of a device, with  *)
(* no messages, no polls and no crashes: DurableLifecycle, and with it who *)
(* confirmed a request and who got its key.  A key is granted once for a   *)
(* request, to an agent whose user confirmed it, after an approval that    *)
(* was answered; and a status is written only when it is true: approved    *)
(* after a confirmation, connected after the key, denied or failed without *)
(* one, for good.  AccessFlow implements this.                             *)
(***************************************************************************)
EXTENDS DurableLifecycle

CONSTANT Agents

VARIABLES
  confirmed,   \* <<a, r>>: the user of agent a approved request r
  keys         \* <<a, r>>: agent a has installed the key of request r

contractVars == <<status, acked, confirmed, keys>>

Confirmed(r) == \E a \in Agents : <<a, r>> \in confirmed
Granted(r)   == \E a \in Agents : <<a, r>> \in keys

-----------------------------------------------------------------------------
ContractInit ==
  /\ Init
  /\ confirmed = {}
  /\ keys = {}

Confirm(a, r) ==
  /\ confirmed' = confirmed \union {<<a, r>>}
  /\ UNCHANGED <<status, acked, keys>>

(* The request may expire while its key is on the way.                     *)
Grant(a, r) ==
  /\ <<a, r>> \in confirmed
  /\ Approved \in acked[r]
  /\ status[r] \in {Approved, Expired}
  /\ ~Granted(r)
  /\ keys' = keys \union {<<a, r>>}
  /\ UNCHANGED <<status, acked, confirmed>>

(* Status s may be written for request r.                                  *)
IsTrueOf(r, s) ==
  /\ s \in {Approved, VerificationFailed, Connected} => Confirmed(r)
  /\ s = Connected => Granted(r)
  /\ s \in {DeniedLocal, VerificationFailed} => ~Granted(r)

(* Requests progress as in DurableLifecycle, to statuses that are true.    *)
Record ==
  /\ Next
  /\ \A r \in RequestIds : status'[r] # status[r] => IsTrueOf(r, status'[r])
  /\ UNCHANGED <<confirmed, keys>>

ContractNext ==
  \/ \E a \in Agents, r \in RequestIds : Confirm(a, r) \/ Grant(a, r)
  \/ Record

ContractSpec == ContractInit /\ [][ContractNext]_contractVars
=============================================================================
