----------------------------- MODULE ManagedKey -----------------------------
(***************************************************************************)
(* What installing a key promises, with no temporary file, no chunks and   *)
(* no readers: the file of a user holds one whole key or is not there, and *)
(* one step puts another whole key in its place and answers the caller.    *)
(* Whatever else happens, to whichever user, leaves the file alone.        *)
(* KeyFile implements this with `file' read from authorized_keys.          *)
(***************************************************************************)
CONSTANTS
  Agents,   \* the processes that install keys
  Users,
  User,     \* User[a]: the user agent a installs keys for
  Keys,
  Blank,    \* what is left of a blank key
  NoFile,
  Text(_)   \* Text(k): the contents of a file that holds k

VARIABLES
  file,     \* file[u]: the contents of the file of u
  want,     \* want[a]: the key agent a was last asked to install
  answer    \* answer[a]: what Install said of it

vars == <<file, want, answer>>

-----------------------------------------------------------------------------
Init ==
  /\ file   \in [Users -> {NoFile} \union {Text(k) : k \in Keys}]
  /\ want   = [a \in Agents |-> Blank]
  /\ answer = [a \in Agents |-> "none"]

Ask(a, k) ==
  /\ want'   = [want EXCEPT ![a] = k]
  /\ answer' = [answer EXCEPT ![a] = "none"]
  /\ UNCHANGED file

Install(a) ==
  /\ want[a] # Blank
  /\ answer[a] = "none"
  /\ file'   = [file EXCEPT ![User[a]] = Text(want[a])]
  /\ answer' = [answer EXCEPT ![a] = "installed"]
  /\ UNCHANGED want

Fail(a) ==
  /\ answer[a] = "none"
  /\ answer' = [answer EXCEPT ![a] = "error"]
  /\ UNCHANGED <<file, want>>

Next ==
  \E a \in Agents :
    \/ \E k \in Keys \union {Blank} : Ask(a, k)
    \/ Install(a)
    \/ Fail(a)

Spec == Init /\ [][Next]_vars
=============================================================================
