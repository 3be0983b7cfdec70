------------------------------- MODULE KeyFile -------------------------------
(***************************************************************************)
(* sshkeys.Manager.Install, system call by system call: the temporary file *)
(* is opened and truncated, written, and renamed over authorized_keys,     *)
(* which sshd reads whenever somebody logs in.  A call may fail anywhere,  *)
(* the disk may fill up in the middle of the key, and the agent may be     *)
(* killed between any two calls; the service manager starts it again and   *)
(* the leftover temporary file is still there.                             *)
(*                                                                         *)
(* Files are inodes: a process that has opened one keeps it when its name  *)
(* goes to another.  A key is written, and read, in Chunks pieces.  That a *)
(* rename outlives a power failure is left to the file system.             *)
(***************************************************************************)
EXTENDS Naturals

CONSTANTS
  Agents, Users,
  User,      \* User[a]: LOCAL_USERNAME of agent a
  Keys,
  Blank,     \* a key of which TrimSpace leaves nothing
  Inodes,
  NoFile,
  Hole,      \* a piece of a file nobody has written
  Chunks     \* pieces of a key

ASSUME KeyFileAssumption ==
  /\ User \in [Agents -> Users]
  /\ Blank \notin Keys /\ NoFile \notin Inodes /\ Hole \notin Keys
  /\ Chunks \in Nat \ {0}
  /\ \A f \in [1..Chunks -> Keys] : f # NoFile

VARIABLES
  tmp,      \* tmp[u]: the inode named authorized_keys.tmp in the directory of u
  final,    \* final[u]: the inode named authorized_keys there
  content,  \* content[f]: the pieces of inode f
  step,     \* step[a]: the call agent a makes next
  fd,       \* fd[a]: the inode it has opened
  pos,      \* pos[a]: how many pieces it has written
  want,     \* want[a]: the key it was last asked to install
  answer,   \* answer[a]: what Install returned
  reads,    \* reads[u]: the inode sshd has opened to log u in
  got,      \* got[u]: how many pieces it has read
  seen      \* seen[u]: what was in them

names  == <<tmp, final>>
agent  == <<step, fd, pos, want, answer>>
reader == <<reads, got, seen>>
vars   == <<names, content, agent, reader>>

Text(k) == [n \in 1..Chunks |-> k]
Empty   == [n \in 1..Chunks |-> Hole]

(* An inode that no name and no process holds can be used again.           *)
Free(f) ==
  /\ \A u \in Users : f \notin {tmp[u], final[u], reads[u]}
  /\ \A a \in Agents : f # fd[a]

-----------------------------------------------------------------------------
(* The key of an earlier installation may be there.                        *)
Init ==
  /\ tmp     = [u \in Users |-> NoFile]
  /\ final   \in [Users -> Inodes \union {NoFile}]
  /\ \A u, v \in Users : final[u] = final[v] => u = v \/ final[u] = NoFile
  /\ content \in [Inodes -> {Empty} \union {Text(k) : k \in Keys}]
  /\ \A f \in Inodes : content[f] = Empty <=> \A u \in Users : final[u] # f
  /\ step    = [a \in Agents |-> "idle"]
  /\ fd      = [a \in Agents |-> NoFile]
  /\ pos     = [a \in Agents |-> 0]
  /\ want    = [a \in Agents |-> Blank]
  /\ answer  = [a \in Agents |-> "none"]
  /\ reads   = [u \in Users |-> NoFile]
  /\ got     = [u \in Users |-> 0]
  /\ seen    = [u \in Users |-> {}]

Returns(a, result) ==
  /\ step'   = [step EXCEPT ![a] = "idle"]
  /\ fd'     = [fd EXCEPT ![a] = NoFile]
  /\ pos'    = [pos EXCEPT ![a] = 0]
  /\ answer' = [answer EXCEPT ![a] = result]

(* Install is called with the public key of a bundle.                      *)
Begin(a, k) ==
  /\ step[a] = "idle"
  /\ want'   = [want EXCEPT ![a] = k]
  /\ answer' = [answer EXCEPT ![a] = "none"]
  /\ step'   = [step EXCEPT ![a] = "mkdir"]
  /\ UNCHANGED <<names, content, fd, pos, reader>>

(* The definitions named ...Variant are slips kept beside the definition   *)
(* they replace; the runs use none of them.                                *)
MkdirAllUncheckedVariant(a) ==
  /\ step[a] = "mkdir"
  /\ step' = [step EXCEPT ![a] = "open"]
  /\ UNCHANGED <<names, content, fd, pos, want, answer, reader>>

(* A blank key goes no further than this.                                  *)
MkdirAll(a) ==
  /\ step[a] = "mkdir"
  /\ want[a] # Blank
  /\ step' = [step EXCEPT ![a] = "open"]
  /\ UNCHANGED <<names, content, fd, pos, want, answer, reader>>

(* os.WriteFile: O_CREATE and O_TRUNC, the pieces, close.                  *)
OpenFinalVariant(a) ==
  /\ step[a] = "open"
  /\ final[User[a]] # NoFile
  /\ tmp'     = [tmp EXCEPT ![User[a]] = final[User[a]]]
  /\ content' = [content EXCEPT ![final[User[a]]] = Empty]
  /\ fd'      = [fd EXCEPT ![a] = final[User[a]]]
  /\ step'    = [step EXCEPT ![a] = "write"]
  /\ UNCHANGED <<final, pos, want, answer, reader>>

OpenTmp(a) ==
  /\ step[a] = "open"
  /\ \E f \in Inodes :
       /\ IF tmp[User[a]] = NoFile THEN Free(f) ELSE f = tmp[User[a]]
       /\ tmp'     = [tmp EXCEPT ![User[a]] = f]
       /\ content' = [content EXCEPT ![f] = Empty]
       /\ fd'      = [fd EXCEPT ![a] = f]
  /\ step' = [step EXCEPT ![a] = "write"]
  /\ UNCHANGED <<final, pos, want, answer, reader>>

Write(a) ==
  /\ step[a] = "write"
  /\ pos[a] < Chunks
  /\ content' = [content EXCEPT ![fd[a]][pos[a] + 1] = want[a]]
  /\ pos'     = [pos EXCEPT ![a] = @ + 1]
  /\ UNCHANGED <<names, step, fd, want, answer, reader>>

CloseUncheckedVariant(a) ==
  /\ step[a] = "write"
  /\ step' = [step EXCEPT ![a] = "rename"]
  /\ fd'   = [fd EXCEPT ![a] = NoFile]
  /\ pos'  = [pos EXCEPT ![a] = 0]
  /\ UNCHANGED <<names, content, want, answer, reader>>

Close(a) ==
  /\ step[a] = "write"
  /\ pos[a] = Chunks
  /\ step' = [step EXCEPT ![a] = "rename"]
  /\ fd'   = [fd EXCEPT ![a] = NoFile]
  /\ pos'  = [pos EXCEPT ![a] = 0]
  /\ UNCHANGED <<names, content, want, answer, reader>>

(* os.Rename, and with it Install, returns.                                *)
Rename(a) ==
  /\ step[a] = "rename"
  /\ tmp[User[a]] # NoFile
  /\ final' = [final EXCEPT ![User[a]] = tmp[User[a]]]
  /\ tmp'   = [tmp EXCEPT ![User[a]] = NoFile]
  /\ Returns(a, "installed")
  /\ UNCHANGED <<content, want, reader>>

(* Any call fails, the temporary file stays as it is.                      *)
Fails(a) ==
  /\ step[a] # "idle"
  /\ Returns(a, "error")
  /\ UNCHANGED <<names, content, want, reader>>

(* The agent is killed and started again.                                  *)
Killed(a) ==
  /\ Returns(a, "none")
  /\ want' = [want EXCEPT ![a] = Blank]
  /\ UNCHANGED <<names, content, reader>>

-----------------------------------------------------------------------------
(* sshd                                                                    *)
OpenKeys(u) ==
  /\ reads[u] = NoFile /\ final[u] # NoFile
  /\ reads' = [reads EXCEPT ![u] = final[u]]
  /\ UNCHANGED <<names, content, agent, got, seen>>

ReadPiece(u) ==
  /\ reads[u] # NoFile /\ got[u] < Chunks
  /\ got'  = [got EXCEPT ![u] = @ + 1]
  /\ seen' = [seen EXCEPT ![u] = @ \union {content[reads[u]][got[u] + 1]}]
  /\ UNCHANGED <<names, content, agent, reads>>

CloseKeys(u) ==
  /\ reads[u] # NoFile /\ got[u] = Chunks
  /\ reads' = [reads EXCEPT ![u] = NoFile]
  /\ got'   = [got EXCEPT ![u] = 0]
  /\ seen'  = [seen EXCEPT ![u] = {}]
  /\ UNCHANGED <<names, content, agent>>

Install(a) ==
  \/ \E k \in Keys \union {Blank} : Begin(a, k)
  \/ MkdirAll(a) \/ OpenTmp(a) \/ Write(a) \/ Close(a) \/ Rename(a)
  \/ Fails(a) \/ Killed(a)

LogsIn(u) == OpenKeys(u) \/ ReadPiece(u) \/ CloseKeys(u)

Next == (\E a \in Agents : Install(a)) \/ (\E u \in Users : LogsIn(u))

Spec == Init /\ [][Next]_vars

-----------------------------------------------------------------------------
(* What the installer sets up: every user has an agent of their own.       *)
OneAgentEach == \A a, b \in Agents : User[a] = User[b] => a = b

(* Every variable has its type; a call that has its file open was made     *)
(* with a key.                                                             *)
TypeOK ==
  /\ tmp \in [Users -> Inodes \union {NoFile}]
  /\ final \in [Users -> Inodes \union {NoFile}]
  /\ content \in [Inodes -> [1..Chunks -> Keys \union {Hole}]]
  /\ step \in [Agents -> {"idle", "mkdir", "open", "write", "rename"}]
  /\ fd \in [Agents -> Inodes \union {NoFile}]
  /\ pos \in [Agents -> 0..Chunks]
  /\ want \in [Agents -> Keys \union {Blank}]
  /\ answer \in [Agents -> {"none", "installed", "error"}]
  /\ reads \in [Users -> Inodes \union {NoFile}]
  /\ got \in [Users -> 0..Chunks]
  /\ seen \in [Users -> SUBSET (Keys \union {Hole})]
  /\ \A a \in Agents : step[a] \in {"open", "write", "rename"} => want[a] \in Keys

(* Updates use atomic rename() to prevent partial reads: the pieces that   *)
(* sshd reads of authorized_keys, from opening it to closing it, are all   *)
(* of one key, whatever is installed, fails or is killed meanwhile.        *)
NoPartialReads ==
  \A u \in Users : reads[u] # NoFile => \E k \in Keys : seen[u] \subseteq {k}

(* Install implements the atomic replacement of the file: it is always a   *)
(* whole key, it becomes the key of the call in the step that answers      *)
(* success, and failures, crashes and leftover files do not show.          *)
Managed == INSTANCE ManagedKey
  WITH file <- [u \in Users |-> IF final[u] = NoFile THEN NoFile ELSE content[final[u]]]

ReplacedAtomically == Managed!Spec
=============================================================================
