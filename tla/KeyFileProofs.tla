---------------------------- MODULE KeyFileProofs ----------------------------
(***************************************************************************)
(* Install replaces authorized_keys atomically, for any number of users    *)
(* with an agent each, keys and pieces.                                    *)
(***************************************************************************)
EXTENDS KeyFile, TLAPS

Named(f) == \E u \in Users : f \in {final[u], reads[u]}

(* The temporary file of a user is theirs alone, and nobody can read it.   *)
TmpIsPrivate ==
  \A u \in Users : tmp[u] # NoFile =>
    /\ \A v \in Users : tmp[u] = tmp[v] => u = v
    /\ ~Named(tmp[u])

(* An agent writes the temporary file from its start, and renames it only  *)
(* when it is complete.                                                    *)
WrittenInOrder ==
  \A a \in Agents :
    /\ step[a] # "write" => pos[a] = 0
    /\ step[a] # "idle" => answer[a] = "none"
    /\ step[a] = "write" =>
         /\ fd[a] \in Inodes /\ tmp[User[a]] = fd[a]
         /\ \A n \in 1..pos[a] : content[fd[a]][n] = want[a]
    /\ step[a] = "rename" =>
         tmp[User[a]] \in Inodes /\ content[tmp[User[a]]] = Text(want[a])

Whole(f) == \E k \in Keys : content[f] = Text(k)

FinalIsWhole == \A u \in Users : final[u] # NoFile => Whole(final[u])

ReadsOneKey ==
  \A u \in Users :
    IF reads[u] = NoFile THEN got[u] = 0 /\ seen[u] = {}
    ELSE \E k \in Keys : content[reads[u]] = Text(k) /\ seen[u] \subseteq {k}

KeyFileInv == TypeOK /\ TmpIsPrivate /\ WrittenInOrder /\ FinalIsWhole /\ ReadsOneKey

-----------------------------------------------------------------------------
LEMMA TextType ==
  /\ Empty \in [1..Chunks -> Keys \union {Hole}]
  /\ \A k \in Keys : Text(k) \in [1..Chunks -> Keys \union {Hole}]
  BY DEF Empty, Text

(* Only the temporary file of the writer's own user changes its contents.  *)
LEMMA OthersKeep ==
  ASSUME KeyFileInv, NEW a \in Agents, OpenTmp(a) \/ Write(a), NEW f \in Inodes,
         Named(f) \/ \E u \in Users : u # User[a] /\ f = tmp[u]
  PROVE  content'[f] = content[f]
  <1> USE KeyFileAssumption DEF KeyFileInv, TypeOK
  <1>1. User[a] \in Users
    OBVIOUS
  <1>2. CASE OpenTmp(a)
    <2>1. PICK g \in Inodes : /\ IF tmp[User[a]] = NoFile THEN Free(g) ELSE g = tmp[User[a]]
                              /\ content' = [content EXCEPT ![g] = Empty]
      BY <1>2 DEF OpenTmp
    <2>2. g # f
      BY <1>1, <2>1 DEF Free, Named, TmpIsPrivate
    <2> QED
      BY <2>1, <2>2
  <1>3. CASE Write(a)
    <2>1. fd[a] = tmp[User[a]] /\ fd[a] \in Inodes
      BY <1>3 DEF Write, WrittenInOrder
    <2>2. fd[a] # f
      BY <1>1, <2>1 DEF Named, TmpIsPrivate
    <2> QED
      BY <1>3, <2>2 DEF Write
  <1> QED
    BY <1>2, <1>3

LEMMA TypesStep ==
  ASSUME KeyFileInv, [Next]_vars
  PROVE  TypeOK'
  <1> USE KeyFileAssumption DEF KeyFileInv, TypeOK, names, agent, reader
  <1>1. ASSUME NEW a \in Agents, NEW k \in Keys \union {Blank}, Begin(a, k) PROVE TypeOK'
    BY <1>1 DEF Begin
  <1>2. ASSUME NEW a \in Agents, MkdirAll(a) PROVE TypeOK'
    BY <1>2 DEF MkdirAll
  <1>3. ASSUME NEW a \in Agents, OpenTmp(a) PROVE TypeOK'
    <2>1. PICK f \in Inodes : /\ tmp'     = [tmp EXCEPT ![User[a]] = f]
                              /\ content' = [content EXCEPT ![f] = Empty]
                              /\ fd'      = [fd EXCEPT ![a] = f]
      BY <1>3 DEF OpenTmp
    <2>2. content' \in [Inodes -> [1..Chunks -> Keys \union {Hole}]]
      BY <2>1, TextType
    <2> QED
      BY <1>3, <2>1, <2>2 DEF OpenTmp
  <1>4. ASSUME NEW a \in Agents, Write(a) PROVE TypeOK'
    <2>1. fd[a] \in Inodes /\ want[a] \in Keys /\ pos[a] + 1 \in 1..Chunks
      BY <1>4 DEF Write, WrittenInOrder
    <2>2. content' \in [Inodes -> [1..Chunks -> Keys \union {Hole}]]
      BY <1>4, <2>1 DEF Write
    <2>3. pos' \in [Agents -> 0..Chunks]
      BY <1>4, <2>1 DEF Write
    <2> QED
      BY <1>4, <2>2, <2>3 DEF Write
  <1>5. ASSUME NEW a \in Agents, Close(a) PROVE TypeOK'
    BY <1>5 DEF Close
  <1> DEFINE Typed ==
        /\ step' \in [Agents -> {"idle", "mkdir", "open", "write", "rename"}]
        /\ fd' \in [Agents -> Inodes \union {NoFile}]
        /\ pos' \in [Agents -> 0..Chunks]
        /\ answer' \in [Agents -> {"none", "installed", "error"}]
  <1>r. ASSUME NEW a \in Agents, NEW result \in {"none", "installed", "error"},
               Returns(a, result)
        PROVE  Typed /\ step'[a] = "idle" /\ \A b \in Agents \ {a} : step'[b] = step[b]
    BY <1>r DEF Returns
  <1> HIDE DEF Typed
  <1>6. ASSUME NEW a \in Agents, Rename(a) PROVE TypeOK'
    <2>1. Typed /\ step'[a] = "idle" /\ \A b \in Agents \ {a} : step'[b] = step[b]
      BY <1>6, <1>r DEF Rename
    <2> QED
      BY <1>6, <2>1 DEF Rename, Typed
  <1>7. ASSUME NEW a \in Agents, Fails(a) \/ Killed(a) PROVE TypeOK'
    <2>1. Typed /\ step'[a] = "idle" /\ \A b \in Agents \ {a} : step'[b] = step[b]
      BY <1>7, <1>r DEF Fails, Killed
    <2> QED
      BY <1>7, <2>1 DEF Fails, Killed, Typed
  <1>8. ASSUME NEW u \in Users, OpenKeys(u) \/ CloseKeys(u) PROVE TypeOK'
    <2>1. /\ reads' \in [Users -> Inodes \union {NoFile}]
          /\ got' \in [Users -> 0..Chunks]
          /\ seen' \in [Users -> SUBSET (Keys \union {Hole})]
      <3>1. CASE OpenKeys(u)
        BY <3>1 DEF OpenKeys
      <3>2. CASE CloseKeys(u)
        <4>1. {} \in SUBSET (Keys \union {Hole}) /\ 0 \in 0..Chunks
          OBVIOUS
        <4> QED
          BY <3>2, <4>1 DEF CloseKeys
      <3> QED
        BY <1>8, <3>1, <3>2
    <2>2. UNCHANGED <<names, content, agent>>
      BY <1>8 DEF OpenKeys, CloseKeys
    <2> QED
      BY <2>1, <2>2
  <1>9. ASSUME NEW u \in Users, ReadPiece(u) PROVE TypeOK'
    <2>1. reads[u] \in Inodes /\ got[u] + 1 \in 1..Chunks
      BY <1>9 DEF ReadPiece
    <2>2. content[reads[u]][got[u] + 1] \in Keys \union {Hole}
      BY <2>1
    <2> QED
      BY <1>9, <2>1, <2>2 DEF ReadPiece
  <1>10. ASSUME UNCHANGED vars PROVE TypeOK'
    BY <1>10 DEF vars
  <1> QED
    BY <1>1, <1>2, <1>3, <1>4, <1>5, <1>6, <1>7, <1>8, <1>9, <1>10 DEF Next, Install, LogsIn

-----------------------------------------------------------------------------
(* What a step of an agent does to the names, its file and its answer.     *)
LEMMA PrivateStep ==
  ASSUME KeyFileInv, TypeOK', [Next]_vars
  PROVE  TmpIsPrivate'
  <1> USE KeyFileAssumption DEF KeyFileInv, TypeOK, names, agent, reader
  <1>1. ASSUME UNCHANGED <<tmp, final>>, \A u \in Users : reads'[u] \in {reads[u], final[u], NoFile}
        PROVE  TmpIsPrivate'
    BY <1>1 DEF TmpIsPrivate, Named
  <1>2. ASSUME NEW a \in Agents, OpenTmp(a) PROVE TmpIsPrivate'
    <2>1. PICK f \in Inodes : /\ IF tmp[User[a]] = NoFile THEN Free(f) ELSE f = tmp[User[a]]
                              /\ tmp' = [tmp EXCEPT ![User[a]] = f]
      BY <1>2 DEF OpenTmp
    <2>2. UNCHANGED <<final, reads>>
      BY <1>2 DEF OpenTmp
    <2>3. ~Named(f) /\ \A v \in Users : v # User[a] => tmp[v] # f
      BY <2>1 DEF Free, Named, TmpIsPrivate
    <2> QED
      BY <2>1, <2>2, <2>3 DEF TmpIsPrivate, Named
  <1>3. ASSUME NEW a \in Agents, Rename(a) PROVE TmpIsPrivate'
    BY <1>3 DEF Rename, TmpIsPrivate, Named
  <1>4. ASSUME NEW a \in Agents,
               \/ \E k \in Keys \union {Blank} : Begin(a, k)
               \/ MkdirAll(a) \/ Write(a) \/ Close(a) \/ Fails(a) \/ Killed(a)
        PROVE  UNCHANGED <<names, reader>>
    BY <1>4 DEF Begin, MkdirAll, Write, Close, Fails, Killed
  <1>5. ASSUME NEW u \in Users, LogsIn(u)
        PROVE  UNCHANGED names /\ \A v \in Users : reads'[v] \in {reads[v], final[v], NoFile}
    BY <1>5 DEF LogsIn, OpenKeys, ReadPiece, CloseKeys
  <1>6. ASSUME UNCHANGED vars PROVE UNCHANGED <<names, reader>>
    BY <1>6 DEF vars
  <1>7. ASSUME UNCHANGED <<names, reader>> PROVE TmpIsPrivate'
    BY <1>1, <1>7
  <1> QED
    BY <1>1, <1>2, <1>3, <1>4, <1>5, <1>6, <1>7 DEF Next, Install

(* A file that can be read keeps its contents.                             *)
LEMMA NamedKeep ==
  ASSUME KeyFileInv, [Next]_vars, NEW f \in Inodes, Named(f)
  PROVE  content'[f] = content[f]
  <1>1. ASSUME NEW a \in Agents,
               \/ \E k \in Keys \union {Blank} : Begin(a, k)
               \/ MkdirAll(a) \/ Close(a) \/ Rename(a) \/ Fails(a) \/ Killed(a)
        PROVE  UNCHANGED content
    BY <1>1 DEF Begin, MkdirAll, Close, Rename, Fails, Killed
  <1>2. ASSUME NEW u \in Users, LogsIn(u) PROVE UNCHANGED content
    BY <1>2 DEF LogsIn, OpenKeys, ReadPiece, CloseKeys
  <1>3. ASSUME UNCHANGED vars PROVE UNCHANGED content
    BY <1>3 DEF vars
  <1> QED
    BY <1>1, <1>2, <1>3, OthersKeep DEF Next, Install

(* One agent's step leaves the calls of the others alone.                  *)
LEMMA OrderStep ==
  ASSUME OneAgentEach, KeyFileInv, TypeOK', [Next]_vars
  PROVE  WrittenInOrder'
  <1> USE KeyFileAssumption DEF KeyFileInv, TypeOK, names, agent, reader
  <1> DEFINE InOrder(b) ==
        /\ step[b] # "write" => pos[b] = 0
        /\ step[b] # "idle" => answer[b] = "none"
        /\ step[b] = "write" =>
             /\ fd[b] \in Inodes /\ tmp[User[b]] = fd[b]
             /\ \A n \in 1..pos[b] : content[fd[b]][n] = want[b]
        /\ step[b] = "rename" =>
             tmp[User[b]] \in Inodes /\ content[tmp[User[b]]] = Text(want[b])
  <1>1. ASSUME NEW b \in Agents,
               step'[b] = step[b], fd'[b] = fd[b], pos'[b] = pos[b], want'[b] = want[b],
               answer'[b] = answer[b], tmp'[User[b]] = tmp[User[b]],
               tmp[User[b]] \in Inodes => content'[tmp[User[b]]] = content[tmp[User[b]]]
        PROVE  InOrder(b)'
    BY <1>1 DEF WrittenInOrder
  <1>2. ASSUME NEW a \in Agents, Install(a), NEW b \in Agents, b # a PROVE InOrder(b)'
    <2>1. User[b] # User[a] /\ User[a] \in Users /\ User[b] \in Users
      BY <1>2 DEF OneAgentEach
    <2>2. /\ step'[b] = step[b] /\ fd'[b] = fd[b] /\ pos'[b] = pos[b] /\ want'[b] = want[b]
          /\ answer'[b] = answer[b] /\ tmp'[User[b]] = tmp[User[b]]
      <3>1. CASE Rename(a) \/ Fails(a) \/ Killed(a)
        BY <1>2, <2>1, <3>1 DEF Rename, Fails, Killed, Returns
      <3>2. CASE OpenTmp(a)
        BY <1>2, <2>1, <3>2 DEF OpenTmp
      <3>3. CASE Write(a) \/ Close(a)
        BY <1>2, <2>1, <3>3 DEF Write, Close
      <3>4. CASE MkdirAll(a) \/ \E k \in Keys \union {Blank} : Begin(a, k)
        BY <1>2, <2>1, <3>4 DEF MkdirAll, Begin
      <3> QED
        BY <1>2, <3>1, <3>2, <3>3, <3>4 DEF Install
    <2>3. OpenTmp(a) \/ Write(a) \/ UNCHANGED content
      BY <1>2 DEF Install, Begin, MkdirAll, Close, Rename, Fails, Killed
    <2>4. tmp[User[b]] \in Inodes => content'[tmp[User[b]]] = content[tmp[User[b]]]
      BY <2>1, <2>3, OthersKeep
    <2> QED
      BY <1>1, <2>2, <2>4
  <1>3. ASSUME NEW a \in Agents, Install(a) PROVE InOrder(a)'
    <2>1. CASE \E k \in Keys \union {Blank} : Begin(a, k)
      BY <2>1 DEF Begin, WrittenInOrder
    <2>2. CASE MkdirAll(a)
      BY <2>2 DEF MkdirAll, WrittenInOrder
    <2>3. CASE OpenTmp(a)
      <3>1. PICK f \in Inodes : tmp'[User[a]] = f /\ fd'[a] = f
        BY <2>3 DEF OpenTmp
      <3>2. pos'[a] = 0 /\ answer'[a] = "none" /\ step'[a] = "write"
        BY <2>3 DEF OpenTmp, WrittenInOrder
      <3>3. \A n \in 1..pos'[a] : FALSE
        BY <3>2
      <3> QED
        BY <3>1, <3>2, <3>3
    <2>4. CASE Write(a)
      <3>1. fd[a] \in Inodes /\ tmp[User[a]] = fd[a] /\ pos[a] \in 0..Chunks /\ pos[a] < Chunks
        BY <2>4 DEF Write, WrittenInOrder
      <3>2. content'[fd[a]] = [content[fd[a]] EXCEPT ![pos[a] + 1] = want[a]]
        BY <2>4, <3>1 DEF Write
      <3>3. \A n \in 1..(pos[a] + 1) : content'[fd[a]][n] = want[a]
        <4> TAKE n \in 1..(pos[a] + 1)
        <4>1. content[fd[a]] \in [1..Chunks -> Keys \union {Hole}] /\ n \in 1..Chunks
          BY <3>1
        <4>2. CASE n = pos[a] + 1
          BY <3>2, <4>1, <4>2
        <4>3. CASE n # pos[a] + 1
          <5>1. n \in 1..pos[a] /\ step[a] = "write"
            BY <2>4, <3>1, <4>3 DEF Write
          <5>2. content[fd[a]][n] = want[a]
            BY <5>1 DEF WrittenInOrder
          <5> QED
            BY <3>2, <4>1, <4>3, <5>2
        <4> QED
          BY <4>2, <4>3
      <3>4. pos'[a] = pos[a] + 1 /\ UNCHANGED <<names, step, fd, want, answer>>
        BY <2>4 DEF Write
      <3> QED
        BY <2>4, <3>1, <3>3, <3>4 DEF Write, WrittenInOrder
    <2>5. CASE Close(a)
      <3>1. fd[a] \in Inodes /\ tmp[User[a]] = fd[a] /\ pos[a] = Chunks
        BY <2>5 DEF Close, WrittenInOrder
      <3>2. content[fd[a]] = Text(want[a])
        <4>1. \A n \in 1..Chunks : content[fd[a]][n] = want[a]
          BY <2>5, <3>1 DEF Close, WrittenInOrder
        <4>2. content[fd[a]] \in [1..Chunks -> Keys \union {Hole}]
          BY <3>1
        <4> QED
          BY <4>1, <4>2 DEF Text
      <3> QED
        BY <2>5, <3>1, <3>2 DEF Close, WrittenInOrder, Text
    <2>6. CASE Rename(a) \/ Fails(a) \/ Killed(a)
      BY <2>6 DEF Rename, Fails, Killed, Returns
    <2> QED
      BY <1>3, <2>1, <2>2, <2>3, <2>4, <2>5, <2>6 DEF Install
  <1>4. ASSUME UNCHANGED <<names, content, agent>>, NEW b \in Agents PROVE InOrder(b)'
    BY <1>1, <1>4
  <1>5. ASSUME NEW u \in Users, LogsIn(u) PROVE UNCHANGED <<names, content, agent>>
    BY <1>5 DEF LogsIn, OpenKeys, ReadPiece, CloseKeys
  <1>6. ASSUME UNCHANGED vars PROVE UNCHANGED <<names, content, agent>>
    BY <1>6 DEF vars
  <1>7. \A b \in Agents : InOrder(b)'
    BY <1>2, <1>3, <1>4, <1>5, <1>6 DEF Next
  <1> QED
    BY <1>7 DEF WrittenInOrder

LEMMA FinalStep ==
  ASSUME KeyFileInv, TypeOK', [Next]_vars
  PROVE  FinalIsWhole'
  <1> USE KeyFileAssumption DEF KeyFileInv, TypeOK, names, agent, reader
  <1>1. SUFFICES ASSUME NEW u \in Users, final'[u] # NoFile
                 PROVE  \E k \in Keys : content'[final'[u]] = Text(k)
    BY DEF FinalIsWhole, Whole
  <1>2. ASSUME final'[u] = final[u] PROVE \E k \in Keys : content'[final'[u]] = Text(k)
    <2>1. final[u] \in Inodes /\ Named(final[u])
      BY <1>1, <1>2 DEF Named
    <2> QED
      BY <1>1, <1>2, <2>1, NamedKeep DEF FinalIsWhole, Whole
  <1>3. ASSUME NEW a \in Agents, Rename(a), final'[u] # final[u]
        PROVE  \E k \in Keys : content'[final'[u]] = Text(k)
    <2>1. u = User[a] /\ final'[u] = tmp[User[a]] /\ UNCHANGED content
      BY <1>3 DEF Rename
    <2>2. content[tmp[User[a]]] = Text(want[a]) /\ want[a] \in Keys
      BY <1>3 DEF Rename, WrittenInOrder
    <2> QED
      BY <2>1, <2>2
  <1>4. ASSUME NEW a \in Agents, Install(a), ~Rename(a) PROVE UNCHANGED final
    BY <1>4 DEF Install, Begin, MkdirAll, OpenTmp, Write, Close, Fails, Killed
  <1>5. ASSUME NEW v \in Users, LogsIn(v) PROVE UNCHANGED final
    BY <1>5 DEF LogsIn, OpenKeys, ReadPiece, CloseKeys
  <1>6. ASSUME UNCHANGED vars PROVE UNCHANGED final
    BY <1>6 DEF vars
  <1> QED
    BY <1>2, <1>3, <1>4, <1>5, <1>6 DEF Next

LEMMA ReadsStep ==
  ASSUME KeyFileInv, TypeOK', [Next]_vars
  PROVE  ReadsOneKey'
  <1> USE KeyFileAssumption DEF KeyFileInv, TypeOK, names, agent, reader
  <1> DEFINE One(u) ==
        IF reads[u] = NoFile THEN got[u] = 0 /\ seen[u] = {}
        ELSE \E k \in Keys : content[reads[u]] = Text(k) /\ seen[u] \subseteq {k}
  <1>1. ASSUME NEW u \in Users,
               reads'[u] = reads[u], got'[u] = got[u], seen'[u] = seen[u]
        PROVE  One(u)'
    <2>1. CASE reads[u] = NoFile
      BY <1>1, <2>1 DEF ReadsOneKey
    <2>2. CASE reads[u] # NoFile
      <3>1. reads[u] \in Inodes /\ Named(reads[u])
        BY <2>2 DEF Named
      <3>2. content'[reads[u]] = content[reads[u]]
        BY <3>1, NamedKeep
      <3> QED
        BY <1>1, <2>2, <3>2 DEF ReadsOneKey
    <2> QED
      BY <2>1, <2>2
  <1>2. ASSUME NEW u \in Users, OpenKeys(u) PROVE One(u)'
    <2>1. PICK k \in Keys : content[final[u]] = Text(k)
      BY <1>2 DEF OpenKeys, FinalIsWhole, Whole
    <2>2. seen[u] = {} /\ reads'[u] = final[u] /\ reads'[u] # NoFile
      BY <1>2 DEF OpenKeys, ReadsOneKey
    <2>3. UNCHANGED <<content, seen>>
      BY <1>2 DEF OpenKeys
    <2> QED
      BY <2>1, <2>2, <2>3
  <1>3. ASSUME NEW u \in Users, ReadPiece(u) PROVE One(u)'
    <2>1. PICK k \in Keys : content[reads[u]] = Text(k) /\ seen[u] \subseteq {k}
      BY <1>3 DEF ReadPiece, ReadsOneKey
    <2>2. got[u] + 1 \in 1..Chunks
      BY <1>3 DEF ReadPiece
    <2>3. content[reads[u]][got[u] + 1] = k
      BY <2>1, <2>2 DEF Text
    <2>4. seen'[u] = seen[u] \union {k}
      BY <1>3, <2>3 DEF ReadPiece
    <2>5. reads'[u] = reads[u] /\ reads[u] # NoFile /\ UNCHANGED content
      BY <1>3 DEF ReadPiece
    <2> QED
      BY <2>1, <2>4, <2>5
  <1>4. ASSUME NEW u \in Users, CloseKeys(u) PROVE One(u)'
    BY <1>4 DEF CloseKeys
  <1>5. ASSUME NEW v \in Users, LogsIn(v), NEW u \in Users, u # v
        PROVE  reads'[u] = reads[u] /\ got'[u] = got[u] /\ seen'[u] = seen[u]
    BY <1>5 DEF LogsIn, OpenKeys, ReadPiece, CloseKeys
  <1>6. ASSUME NEW a \in Agents, Install(a) PROVE UNCHANGED reader
    BY <1>6 DEF Install, Begin, MkdirAll, OpenTmp, Write, Close, Rename, Fails, Killed
  <1>7. ASSUME UNCHANGED vars PROVE UNCHANGED reader
    BY <1>7 DEF vars
  <1>8. ASSUME NEW u \in Users PROVE One(u)'
    <2>1. CASE UNCHANGED reader
      BY <1>1, <2>1
    <2>2. ASSUME NEW v \in Users, LogsIn(v) PROVE One(u)'
      <3>1. CASE u = v
        BY <1>2, <1>3, <1>4, <2>2, <3>1 DEF LogsIn
      <3>2. CASE u # v
        BY <1>1, <1>5, <2>2, <3>2
      <3> QED
        BY <3>1, <3>2
    <2> QED
      BY <1>6, <1>7, <2>1, <2>2 DEF Next
  <1> QED
    BY <1>8 DEF ReadsOneKey

-----------------------------------------------------------------------------
LEMMA InvInit == Init => KeyFileInv
  <1> SUFFICES ASSUME Init PROVE KeyFileInv
    OBVIOUS
  <1> USE KeyFileAssumption DEF Init
  <1>1. TypeOK
    BY TextType DEF TypeOK
  <1>2. FinalIsWhole
    <2> SUFFICES ASSUME NEW u \in Users, final[u] # NoFile PROVE Whole(final[u])
      BY DEF FinalIsWhole
    <2>1. final[u] \in Inodes /\ content[final[u]] # Empty
      OBVIOUS
    <2> QED
      BY <2>1 DEF Whole
  <1> QED
    BY <1>1, <1>2 DEF KeyFileInv, TmpIsPrivate, WrittenInOrder, ReadsOneKey

LEMMA InvStep ==
  ASSUME OneAgentEach, KeyFileInv, [Next]_vars
  PROVE  KeyFileInv'
  BY TypesStep, PrivateStep, OrderStep, FinalStep, ReadsStep DEF KeyFileInv

(* An agent of their own for every user keeps the invariant.               *)
THEOREM KeyFileInvariant ==
  ASSUME OneAgentEach
  PROVE  Spec => []KeyFileInv
  BY InvInit, InvStep, PTL DEF Spec

(* A login reads the pieces of one key only, whenever it comes.            *)
THEOREM LoginsReadOneKey ==
  ASSUME OneAgentEach
  PROVE  Spec => []NoPartialReads
  <1>1. KeyFileInv => NoPartialReads
    BY DEF KeyFileInv, ReadsOneKey, NoPartialReads
  <1> QED
    BY KeyFileInvariant, <1>1, PTL

(* Every variable keeps its type, and no blank key reaches the disk.       *)
THEOREM KeyFileTypes ==
  ASSUME OneAgentEach
  PROVE  Spec => []TypeOK
  <1>1. KeyFileInv => TypeOK
    BY DEF KeyFileInv
  <1> QED
    BY KeyFileInvariant, <1>1, PTL

-----------------------------------------------------------------------------
Shown == [u \in Users |-> IF final[u] = NoFile THEN NoFile ELSE content[final[u]]]

(* Only Rename changes what the names show.                                *)
LEMMA ShownKept ==
  ASSUME KeyFileInv, TypeOK', [Next]_vars, UNCHANGED final
  PROVE  Shown' = Shown
  <1>1. ASSUME NEW u \in Users, final[u] # NoFile PROVE content'[final[u]] = content[final[u]]
    <2>1. final[u] \in Inodes /\ Named(final[u])
      BY <1>1 DEF KeyFileInv, TypeOK, Named
    <2> QED
      BY <2>1, NamedKeep
  <1> QED
    BY <1>1 DEF Shown

LEMMA RenameInstalls ==
  ASSUME KeyFileInv, NEW a \in Agents, Rename(a)
  PROVE  Shown' = [Shown EXCEPT ![User[a]] = Text(want[a])]
  <1> USE KeyFileAssumption DEF KeyFileInv, TypeOK
  <1>1. /\ tmp[User[a]] # NoFile /\ content[tmp[User[a]]] = Text(want[a])
        /\ final' = [final EXCEPT ![User[a]] = tmp[User[a]]]
        /\ UNCHANGED content
    BY DEF Rename, WrittenInOrder
  <1>2. ASSUME NEW u \in Users
        PROVE  (IF final'[u] = NoFile THEN NoFile ELSE content[final'[u]])
               = IF u = User[a] THEN Text(want[a]) ELSE Shown[u]
    BY <1>1 DEF Shown
  <1> QED
    BY <1>1, <1>2 DEF Shown

(* Install implements the atomic replacement that ManagedKey describes.    *)
THEOREM InstallIsAtomic ==
  ASSUME OneAgentEach
  PROVE  Spec => ReplacedAtomically
  <1>1. Init => Managed!Init
    <2> SUFFICES ASSUME Init PROVE Managed!Init
      OBVIOUS
    <2>1. ASSUME NEW u \in Users
          PROVE  Shown[u] \in {NoFile} \union {Text(k) : k \in Keys}
      BY InvInit DEF KeyFileInv, FinalIsWhole, Whole, Shown
    <2>2. Shown \in [Users -> {NoFile} \union {Text(k) : k \in Keys}]
      BY <2>1 DEF Shown
    <2> QED
      BY <2>2 DEF Init, Managed!Init, Shown
  <1>2. KeyFileInv /\ [Next]_vars => [Managed!Next]_Managed!vars
    <2> SUFFICES ASSUME KeyFileInv, [Next]_vars PROVE [Managed!Next]_Managed!vars
      OBVIOUS
    <2>t. TypeOK'
      BY TypesStep
    <2>0. ASSUME UNCHANGED <<final, want, answer>> PROVE UNCHANGED Managed!vars
      BY <2>0, <2>t, ShownKept DEF Managed!vars, Shown
    <2>1. ASSUME NEW a \in Agents, NEW k \in Keys \union {Blank}, Begin(a, k)
          PROVE  Managed!Ask(a, k)
      <3>1. Shown' = Shown
        BY <2>1, <2>t, ShownKept DEF Begin, names
      <3> QED
        BY <2>1, <3>1 DEF Begin, Managed!Ask, Shown
    <2>2. ASSUME NEW a \in Agents, Killed(a) PROVE Managed!Ask(a, Blank)
      <3>1. Shown' = Shown
        BY <2>2, <2>t, ShownKept DEF Killed, names
      <3> QED
        BY <2>2, <3>1 DEF Killed, Returns, Managed!Ask, Shown
    <2>3. ASSUME NEW a \in Agents, Rename(a) PROVE Managed!Install(a)
      <3>1. want[a] # Blank /\ answer[a] = "none"
        BY <2>3, KeyFileAssumption DEF Rename, KeyFileInv, TypeOK, WrittenInOrder
      <3>2. Shown' = [Shown EXCEPT ![User[a]] = Text(want[a])]
        BY <2>3, RenameInstalls
      <3> QED
        BY <2>3, <3>1, <3>2 DEF Rename, Returns, Managed!Install, Shown
    <2>4. ASSUME NEW a \in Agents, Fails(a) PROVE Managed!Fail(a)
      <3>1. answer[a] = "none"
        BY <2>4 DEF Fails, KeyFileInv, WrittenInOrder
      <3>2. Shown' = Shown
        BY <2>4, <2>t, ShownKept DEF Fails, names
      <3> QED
        BY <2>4, <3>1, <3>2 DEF Fails, Returns, Managed!Fail, Shown
    <2>5. ASSUME NEW a \in Agents, MkdirAll(a) \/ OpenTmp(a) \/ Write(a) \/ Close(a)
          PROVE  UNCHANGED <<final, want, answer>>
      BY <2>5 DEF MkdirAll, OpenTmp, Write, Close, names
    <2>6. ASSUME NEW u \in Users, LogsIn(u) PROVE UNCHANGED <<final, want, answer>>
      BY <2>6 DEF LogsIn, OpenKeys, ReadPiece, CloseKeys, names, agent
    <2>7. ASSUME UNCHANGED vars PROVE UNCHANGED <<final, want, answer>>
      BY <2>7 DEF vars, names, agent
    <2> QED
      BY <2>0, <2>1, <2>2, <2>3, <2>4, <2>5, <2>6, <2>7 DEF Next, Install, Managed!Next
  <1> QED
    BY KeyFileInvariant, <1>1, <1>2, PTL DEF Spec, ReplacedAtomically, Managed!Spec
=============================================================================
