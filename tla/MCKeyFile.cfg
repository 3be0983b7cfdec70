SPECIFICATION Spec
CONSTANTS
  a1 = a1
  u1 = u1
  Agents = {a1}
  Users = {u1}
  User <- OneAgent
  Keys = {k1, k2}
  Blank = Blank
  Inodes = {f1, f2, f3, f4}
  NoFile = NoFile
  Hole = Hole
  Chunks = 3
SYMMETRY Symmetries
INVARIANTS
  TypeOK
  NoPartialReads
PROPERTY
  ReplacedAtomically
