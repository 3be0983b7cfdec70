SPECIFICATION Spec
CONSTANTS
  SSHKeys = {k1, k2}
  Measurements = {m1, m2}
  Missing = Missing
SYMMETRY Values
INVARIANTS
  TypeOK
  
