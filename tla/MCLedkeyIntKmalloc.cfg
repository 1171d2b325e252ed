\* Three processes, two keys, memory for four opens.
CONSTANTS
  u1 = u1
  u2 = u2
  u3 = u3
  Users <- ThreeUsers
  GPIOCNT = 2
  MaxAllocs = 4
SPECIFICATION Spec
SYMMETRY UserSymmetry
\* The system stops when the module is gone.
CHECK_DEADLOCK FALSE
INVARIANTS
  HandlerDataAlive
  OpenOwnsAllKeys
  FlagHasOneOwner
  OpenFileCounted
