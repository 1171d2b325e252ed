\* Three processes, two LEDs and two keys.
CONSTANTS
  u1 = u1
  u2 = u2
  u3 = u3
  Users <- ThreeUsers
  GPIOCNT = 2
SPECIFICATION Spec
SYMMETRY UserSymmetry
INVARIANTS
  TrackedKeys
  ClosedReturnsKeys
