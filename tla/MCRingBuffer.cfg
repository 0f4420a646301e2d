SPECIFICATION Spec
CONSTANTS
  p1 = p1
  p2 = p2
  w = w
  c = c
  Nobody = Nobody
  NumRoles = 3
  Size = 4
  Instances = {p1, p2, w, c}
  RoleOf <- Outbox
  Requests = {2, 3}
  MaxMarker = 6
INVARIANTS
  RingInv
  ClaimsDisjoint
  ContentsIntact
  CopiesCommittedBytes
PROPERTY
  BoundedStreamSpec
CHECK_DEADLOCK FALSE
SYMMETRY Producers
