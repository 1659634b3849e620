SPECIFICATION Spec
CONSTANTS
  Requests = {r1, r2}
  Users = {u}
  Systems = {s1, s2}
  Messages = {a, b}
  MaxMessages = 3
  MaxRequests = 3
  Capacity = 2
  SessionTTL = 1
  Zero = Zero
  Nobody = Nobody
SYMMETRY Symmetric
INVARIANTS JudgedByPredecessor ClassifiedRight BumpsKept
CHECK_DEADLOCK FALSE
