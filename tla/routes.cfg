SPECIFICATION Spec
CONSTANTS
  Requests = {r1, r2}
  Ids = {i1, i2, i3}
  d1 = d1
  d2 = d2
  m1 = m1
  Instances = {d1, d2}
  Models = {m1}
  ModelOf <- OneModel
  MaxRoutes = 2
  RouteTTL = 2
  None = None
SYMMETRY Symmetric
INVARIANTS Bounded RecentKept RoutesToOwner CallsOwner
PROPERTY DeletedComesBackByStreamOnly
