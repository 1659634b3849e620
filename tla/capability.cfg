SPECIFICATION Spec
CONSTANTS
  Workers = {w1, w2}
  Instances = {d1}
  Mixes <- ByEntry
  CapabilityTTL = 1
INVARIANTS MarksAreTrue ServedWhenPossible
PROPERTIES LiveMarkKept RequestsEnd
