SPECIFICATION Spec
CONSTANTS
  Catalog <- Models
  Tier <- Tiers
  Found <- Disks
  Selections <- Picked
  OptionChoices <- Ways
  Edited <- Changes
  MaxRuns = 2
  MaxEdits = 1
  MaxSeconds = 1
INVARIANTS SavedFirst UserKept Settled
CHECK_DEADLOCK FALSE
