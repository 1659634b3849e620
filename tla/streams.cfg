SPECIFICATION Spec
CONSTANTS
  Pipes <- AllPipes
  MaxFrames <- Frames
  MaxCount = 1
  Items = {i1, i2}
  ChoiceIndexes <- Both
  Candidates <- Both
INVARIANTS EndTold FailureCounted ToolCallsWhole UsageToldIsRecorded
CHECK_DEADLOCK FALSE
