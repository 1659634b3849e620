SPECIFICATION Spec
CONSTANTS
  Workers = {"a", "b"}
  Texts <- Known
  Outcomes <- Made
  Keys <- Digests
  KeyOf <- Digest
  Size <- Bytes
  Logs <- LogTexts
  Shrunk <- Lines
  MinTextBytes = 3
  Capacity = 2
  Talk <- Spoken
  MaxTurns = 2
  MaxConfigures = 1
INVARIANTS MemoBounded HistoryStable BytesMoved
PROPERTY MemoUnseen
CHECK_DEADLOCK FALSE
