SPECIFICATION Spec
CONSTANTS
  Threads = {w1, w2}
  Depth = 1
  Requestable = {"CUSTOM", "UNKNOWN"}
  MaxCalls = 2
  MaxSnapshots = 1
INVARIANTS
  TypeOK
  EachRequestOnce
  HandedOverOnce
  RequestsKeepOrder
PROPERTIES
  EveryRequestAnswered
  AnsweredRequestsTakeEffect
  GetModeCatchesUp
CHECK_DEADLOCK FALSE
