\* Eight sessions, as in the code; two requests and three SYNs.
CONSTANTS
  FdMod = 8
  MaxReq = 2
  MaxSyn = 3
SPECIFICATION Spec
INVARIANTS OneGet AnswerIsOwn
PROPERTY RefinesOneCall
CHECK_DEADLOCK FALSE
