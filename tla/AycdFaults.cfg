\* Connections that fail and requests that are both answered and cancelled; one
\* request that waits with a timeout.
SPECIFICATION Spec
CONSTANTS
  r1 = r1
  r2 = r2
  r3 = r3
  Requests = {r1, r2, r3}
  Timed = {r1}
  Main = Main
  NoCall = NoCall
  StartFails = TRUE
  SecondAnswers = TRUE
INVARIANTS
  TypeOK
  EntriesArePending
  StuckOnlyOnLeftEntry
PROPERTIES
  ImplementsSolver
  NilServiceOnlyAfterFailedStart
  TokenLostOnlyAfterFailedStart
\* The system stops when the peer answers no more, or a callback is stuck.
CHECK_DEADLOCK FALSE
