\* Three concurrent requests, a good start, one answer per request.
SPECIFICATION Spec
CONSTANTS
  r1 = r1
  r2 = r2
  r3 = r3
  Requests = {r1, r2, r3}
  Timed = {}
  Main = Main
  NoCall = NoCall
  StartFails = FALSE
  SecondAnswers = FALSE
PROPERTIES
  AnsweredReturns
\* The system stops when the peer answers no more, or a callback is stuck.
CHECK_DEADLOCK FALSE
