\* Two concurrent calls, with either solver.
SPECIFICATION Spec
CONSTANTS
  c1 = c1
  c2 = c2
  Calls = {c1, c2}
INVARIANTS
  TypeOK
PROPERTIES
  ImplementsSolver
  EndedJobReturns
\* The calls return and nothing more happens.
CHECK_DEADLOCK FALSE
