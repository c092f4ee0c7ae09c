\* Two tasks, two iterations each, with every solver.
SPECIFICATION Spec
CONSTANTS
  t1 = t1
  t2 = t2
  Tasks = {t1, t2}
  MaxRounds = 2
INVARIANTS
  TypeOK
  SendsCurrentScript
  ConfigFetchedOnce
  InitializedMeansKnown
PROPERTIES
  ConfigLostOnlyAfterFailure
  OnlyLazyFieldsPanic
  CallsReturn
\* The iterations are bounded.
CHECK_DEADLOCK FALSE
