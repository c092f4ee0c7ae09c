\* The text of the error against what the call leaves behind, with the code's
\* five attempts and lists of up to five slots.
SPECIFICATION Spec
CONSTANTS
  t1 = t1
  t2 = t2
  t3 = t3
  lineA = lineA
  lineB = lineB
  lineC = lineC
  hashA = hashA
  hashB = hashB
  Tasks = {t1, t2, t3}
  Lines = {lineA, lineB, lineC}
  Hashes = {hashA, hashB}
  Hash <- MCHash
  Parts <- MCParts
  MaxAttempts = 5
  MaxProxies = 5
  NoTask = NoTask
  NoHash = NoHash
  LeaseError = LeaseError
INVARIANTS
  ErrorMeansNoLease
