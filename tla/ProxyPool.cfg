\* The pool of proxies: three tasks, three attempts per call and lists of up to
\* four slots over two hashes, so that lists shorter than, as long as and longer
\* than the attempts all occur, with and without repeated lines.
SPECIFICATION Spec
CONSTANTS
  t1 = t1
  t2 = t2
  t3 = t3
  lineA = lineA
  lineB = lineB
  lineC = lineC
  hashA = hashA
  hashB = hashB
  Tasks = {t1, t2, t3}
  Lines = {lineA, lineB, lineC}
  Hashes = {hashA, hashB}
  Hash <- MCHash
  Parts <- MCParts
  MaxAttempts = 3
  MaxProxies = 4
  NoTask = NoTask
  NoHash = NoHash
  LeaseError = LeaseError
INVARIANTS
  TypeOK
  LeasesMirror
  UseIsOnRecord
  ExclusiveUse
  CursorInRange
PROPERTIES
  ErrorOnlyWhenFull
  ImplementsPool
  LeaseReturns
