\* One task over three iterations: what one iteration leaves behind for the
\* next, and what ends.
SPECIFICATION Spec
CONSTANTS
  t1 = t1
  t2 = t2
  proxyA = proxyA
  proxyB = proxyB
  Tasks = {t1}
  Hashes = {proxyA}
  NoTask = NoTask
  NoHash = NoHash
  LeaseError = LeaseError
  Empty = Empty
  NoCaptcha = NoCaptcha
  MaxSensor = 2
  CaptchaBuffer = 2
  StatsBuffer = 1
  Webhook = "malformed"
  MaxIterations = 3
INVARIANTS
  SubmitsFreshCaptcha
PROPERTIES
  AwaitEnds
  RequesterEnds
