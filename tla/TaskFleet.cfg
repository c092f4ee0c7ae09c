\* Safety of two tasks that share two proxies, one iteration each, over a stats
\* channel that fills.
SPECIFICATION Spec
CONSTANTS
  t1 = t1
  t2 = t2
  proxyA = proxyA
  proxyB = proxyB
  Tasks = {t1, t2}
  Hashes = {proxyA, proxyB}
  NoTask = NoTask
  NoHash = NoHash
  LeaseError = LeaseError
  Empty = Empty
  NoCaptcha = NoCaptcha
  MaxSensor = 2
  CaptchaBuffer = 2
  StatsBuffer = 2
  Webhook = "valid"
  MaxIterations = 1
INVARIANTS
  TypeOK
  OwnsProxyInFlight
  WaitCoversHandlers
  TitleOrder
