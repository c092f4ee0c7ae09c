\* The end of a run of two tasks that are stopped at any moment.
SPECIFICATION Spec
CONSTANTS
  t1 = t1
  t2 = t2
  proxyA = proxyA
  proxyB = proxyB
  Tasks = {t1, t2}
  Hashes = {proxyA, proxyB}
  NoTask = NoTask
  NoHash = NoHash
  LeaseError = LeaseError
  Empty = Empty
  NoCaptcha = NoCaptcha
  MaxSensor = 1
  CaptchaBuffer = 2
  StatsBuffer = 1
  Webhook = "none"
  MaxIterations = 1
PROPERTIES
  StoppedRunEnds
