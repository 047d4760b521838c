SPECIFICATION Spec
CONSTANTS
  c1 = c1  c2 = c2  d1 = d1  s1 = s1  h1 = h1  h2 = h2
  t1 = t1  t2 = t2  t3 = t3  g1 = g1  g2 = g2  p1 = p1  x = x  y = y
  None = None
  Conn = {c1, c2}
  Handler = {h1, h2}
  Timer = {t1, t2, t3}
  Dir = {d1}
  Path = {d1}
  Clean <- CleanOnly
  Sid = {s1}
  CwdOf <- CwdOneDir
  Handle = {g1, g2}
  MaxRequests = 2
  Job = {1, 2}
  Stopper = {p1}
  MaxBatches = 2
  MaxStops = 1
  Req = {1}
  Root = root
  Child = {x, y}
  Asked <- AskedOfOne
  QueueSize = 1  MaxRetries = 1  MaxCallCount = 1  MaxInputs = 1  MaxRounds = 1
INVARIANTS NothingOutlivesJob OneAtATime
PROPERTIES UnboundReleased StopEndsTool Answered EndsWhenTold
CHECK_DEADLOCK FALSE
