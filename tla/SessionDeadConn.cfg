SPECIFICATION Spec
CONSTANTS
  c1 = c1  c2 = c2
  d1 = d1  d2 = d2  alias = alias
  s1 = s1  s2 = s2
  h1 = h1  h2 = h2  h3 = h3
  t1 = t1  t2 = t2  t3 = t3  t4 = t4
  g1 = g1  g2 = g2  g3 = g3
  None = None
  Conn = {c1}
  Handler = {h1, h2}
  Timer = {t1, t2}
  Dir = {d1}
  Path = {d1}
  Clean <- CleanOnly
  Sid = {s1}
  CwdOf <- CwdOneDir
  Handle = {g1, g2}
  MaxRequests = 2
PROPERTIES DisconnectedReleased
CHECK_DEADLOCK FALSE
