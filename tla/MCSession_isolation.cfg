SPECIFICATION Spec
CONSTANTS
  r1 = r1
  r2 = r2
  r3 = r3
  i1 = i1
  i2 = i2
  h0 = h0
  h1 = h1
  h2 = h2
  p0 = p0
  p1 = p1
  p2 = p2
  ns0 = ns0
  ns1 = ns1
  NS1 = NS1
  None = None
  BadPort = BadPort
  Requests <- TwoRequests
  Clients = {c1, c2}
  SessionIds <- Ids
  Hosts = {h0, h1, h2}
  Ports = {p0, p1, p2}
  Namespaces = {ns0, ns1, NS1}
  Upper <- MCUpper
  Forms <- FewForms
  DefaultHost = h0
  DefaultPort = p0
  DefaultNs = ns0
INVARIANTS SessionAsDocumented
CHECK_DEADLOCK FALSE
