SPECIFICATION Spec
CONSTANTS
  h1 = h1
  h2 = h2
  p1 = p1
  p2 = p2
  n1 = n1
  n2 = n2
  r1 = r1
  r2 = r2
  Terminals <- MCTerminals
  Views = {"console", "editor"}
  Console = "console"
  Hosts = {h1, h2}
  Ports = {p1, p2}
  Namespaces = {n1, n2}
  Default <- Here
  Forms <- MCForms
  BadPort = BadPort
  None = None
  Connects = {r1, r2}
  MaxAsked = 2
CONSTRAINT OneAtATime
SYMMETRY Symmetry
INVARIANTS TypeOK KeysGoToShown LabelIsSession ResultIsNewest
PROPERTIES KeyboardTakenOnlyBy
