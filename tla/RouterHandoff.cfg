SPECIFICATION Spec
CONSTANTS
  Desktops = {d1, d2}
  Helpers = {h1, h2, h3}
  Clients = {c1}
  Builds = {plain, old, new, other}
  OwnBuilds = {old, new}
  Draining = {old, new}
  OtherProtocol = {other}
  NoOne = NoOne
  MaxInflight = 1
  MaxCalls = 2
  MaxFaults = 1
  plain = plain
  old = old
  new = new
  other = other
INVARIANTS TypeOK NoDeadPort
PROPERTIES HandoffCutsNothing CallsReturn
CHECK_DEADLOCK FALSE
