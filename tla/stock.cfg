CONSTANTS
  i1 = i1
  i2 = i2
  i3 = i3
  Items = {i1, i2, i3}
  PRs = {i3}
  Number <- Numbers
  Matched = {i1, i2}
  Crowded = {i2}
  Jobs = {j1}
  Passes <- PingPass
  PerPage = 1
  MaxEvents = 1
  MaxErrors = 1
  MaxPings = 2
SPECIFICATION Spec
INVARIANTS TypeOK CalmPassIsWhole
PROPERTIES JobsEnd OutdatedIsHandled
