CONSTANTS
  i1 = i1
  i2 = i2
  i3 = i3
  Items = {i1, i2}
  PRs = {i2}
  Number <- Numbers
  Matched = {i1, i2}
  Crowded = {}
  Jobs = {j1}
  Passes <- PingPass
  PerPage = 1
  MaxEvents = 1
  MaxErrors = 1
  MaxPings = 2
SPECIFICATION Spec
INVARIANT PingedOnce
