CONSTANTS
  i1 = i1
  i2 = i2
  i3 = i3
  Items = {i1, i2}
  PRs = {i2}
  Number <- Numbers
  Matched = {i1, i2}
  Crowded = {i2}
  Jobs = {j1, j2}
  Passes <- CloseThenLabel
  PerPage = 1
  MaxEvents = 1
  MaxErrors = 1
  MaxPings = 2
SPECIFICATION Spec
INVARIANTS CommentSavesIssue
PROPERTIES DryRunIsHarmless LaterPassesRun
