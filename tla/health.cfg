CONSTANTS
  ann = ann  ben = ben  e1 = e1  e2 = e2  l1 = l1  l2 = l2
  Agents = {ann, ben}
  SessionErrors = {e1}
  LogErrors = {l1}
  MayDismiss = TRUE
  Unsteady = {ben}
  MayCrash = TRUE
  MaxFailures = 1
SPECIFICATION FairSpec
INVARIANT TypeOK
INVARIANT DismissedLinesStayAway
INVARIANT ClientsKnowTheWorst
PROPERTY SessionErrorsSurface
