CONSTANTS
  ann = ann  ben = ben  e1 = e1  e2 = e2  l1 = l1  l2 = l2
  Agents = {ann, ben}
  SessionErrors = {e1, e2}
  LogErrors = {}
  MayDismiss = TRUE
  Unsteady = {}
  MayCrash = FALSE
  MaxFailures = 0
SPECIFICATION Spec
INVARIANT DismissedStayDismissed
