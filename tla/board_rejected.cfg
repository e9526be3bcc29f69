CONSTANTS
  t1 = t1  t2 = t2  t3 = t3  ada = ada  bob = bob  d1 = d1  d2 = d2  r1 = r1  r2 = r2
  Tasks = {t1}
  Agents = {ada}
  Registered = {ada}
  Unassigned = Unassigned
  Blank = Blank
  Nobody = Nobody
  DispatchRuns = {d1}
  ReviewRuns = {r1}
  BatchLimit = 2
  AskStatus = {"inbox"}
  AskAssignee = {ada}
SPECIFICATION AutomationSpec
CHECK_DEADLOCK FALSE
PROPERTY RejectedWorkIsDispatched
