CONSTANTS
  t1 = t1  t2 = t2  t3 = t3  ada = ada  bob = bob  d1 = d1  d2 = d2  r1 = r1  r2 = r2
  Tasks = {t1, t2}
  Agents = {ada, bob}
  Registered = {ada}
  Unassigned = Unassigned
  Blank = Blank
  Nobody = Nobody
  DispatchRuns = {d1}
  ReviewRuns = {r1}
  BatchLimit = 2
  AskStatus = {"inbox", "review"}
  AskAssignee = {ada, bob}
SPECIFICATION AutomationSpec
CHECK_DEADLOCK FALSE
PROPERTY AssignedWorkIsDelivered
PROPERTY DeliveredWorkIsJudged
