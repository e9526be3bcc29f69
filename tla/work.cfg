CONSTANTS
  Worlds = {"ticketing", "pipelines", "files", "accounts"}
  Spaces = {"main", "lab"} Default = "main" Slugs = {"general", "core"} General = "general"
  Prefixes = {"A", "B"} Names = {"a"} Days = {d1, d2} d1 = d1 d2 = d2
  MaxProjects = 2 MaxTasks = 3 MaxTickets = 2
  Runs = {"r"} Steps = 3 StopOn = {1} MaxCalls = 2
  Files = {"config", "approvals", "cron"} Entries = {"k", "l"} Roots = {"k"} Longest = 2 Writers = {1, 2} Hashed = {TRUE, FALSE}
  MaxUsers = 2 Roles = {"admin", "viewer"} Emails = {"e"} Requests = {r1, r2} r1 = r1 r2 = r2
SYMMETRY Alike
SPECIFICATION WorkSpec
INVARIANT WorkTypeOK
INVARIANT TicketNamesOneTask
INVARIANT TasksHaveAProject
INVARIANT TitlesAreUnique
INVARIANT CompletedRunsRanEverything
PROPERTY ClosedRunsStayClosed
INVARIANT EditsAddUp
INVARIANT AnAdminRemains
CHECK_DEADLOCK FALSE
