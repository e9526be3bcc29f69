CONSTANTS
  Worlds = {"webhooks", "client", "scheduler", "limiter", "notify", "skills", "agents"}
  Hooks = {"h"} Events = {"e", "f"} MaxRetries = 2 KeepRows = 3 RetryRuns = {"r", "s"} MaxManual = 1 MaxRestarts = 1
  Cards = {1} Left = {} Columns = {"inbox", "done"} Fetches = {1, 2} MaxChanges = 3 MaxDrops = 1
  Jobs = 3 Seldom = {2} SeldomInterval = 2 Switches = {3} MaxTicks = 3 MaxMinute = 5
  Clients = {"x"} Window = 2 Quota = 2 MaxNow = 6
  Recipients = {"agent", "human"} Keyless = {"human"} Limit = 2 Rounds = {1, 2} Daemon = 1 MaxNotes = 3
  Skills = {"s"} Contents = {"x", "y"} Savers = {1, 2} MaxEdits = 4
  Agents = {"a", "b"} Links = {1, 2} MaxReports = 3
SPECIFICATION DeliverySpec
INVARIANT DeliveryTypeOK
INVARIANT TriesAreBounded
INVARIANT EventsAreNotForgotten
INVARIANT EventsCatchUp
PROPERTY PollsCatchUp
INVARIANT OneTickPerTask
INVARIANT RunsAreSpaced
INVARIANT BurstsAreBounded
INVARIANT RepeatsAreBounded
PROPERTY NotesArrive
PROPERTY RowsFollowFiles
PROPERTY SilentAgentsGoOffline
CHECK_DEADLOCK FALSE
