--------------------------- MODULE HealthMonitor ---------------------------
(***************************************************************************)
(* The health monitor: the tick that checks the discovered agents one      *)
(* after the other, merges what it read into the cached snapshots and      *)
(* broadcasts changes, and the operator's dismissal of an agent's errors.  *)
(*                                                                         *)
(* A tick awaits a port probe before it reads an agent; the files are read *)
(* and, after the last agent, merged without another await.  Dismissals,   *)
(* new errors and anything else may come between two reads.                *)
(*                                                                         *)
(* Errors come from two places: session files, whose entries carry their   *)
(* own time and stay on disk for a day, and the error log, whose lines     *)
(* count as happening whenever they are read.  Instead of times the model  *)
(* keeps, for each dismissal, the errors that count as older than it.      *)
(***************************************************************************)
EXTENDS Naturals

CONSTANTS
  Agents,       \* agents that may be discovered
  SessionErrors,\* tool errors and rate limits in session files
  LogErrors,    \* crashes in the error log
  MayDismiss,   \* do operators dismiss errors?
  Unsteady,     \* bound: agents whose configuration may be unreadable for a
                \* while and whose gateway may stop
  MayCrash,     \* may the dashboard restart?
  MaxFailures   \* bound: how many exceptions end a tick and how often it restarts

ASSUME MonitorAssumption ==
  /\ SessionErrors \cap LogErrors = {}
  /\ MayDismiss \in BOOLEAN /\ Unsteady \subseteq Agents /\ MayCrash \in BOOLEAN
  /\ MaxFailures \in Nat

Errors == SessionErrors \cup LogErrors

VARIABLES
  present,   \* the agents discoverAgents finds
  alive,     \* agents with a gateway running
  onDisk,    \* onDisk[a]: the errors in a's files
  happened,  \* errors that have occurred, so that none occurs twice
  known,     \* keys of lastSnapshot
  level,     \* level[a]: health.overall of the cached snapshot
  shown,     \* shown[a]: its errors
  flagged,   \* its errorsDismissed
  older,     \* older[a]: errors, as last read, up to errorsDismissedAt
  told,      \* told[a]: the status of a that was broadcast last
  ticking,   \* is a tick under way?
  left,      \* the agents it has still to check
  checked,   \* the agents it has checked
  read,      \* read[a]: what it read of a
  dismissed, \* history: errors an operator saw and dismissed
  truncated, \* history: log lines from before a dismissal that emptied the log
  hidden,    \* history: agents of which the clients were told with errors in it
             \* that the merge then hid, and nothing else since
  failures   \* bound: exceptions and restarts so far

diskVars  == <<present, alive, onDisk, happened>>
cacheVars == <<known, level, shown, flagged>>
tickVars  == <<ticking, left, checked, read>>
history   == <<dismissed, truncated, hidden>>
vars      == <<diskVars, cacheVars, older, told, tickVars, history, failures>>

Levels == {"red", "yellow", "green"}
Unread == [alive |-> FALSE, errors |-> {}]

TypeOK ==
  /\ present \subseteq Agents /\ alive \subseteq Agents
  /\ onDisk \in [Agents -> SUBSET Errors]
  /\ happened \subseteq Errors
  /\ known \subseteq Agents
  /\ level \in [Agents -> Levels]
  /\ shown \in [Agents -> SUBSET Errors]
  /\ flagged \subseteq known
  /\ older \in [Agents -> SUBSET Errors]
  /\ told \in [Agents -> Levels \cup {"none"}]
  /\ ticking \in BOOLEAN /\ left \subseteq Agents /\ checked \subseteq Agents
  /\ read \in [Agents -> [alive : BOOLEAN, errors : SUBSET Errors]]
  /\ dismissed \subseteq Errors /\ truncated \subseteq LogErrors /\ hidden \subseteq Agents
  /\ failures \in 0..MaxFailures

Init ==
  /\ present = Agents /\ alive = Agents
  /\ onDisk = [a \in Agents |-> {}]
  /\ happened = {}
  /\ known = {} /\ flagged = {}
  /\ level = [a \in Agents |-> "green"]
  /\ shown = [a \in Agents |-> {}]
  /\ older = [a \in Agents |-> {}]
  /\ told = [a \in Agents |-> "none"]
  /\ ticking = FALSE /\ left = {} /\ checked = {}
  /\ read = [a \in Agents |-> Unread]
  /\ dismissed = {} /\ truncated = {} /\ hidden = {}
  /\ failures = 0

-----------------------------------------------------------------------------
(* The tick *)

\* Worst dimension wins.  Without its process an agent's channels are down
\* too; a crash in the log is critical, any other error a warning.
ComputeCompositeHealth(up, errors) ==
  CASE ~up \/ errors \cap LogErrors # {} -> "red"
    [] up /\ errors # {} /\ errors \cap LogErrors = {} -> "yellow"
    [] OTHER -> "green"

CheckAgentHealth(a) == [alive |-> a \in alive, errors |-> onDisk[a]]

\* Mutant: the errors of the snapshot are shown as they were read.
KeptAsRead(a, r) == r.errors

\* The errors of a read that a dismissal does not cover.
Kept(a, r) == IF a \in flagged THEN r.errors \ older[a] ELSE r.errors

\* Is the check of a, unfiltered, another status than the cached one?
Differs(a, c) == a \notin known \/ ComputeCompositeHealth(c.alive, c.errors) # level[a]

\* Mutant: nothing is said of agents that are new.
BroadcastChanges(a, c) ==
  IF a \in known /\ Differs(a, c) THEN ComputeCompositeHealth(c.alive, c.errors) ELSE told[a]

\* The status a tick broadcasts last of an agent it has checked: of a new one
\* always, of one it knew when the status differs.
Broadcast(a, c) ==
  IF Differs(a, c) THEN ComputeCompositeHealth(c.alive, c.errors) ELSE told[a]

TickEnds ==
  /\ ticking' = FALSE
  /\ left' = {} /\ checked' = {}
  /\ read' = [a \in Agents |-> Unread]

\* The end of a tick that read r[a] of every agent a in seen.
Merge(seen, r) ==
  /\ known' = seen
  /\ told' = [a \in Agents |-> IF a \in seen THEN Broadcast(a, r[a]) ELSE "none"]
  /\ shown' = [a \in Agents |-> IF a \in seen THEN Kept(a, r[a]) ELSE {}]
  /\ level' = [a \in Agents |->
       IF a \in seen THEN ComputeCompositeHealth(r[a].alive, Kept(a, r[a])) ELSE "green"]
  /\ flagged' = {a \in seen \cap flagged : Kept(a, r[a]) = {}}
  /\ hidden' = {a \in seen : Kept(a, r[a]) # r[a].errors
                             \/ (a \in hidden /\ ~Differs(a, r[a]))}

\* tick() up to its first await; without agents it has none.
TickStarts ==
  /\ ~ticking
  /\ IF present = {}
     THEN Merge({}, read) /\ TickEnds
     ELSE /\ ticking' = TRUE /\ left' = present /\ checked' = {}
          /\ UNCHANGED <<cacheVars, told, read, hidden>>
  /\ UNCHANGED <<diskVars, older, dismissed, truncated, failures>>

\* The probe of a has answered: its files are read, and after the last agent
\* the tick ends.  A line of the log counts as happening now, whenever it was
\* written.
Check(a) ==
  LET r == [read EXCEPT ![a] = CheckAgentHealth(a)]
  IN /\ ticking /\ a \in left
     /\ older' = [older EXCEPT ![a] = @ \ (onDisk[a] \cap LogErrors)]
     /\ IF left = {a}
        THEN Merge(checked \cup {a}, r) /\ TickEnds
        ELSE /\ left' = left \ {a} /\ checked' = checked \cup {a} /\ read' = r
             /\ UNCHANGED <<cacheVars, told, ticking, hidden>>
     /\ UNCHANGED <<diskVars, dismissed, truncated, failures>>

\* Mutant: the flag is reset at the end of tick() but not in a finally block.
CheckFailsTicking ==
  /\ ticking /\ failures < MaxFailures
  /\ failures' = failures + 1
  /\ left' = {} /\ checked' = {}
  /\ UNCHANGED <<diskVars, cacheVars, older, told, ticking, read, history>>

\* Reading an agent throws: a file it has listed is gone, say.  The tick ends
\* and nothing it read is used.
CheckFails ==
  /\ ticking /\ failures < MaxFailures
  /\ failures' = failures + 1
  /\ TickEnds
  /\ UNCHANGED <<diskVars, cacheVars, older, told, history>>

-----------------------------------------------------------------------------
(* The dismissal *)

\* The errors of a in its files, in the cache and in the hands of a tick.
ErrorsOf(a) == onDisk[a] \cup shown[a] \cup read[a].errors

\* Mutant: the agent is not looked up in the cache first.
DismissUnknown(a, emptied) ==
  /\ MayDismiss
  /\ flagged' = flagged \cup {a}
  /\ UNCHANGED <<diskVars, known, level, shown, older, told, tickVars, history, failures>>

\* dismissErrors: every session error so far, and whatever a tick under way has
\* read already, is older than the dismissal.  The log is emptied, unless that
\* fails, which is not reported.  The status is broadcast as it was.
DismissErrors(a, emptied) ==
  /\ MayDismiss
  /\ a \in known
  /\ flagged' = flagged \cup {a}
  /\ shown' = [shown EXCEPT ![a] = {}]
  /\ older' = [older EXCEPT ![a] = (onDisk[a] \cap SessionErrors) \cup read[a].errors]
  /\ onDisk' = [onDisk EXCEPT ![a] = IF emptied THEN @ \ LogErrors ELSE @]
  /\ told' = [told EXCEPT ![a] = level[a]]
  /\ dismissed' = dismissed \cup shown[a]
  /\ truncated' = IF emptied THEN truncated \cup (ErrorsOf(a) \cap LogErrors) ELSE truncated
  /\ hidden' = hidden \ {a}
  /\ UNCHANGED <<present, alive, happened, known, level, tickVars, failures>>

-----------------------------------------------------------------------------
(* The agents' side *)

ErrorOccurs(a, e) ==
  /\ e \notin happened
  /\ happened' = happened \cup {e}
  /\ onDisk' = [onDisk EXCEPT ![a] = @ \cup {e}]
  /\ UNCHANGED <<present, alive, cacheVars, older, told, tickVars, history, failures>>

\* Later entries have pushed an error out of the part of the file that is read,
\* or a session error is a day old.
ErrorAges(a, e) ==
  /\ e \in onDisk[a]
  /\ onDisk' = [onDisk EXCEPT ![a] = @ \ {e}]
  /\ UNCHANGED <<present, alive, happened, cacheVars, older, told, tickVars, history, failures>>

GatewayToggles(a) ==
  /\ a \in Unsteady
  /\ alive' = IF a \in alive THEN alive \ {a} ELSE alive \cup {a}
  /\ UNCHANGED <<present, onDisk, happened, cacheVars, older, told, tickVars, history, failures>>

AgentToggles(a) ==
  /\ a \in Unsteady
  /\ present' = IF a \in present THEN present \ {a} ELSE present \cup {a}
  /\ UNCHANGED <<alive, onDisk, happened, cacheVars, older, told, tickVars, history, failures>>

\* The cache is the dashboard's memory only; clients reconnect and reload.
Restart ==
  /\ MayCrash /\ failures < MaxFailures
  /\ failures' = failures + 1
  /\ known' = {} /\ flagged' = {}
  /\ level' = [a \in Agents |-> "green"]
  /\ shown' = [a \in Agents |-> {}]
  /\ told' = [a \in Agents |-> "none"]
  /\ TickEnds
  /\ hidden' = {}
  /\ UNCHANGED <<diskVars, older, dismissed, truncated>>

Monitor == TickStarts \/ CheckFails \/ \E a \in Agents : Check(a)

Next ==
  \/ Monitor
  \/ \E a \in Agents, emptied \in BOOLEAN : DismissErrors(a, emptied)
  \/ \E a \in Agents : GatewayToggles(a) \/ AgentToggles(a)
  \/ \E a \in Agents, e \in Errors : ErrorOccurs(a, e) \/ ErrorAges(a, e)
  \/ Restart

Spec == Init /\ [][Next]_vars

\* The interval keeps starting ticks, and a probe answers or times out after
\* two seconds.
Fairness ==
  /\ WF_vars(TickStarts)
  /\ \A a \in Agents : WF_vars(Check(a))

FairSpec == Spec /\ Fairness

-----------------------------------------------------------------------------
(* Properties *)

\* A log line from before a dismissal that emptied the log does not come back,
\* not even when a tick had read it before the dismissal and merges it
\* afterwards, and not when another error has cleared the dismissal.
DismissedLinesStayAway == \A a \in Agents : shown[a] \cap truncated = {}

\* The inductive invariant: an error belongs to one agent; truncated lines are
\* neither on disk nor shown, and if a tick under way has read one, the merge
\* will leave it out.
DismissalInv ==
  /\ TypeOK
  /\ truncated \subseteq happened
  /\ \A a \in Agents : ErrorsOf(a) \subseteq happened
  /\ \A a, b \in Agents : a # b => ErrorsOf(a) \cap ErrorsOf(b) = {}
  /\ \A a \in Agents : (onDisk[a] \cup shown[a]) \cap truncated = {}
  /\ \A a \in Agents : \A e \in read[a].errors \cap truncated : a \in flagged /\ e \in older[a]

\* Is the status x as bad as y, or worse?
AsBad(x, y) == x = y \/ (y = "green" /\ x \in Levels) \/ (x = "red" /\ y \in Levels)

\* Through agents that come and go, dismissals in mid-tick and restarts, the
\* clients are never left with a better status of an agent than the cached one;
\* and they have the same one, unless the last they were told counted errors
\* that a dismissal hid from the cache.
ClientsKnowTheWorst ==
  \A a \in known : AsBad(told[a], level[a]) /\ (a \in hidden \/ told[a] = level[a])

\* A session error is shown in the end, unless it ages, its agent disappears
\* or an operator dismisses the errors first.
SessionErrorsSurface ==
  \A a \in Agents, e \in SessionErrors :
    (a \in present /\ e \in onDisk[a])
      ~> (e \in shown[a] \/ e \notin onDisk[a] \/ a \notin present \/ e \in older[a])

(* What the comments say *)

\* The merge keeps "only errors that occurred after the dismiss": nothing an
\* operator has dismissed comes back.
DismissedStayDismissed == \A a \in Agents : shown[a] \cap dismissed = {}
=============================================================================
