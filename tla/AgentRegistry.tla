--------------------------- MODULE AgentRegistry ---------------------------
(***************************************************************************)
(* The rows of agents and their status, which many write: operators, the   *)
(* agents themselves, command line tools that connect, the files of local  *)
(* agents, the sessions seen on disk, and a check that takes agents nobody *)
(* has heard of for offline.  Of a status it is kept whether it is offline *)
(* or not.                                                                 *)
(*                                                                         *)
(* Times are ages: 0 is less than five minutes, 1 less than ten, 2 less    *)
(* than an hour and 3 longer; ten minutes is the default of the check.     *)
(***************************************************************************)
EXTENDS Naturals

CONSTANTS
  Agents,    \* names; a name is UNIQUE
  Links,     \* direct connections, whose ids are never used again
  MaxReports \* bound: how often something is heard of agents or done to them

ASSUME RegistryAssumption == MaxReports \in Nat

VARIABLES
  registered, \* rows of agents
  awake,      \* those with a status other than 'offline'
  lastSeen,   \* lastSeen[a]: age of last_seen, or Never for NULL
  local,      \* rows whose source is 'local'
  link,       \* link[c]: the row of connection c: its agent and whether it is up
  creating,   \* names whose creation awaits the provisioning of a workspace
  removing,   \* rows whose deletion awaits the removal of the workspace
  onDisk,     \* agents whose files are in a scanned directory
  session,    \* session[a]: age of a's latest session on disk, or Never
  reports     \* bound

registryVars ==
  <<registered, awake, lastSeen, local, link, creating, removing, onDisk, session, reports>>

Ages   == 0..3
Never  == 4
NoLink == [agent |-> "none", up |-> FALSE]

\* An agent has one active connection at a time.
RegistryTypeOK ==
  /\ awake \subseteq registered /\ local \subseteq registered /\ registered \subseteq Agents
  /\ lastSeen \in [Agents -> Ages \cup {Never}]
  /\ link \in [Links -> [agent : Agents \cup {"none"}, up : BOOLEAN]]
  /\ \A c \in Links : link[c] = NoLink \/ link[c].agent \in registered
  /\ \A c, d \in Links : link[c].up /\ link[d] = link[c] => c = d
  /\ creating \subseteq Agents /\ removing \subseteq registered
  /\ onDisk \subseteq Agents
  /\ session \in [Agents -> Ages \cup {Never}]
  /\ reports \in 0..MaxReports

RegistryInit ==
  /\ registered = {} /\ awake = {} /\ local = {}
  /\ lastSeen = [a \in Agents |-> Never]
  /\ link = [c \in Links |-> NoLink]
  /\ creating = {} /\ removing = {}
  /\ onDisk = {}
  /\ session = [a \in Agents |-> Never]
  /\ reports = 0

Reported == reports < MaxReports /\ reports' = reports + 1

\* Row a gets a status, and last_seen if the statement sets it.
Set(a, on, age) ==
  /\ registered' = registered \cup {a}
  /\ awake' = IF on THEN awake \cup {a} ELSE awake \ {a}
  /\ lastSeen' = [lastSeen EXCEPT ![a] = age]

-----------------------------------------------------------------------------
(* Operators *)

\* POST /api/agents up to the await of the provisioning.
CreateBegins(a) ==
  /\ a \notin registered \cup creating
  /\ creating' = creating \cup {a} /\ Reported
  /\ UNCHANGED <<registered, awake, lastSeen, local, link, removing, onDisk, session>>

\* The row gets whatever status was asked for and no last_seen; if the name has
\* been taken meanwhile, or the provisioning failed, there is no new row.
CreateEnds(a, on) ==
  /\ a \in creating
  /\ creating' = creating \ {a}
  /\ \/ a \notin registered /\ Set(a, on, Never)
     \/ UNCHANGED <<registered, awake, lastSeen>>
  /\ UNCHANGED <<local, link, removing, onDisk, session, reports>>

PutStatus(a, on) ==
  /\ a \in registered /\ Reported
  /\ Set(a, on, 0)
  /\ UNCHANGED <<local, link, creating, removing, onDisk, session>>

\* The gateway has taken the message, however long that took.
Wake(a) == PutStatus(a, TRUE)

\* DELETE /api/agents/[id] up to the await.
DeleteBegins(a) ==
  /\ a \in registered \ removing
  /\ removing' = removing \cup {a}
  /\ UNCHANGED <<registered, awake, lastSeen, local, link, creating, onDisk, session, reports>>

\* The row goes, and its connections with it; other deletions of it find nothing.
DeleteEnds(a) ==
  /\ a \in removing
  /\ removing' = removing \ {a}
  /\ \/ /\ registered' = registered \ {a} /\ awake' = awake \ {a} /\ local' = local \ {a}
        /\ lastSeen' = [lastSeen EXCEPT ![a] = Never]
        /\ link' = [c \in Links |-> IF link[c].agent = a THEN NoLink ELSE link[c]]
     \/ UNCHANGED <<registered, awake, local, lastSeen, link>>
  /\ UNCHANGED <<creating, onDisk, session, reports>>

-----------------------------------------------------------------------------
(* The agents *)

Register(a) ==
  /\ Reported
  /\ Set(a, TRUE, 0)
  /\ UNCHANGED <<local, link, creating, removing, onDisk, session>>

\* The heartbeat over a connection notes the time there, which nobody reads.
Heartbeat(a) ==
  /\ a \in registered /\ Reported
  /\ Set(a, TRUE, 0)
  /\ UNCHANGED <<local, link, creating, removing, onDisk, session>>

\* Mutant: the connection there was is left up.
ConnectToolBeside(a, c) ==
  /\ link[c] = NoLink /\ Reported
  /\ Set(a, TRUE, IF a \in registered THEN lastSeen[a] ELSE Never)
  /\ link' = [link EXCEPT ![c] = [agent |-> a, up |-> TRUE]]
  /\ UNCHANGED <<local, creating, removing, onDisk, session>>

\* POST /api/connect does not touch last_seen.
ConnectTool(a, c) ==
  /\ link[c] = NoLink /\ Reported
  /\ Set(a, TRUE, IF a \in registered THEN lastSeen[a] ELSE Never)
  /\ link' = [d \in Links |->
       IF d = c THEN [agent |-> a, up |-> TRUE]
       ELSE IF link[d].agent = a THEN [link[d] EXCEPT !.up = FALSE] ELSE link[d]]
  /\ UNCHANGED <<local, creating, removing, onDisk, session>>

\* Any connection may be closed, even one that has been replaced.
DisconnectTool(c) ==
  /\ link[c] # NoLink
  /\ link' = [link EXCEPT ![c].up = FALSE]
  /\ awake' = IF \E d \in Links \ {c} : link[d].agent = link[c].agent /\ link[d].up
              THEN awake ELSE awake \ {link[c].agent}
  /\ UNCHANGED <<registered, lastSeen, local, creating, removing, onDisk, session, reports>>

\* A session on disk is written, and files of local agents come and go.
SessionActs(a) ==
  /\ Reported
  /\ session' = [session EXCEPT ![a] = 0]
  /\ UNCHANGED <<registered, awake, lastSeen, local, link, creating, removing, onDisk>>

FilesChange(a) ==
  /\ Reported
  /\ onDisk' = (onDisk \ {a}) \cup ({a} \ onDisk)
  /\ UNCHANGED <<registered, awake, lastSeen, local, link, creating, removing, session>>

-----------------------------------------------------------------------------
(* What goes on by itself *)

\* GET /api/status writes what the sessions say, older or not than what is known.
SyncStatuses ==
  LET seen == {a \in registered : session[a] # Never}
  IN /\ awake' = (awake \ seen) \cup {a \in seen : session[a] < 3}
     /\ lastSeen' = [a \in Agents |-> IF a \in seen THEN session[a] ELSE lastSeen[a]]
     /\ UNCHANGED <<registered, local, link, creating, removing, onDisk, session, reports>>

\* syncLocalAgents adds rows, adopts others, and those that have vanished are offline.
SyncLocalAgents ==
  /\ registered' = registered \cup onDisk
  /\ local' = local \cup onDisk
  /\ awake' = awake \ (local \ onDisk)
  /\ UNCHANGED <<lastSeen, link, creating, removing, onDisk, session, reports>>

\* Mutant: a row without last_seen is passed over.
StaleIfSeen == {a \in awake : lastSeen[a] \in {2, 3}}

Stale == {a \in awake : lastSeen[a] >= 2}

RunHeartbeatCheck ==
  /\ awake' = awake \ Stale
  /\ UNCHANGED <<registered, lastSeen, local, link, creating, removing, onDisk, session, reports>>

Older(age) == IF age \in 0..2 THEN age + 1 ELSE age

AgesGrow ==
  /\ lastSeen' = [a \in Agents |-> Older(lastSeen[a])]
  /\ session' = [a \in Agents |-> Older(session[a])]
  /\ UNCHANGED <<registered, awake, local, link, creating, removing, onDisk, reports>>

RegistryNext ==
  \/ \E a \in Agents, on \in BOOLEAN : CreateEnds(a, on) \/ PutStatus(a, on)
  \/ \E a \in Agents : CreateBegins(a) \/ Wake(a) \/ DeleteBegins(a) \/ DeleteEnds(a)
  \/ \E a \in Agents : Register(a) \/ Heartbeat(a) \/ SessionActs(a) \/ FilesChange(a)
  \/ \E c \in Links : DisconnectTool(c) \/ \E a \in Agents : ConnectTool(a, c)
  \/ SyncStatuses \/ SyncLocalAgents \/ RunHeartbeatCheck \/ AgesGrow

\* The scheduler runs the check every five minutes, and requests end.
RegistryFairness ==
  /\ WF_registryVars(RunHeartbeatCheck) /\ WF_registryVars(AgesGrow)
  /\ \A a \in Agents : WF_registryVars(\E on \in BOOLEAN : CreateEnds(a, on))

RegistrySpec == RegistryInit /\ [][RegistryNext]_registryVars /\ RegistryFairness

-----------------------------------------------------------------------------
(* Properties *)

\* When nothing is heard of any agent any more, all of them are offline in the
\* end, however they were created and connected, and although requests for the
\* status go on and write again what old sessions say.
SilentAgentsGoOffline == <>[](awake = {})
=============================================================================
