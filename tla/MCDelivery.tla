----------------------------- MODULE MCDelivery -----------------------------
(***************************************************************************)
(* Components that share no state, in one instance: each behaviour is one  *)
(* of one of them, chosen at the start, while the others stand still.      *)
(***************************************************************************)
EXTENDS Webhooks, TaskClient, Scheduler, RateLimiter, Notifications, SkillSync,
  AgentRegistry, TLC

CONSTANT Worlds
VARIABLE world

deliveryVars ==
  <<world, webhookVars, clientVars, schedulerVars, limiterVars, notifyVars, skillVars,
    registryVars>>

DeliveryInit ==
  /\ world \in Worlds
  /\ WebhooksInit /\ ClientInit /\ SchedulerInit /\ LimiterInit /\ NotificationsInit
  /\ SkillsInit /\ RegistryInit

Only(w, next) == world = w /\ next /\ UNCHANGED world

\* What the components of the other worlds hold.
NotWebhooks ==
  <<clientVars, schedulerVars, limiterVars, notifyVars, skillVars, registryVars>>
NotClient   ==
  <<webhookVars, schedulerVars, limiterVars, notifyVars, skillVars, registryVars>>
NotTicks    ==
  <<webhookVars, clientVars, limiterVars, notifyVars, skillVars, registryVars>>
NotLimiter  ==
  <<webhookVars, clientVars, schedulerVars, notifyVars, skillVars, registryVars>>
NotNotify   ==
  <<webhookVars, clientVars, schedulerVars, limiterVars, skillVars, registryVars>>
NotSkills   ==
  <<webhookVars, clientVars, schedulerVars, limiterVars, notifyVars, registryVars>>
NotRegistry ==
  <<webhookVars, clientVars, schedulerVars, limiterVars, notifyVars, skillVars>>

DeliveryNext ==
  \/ Only("webhooks", WebhooksNext) /\ UNCHANGED NotWebhooks
  \/ Only("client", ClientNext) /\ UNCHANGED NotClient
  \/ Only("scheduler", SchedulerNext) /\ UNCHANGED NotTicks
  \/ Only("limiter", LimiterNext) /\ UNCHANGED NotLimiter
  \/ Only("notify", NotificationsNext) /\ UNCHANGED NotNotify
  \/ Only("skills", SkillsNext) /\ UNCHANGED NotSkills
  \/ Only("agents", RegistryNext) /\ UNCHANGED NotRegistry

\* While the stream is down the interval keeps polling, and every request is
\* answered or times out.  The daemon begins a round every minute, and the gateway
\* accepts what it is sent again and again.  The scheduler runs the sync of skills
\* and the check of heartbeats, and creations of agents end.
DeliveryFairness ==
  /\ \A f \in Fetches :
       /\ WF_clientVars(world = "client" /\ Poll(f))
       /\ WF_clientVars(world = "client" /\ FetchReads(f))
       /\ WF_clientVars(world = "client" /\ FetchSets(f))
  /\ WF_clientVars(world = "client" /\ (DropLands \/ DropRefused))
  /\ WF_clientVars(world = "client" /\ (DropDone \/ DropReverts))
  /\ WF_notifyVars(world = "notify" /\ RoundBegins(Daemon, Recipients))
  /\ SF_notifyVars(world = "notify" /\ SendEnds(Daemon, TRUE))
  /\ WF_skillVars(world = "skills" /\ SyncSkills)
  /\ \A w \in Savers : WF_skillVars(world = "skills" /\ (WriteRow(w) \/ RowNotWritten(w)))
  /\ WF_registryVars(world = "agents" /\ RunHeartbeatCheck)
  /\ WF_registryVars(world = "agents" /\ AgesGrow)
  /\ \A a \in Agents : WF_registryVars(world = "agents" /\ \E up \in BOOLEAN : CreateEnds(a, up))

DeliverySpec == DeliveryInit /\ [][DeliveryNext]_deliveryVars /\ DeliveryFairness

\* Every variable of every component has its type.
DeliveryTypeOK ==
  /\ WebhooksTypeOK /\ ClientTypeOK /\ SchedulerTypeOK /\ LimiterTypeOK
  /\ NotificationsTypeOK /\ SkillsTypeOK /\ RegistryTypeOK
=============================================================================
