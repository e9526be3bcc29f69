# Mission Control: a verification project

Mission Control (`src/`) is a Next.js dashboard over one SQLite file. It keeps a
kanban board of tasks for AI agents, hands the tasks to the agents through their
gateways, has their work judged by a reviewer called Aegis, starts and stops the
gateways, and watches their health. This directory holds TLA+ models of the
parts of it where interleavings, failures and restarts decide whether it is
correct, the TLC configurations that check them, and TLAPS proofs of the most
important results for every value of the constants.

    tlc -config board_races.cfg MCTaskBoard      # one run
    tlapm TaskBoardProofs.tla                    # one module's proofs

Paths below are relative to `src/src/` unless they start with `src/`.

## 1. How the program executes, and what is atomic

One Node process serves every request and runs every timer. `better-sqlite3` is
synchronous, so a statement, a transaction, and in fact all the code between two
`await`s is atomic. An action of a model is therefore *the code of a handler
between two awaits*. What can come in between is everything else: other
requests, a second call of the same function, a restart of the process, and
whatever the outside world (agents, gateways, launchd, the disk) does. Rows
survive a restart; maps on `globalThis`, runs in flight and timers do not; the
gateways are detached processes and do.

## 2. Inventory

| Component | State | Operations | Hard behaviour | What makes it correct | Modelled in |
|---|---|---|---|---|---|
| Task board (`app/api/tasks`, `quality-review`, `lib/task-status.ts`) | `tasks` rows: status, assignee, resolution; `quality_reviews` | create, update, move cards, delete, review, claim from the queue, import and pull from GitHub | each handler has its own gate to *done*, GitHub has none; agents poll while operators edit | nothing becomes done unaccounted for; reviews belong to rows | `TaskBoard` |
| Task dispatch and Aegis review (`lib/task-dispatch.ts`) | a batch and the task being waited for, in local variables | read a batch, mark, ask the gateway, deliver, revert | up to three awaits of two minutes each between reading a row and writing it; failures in mid-batch; a second run from a manual trigger | a task nobody else writes is with one run at a time and where the run left it; no marked task is forgotten; failed work is retried; an approval is of the work the task has | `TaskBoard`, `TaskLease` |
| Agent lifecycle (`lib/agent-lifecycle.ts`, `agents/[id]/start`, `stop`, `force-stop`, locks in `lib/health-monitor.ts`) | lifecycle locks with expiry, background verifications, processes, launchd jobs | start, stop, force-stop, verify, expire | the answer is sent before the verification ends; launchd respawns what exits; locks expire under their holder | one operation per agent, a reported stop is a stop, no agent stays locked | `AgentLifecycle` |
| Health monitor and agent discovery (`lib/health-monitor.ts`, `lib/agent-health.ts`, `lib/agent-discovery.ts`) | cached snapshots, dismissals, the tick's reads | tick, merge, broadcast, dismiss | the tick awaits between agents; a dismissal comes between read and merge; an agent vanishes between ticks | dismissed lines stay away, clients are never told less than is cached, errors surface | `HealthMonitor` |
| Scheduler (`lib/scheduler.ts`) | next run, running and enabled flags per task | tick every 60 s, manual trigger | ticks overtake each other | a task does not overlap itself and keeps its interval | `Scheduler` |
| Projects, tickets, workspaces (`app/api/projects`, `app/api/workspaces`) | rows, ticket counters, project and number of a task | create, patch, archive, delete, move | deletions move numbered tasks and whole projects | a reference names one task; tasks have a project | `Ticketing` |
| Recurring tasks (`lib/recurring-tasks.ts`) | templates, dated children | spawn | due again on the same day | one child per day | `Ticketing` |
| GitHub sync (`lib/github-sync-engine.ts`, `app/api/github`) | issue numbers, sync state | import, pull, push | edits on both sides, times in seconds; writes that ask nobody | done and unreviewed is known as such; tasks without a project are known; no edit is silently lost | status in `TaskBoard`, insertion in `Ticketing`; pushes not (section 7) |
| Pipelines (`app/api/pipelines`, `workflows`) | runs with current step and snapshot of the steps | start, advance, cancel, delete | the spawn is awaited between read and write | every step is begun; closed stays closed | `Pipelines` |
| Webhooks (`lib/webhooks.ts`, `app/api/webhooks`) | hooks, deliveries, retry times, failure counter | fire, retry, retry by hand, trip and reset the breaker, prune | overlapping deliveries share one counter; a restart between clearing and sending | bounded tries, nothing forgotten | `Webhooks` |
| Notifications (`app/api/notifications`) | rows with `delivered_at` | create, deliver in rounds, collect, delete | sent, then marked; rounds overlap | they arrive; repeats are bounded | `Notifications` |
| Rate limiter (`lib/rate-limit.ts`) | counter and end of the window per client | check, clean up | window boundaries | bursts are bounded | `RateLimiter` |
| Event bus and client store (`lib/event-bus.ts`, `app/api/events`, `lib/use-server-events.ts`, `lib/use-smart-poll.ts`, `store/index.ts`, the board panel) | the browser's copy | broadcast, reconnect, poll, fetch, drag | lost and overtaken events, slow fetches, hidden tabs, refused drops | the copy converges | `TaskClient` |
| Files other programs read (`gateway-config`, `exec-approvals`, `cron`) | JSON files | read, change, write | awaits between hash check, truncation and text | no lost update | `ConfigFiles` |
| Skills (`lib/skill-sync.ts`, `app/api/skills`) | files and rows | save, install, check, delete, sync | file and row are written one after the other | rows follow files | `SkillSync` |
| Agent registry (`app/api/agents`, `connect`, `status`, `lib/local-agent-sync.ts`, the heartbeat check) | `agents` and `direct_connections` rows | register, create, delete, connect, heartbeat, sync | many writers of one status with and without `last_seen` | silent agents are offline | `AgentRegistry` |
| Authentication and users (`lib/auth.ts`, `app/api/auth`) | users, sessions, access requests | sign in, create, change, delete, approve | the body is awaited after the role was looked at | somebody can administer | `Accounts` |
| Alerts (`app/api/alerts`) | rules with cooldown | evaluate | none: synchronous | cooldown respected | no |
| Tenant provisioning (`lib/super-admin.ts`) | jobs, approvals | queue, approve, run | it does not run at this commit (section 7) | - | no |
| Chat, gateway sessions, WebSocket client, tokens, memory, documents, security scan, office, panels | files and rows | read, parse, display | - | - | no: I/O, parsing and presentation |
| Database and migrations (`lib/db.ts`, `lib/migrations.ts`) | the file | statements | - | - | as the atomicity of actions |

Interaction: the scheduler calls the two runs of `task-dispatch.ts`, the retries
of webhooks, the heartbeat check, the syncs and the recurring tasks. Dispatch
and review write the rows the REST handlers and the queue write, with nothing
but the status column between them. The lifecycle handlers keep their locks in
the health monitor's singleton. Every change of a task is broadcast on the event
bus, to browsers and to webhooks. `PROJECT.json` lists every component with its
sources, and every hazard with the line where it bites and the properties that
cover it.

## 3. Modules

| Module | What it is |
|---|---|
| `TaskBoard` | the board, its REST handlers, the queue, GitHub, the dispatch and review runs |
| `TaskLease` | what the two runs promise: leases of cards (abstract specification) |
| `TaskBoardProofs`, `TaskLeaseProofs` | sign-off, ownership, marked tasks are served; the board implements the leases, and what the leases come to |
| `AgentLifecycle`, `AgentLifecycleProofs` | locks, verifications, processes, launchd; mutual exclusion, a stop ends the agent |
| `HealthMonitor`, `HealthMonitorProofs` | tick, merge, broadcast, dismissal; dismissals are final, clients know the worst |
| `Ticketing`, `TicketingProofs` | workspaces, projects, tasks with their numbers, recurring tasks, imports and pulls; references and titles are unique, tasks keep a project |
| `Pipelines` | runs and the requests that await a spawn |
| `Accounts` | users, sessions, overlapping requests of administrators |
| `ConfigFiles` | read, change, truncate, write, for three files |
| `WorkProofs` | completed pipelines ran everything and closed ones stay closed, an administrator remains, edits are kept; the types of `MCWork` |
| `Webhooks`, `WebhooksProofs` | deliveries, retries, the circuit breaker; tries are bounded, events remembered |
| `Scheduler` | overlapping ticks |
| `TaskClient`, `RateLimiter`, `Notifications`, `SkillSync`, `AgentRegistry` | one component each, see below |
| `DeliveryProofs` | scheduler, copy of the board, bursts, repeated notifications; the types of `MCDelivery` |
| `MCTaskBoard`, `MCAgentLifecycle`, `MCHealthMonitor` | the model values and symmetry TLC uses |
| `MCWork`, `MCDelivery` | components side by side in one instance |

*Worlds.* The components of `MCWork` (`Ticketing`, `Pipelines`, `ConfigFiles`,
`Accounts`) and those of `MCDelivery` (`Webhooks`, `Scheduler` and the five of one
row above) share no state: they meet in the code only through calls that the models
take as inputs. Their product would multiply state spaces and show nothing more, so
a variable `world` chooses, in the initial state, the one component that moves while
the others stand still. What is checked of a world is exactly what is true of its
component alone; liveness too, because the fairness conditions are those of the
component, guarded by its world. `ConfigFiles` does the same with its variable
`file`.

Operators named as mutants in a comment ("Mutant: ...") are never part of a
specification. Each is a plausible bug in the definition that follows it, and
replacing that definition by it makes a named property fail (`PROJECT.json`,
`mutants`): a property no such change can break would say nothing.

### 3.1 TaskBoard

| Model | Code |
|---|---|
| `rows`, `retired` | ids in `tasks`; `AUTOINCREMENT` never gives one out again, so a late write to a deleted id touches nothing |
| `status`, `assignee` | the columns `status`, `assigned_to` |
| `latest` | the Aegis reviews with the greatest `created_at`: `hasAegisApproval` orders by a column of whole seconds, so two reviews of one second tie and either may be read |
| `serving[d]`, `batch[d]` | the loop variable and the rest of the result set of call `d` of `dispatchAssignedTasks` |
| `judging[r]`, `pending[r]` | the same for `runAegisReviews` |
| `fresh[r]` | tasks whose `resolution` column still holds what `r` read: the only thing the properties need of the text |
| `signoff`, `unreviewed` | history: rows somebody has approved; rows that came to *done* without a review and have been there since |
| `disturbed` | history: tasks a run holds (waits for, or has in its batch) and somebody else has written since that run read them |
| `loose` | history: tasks in a column of work under way that no run put there, or whose run a restart has ended |
| `CreateTask`, `UpdateTask`, `MoveCards`, `DeleteTask` | `POST`/`PUT` `/api/tasks`, `PUT`/`DELETE` `/api/tasks/[id]`, with `normalizeTaskCreateStatus` and `normalizeTaskUpdateStatus` |
| `SubmitReview` | `POST /api/quality-review` |
| `PollQueue` | `GET /api/tasks/queue`: `ContinueCurrent` hands an agent its own task in progress once more, `ClaimTask` claims one |
| `ImportIssue`, `PullNewIssue`, `PullIssue` | `POST /api/github` (action sync) and the two branches of `pullFromGitHub`: what an issue's state and label make of a new or a known row, *done* included |
| `StartDispatch`, `AgentAnswers`, `AgentFails` | the pieces of `dispatchAssignedTasks` between its awaits: each ends one task and marks the next |
| `StartReview`, `AegisVerdict`, `AegisFails` | the same for `runAegisReviews` |
| `Restart` | the process restarts; runs are gone, rows stay |

The two consecutive awaits of a task (`agent`, then `agent.wait`) are one
waiting period: the code between them writes nothing. `Dispatchable` requires a
registered assignee because the query joins `agents`; `IsBatch` is `LIMIT 3`
with the order left open. A failure of the gateway, a timeout and an empty
answer take the same path. A task deleted while it is waited for makes the
recording of its verdict violate the foreign key, which the code catches and
which ends as `AegisFails`.

Nothing is kept from racing: operators, polling agents, GitHub and second runs
write any row at any time, the ones a run holds included, as the code lets them.
No action reads a history variable: what the runs guarantee is said of the tasks
that are not `disturbed`, and a task stops being that only when no run that
held it then holds it any more. The step of a run writes the history in
`RunNoted`, that of a handler in `Noted`.

### 3.2 TaskLease

A card is in a column (or absent); a run leases at most one card. `Move` is
others moving cards: a leased card that they move is *broken* from then on, and
its lease promises nothing until it has ended. `Turn(w)` is run `w` giving its card
back in a column it may deliver to and taking another, which is in the column it
serves and leased by nobody, unless it is broken; what `w` moves and another run
leases is broken for that one. `Drop` is a restart. The mapping: `column[t]` is
`status[t]` for existing rows, `lease[w]` is `serving[w]` or `judging[w]`, `broken`
is `disturbed`. Batches are below this level, which is what makes the refinement
interesting: a run takes from a *batch read several awaits ago*, the lease promises
it took from the *column as it is now*. `LeasesAreExclusive` is what the leases come
to: an unbroken card is leased once and is in the column of work under way.

### 3.3 AgentLifecycle

| Model | Code |
|---|---|
| `lock` | `lifecycleLocks`, action only |
| `holder` | history: the verification that will release the lock, `NoOp` when it gave up or was lost |
| `age`, `waited`, `Tick` | time: `expiresAt` as the age of a lock, and how long each verification has been under way since its lock was taken |
| `work` | the polling loops (`setTimeout` callbacks) a start or stop leaves behind |
| `phase`, `home`, `kept`, `loaded` | the host: processes, which agent's gateway each is, which launchd runs, which jobs are loaded |
| `forced`, `alone` | history: agents a force-stop unlocked under a verification, until no verification of theirs is under way; stops that signalled the only process there was |
| `Start`, `StartSeen`, `StartGivesUp` | `POST start` and the two ends of its verification |
| `Stop`, `StopSeen`, `StopGivesUp` | `POST stop`; giving up leaves the lock so that force-stop can use it |
| `ForceStop` | `POST force-stop`: accepts a stop's lock, kills what it finds (SIGKILL), releases whatever lock there is |
| `FindAgentPid` | `findAgentPid`: by port, by command line, otherwise *any* gateway without a port: agents in `Bare` |
| `CleanExpiredLock` | `cleanExpiredLocks`, called by everything that asks for a lock |
| `Boot`, `Exit`, `KeepAlive`, `Restart` | the host: a launch script takes time to bring its gateway up (`SlowBoot`), processes end, launchd respawns; the dashboard restarts and forgets locks and verifications |

A lock lasts `LockTimeout`, a verification ends `StartWait` or `StopWait` after the
lock was taken, and that both are less than `LockTimeout` is an assumption of the
module (`LifecycleAssumption`), not something the code enforces. The constants in the
code are 30 s, and 15 s or 10 s of polling with up to a second for the last poll; but
a stop runs `lsof`, `pgrep`, `ps` and `launchctl` first, with time-outs of 25 s
together, so the assumption is that these answer in less than 19 s (section 6).

Actions that refuse (409) or fail after taking the lock give it back before any
await, so they are stuttering steps and do not appear. Pids are not reused.

### 3.4 HealthMonitor

`TickStarts`, `Check(a)` and `CheckFails` are `tick()` up to, between and out of
its awaits; the last `Check` merges. `Merge` translates the loop over the new
snapshots: `Broadcast` compares the *unfiltered* status with the cached one,
then `Kept` filters dismissed errors and the status is recomputed. Times are
replaced by what they decide: `older[a]` holds the errors, as last read, that a
dismissal covers. A session error carries its own time, a log line counts as
happening when it is read, so reading it again takes it out of `older`. Of the
health dimensions process and errors are kept; channels depend on the process,
and last activity is left out. A dismissal
empties the log, or does not: the failed truncation is caught and only logged
(`lib/health-monitor.ts:187`). `told[a]` is the status a client that has heard every
broadcast shows. History: `dismissed` is what operators dismissed, `truncated` the
log lines from before a dismissal that emptied the log, `hidden` the agents of which
the clients were last told with errors that the merge then left out. The
configurations and gateways of the agents in `Unsteady` come and go; `Restart`
empties the cache, which lives in memory.

### 3.5 Ticketing

`spaces`, `projects`/`project`, `tasks`/`task` are the rows of three tables; ids
only grow (`AUTOINCREMENT`). A handler that reads the body first and then runs a
transaction is one action. `Resolves` is `resolveProjectId`: the project asked for,
else 'general', else the oldest active one. `Bump` is the `ticket_counter =
ticket_counter + 1` of the transaction that inserts or moves a task. `Spawn` is one
template of `spawnRecurringTasks`, with the look for a child of the same dated
title; `day` is what `formatDateSuffix` prints. A pull from GitHub awaits the issues
with its project in hand: `PullStarts` has read it, `PullInserts` writes rows with
what it read. `ImportTask` is the insertion of an issue by `POST /api/github`, in
the caller's workspace and without project or number. The three history variables
mark the tasks the properties except: `displaced` (came to 'general' with their old
number), `untitled` (their title was never compared), `orphaned` (brought by GitHub
without a project or into one that was gone, and children of such).

### 3.6 Pipelines

`StartPipeline` and `Advance` run up to the await of the spawn and keep in `call`
what they will write afterwards; `SpawnReturns` writes it over the row, whatever
the row says by then: an `advance` moves `current_step`, a `start` does not.
Without a template nothing is awaited. `begun` remembers the steps that were begun.

### 3.7 ConfigFiles

`Change` is the code between the read and the write of a request; `OpenFile` and
`WriteText` are the two halves of `writeFile`, which empties a file before it
fills it. A text shorter than what another writer has left in the meantime leaves
an unreadable end. A file of the gateway is a value per root key, of the
approvals a list per agent, of cron a job per name. `Hashed` says whether requests
send the hash of what they have read, which is optional: both kinds in `work`, only
those that send it in `config_lost`.

### 3.8 Accounts

`Authenticate` is `getUserFromRequest` with the look at the role; the second
half of a request (`CreateUserAs`, `UpdateUserAs`, `DeleteUserAs`, `Approve`,
`Reject`) follows the await of its body and acts in the name of the user found
before. `Key` acts for an API key, which is nobody in particular, so the guards
against changing oneself do not hold it back. `NoRole` is the empty role, which
`UpdateUserAs` lets through for oneself because both checks begin with `role &&`.

### 3.9 Scheduler

`TickBegins(k)` and `RunEnds(k)` are the pieces of `tick()` between its awaits; a
tick keeps the `now` it began with. Nothing stops the timer from starting a tick
while another awaits, so two are under way whenever a task takes more than a
minute, which a dispatch does. The manual trigger looks at none of this state and
changes none; what it does to the board is the second dispatch run of `TaskBoard`.

### 3.10 Webhooks

`Record` is what `deliverWebhook` writes after its await: the row, the failure
counter, the breaker, the pruning to the newest rows. `RetriesBegin` is
`processWebhookRetries` up to its first await (it reads what is due and clears
`next_retry_at` of all of it), `RetryEnds` one delivery of the batch. `tries`,
`received` and `lost` are history.

### 3.11 TaskClient

`server` is the table, `wire` the events between `broadcast` and `dispatch`, `view`
the store's `tasks`. `Poll` is the interval of `useSmartPoll`, paused while the
stream is up; `FetchReads` and `FetchSets` are the two ends of `fetchData`.
A fetch asks for the tasks of one project, or of all, and gets the newest fifty:
`Left` are the tasks it may leave out for that, `Listed` the others, and events tell of
both. `Hide` and `Show` are the tab: polls pause while it is hidden, and showing it
polls at once unless the stream is up. `DragStart`, `Drop`, `DropLands`, `DropReverts`
are a card under the user's mouse.
`stale`, `sound` and `clean` are history: they say when nothing was lost or
overtaken since the last fetch, which is when the copy can be asked to converge.

### 3.12 The small ones

`RateLimiter`: `CheckRateLimit` and `Cleanup` as written, on a clock of a few
instants. `Notifications`: `RoundBegins` reads the batch and passes over
recipients without a session key, `SendEnds` is the end of one await. The gateway
may take a message whose answer is an error, late or lost: `heard` are the rows of
which an acceptance was heard, `again` counts the sends that ended after that, each of
which it may have taken. `SkillSync`:
requests write the file and then the row (`WriteFile`, `WriteRow`), `Followed` is
what `syncSkillsFromDisk` makes of a row. `AgentRegistry`: every statement that
writes `agents.status` or `last_seen`; of a status only "offline or not" is kept,
and times are ages in four classes, as the check and the sync tell them apart.

## 4. Runs

Twelve runs: seven must pass, five show a disagreement between the code and
what its own comments or documents say.

| Run | Instance | Question and result |
|---|---|---|
| `board_races` | 2 tasks, 1 agent, 1+1 runs, everybody writes everything, GitHub included, restarts | **passes**: no task is done that nobody signed off, unless it was created or closed on GitHub so; no review outlives its task; the board implements `TaskLease` |
| `board_overlap` | 2 tasks, 1 agent, 2+1 runs, the same writers, restarts | **passes**: a task only its run has written since the run read it is where the run expects it and with that run alone; every task a run has marked is waited for |
| `board_live` | 2 tasks, 2 agents of which 1 is registered, fairness | **passes**: assigned work is delivered, delivered work is judged |
| `board_redispatch` | 2 dispatch runs | **violated** `DispatchTakesAssigned`: a manual trigger beside the tick hands a task out twice (`lib/task-dispatch.ts:320`) |
| `board_rejected` | 1 task, fairness | **violated** `RejectedWorkIsDispatched`: rejected work waits in a column no run reads (`lib/task-dispatch.ts:233`, `:242`) |
| `board_unseen` | 1 task | **violated** `ApprovalsAreOfTheResolution`: a `PUT` replaces the resolution while Aegis judges the one before, which is then approved (`lib/task-dispatch.ts:223`, `:150`) |
| `life` | 2 agents (one under launchd, one whose gateway cannot be told apart), 2 verifications, 3 processes, a lock of 2 ticks over verifications of 1, force-stops, slow boots, crashes, restarts, fairness | **passes**: an operation holds its agent's lock and is alone until a force-stop takes the lock away; a stop that signalled all there was leaves nothing running; no agent stays locked |
| `health` | 2 agents (one unsteady), 1 error of each kind, dismissals whose truncation may fail, 1 failing tick or restart, fairness | **passes**: a log line from before a dismissal that emptied the log never returns, clients are never told less than is cached, session errors surface |
| `health_return` | 2 session errors | **violated** `DismissedStayDismissed`: a new error clears the dismissal and the old ones return (`lib/health-monitor.ts:123`) |
| `work` | worlds of `MCWork` | **passes**: see below |
| `config_lost` | 1 file of 2 keys, 2 requests that send the hash | **violated** `HashedEditsSeeWhatTheyReplace`: two requests with one hash both pass the check, and the second overwrites the first (`app/api/gateway-config/route.ts:142`, `:148`) |
| `delivery` | worlds of `MCDelivery`, fairness | **passes**: see below |

What `work` asks of each world:

| World | Instance | Properties |
|---|---|---|
| ticketing | 2 workspaces, 2 projects ever, 3 tasks ever, 2 tickets per project, 2 prefixes, 2 slugs, 2 dates | `TicketNamesOneTask`: a reference names one task through creation, moves, renames and deletions; `TasksHaveAProject`, but for what GitHub brings without one; `TitlesAreUnique`: a template due again makes no second child |
| pipelines | 1 run of 3 steps (the second stops on failure), 2 requests in flight | `CompletedRunsRanEverything`; `ClosedRunsStayClosed` |
| files | 2 entries, 2 requests in flight, each of the three files | `EditsAddUp`: requests that do not overlap lose nothing, and a finished file is readable |
| accounts | 2 users, 2 roles, 2 requests in flight, 1 Google address, the empty role | `AnAdminRemains`, but for the four ways in which the handlers let the last one go |

What `delivery` asks of each world:

| World | Instance | Properties |
|---|---|---|
| webhooks | 1 hook, 2 events, 2 tries, 3 rows kept, 2 overlapping retry runs, 1 retry by hand, 1 restart | `TriesAreBounded`: no retry is sent twice by overlapping runs; `EventsAreNotForgotten`: received, tried `MaxRetries` times or waiting |
| client | 1 card, 2 columns, 2 overlapping fetches, 3 changes or drags, the stream breaks once, the tab is hidden and shown, no task left out | `EventsCatchUp`: events under way bring the copy to the table; `PollsCatchUp`: without a stream the polls do, in a tab that is not hidden |
| scheduler | 3 tasks, one due every second minute, one switched on and off, 3 overlapping ticks, 5 minutes | `OneTickPerTask`, `RunsAreSpaced` |
| limiter | window of 2, quota of 2, 6 instants | `BurstsAreBounded`: never more than twice the quota, less one, in a window's length |
| notify | an agent and a person without a session, 3 rows, rounds of 2, 2 overlapping rounds, restarts | `RepeatsAreBounded`: after an answer was heard, fewer sends than rounds; `NotesArrive`, unless rows nobody can deliver fill the rounds |
| skills | 1 skill, 2 contents, 2 requests, 4 edits | `RowsFollowFiles` |
| agents | 2 agents, 2 connections, 3 reports | `SilentAgentsGoOffline`: in the end, however they were registered or connected |

**Bounds and why they are enough.** Two tasks make a batch with a rest, which is
what goes stale; a third adds no new relation between a run and a task. One dispatch
and one review run are what the scheduler has; `board_overlap` and
`board_redispatch` have a second dispatch run, whose bodies and labels in
`board_overlap` name the one column a dispatch reads. `MoveCards`, reviews and polls
bring tasks to the others. What the theorems say is for any number of either.
`BatchLimit` is 2 (3 in the code), so a batch can be full. `AskStatus` keeps the
columns that a guard distinguishes; a request for another column behaves like one of
them. Three processes let launchd respawn a gateway during and after a stop while
another start is under way. Two verifications are what two operators have in flight
on one agent. One tick stands for the fifteen seconds of a start's verification: the
lock is there for a second one. `MaxFailures` is the number of exceptions and
restarts: one reaches every state a failing tick can leave behind.

In `work`, three tasks allow a template, its child and a task that a pull or a move
puts beside them; two projects a move between them and the loss of one; two requests
are the least that overlap, and each property is about pairs of them. Imports are
into the default workspace, come while no pull awaits and leave room for one more
task: each would multiply states that differ in one more task without a project. A
pull begins while there is room for the task it may insert, and `OneTemplate` of
`MCWork` keeps to one recurring template at a time, the one whose children `SpawnAgain`
doubles; that bound is the instance's, the theorems about `Ticketing` have no such limit.
`MaxTickets` bounds the counters, so a run of the model ends where numbers do. In
`delivery`, two events and three rows make the pruning meet a row that is still due;
two overlapping retry runs meet one row; three ticks are enough for one to be
overtaken twice. `Left` is empty in the instance, so every task is one the
properties speak of; the theorem `CopiesCatchUp` is for any. `MaxChanges`,
`MaxReports`, `MaxEdits`, `MaxManual`, `MaxRestarts` and `MaxDrops` bound what the
environment does, never what the component does in response; after the last of them
the component is left alone, and that is what "in the end" means in the liveness
properties. `CHECK_DEADLOCK FALSE` appears where a finite supply of ids, pids or
work runs out and the system rightly stops; the health runs check for deadlock.
`SYMMETRY` (of tasks and runs on the board; of dates and of requests of
administrators in `work`) is used in runs of invariants and action properties only.

**Fairness.** `AutomationSpec`: weak fairness of each run, because the scheduler
comes back every 60 s and every await has a time-out (12 s and 125 s); strong
fairness of success per task, because a gateway that is asked again and again
does not refuse for ever: without it nothing could be delivered, and the code
makes no promise then. `FairSpec` of the lifecycle: time passes, a verification polls every
second and gives up after a fixed number of polls; `acquireLock` and
`getLock` clean expired locks first, so an expired lock is free for whoever
asks next, which the model says as weak fairness of its cleaning. `FairSpec` of
the monitor: the interval keeps starting ticks and a probe answers or times out
after two seconds. `DeliverySpec`: the interval of `useSmartPoll` fires while the
stream is down and requests are answered or fail; the notification daemon begins
a round every minute, and the gateway accepts what it is sent again and again
(strong fairness, as above); the scheduler runs the sync of skills and the check
of heartbeats, which is assumed not to be switched off (section 6); requests that
await end; time passes. No fairness is assumed of
operators, agents, crashes, launchd, or of a stream coming back.

## 5. Theorems

| Theorem | Establishes | Assuming |
|---|---|---|
| `TaskBoardProofs!TypeCorrect` | `TypeOK` of the board | - |
| `DoneNeedsSignOff` | `DoneIsSignedOff`, `ReviewsBelongToRows` | - |
| `RunsOwn` | `RunsOwnTheirTasks` | - |
| `MarkedAreServed` | `MarkedTasksAreServed` | - |
| `BoardImplementsLease` | `ImplementsLease`: the refinement | - |
| `LeasesExclude` | `TaskLease!LeasesAreExclusive`, of every behaviour of the leases | - |
| `LifecycleTyped` | `TypeOK` of the lifecycle | - |
| `LocksHold`, `LocksExclude` | `VerificationHoldsLock`, `OneOperationPerAgent` | a verification ends before its lock expires (`LifecycleAssumption`) |
| `StopsEndAgents` | `StopMeansDown` | the same |
| `HealthMonitorProofs!TypeCorrect`, `DismissalsAreFinal`, `ClientsAreTold` | `TypeOK`, `DismissedLinesStayAway`, `ClientsKnowTheWorst` | - |
| `ReferenceNamesOneTask` | `TicketNamesOneTask` | - |
| `TitlesStayUnique`, `TasksKeepAProject` | `TitlesAreUnique`, `TasksHaveAProject` | - |
| `CompletedRuns`, `ClosedRuns` | `CompletedRunsRanEverything`, `ClosedRunsStayClosed` | - |
| `AdminRemains` | `AnAdminRemains` | - |
| `EditsAreKept` | `EditsAddUp` | - |
| `WorkTyped` | `WorkTypeOK`: the four of `MCWork`, side by side | - |
| `TriesStayBounded`, `EventsStayRemembered` | `TriesAreBounded`, `EventsAreNotForgotten` | - |
| `NoTaskTwice`, `NoTaskTooSoon` | `OneTickPerTask`, `RunsAreSpaced` | - |
| `CopiesCatchUp` | `EventsCatchUp` | - |
| `BurstsStayBounded` | `BurstsAreBounded` | - |
| `RepeatsStayBounded` | `RepeatsAreBounded`, `HeardIsMarked` | - |
| `DeliveryTyped` | `DeliveryTypeOK`: the seven of `MCDelivery`, side by side | - |

Each holds for every value of the constants that the module's `ASSUME` allows;
but for the one in the table, those only say that model values are distinct, that
sets of entries and rounds are finite or parts of others, and that bounds are
numbers. TLC evaluates them in every run. No theorem assumes that somebody keeps off
what somebody else is working on: where the code lets writers collide, the property
itself names the tasks, agents or requests it is not about.

*Two shapes.* The board has many writers and two kinds of step: a handler writes some
tasks and leaves the runs alone (`Handled`), and a run takes a turn, giving one task
back and taking another (`Turned`, `Ready`). `HandlersHandle`, `DispatcherTurns` and
`ReviewerTurns` show each action to have one of the shapes, with the history it
writes; what follows is proved of the shapes.

*Sign-off.* `DoneIsSignedOff` is not inductive: a `PUT` to done reads `latest`,
so one has to know that an approval found there was signed off
(`ApprovalsAreSignedOff`), and a deleted row must not keep reviews for that.
`SignOffInv` is the conjunction. A step that makes a task done either records who
answers for it, reads an approval that was answered for, or, in a creation or an
issue of GitHub, notes that nobody has.

*Ownership.* `RunsInv` is `TypeOK`, `RunsOwnTheirTasks` and `BatchesShrink`: what a run
takes up has left its batch. A handler keeps it because what it writes and a run holds
is disturbed (`HandlersSpareRuns`); a turn because it notes what it moves and another
run holds, and because what a run drops from `disturbed` is held by nobody else
(`TurnsSpareRuns`). Dispatch and review runs never want the same undisturbed task, as
their columns differ, so they can be treated at once (`Owned`, `OwnedIsRunsInv`).

*Served.* `MarkedTasksAreServed` is inductive beside the types: a handler that puts a
task under way makes it loose, a turn either takes it out of the columns of work
under way or notes it as sent back, and takes up what it then serves.

*Refinement.* A step of a run is a `Turn` (`TurnsAreTurns`), every other step a `Move`
that breaks what it writes under a lease (`HandlersMove`), a restart is `Drop`. That a
turn takes an unbroken card out of the column it serves and from nobody is `RunsInv`:
the batch may be old, but a task nobody has disturbed is where it was.
`LeasesExclude` is about the abstract level alone: whatever implements the leases,
the board included, has it.

*Locks.* `LockInv`: a verification under way is its lock's holder, and the lock is as
old as the verification (`LockIsYoung`), unless a force-stop took the lock. A release
deletes the agent's lock whoever has it, so the proof shows that the releasing
verification is the holder (`EndHolds`), that a lock and its verification age together
(`TickHolds`), and hence that what expires has no holder (`ExpiryHolds`).

*Stops.* `StopMeansDown` speaks of the step in which a stop reports success, so
the invariant has to say what is true all the time before: while a stop that
signalled the only process of its agent is verified, nothing else of the agent
comes to life. `DownInv` adds this (`StillDown`) to `LockInv`: a start is kept out
by the lock, launchd because the stop has unloaded the job.

*Dismissals and broadcasts.* `DismissalInv` relates disk, cache, the tick's reads
and the dismissal: an error belongs to one agent; a truncated line is neither on
disk nor shown; and if a tick has read it, its agent is flagged and the error is
older than the dismissal, so the merge drops it. `ClientsKnowTheWorst` is inductive
beside the types: the merge broadcasts of all errors and caches of some of them
(`FewerErrors`, `MergeTells`), and what it leaves out makes the agent `hidden`.

*Tickets.* `TicketInv`: prefixes and slugs tell projects of a workspace apart
(`ProjectsDiffer`, which is the two UNIQUE constraints and survives the merging
of workspaces because a clash fails the transaction); a number on a task is at
most its project's counter (`NumbersAreGiven`) and given once (`NumbersDiffer`);
no task is of a project to come (`ProjectsAreOld`), or a new project would start
with foreign numbers. Displaced tasks are excepted in each.

*Pipelines.* `BegunInv`: wherever the row or a waiting request is, all steps up
to there have been begun. Late answers may move a run back, never beyond.

*Administrators.* `AccountsInv` adds that whoever acts in a request is known to
have been an administrator when it was authenticated; the change it makes leaves
that user the role, so one remains unless the history says otherwise.

*Scheduler.* `SchedulerInv`: the running mark is set exactly while a tick awaits
the task, `nextRun` is beyond every start by the interval when it is not, and the
start a tick awaits is the latest.

*Titles and projects.* A spawn looks for its dated title in the transaction that
inserts, so `TitlesAreUnique` is inductive beside `TicketInv`. An import compares no titles,
so what it brings is excepted, like the renamed. `HomeInv` adds to
`TasksHaveAProject` that projects belong to workspaces that exist and that a pull
may be left over from one that does not (`SpacesAreKnown`).

*Files.* `FilesInv`: while nothing disturbs, one request is under way, what it is
about to write is what all edits make (`OneEditAtATime`), and the file is empty
exactly while it writes. `JobsAreOnOrOff` keeps two toggles of a job apart from
none, and a missing file has no entry.

*Webhooks.* For a hook and an event, `tries` is compared with what the places a
delivery can wait in say: a row that is due, a post in the air, a batch of a retry
run (`Counted`), and it waits in one of them only (`InOnePlace`), or two of them
would both post it. `WebhooksInv` is these with `Remembered`, pair by pair. What
`Record` does to a table of rows, pruning included, is described once
(`RecordEffect`, `RowsFollow`).

*The copy.* `EventsCatchUp` says of `After`, which applies the events on their way
one by one, that it ends at the server's rows. `Leads(w, i, X, s, lo, hi)` says the
same without recursion: a copy that has card `i` in the columns `X` has it in `s`
alone after events `lo` to `hi`, because the last event that moves it says so, or
because none moves it and it is there. One event changes `Leads` by one position
(`LeadsApplied`), one more on the wire by another (`LeadsOn`), and `After` follows
by taking the least position where it would not. `ClientInv` states `Leads` for the
rows (`WireIsSound`: past `stale`, the last event that an unannounced change
outdates), for what fetches have read (`ReadsAreSound`) and for the copy
(`CopyIsSound`). A card that was dropped and is not yet answered is excepted, as it
is in the property, and the invariant says instead what a revert needs: unless an
event touched the card, the column it came from still leads to the server's.

*Bursts.* `QuotaKept`: the window has let through what its counter says, and the
stretch before it less than the quota, because the request that opened the window
before is out of reach by the time the next one opens. Two windows make the bound.

*Notifications.* `RepeatsInv`: a row that was heard of is marked, or gone; the sends
that ended since then and the rounds that still hold the row are together fewer than
the rounds there are, since the round that heard has let go of it and a round takes up
only what is not marked.

*Side by side.* `WorkTyped` and `DeliveryTyped` take the invariants of the components
together (`Together`, `SideBySide`): a step is one of one component, and the others
stand still, so each lemma about a component's step applies as it is.

Only model-checked: liveness (`AssignedWorkIsDelivered`, `DeliveredWorkIsJudged`,
`LocksAreReleased`, `SessionErrorsSurface`, `PollsCatchUp`, `NotesArrive`,
`RowsFollowFiles`, `SilentAgentsGoOffline`), which with ENABLED is beyond the
prover. Every invariant and every action property of a passing run is proved. The
five runs that find a violation show what the code does, and nothing is proved of
them. No module declares a RECURSIVE operator: `After` is a recursive function, and
that it is one (`AfterRuns`) is proved from the runs of finite length by taking
least counterexamples, not by induction over data.

## 6. What the code does that its words do not say

Held by a run, with the quoted line in `PROJECT.json`: `board_redispatch`,
`board_rejected`, `board_unseen`, `health_return`, `config_lost`.

Read in the source while modelling, and visible in one or two calls, so that no
run is spent on them; where a model covers the code, it behaves like the code.

*Board.*
- `src/README.md:31` says Aegis "blocks task completion without sign-off". Only
  the two `PUT` handlers ask for its approval: `POST /api/tasks` creates a task
  as done, `POST /api/quality-review` closes one on the approval of any reviewer, and
  GitHub asks nobody: an import inserts a closed issue as done
  (`app/api/github/route.ts:148`), a pull inserts or overwrites a task as done when
  the issue is closed or has the label of that status
  (`lib/github-sync-engine.ts:182`, `:224`). `DoneIsSignedOff` is therefore about
  *somebody's* sign-off, and excepts what was created done or closed on GitHub for
  as long as it stays done.
- A run writes its task whatever has become of it: a task that an operator moves,
  reassigns or closes while its agent or Aegis is asked is overwritten, and a closed
  one reopened (`lib/task-dispatch.ts:404`, `:223`); a task of the batch that an agent
  has claimed meanwhile is handed out again (`:322`).
- The queue hands an agent its task in progress once more (`continue_current`,
  `app/api/tasks/queue/route.ts:76`), also when a dispatch run is waiting for that very
  agent to answer about that very task, so the work may be done twice.
- Reviews close tasks without `completed_at` (`lib/task-dispatch.ts:223`,
  `app/api/quality-review/route.ts:109`).
- `updateTaskSchema` is `createTaskSchema.partial()` (`lib/validation.ts:51`) and
  keeps the defaults, so a `PUT` without a status moves the task to the inbox, the
  branch for an omitted status in `lib/task-status.ts:22` is not reached from that
  handler, and a `PUT` without metadata erases a template's recurrence.
- A task whose run is lost to a restart stays in `in_progress` or
  `quality_review`; no run reads these columns.

*Lifecycle and health.*
- A start releases its lock as soon as the launch script is seen; while the
  script is still booting the pre-check of a second start ("is agent already
  running?", `agents/[id]/start/route.ts:50`) finds nothing and starts another.
- A lock expires after 30 s whoever holds it (`lib/health-monitor.ts:229`). The
  verification of a stop begins after commands with time-outs of up to 25 s together
  (`lib/agent-lifecycle.ts:24`, `:205`) and polls for 10 s, so on a host where they are
  that slow it may outlive its lock, and an operation on the same agent may begin
  beside it. The models assume that the commands answer in time.
- A force-stop releases the lock of a stop whose verification is still running
  (`agents/[id]/force-stop/route.ts:83`); the next operation then overlaps it, and
  the verification releases that operation's lock.
- `findAgentPid` falls back to any gateway without a port
  (`lib/agent-lifecycle.ts:55`), so a stop may signal another agent's gateway.
- An agent of launchd that was also started from the dashboard has two
  gateways, and a stop of one reports success.
- The status is broadcast before dismissed errors are filtered
  (`lib/health-monitor.ts:89`), and a dismissal broadcasts the old one. After a
  dismissal in mid-tick, or of session errors that are still in their files, the
  clients therefore show red or yellow while the cache is green, and as ticks compare
  with the cache, they go on doing so until the status changes.
- A dismissal whose truncation of the log fails is answered as a success, and "errors
  may reappear", as the log says (`lib/health-monitor.ts:187`).

*Tickets, templates, GitHub.*
- A new workspace has no 'general' project; deleting a workspace strands its tasks,
  and the sessions of its users go on naming it.
- A `PATCH` of the project 'general' reads the body twice and always fails
  (`app/api/projects/[id]/route.ts:118`).
- Deleting a project gives its tasks to 'general' with the numbers they had.
- A recurring child is recognised by its title, which has day and month but no year.
- An import from `POST /api/github` inserts tasks without project or number
  (`app/api/github/route.ts:158`), which the board shows without a reference until
  somebody gives them a project, and does not find what a pull has inserted.
- A pull writes into a project that was deleted while it awaited. A failed pull
  still moves `last_synced_at`. Edits on GitHub within ten seconds of a sync are
  skipped and then lie before the next `since`. Two pushes of an unlinked task
  create two issues; a push that awaits its issue and a pull make two tasks of one;
  a late push makes older content look newer than a local edit.

*Runs, hooks, files, skills.*
- The answer of a pipeline's start or advance writes an old snapshot over a newer
  or closed run (`app/api/pipelines/run/route.ts:279`).
- A success in flight resets a hook's failures after the breaker has tripped, and
  the hook stays disabled; the rest of a batch of retries goes on after a disable; a
  restart loses the retries that were cleared (`lib/webhooks.ts:329`).
- Two hashed `PUT`s are both accepted; overlapping writes may leave text nobody can
  parse, a restart between truncation and text an empty file; adding a job to an
  unreadable cron file starts a new one and drops every other job.
- A skill keeps its `security_status` when its content changes; a deletion in
  flight removes the row of the same skill installed again; the registry's install
  target `openclaw` is not among the synced sources.

*Notifications and clients.*
- Rows for recipients without a session key are read again in every round and, when
  there are as many as the limit, nothing else is delivered
  (`app/api/notifications/deliver/route.ts:42`); overlapping rounds send duplicates; and
  a message whose acceptance is not heard of (a time-out, `:93`, or a restart) is sent
  again in every round, without bound.
- No fetch follows a reconnect of the stream, so what was missed is not seen until
  the next refresh; a slow fetch overwrites newer events; `addTask` does not look
  for the task; a refused drop reverts to the column remembered when it began.
- The board's fetch asks for one project, if one is chosen, and gets the newest fifty
  tasks, while events tell of every task: one of another project, or an older one, is
  on the board after its event and not after the next fetch. A hidden tab polls nothing.
- The counters of the rate limiter do not survive a restart.

*Users and agents.*
- Two administrators who act at once can delete or demote each other
  (`app/api/auth/users/route.ts:89`, `:153`). Approving a request for access changes
  the role of a known user, even the approver's own
  (`app/api/auth/access-requests/route.ts:106`), which the `PUT` refuses ("Cannot
  change your own role"). An administrator can withdraw the own approval, and
  lose the role by sending an empty one: the check "Prevent demoting yourself"
  (`app/api/auth/users/route.ts:100`) begins with `role &&`, and `updateUser` writes any
  role that is not undefined (`lib/auth.ts:300`).
- `POST /api/connect` sets an agent online without `last_seen`, so the next check
  takes it offline while its connection stays up. `GET /api/status` writes times of
  sessions over a newer `last_seen` (`app/api/status/route.ts:353`).
- `PUT /api/agents/[id]` writes back a role and configuration read before its await
  when the gateway refuses (`app/api/agents/[id]/route.ts:131`).
- `agents.name` is UNIQUE over all workspaces but looked up within one.
- A setting switches the heartbeat check off, although `lib/scheduler.ts:346` says
  "heartbeat is always enabled".

## 7. Not modelled, and why

- **Panels, office, dashboard** (`components/`, most of `store/`): presentation, the
  larger part of the source by lines. The board's data flow is in `TaskClient`;
  the store's other slices repeat its pattern.
- **Chat, gateway sessions, tokens, memory, documents, security scan, injection
  guard**: reading, parsing and formatting of files, one request at a time.
- **WebSocket client and `agent-sync.ts`**: stubs at this commit.
- **Tenant provisioning**: does not run at this commit. Its statements name
  `nanobot_home` (`lib/super-admin.ts:230`, `:281`), the migrations create
  `openclaw_home` (`lib/migrations.ts:292`), so a job can be neither created nor read.
- **Pushes to GitHub, and which side of a pull wins**: that depends on times in
  whole seconds, and every property worth stating fails in the ways section 6 lists.
  What a pull may write to the board, at any time, is modelled.
- **Alerts, tenants, token accounting**: synchronous, without state between calls
  that a property could be about.
- **Texts**: souls, configurations, comments, descriptions, schedules. A schedule is
  "due at some time", a back-off "some time later".

Assumptions of the models: the body of a request has been read when an action
begins, except in `Accounts`, where that await is what matters; one workspace on
the board; `completed_at` is written by the handlers but read by none that moves a
task, and is left out; the caller of a handler is authorised; webhook rows of one second are
pruned in the order of their insertion; ids, pids, connections and e-mail
addresses are not reused; writes of one file empty it and fill it in one piece
each; the events a process broadcasts reach a connected client in order.
