----------------------------- MODULE TaskBoard -----------------------------
(***************************************************************************)
(* The kanban board of Mission Control: the rows of the tasks table, the   *)
(* quality_reviews a row has collected, and everybody who writes them:     *)
(*   - the REST handlers under src/src/app/api/tasks and quality-review;   *)
(*   - the agents that poll /api/tasks/queue;                              *)
(*   - GitHub: issues that are imported or pulled over existing tasks;     *)
(*   - dispatchAssignedTasks, which hands assigned tasks to agents;        *)
(*   - runAegisReviews, which has Aegis judge what the agents delivered.   *)
(*                                                                         *)
(* A REST handler runs to completion between two awaits (better-sqlite3 is *)
(* synchronous), so it is one action.  A dispatch or a review run awaits   *)
(* the gateway once per task of its batch; each action of a run is the     *)
(* code between two of those awaits: the end of one task and the start of  *)
(* the next.  Anything may happen to the rows in between: nothing keeps    *)
(* anybody from writing a task that a run holds, or a second run from      *)
(* reading it into its batch.                                              *)
(***************************************************************************)
EXTENDS Naturals, FiniteSets

CONSTANTS
  Tasks,         \* row ids; AUTOINCREMENT never gives an id out twice
  Agents,        \* names a task can be assigned to
  Registered,    \* the names that have a row in the agents table
  Unassigned,    \* assigned_to IS NULL
  Blank,         \* assigned_to = '', which PUT accepts and SQL tells from NULL
  Nobody,        \* the current task of a run between two calls
  DispatchRuns,  \* concurrent calls of dispatchAssignedTasks: the scheduler's
                 \* tick is one, each POST /api/scheduler may be one more
  ReviewRuns,    \* concurrent calls of runAegisReviews, likewise
  BatchLimit,    \* LIMIT of the two batch queries (3 in the code)
  AskStatus,     \* bound: the statuses request bodies and labels name
  AskAssignee    \* bound: the assignees request bodies name

ASSUME BoardAssumption ==
  /\ Registered \subseteq Agents
  /\ Unassigned \notin Agents /\ Blank \notin Agents /\ Unassigned # Blank
  /\ Nobody \notin Tasks
  /\ DispatchRuns \cap ReviewRuns = {}
  /\ BatchLimit \in Nat \ {0}
  /\ AskStatus \subseteq {"inbox", "assigned", "in_progress", "review", "quality_review", "done"}
  /\ AskAssignee \subseteq Agents \cup {Unassigned, Blank}

VARIABLES
  rows,        \* the ids with a row
  retired,     \* the ids whose row was deleted
  status,      \* status column
  assignee,    \* assigned_to column
  latest,      \* verdicts of the aegis reviews with the greatest created_at;
               \* the column counts seconds, so there may be two of them
  signoff,     \* history: has anybody approved the row?
  unreviewed,  \* history: the tasks that came to done without a review, created
               \* so or closed on GitHub, and have been there ever since
  serving,     \* serving[d]: the task run d is waiting for an agent on
  batch,       \* batch[d]: the rest of the batch d read at its start
  judging,     \* judging[r]: the task run r is waiting for a verdict on
  pending,     \* pending[r]: the rest of the batch r read at its start
  fresh,       \* fresh[r]: tasks whose resolution is still the one r read
  disturbed,   \* history: tasks that somebody else has written since a run that
               \* still holds them read them
  loose        \* history: tasks in the column of work under way that no run put
               \* there, or whose run a restart has ended

rowVars    == <<rows, retired, status, assignee>>
reviewVars == <<latest, signoff>>
runVars    == <<serving, batch, judging, pending>>
noteVars   == <<unreviewed, disturbed, loose>>
vars       == <<rowVars, reviewVars, runVars, fresh, noteVars>>

Statuses  == {"inbox", "assigned", "in_progress", "review", "quality_review", "done"}
Verdicts  == {"approved", "rejected"}
Assignees == Agents \cup {Unassigned, Blank}

TypeOK ==
  /\ rows \subseteq Tasks
  /\ retired \subseteq Tasks
  /\ rows \cap retired = {}
  /\ status    \in [Tasks -> Statuses]
  /\ assignee  \in [Tasks -> Assignees]
  /\ latest    \in [Tasks -> SUBSET Verdicts]
  /\ signoff   \in [Tasks -> BOOLEAN]
  /\ serving   \in [DispatchRuns -> Tasks \cup {Nobody}]
  /\ batch     \in [DispatchRuns -> SUBSET Tasks]
  /\ judging   \in [ReviewRuns -> Tasks \cup {Nobody}]
  /\ pending   \in [ReviewRuns -> SUBSET Tasks]
  /\ fresh     \in [ReviewRuns -> SUBSET Tasks]
  /\ unreviewed \subseteq Tasks /\ disturbed \subseteq Tasks /\ loose \subseteq Tasks

Init ==
  /\ rows = {} /\ retired = {}
  /\ status    = [t \in Tasks |-> "inbox"]
  /\ assignee  = [t \in Tasks |-> Unassigned]
  /\ latest    = [t \in Tasks |-> {}]
  /\ signoff   = [t \in Tasks |-> FALSE]
  /\ serving   = [d \in DispatchRuns |-> Nobody]
  /\ batch     = [d \in DispatchRuns |-> {}]
  /\ judging   = [r \in ReviewRuns |-> Nobody]
  /\ pending   = [r \in ReviewRuns |-> {}]
  /\ fresh     = [r \in ReviewRuns |-> {}]
  /\ unreviewed = {} /\ disturbed = {} /\ loose = {}

-----------------------------------------------------------------------------
(* Helpers *)

\* UPDATE tasks SET col = v WHERE id IN S: rows that are gone stay as they are.
Write(col, S, v) == [t \in Tasks |-> IF t \in S \cap rows THEN v ELSE col[t]]

Runs == DispatchRuns \cup ReviewRuns

\* The tasks run w has current or still in its batch.
HeldBy(w) == Tasks \cap
  (IF w \in DispatchRuns THEN {serving[w]} \cup batch[w] ELSE {judging[w]} \cup pending[w])

\* Those that any of the runs S holds.
Held(S) == {t \in Tasks : \E w \in S : t \in HeldBy(w)}

UnderWay == {"in_progress", "quality_review"}

\* History, when a handler has written the tasks S and put those in closed to
\* done with no review.
Noted(S, closed) ==
  /\ unreviewed' = (unreviewed \ S) \cup closed
  /\ disturbed' = disturbed \cup (S \cap Held(Runs))
  /\ loose' = (loose \ S) \cup {t \in S : status'[t] \in UnderWay}

\* History, when run w has written the tasks S, sent those in back to their
\* agent and holds rest from here on.
RunNoted(w, S, back, rest) ==
  LET others == Held(Runs \ {w}) IN
  /\ unreviewed' = unreviewed \ S
  /\ disturbed' = (disturbed \cup (S \cap others)) \cap (others \cup rest)
  /\ loose' = (loose \ S) \cup back

HasAssignee(a) == a \in Agents

\* task-status.ts: status of a new row.
NormalizeTaskCreateStatus(requested, a) ==
  IF requested = "inbox" /\ HasAssignee(a) THEN "assigned" ELSE requested

\* Mutant: any review by aegis opens the gate.
ReviewedAtAll(t) == latest[t] # {}

\* The latest aegis row approves.  Two rows of the same second tie, and the
\* query returns either: approval is possible when one of them approves and
\* certain when none rejects.
MayBeApproved(t)   == "approved" \in latest[t]

\* What inserting an aegis review with verdict v does to the latest ones: it
\* falls in a later second, or in the same one.
AfterReview(t, v) == {{v}, latest[t] \cup {v}}

\* t gets a new resolution, which no run in flight has read.
NewResolution(t) == fresh' = [r \in ReviewRuns |-> fresh[r] \ {t}]

-----------------------------------------------------------------------------
(* Operators and agents: the REST handlers *)

\* POST /api/tasks.  Any status may be asked for, done included.  A child of a
\* recurring task is inserted in the same way, as assigned or inbox.
CreateTask(t, requested, a) ==
  /\ t \notin rows \cup retired
  /\ rows' = rows \cup {t}
  /\ status'    = [status EXCEPT ![t] = NormalizeTaskCreateStatus(requested, a)]
  /\ assignee'  = [assignee EXCEPT ![t] = a]
  /\ Noted({t}, IF requested = "done" THEN {t} ELSE {})
  /\ UNCHANGED <<retired, reviewVars, runVars, fresh>>

\* The status a PUT body asks for once updateTaskSchema has parsed it: partial()
\* keeps the default of the create schema, so an omitted status is "inbox".
ParsedStatus(requested) == IF requested = "omitted" THEN "inbox" ELSE requested

\* task-status.ts: the status an update writes; "unchanged" leaves the column.
NormalizeTaskUpdateStatus(current, requested, a, provided) ==
  CASE requested # "omitted"                                  -> requested
    [] requested = "omitted" /\ provided
         /\ HasAssignee(a) /\ current = "inbox"               -> "assigned"
    [] requested = "omitted" /\ provided
         /\ ~HasAssignee(a) /\ current = "assigned"           -> "inbox"
    [] OTHER                                                  -> "unchanged"

\* PUT /api/tasks/[id].  a is the new assignee, or "same" when the body has
\* none; newWork says whether the body carries a resolution.
UpdateTask(t, requested, a, newWork) ==
  LET wanted == NormalizeTaskUpdateStatus(status[t], ParsedStatus(requested), a, a # "same")
  IN
  /\ t \in rows
  /\ wanted = "done" => MayBeApproved(t)
  /\ status'    = [status EXCEPT ![t] = IF wanted = "unchanged" THEN @ ELSE wanted]
  /\ assignee'  = [assignee EXCEPT ![t] = IF a = "same" THEN @ ELSE a]
  /\ IF newWork THEN NewResolution(t) ELSE UNCHANGED fresh
  /\ Noted({t}, {})
  /\ UNCHANGED <<rows, retired, reviewVars, runVars>>

\* PUT /api/tasks: move several cards in one transaction.  One card that may
\* not become done throws, which rolls the whole request back.
MoveCards(S, target) ==
  /\ S # {} /\ S \subseteq rows
  /\ \A t \in S : target[t] = "done" => MayBeApproved(t)
  /\ status'    = [t \in Tasks |-> IF t \in S THEN target[t] ELSE status[t]]
  /\ Noted(S, {})
  /\ UNCHANGED <<rows, retired, assignee, reviewVars, runVars, fresh>>

\* Mutant: the row is only marked.
DeleteTaskSoftly(t) ==
  /\ t \in rows
  /\ retired' = retired \cup {t}
  /\ latest' = [latest EXCEPT ![t] = {}]
  /\ UNCHANGED <<rows, status, assignee, signoff, runVars, fresh>>
  /\ Noted({t}, {})

\* DELETE /api/tasks/[id]; the reviews go with the row (ON DELETE CASCADE).
DeleteTask(t) ==
  /\ t \in rows
  /\ rows' = rows \ {t}
  /\ retired' = retired \cup {t}
  /\ latest' = [latest EXCEPT ![t] = {}]
  /\ UNCHANGED <<status, assignee, signoff, runVars, fresh>>
  /\ Noted({t}, {})

\* POST /api/quality-review: any reviewer name, whatever the task's status.
SubmitReview(t, reviewer, verdict) ==
  /\ t \in rows
  /\ IF reviewer = "aegis"
       THEN \E l \in AfterReview(t, verdict) : latest' = [latest EXCEPT ![t] = l]
       ELSE UNCHANGED latest
  /\ status' = [status EXCEPT ![t] = IF verdict = "approved" THEN "done" ELSE "in_progress"]
  /\ signoff'  = [signoff EXCEPT ![t] = @ \/ verdict = "approved"]
  /\ Noted({t}, {})
  /\ UNCHANGED <<rows, retired, assignee, runVars, fresh>>

\* GET /api/tasks/queue, for an agent without a task in progress: it claims one.
\* Which of the candidates comes first (priority, due date, age) is left open.
ClaimTask(a, t) ==
  /\ ~ \E u \in rows : assignee[u] = a /\ status[u] = "in_progress"
  /\ t \in rows
  /\ status[t] \in {"assigned", "inbox"}
  /\ assignee[t] \in {Unassigned, a}
  /\ status'   = [status EXCEPT ![t] = "in_progress"]
  /\ assignee' = [assignee EXCEPT ![t] = a]
  /\ Noted({t}, {})
  /\ UNCHANGED <<rows, retired, reviewVars, runVars, fresh>>

\* The same, for an agent with a task in progress: it is handed that task again,
\* the one a dispatch run waits for included, and nothing changes.
ContinueCurrent(a, t) ==
  /\ t \in rows /\ assignee[t] = a /\ status[t] = "in_progress"
  /\ UNCHANGED vars

PollQueue(a, t) == ContinueCurrent(a, t) \/ ClaimTask(a, t)

-----------------------------------------------------------------------------
(* GitHub.  The issues are awaited, then each is written in one step. *)

\* A row for an issue without one.
InsertIssue(t, column, a, closed) ==
  /\ t \notin rows \cup retired
  /\ rows' = rows \cup {t}
  /\ status'    = [status EXCEPT ![t] = column]
  /\ assignee'  = [assignee EXCEPT ![t] = a]
  /\ Noted({t}, closed)
  /\ UNCHANGED <<retired, reviewVars, runVars, fresh>>

\* POST /api/github, action sync: a closed issue becomes a done task, another
\* one goes to the inbox, whoever it is assigned to.
ImportIssue(t, state, a) ==
  IF state = "closed" THEN InsertIssue(t, "done", a, {t}) ELSE InsertIssue(t, "inbox", a, {})

\* pullFromGitHub finds an issue without a task.  A label names the status of an
\* open one, done like any other.
PullNewIssue(t, state, label) ==
  LET column == IF state = "closed" THEN "done" ELSE label IN
  InsertIssue(t, column, Unassigned, IF column = "done" THEN {t} ELSE {})

\* pullFromGitHub finds a newer issue of a task and writes it over the row,
\* without a look at reviews.  An open issue without a label keeps the status.
PullIssue(t, state, label) ==
  LET column == CASE state = "closed"  -> "done"
                  [] label = "none"    -> status[t]
                  [] OTHER             -> label
  IN
  /\ t \in rows
  /\ status' = [status EXCEPT ![t] = column]
  /\ Noted({t}, IF column = "done" /\ (status[t] # "done" \/ t \in unreviewed) THEN {t} ELSE {})
  /\ UNCHANGED <<rows, retired, assignee, reviewVars, runVars, fresh>>

-----------------------------------------------------------------------------
(* dispatchAssignedTasks *)

Dispatchable == {t \in rows : status[t] = "assigned" /\ assignee[t] \in Registered}

\* A batch the query may return: up to the limit, in an order left open.
IsBatch(S, candidates) ==
  /\ S \subseteq candidates
  /\ Cardinality(S) <= BatchLimit
  /\ S = candidates \/ Cardinality(S) = BatchLimit

\* Take the next task of the batch, rest, or finish.  The row is marked whatever
\* has become of it since the batch was read.
ServeNext(d, rest, column) ==
  IF rest = {}
    THEN /\ status' = column
         /\ serving' = [serving EXCEPT ![d] = Nobody]
         /\ batch' = [batch EXCEPT ![d] = {}]
         /\ RunNoted(d, {serving[d]}, {}, {})
    ELSE \E t \in rest :
         /\ status' = Write(column, {t}, "in_progress")
         /\ serving' = [serving EXCEPT ![d] = t]
         /\ batch' = [batch EXCEPT ![d] = rest \ {t}]
         /\ RunNoted(d, {serving[d], t}, {}, rest)

\* The batch query and the first task, up to the first await.
StartDispatch(d) ==
  /\ serving[d] = Nobody
  /\ Dispatchable # {}
  /\ \E S \in SUBSET Dispatchable : IsBatch(S, Dispatchable) /\ ServeNext(d, S, status)
  /\ UNCHANGED <<rows, retired, assignee, reviewVars, judging, pending, fresh>>

\* The agent answered: the answer becomes the resolution and the task goes to
\* review; then the next task.  (Commenting on a row that is gone throws, and
\* the revert that follows touches no row either.)
AgentAnswers(d) ==
  /\ serving[d] # Nobody
  /\ NewResolution(serving[d])
  /\ ServeNext(d, batch[d], Write(status, {serving[d]}, "review"))
  /\ UNCHANGED <<rows, retired, assignee, latest, signoff, judging, pending>>

\* Mutant: a failure is logged and the task stays in progress.
AgentFailsQuietly(d) ==
  /\ serving[d] # Nobody
  /\ ServeNext(d, batch[d], status)
  /\ UNCHANGED <<rows, retired, assignee, reviewVars, judging, pending, fresh>>

\* The gateway refused, timed out or answered nothing: back to assigned.
AgentFails(d) ==
  /\ serving[d] # Nobody
  /\ ServeNext(d, batch[d], Write(status, {serving[d]}, "assigned"))
  /\ UNCHANGED <<rows, retired, assignee, reviewVars, judging, pending, fresh>>

-----------------------------------------------------------------------------
(* runAegisReviews *)

Reviewable == {t \in rows : status[t] = "review"}

\* Mutant: the task is not moved while Aegis looks at it.
JudgeNextInPlace(r, rest, column, back) ==
  IF rest = {}
    THEN /\ status' = column
         /\ judging' = [judging EXCEPT ![r] = Nobody]
         /\ pending' = [pending EXCEPT ![r] = {}]
         /\ RunNoted(r, {judging[r]}, back, {})
    ELSE \E t \in rest :
         /\ status' = column
         /\ judging' = [judging EXCEPT ![r] = t]
         /\ pending' = [pending EXCEPT ![r] = rest \ {t}]
         /\ RunNoted(r, {judging[r], t}, back, rest)

\* Take the next task of the batch, rest, or finish; back are the tasks the run
\* has just sent back to their agent.
JudgeNext(r, rest, column, back) ==
  IF rest = {}
    THEN /\ status' = column
         /\ judging' = [judging EXCEPT ![r] = Nobody]
         /\ pending' = [pending EXCEPT ![r] = {}]
         /\ RunNoted(r, {judging[r]}, back, {})
    ELSE \E t \in rest :
         /\ status' = Write(column, {t}, "quality_review")
         /\ judging' = [judging EXCEPT ![r] = t]
         /\ pending' = [pending EXCEPT ![r] = rest \ {t}]
         /\ RunNoted(r, {judging[r], t}, back, rest)

\* The batch query reads the resolutions it will have judged.
StartReview(r) ==
  /\ judging[r] = Nobody
  /\ Reviewable # {}
  /\ \E S \in SUBSET Reviewable :
       /\ IsBatch(S, Reviewable)
       /\ JudgeNext(r, S, status, {})
       /\ fresh' = [fresh EXCEPT ![r] = S]
  /\ UNCHANGED <<rows, retired, assignee, reviewVars, serving, batch>>

\* Mutant: the verdict is recorded without the foreign key.
AegisVerdictUnchecked(r, verdict) ==
  LET t == judging[r] IN
  /\ t # Nobody
  /\ \E l \in AfterReview(t, verdict) : latest' = [latest EXCEPT ![t] = l]
  /\ signoff'  = [signoff EXCEPT ![t] = @ \/ verdict = "approved"]
  /\ JudgeNext(r, pending[r],
       Write(status, {t}, IF verdict = "approved" THEN "done" ELSE "in_progress"),
       IF verdict = "approved" THEN {} ELSE {t})
  /\ UNCHANGED <<rows, retired, assignee, serving, batch, fresh>>

\* Aegis answered: record the verdict, then move the task whatever its status
\* has become.
AegisVerdict(r, verdict) ==
  LET t == judging[r] IN
  /\ t # Nobody /\ t \in rows
  /\ \E l \in AfterReview(t, verdict) : latest' = [latest EXCEPT ![t] = l]
  /\ signoff'  = [signoff EXCEPT ![t] = @ \/ verdict = "approved"]
  /\ JudgeNext(r, pending[r],
       Write(status, {t}, IF verdict = "approved" THEN "done" ELSE "in_progress"),
       IF verdict = "approved" THEN {} ELSE {t})
  /\ UNCHANGED <<rows, retired, assignee, serving, batch, fresh>>

\* Mutant: a failed review is logged and the task stays in quality review.
AegisFailsQuietly(r) ==
  /\ judging[r] # Nobody
  /\ JudgeNext(r, pending[r], status, {})
  /\ UNCHANGED <<rows, retired, assignee, reviewVars, serving, batch, fresh>>

\* No answer, or the row is gone and recording the verdict violates the foreign
\* key: the row, if there is one, goes back to review.
AegisFails(r) ==
  /\ judging[r] # Nobody
  /\ JudgeNext(r, pending[r], Write(status, {judging[r]}, "review"), {})
  /\ UNCHANGED <<rows, retired, assignee, reviewVars, serving, batch, fresh>>

-----------------------------------------------------------------------------
\* The process restarts: runs live in memory only, rows stay as they were.
Restart ==
  /\ \/ \E d \in DispatchRuns : serving[d] # Nobody
     \/ \E r \in ReviewRuns : judging[r] # Nobody
  /\ serving' = [d \in DispatchRuns |-> Nobody]
  /\ batch'   = [d \in DispatchRuns |-> {}]
  /\ judging' = [r \in ReviewRuns |-> Nobody]
  /\ pending' = [r \in ReviewRuns |-> {}]
  /\ fresh'   = [r \in ReviewRuns |-> {}]
  /\ disturbed' = {}
  /\ loose' = {t \in Tasks : status[t] \in UnderWay}
  /\ UNCHANGED <<rowVars, reviewVars, unreviewed>>

Operator ==
  \/ \E t \in Tasks, s \in AskStatus, a \in AskAssignee : CreateTask(t, s, a)
  \/ \E t \in Tasks, s \in AskStatus \cup {"omitted"},
        a \in (AskAssignee \ {Unassigned}) \cup {"same"}, w \in BOOLEAN :
       UpdateTask(t, s, a, w)
  \/ \E S \in SUBSET Tasks : \E target \in [S -> AskStatus] : MoveCards(S, target)
  \/ \E t \in Tasks : DeleteTask(t)
  \/ \E t \in Tasks, who \in {"aegis", "someone"}, v \in Verdicts : SubmitReview(t, who, v)

GitHub ==
  \E t \in Tasks, state \in {"open", "closed"} :
    \/ \E a \in AskAssignee : ImportIssue(t, state, a)
    \/ \E label \in AskStatus : PullNewIssue(t, state, label)
    \/ \E label \in AskStatus \cup {"none"} : PullIssue(t, state, label)

Dispatcher(d) == StartDispatch(d) \/ AgentAnswers(d) \/ AgentFails(d)

Reviewer(r) ==
  StartReview(r) \/ (\E v \in Verdicts : AegisVerdict(r, v)) \/ AegisFails(r)

Next ==
  \/ Operator
  \/ GitHub
  \/ \E a \in Agents, t \in Tasks : PollQueue(a, t)
  \/ \E d \in DispatchRuns : Dispatcher(d)
  \/ \E r \in ReviewRuns : Reviewer(r)
  \/ Restart

Spec == Init /\ [][Next]_vars

\* The scheduler at work while operators only add tasks.
AutomationNext ==
  \/ \E t \in Tasks, s \in AskStatus, a \in AskAssignee : CreateTask(t, s, a)
  \/ \E d \in DispatchRuns : Dispatcher(d)
  \/ \E r \in ReviewRuns : Reviewer(r)

\* The tick comes back every 60 seconds, so a batch is read whenever there is
\* one to read; every await ends (runOpenClaw has a timeout), so a run always
\* moves on; and a gateway that is asked about the same task over and over
\* does not fail each time.
AutomationFairness ==
  /\ \A d \in DispatchRuns :
       /\ WF_vars(Dispatcher(d))
       /\ \A t \in Tasks : SF_vars(serving[d] = t /\ AgentAnswers(d))
  /\ \A r \in ReviewRuns :
       /\ WF_vars(Reviewer(r))
       /\ \A t \in Tasks : SF_vars(judging[r] = t /\ \E v \in Verdicts : AegisVerdict(r, v))

AutomationSpec == Init /\ [][AutomationNext]_vars /\ AutomationFairness

-----------------------------------------------------------------------------
(* Properties: whoever writes, whenever, and however many runs there are *)

\* No task is done without a sign-off, unless it came to done with none, by
\* POST or from GitHub, and has been there ever since.  Neither PUT handler opens
\* a door of its own, whatever late verdict or tie of two verdicts it reads, and
\* a task that leaves done comes back reviewed.
DoneIsSignedOff == \A t \in rows : status[t] = "done" => signoff[t] \/ t \in unreviewed

\* A verdict that arrives after its task was deleted leaves nothing behind.
ReviewsBelongToRows == \A t \in Tasks : latest[t] # {} => t \in rows

\* An approval the PUT handlers may read is one somebody answered for.
ApprovalsAreSignedOff == \A t \in Tasks : "approved" \in latest[t] => signoff[t]

\* The inductive invariant behind DoneIsSignedOff.
SignOffInv == TypeOK /\ DoneIsSignedOff /\ ReviewsBelongToRows /\ ApprovalsAreSignedOff

\* What a run waits for is in the column the run put it in and no other run waits
\* for it, and what the run will come to is where the run found it, unless somebody
\* else - an operator, an agent, GitHub, another run - has written that very task
\* in the meantime.
RunsOwnTheirTasks ==
  /\ \A d \in DispatchRuns :
       /\ serving[d] \notin disturbed \cup {Nobody} =>
            /\ serving[d] \in rows /\ status[serving[d]] = "in_progress"
            /\ \A e \in DispatchRuns \ {d} : serving[e] # serving[d]
       /\ \A t \in batch[d] \ disturbed : t \in rows /\ status[t] = "assigned"
  /\ \A r \in ReviewRuns :
       /\ judging[r] \notin disturbed \cup {Nobody} =>
            /\ judging[r] \in rows /\ status[judging[r]] = "quality_review"
            /\ \A q \in ReviewRuns \ {r} : judging[q] # judging[r]
       /\ \A t \in pending[r] \ disturbed : t \in rows /\ status[t] = "review"

\* What a run takes up it is done with: its batch does not hold it any more.
BatchesShrink ==
  /\ \A d \in DispatchRuns : serving[d] \notin batch[d]
  /\ \A r \in ReviewRuns : judging[r] \notin pending[r]

\* The inductive invariant behind it.
RunsInv == TypeOK /\ RunsOwnTheirTasks /\ BatchesShrink

\* A task a run has marked as under way is not forgotten: until it is given back,
\* some run is waiting for it.  Excepted are tasks an agent has claimed or
\* somebody has put in the column, rejected ones, and those a restart strands.
MarkedTasksAreServed ==
  \A t \in rows : status[t] \in UnderWay /\ t \notin loose =>
    (\E d \in DispatchRuns : serving[d] = t) \/ (\E r \in ReviewRuns : judging[r] = t)

(* Properties: the scheduler alone *)

\* Work for a registered agent gets done and delivered.
AssignedWorkIsDelivered ==
  \A t \in Tasks :
    (t \in rows /\ status[t] = "assigned" /\ assignee[t] \in Registered)
      ~> status[t] = "review"

\* Delivered work gets a verdict.
DeliveredWorkIsJudged ==
  \A t \in Tasks :
    (t \in rows /\ status[t] = "review") ~> status[t] \in {"done", "in_progress"}

\* What the board's runs promise, seen as leases of cards.
Lease == INSTANCE TaskLease WITH
  Workers <- DispatchRuns,
  Judges  <- ReviewRuns,
  column  <- [t \in Tasks |-> IF t \in rows THEN status[t] ELSE "absent"],
  lease   <- [w \in DispatchRuns \cup ReviewRuns |->
                IF w \in DispatchRuns THEN serving[w] ELSE judging[w]],
  broken  <- disturbed

\* The board implements the leases: a card nobody interferes with is with one
\* run at a time, which takes it out of the column it serves and gives it back
\* in one it may deliver to.
ImplementsLease == Lease!Spec

(* What the documentation says *)

\* A task is marked "immediately to prevent re-dispatch": a run hands a task to
\* an agent only out of the assigned column, however long ago it read its batch.
DispatchTakesAssigned ==
  [][\A d \in DispatchRuns, t \in Tasks :
       serving'[d] = t /\ serving[d] # t => status[t] = "assigned"]_vars

\* Aegis evaluates "the task resolution, then approves or rejects": what it
\* approves is the resolution the task has.
ApprovalsAreOfTheResolution ==
  [][\A r \in ReviewRuns : AegisVerdict(r, "approved") => judging[r] \in fresh[r]]_vars

\* A rejection is left as a comment "so the agent sees it on next dispatch".
RejectedWorkIsDispatched ==
  \A t \in Tasks :
    (t \in rows \cap loose /\ status[t] = "in_progress" /\ assignee[t] \in Registered)
      ~> \E d \in DispatchRuns : serving[d] = t
=============================================================================
