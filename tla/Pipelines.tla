----------------------------- MODULE Pipelines -----------------------------
(***************************************************************************)
(* Runs of a pipeline.  A run is a row with a status, the current step and *)
(* a snapshot of all steps; start, advance and cancel are requests.  Start *)
(* and advance await the gateway, which spawns a step, and write the steps *)
(* they had before the wait; any other request may come in between.        *)
(***************************************************************************)
EXTENDS Naturals

CONSTANTS
  Runs,      \* ids of runs
  Steps,     \* number of steps of the pipeline
  StopOn,    \* the steps whose on_failure is "stop", not "continue"
  MaxCalls   \* bound: requests that await a spawn at a time, by call number

ASSUME PipelineAssumption ==
  /\ Steps \in Nat \ {0}
  /\ StopOn \subseteq 0..Steps-1
  /\ MaxCalls \in Nat

Indexes    == 0..Steps-1
StepStates == {"pending", "running", "completed", "failed", "skipped"}
Statuses   == {"none", "running", "completed", "failed", "cancelled"}
Callers    == 1..MaxCalls

VARIABLES
  status,    \* status[r]: pipeline_runs.status; "none" without a row
  current,   \* current[r]: current_step
  steps,     \* steps[r]: the states in steps_snapshot
  templates, \* the steps whose workflow template exists
  call,      \* call[c]: a request that awaits a spawn
  begun      \* history: begun[r]: the steps of r that were begun

pipelineVars == <<status, current, steps, templates, call, begun>>

\* What a request holds across its await; "advance" will move current_step.
Idle  == [kind |-> "idle"]
Calls == {Idle} \cup [kind : {"start", "advance"}, run : Runs, at : Indexes,
                      steps : [Indexes -> StepStates]]

PipelinesTypeOK ==
  /\ status \in [Runs -> Statuses]
  /\ current \in [Runs -> Indexes]
  /\ steps \in [Runs -> [Indexes -> StepStates]]
  /\ templates \subseteq Indexes
  /\ call \in [Callers -> Calls]
  /\ begun \in [Runs -> SUBSET Indexes]

PipelinesInit ==
  /\ status = [r \in Runs |-> "none"]
  /\ current = [r \in Runs |-> 0]
  /\ steps = [r \in Runs |-> [i \in Indexes |-> "pending"]]
  /\ templates = Indexes
  /\ call = [c \in Callers |-> Idle]
  /\ begun = [r \in Runs |-> {}]

Begin(r, i) == begun' = [begun EXCEPT ![r] = @ \cup {i}]

Await(c, k, r, i, s) == call' = [call EXCEPT ![c] = [kind |-> k, run |-> r, at |-> i, steps |-> s]]

\* startPipeline up to its await; without a template nothing is spawned.
StartPipeline(c, r) ==
  LET first == [i \in Indexes |-> IF i = 0 THEN "running" ELSE "pending"]
  IN /\ call[c] = Idle /\ status[r] = "none" /\ begun[r] = {}
     /\ status' = [status EXCEPT ![r] = "running"]
     /\ current' = [current EXCEPT ![r] = 0]
     /\ steps' = [steps EXCEPT ![r] = first]
     /\ Begin(r, 0)
     /\ IF 0 \in templates THEN Await(c, "start", r, 0, first) ELSE UNCHANGED call
     /\ UNCHANGED templates

\* The steps when the current one has ended.
Ended(r, ok) == [steps[r] EXCEPT ![current[r]] = IF ok THEN "completed" ELSE "failed"]

AdvanceStops(r) ==
  /\ status[r] = "running" /\ current[r] \in StopOn
  /\ status' = [status EXCEPT ![r] = "failed"]
  /\ steps' = [steps EXCEPT ![r] =
       [i \in Indexes |-> IF i > current[r] THEN "skipped" ELSE Ended(r, FALSE)[i]]]
  /\ UNCHANGED <<current, templates, call, begun>>

\* Mutant: the last step but one counts as the last.
AdvanceCompletesEarly(r, ok) ==
  /\ status[r] = "running" /\ (ok \/ current[r] \notin StopOn)
  /\ current[r] + 2 >= Steps
  /\ status' = [status EXCEPT ![r] = "completed"]
  /\ steps' = [steps EXCEPT ![r] = Ended(r, ok)]
  /\ UNCHANGED <<current, templates, call, begun>>

\* Mutant: the step after the last is written as the current one.
AdvanceCompletesNext(r, ok) ==
  /\ status[r] = "running" /\ (ok \/ current[r] \notin StopOn)
  /\ current[r] + 1 >= Steps
  /\ status' = [status EXCEPT ![r] = "completed"]
  /\ current' = [current EXCEPT ![r] = @ + 1]
  /\ steps' = [steps EXCEPT ![r] = Ended(r, ok)]
  /\ UNCHANGED <<templates, call, begun>>

AdvanceCompletes(r, ok) ==
  /\ status[r] = "running" /\ (ok \/ current[r] \notin StopOn)
  /\ current[r] + 1 >= Steps
  /\ status' = [status EXCEPT ![r] = "completed"]
  /\ steps' = [steps EXCEPT ![r] = Ended(r, ok)]
  /\ UNCHANGED <<current, templates, call, begun>>

\* advanceRun up to the await of the next step.  The row is not touched before
\* the spawn has answered, unless there is nothing to spawn.
Advance(c, r, ok) ==
  LET next == current[r] + 1
      s == [Ended(r, ok) EXCEPT ![next] = "running"]
  IN /\ status[r] = "running" /\ (ok \/ current[r] \notin StopOn)
     /\ next < Steps
     /\ call[c] = Idle
     /\ Begin(r, next)
     /\ IF next \in templates
        THEN Await(c, "advance", r, next, s) /\ UNCHANGED <<current, steps>>
        ELSE /\ current' = [current EXCEPT ![r] = next]
             /\ steps' = [steps EXCEPT ![r] = s]
             /\ UNCHANGED call
     /\ UNCHANGED <<status, templates>>

\* Mutant: the row is written as running again.
SpawnReturnsRunning(c) ==
  /\ call[c] # Idle
  /\ LET r == call[c].run
     IN /\ status' = [status EXCEPT ![r] = IF @ = "none" THEN @ ELSE "running"]
        /\ current' = [current EXCEPT ![r] = call[c].at]
        /\ steps' = [steps EXCEPT ![r] = call[c].steps]
  /\ call' = [call EXCEPT ![c] = Idle]
  /\ UNCHANGED <<templates, begun>>

\* The spawn has answered, failed or timed out: the steps, as they were before
\* the wait, are written over those of the row, if there still is one, whatever
\* its status is.
SpawnReturns(c) ==
  /\ call[c] # Idle
  /\ LET r == call[c].run
     IN IF status[r] = "none" THEN UNCHANGED <<current, steps>>
        ELSE /\ current' = IF call[c].kind = "advance"
                           THEN [current EXCEPT ![r] = call[c].at] ELSE current
             /\ steps' = [steps EXCEPT ![r] = call[c].steps]
  /\ call' = [call EXCEPT ![c] = Idle]
  /\ UNCHANGED <<status, templates, begun>>

CancelRun(r) ==
  /\ status[r] = "running"
  /\ status' = [status EXCEPT ![r] = "cancelled"]
  /\ steps' = [steps EXCEPT ![r] =
       [i \in Indexes |-> IF @[i] \in {"pending", "running"} THEN "skipped" ELSE @[i]]]
  /\ UNCHANGED <<current, templates, call, begun>>

\* Deleting the pipeline deletes its runs.
DeletePipeline ==
  /\ \E r \in Runs : status[r] # "none"
  /\ status' = [r \in Runs |-> "none"]
  /\ UNCHANGED <<current, steps, templates, call, begun>>

DeleteTemplate(i) ==
  /\ i \in templates
  /\ templates' = templates \ {i}
  /\ UNCHANGED <<status, current, steps, call, begun>>

\* The requests that awaited are lost.
ServerRestarts ==
  /\ call # [c \in Callers |-> Idle]
  /\ call' = [c \in Callers |-> Idle]
  /\ UNCHANGED <<status, current, steps, templates, begun>>

PipelinesNext ==
  \/ \E c \in Callers, r \in Runs : StartPipeline(c, r) \/ \E ok \in BOOLEAN : Advance(c, r, ok)
  \/ \E r \in Runs : AdvanceStops(r) \/ CancelRun(r) \/ \E ok \in BOOLEAN : AdvanceCompletes(r, ok)
  \/ \E c \in Callers : SpawnReturns(c)
  \/ \E i \in Indexes : DeleteTemplate(i)
  \/ DeletePipeline
  \/ ServerRestarts

PipelinesSpec == PipelinesInit /\ [][PipelinesNext]_pipelineVars

-----------------------------------------------------------------------------
(* Properties *)

\* A run that completes has begun every one of its steps, although overlapping
\* requests write old snapshots over newer ones and may move the run back.
CompletedRunsRanEverything ==
  \A r \in Runs : status[r] = "completed" => begun[r] = Indexes

\* The inductive invariant: wherever the row or a waiting request is, the steps
\* up to there have been begun.
BegunInv ==
  /\ PipelinesTypeOK
  /\ \A r \in Runs : status[r] # "none" => 0..current[r] \subseteq begun[r]
  /\ \A c \in Callers : call[c] # Idle =>
       0..call[c].at \subseteq begun[call[c].run]
  /\ CompletedRunsRanEverything

\* A run that was cancelled, has failed or has completed stays so: no answer
\* that comes late opens it again.
ClosedRunsStayClosed ==
  [][\A r \in Runs : status[r] \in {"completed", "failed", "cancelled"}
       => status'[r] \in {status[r], "none"}]_pipelineVars
=============================================================================
