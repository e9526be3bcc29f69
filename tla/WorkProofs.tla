----------------------------- MODULE WorkProofs -----------------------------
(***************************************************************************)
(* Pipelines: a run that is completed has begun all of its steps.          *)
(* Accounts: an administrator remains.  Files: an edit that is answered is *)
(* in the file.  And the types of the four components that MCWork puts     *)
(* side by side.                                                           *)
(***************************************************************************)
EXTENDS MCWork, TicketingProofs, FiniteSetTheorems, TLAPS

USE PipelineAssumption, AccountAssumption, FilesAssumption

-----------------------------------------------------------------------------
(* Pipelines: lemmas *)

\* The indexes are the naturals below Steps.
LEMMA IndexFacts ==
  /\ Indexes \subseteq Nat
  /\ 0 \in Indexes
  /\ \A i \in Indexes : 0..i \subseteq Indexes
  /\ \A i \in Indexes : i + 1 >= Steps => 0..i = Indexes
  /\ \A i \in Indexes : i + 1 < Steps => i + 1 \in Indexes /\ 0..(i + 1) = 0..i \cup {i + 1}
  BY DEF Indexes

\* The rows a request writes, and what it holds, have their types.
LEMMA EndedType ==
  ASSUME PipelinesTypeOK, NEW r \in Runs, NEW ok \in BOOLEAN
  PROVE  Ended(r, ok) \in [Indexes -> StepStates]
  BY DEF PipelinesTypeOK, Ended, StepStates

\* A request that awaits names a run, a step and steps.
LEMMA CallType ==
  ASSUME PipelinesTypeOK, NEW c \in Callers, call[c] # Idle
  PROVE  /\ call[c].kind \in {"start", "advance"} /\ call[c].run \in Runs
         /\ call[c].at \in Indexes /\ call[c].steps \in [Indexes -> StepStates]
  BY DEF PipelinesTypeOK, Calls

\* What is put into call is of its type.
LEMMA AwaitType ==
  ASSUME PipelinesTypeOK, NEW c \in Callers, NEW k \in {"start", "advance"}, NEW r \in Runs,
         NEW i \in Indexes, NEW s \in [Indexes -> StepStates], Await(c, k, r, i, s)
  PROVE  /\ call' \in [Callers -> Calls]
         /\ \A d \in Callers : call'[d] # Idle =>
              \/ d # c /\ call'[d] = call[d]
              \/ d = c /\ call'[d].run = r /\ call'[d].at = i
  BY DEF PipelinesTypeOK, Await, Calls

\* Beginning a step of a run only adds to what has been begun.
LEMMA BeginType ==
  ASSUME PipelinesTypeOK, NEW r \in Runs, NEW i \in Indexes, Begin(r, i)
  PROVE  /\ begun' \in [Runs -> SUBSET Indexes]
         /\ \A q \in Runs : begun[q] \subseteq begun'[q]
         /\ begun'[r] = begun[r] \cup {i}
  BY DEF PipelinesTypeOK, Begin

\* A completed run stays one that has begun everything.
LEMMA CompletedKeeps ==
  ASSUME CompletedRunsRanEverything,
         \A r \in Runs : begun'[r] \in SUBSET Indexes /\ begun[r] \subseteq begun'[r],
         \A r \in Runs : status'[r] = "completed" => status[r] = "completed"
  PROVE  CompletedRunsRanEverything'
  <1> SUFFICES ASSUME NEW r \in Runs, status'[r] = "completed" PROVE begun'[r] = Indexes
    BY DEF CompletedRunsRanEverything
  <1>1. begun[r] = Indexes
    BY DEF CompletedRunsRanEverything
  <1>2. QED BY <1>1

-----------------------------------------------------------------------------
(* Pipelines: invariant *)

\* It holds at first.
LEMMA BegunInit == PipelinesInit => BegunInv
  <1> SUFFICES ASSUME PipelinesInit PROVE BegunInv
    OBVIOUS
  <1>1. PipelinesTypeOK
    BY IndexFacts DEF PipelinesInit, PipelinesTypeOK, Statuses, StepStates, Calls
  <1>2. /\ \A r \in Runs : status[r] = "none"
        /\ \A c \in Callers : call[c] = Idle
    BY DEF PipelinesInit
  <1>3. QED BY <1>1, <1>2 DEF BegunInv, CompletedRunsRanEverything

\* Starting a run begins its first step.
LEMMA StartKeeps ==
  ASSUME BegunInv, NEW c \in Callers, NEW r \in Runs, StartPipeline(c, r)
  PROVE  BegunInv'
  <1> DEFINE first == [i \in Indexes |-> IF i = 0 THEN "running" ELSE "pending"]
  <1>1. /\ status' = [status EXCEPT ![r] = "running"]
        /\ current' = [current EXCEPT ![r] = 0]
        /\ steps' = [steps EXCEPT ![r] = first]
        /\ Begin(r, 0) /\ UNCHANGED templates
        /\ Await(c, "start", r, 0, first) \/ UNCHANGED call
    BY DEF StartPipeline
  <1>2. first \in [Indexes -> StepStates]
    BY DEF StepStates
  <1>3. PipelinesTypeOK /\ PipelinesTypeOK'
    <2>1. call' \in [Callers -> Calls]
      BY <1>1, <1>2, AwaitType, IndexFacts DEF BegunInv, PipelinesTypeOK
    <2>2. begun' \in [Runs -> SUBSET Indexes]
      BY <1>1, BeginType, IndexFacts DEF BegunInv
    <2>3. steps' \in [Runs -> [Indexes -> StepStates]]
      <3> HIDE DEF first
      <3>1. QED BY <1>1, <1>2 DEF BegunInv, PipelinesTypeOK
    <2>4. status' \in [Runs -> Statuses] /\ current' \in [Runs -> Indexes]
      BY <1>1, IndexFacts DEF BegunInv, PipelinesTypeOK, Statuses
    <2>5. QED BY <1>1, <2>1, <2>2, <2>3, <2>4 DEF BegunInv, PipelinesTypeOK
  <1>4. /\ begun'[r] = begun[r] \cup {0}
        /\ \A q \in Runs : begun[q] \subseteq begun'[q]
    BY <1>1, <1>3, BeginType, IndexFacts
  <1>5. \A q \in Runs : status'[q] # "none" => 0..current'[q] \subseteq begun'[q]
    BY <1>1, <1>3, <1>4 DEF BegunInv, PipelinesTypeOK
  <1>6. \A d \in Callers : call'[d] # Idle =>
          \/ call[d] # Idle /\ call'[d] = call[d]
          \/ call'[d].run = r /\ call'[d].at = 0
    <2> HIDE DEF first
    <2>1. CASE UNCHANGED call
      BY <2>1
    <2>2. CASE Await(c, "start", r, 0, first)
      <3>1. 0 \in Indexes
        BY IndexFacts
      <3>2. \A d \in Callers : call'[d] # Idle =>
              \/ d # c /\ call'[d] = call[d]
              \/ d = c /\ call'[d].run = r /\ call'[d].at = 0
        BY <2>2, <1>2, <1>3, <3>1, AwaitType
      <3>3. QED BY <3>2
    <2>3. QED BY <1>1, <2>1, <2>2
  <1>7. \A d \in Callers : call'[d] # Idle => 0..call'[d].at \subseteq begun'[call'[d].run]
    <2> SUFFICES ASSUME NEW d \in Callers, call'[d] # Idle
                 PROVE  0..call'[d].at \subseteq begun'[call'[d].run]
      OBVIOUS
    <2>1. CASE call[d] # Idle /\ call'[d] = call[d]
      BY <2>1, <1>3, <1>4, CallType DEF BegunInv
    <2>2. CASE call'[d].run = r /\ call'[d].at = 0
      BY <2>2, <1>4
    <2>3. QED BY <1>6, <2>1, <2>2
  <1>8. CompletedRunsRanEverything'
    <2>1. \A q \in Runs : status'[q] = "completed" => status[q] = "completed"
      BY <1>1, <1>3 DEF PipelinesTypeOK
    <2>2. \A q \in Runs : begun'[q] \in SUBSET Indexes
      BY <1>3 DEF PipelinesTypeOK
    <2>3. QED BY <1>4, <2>1, <2>2, CompletedKeeps DEF BegunInv
  <1>9. QED BY <1>3, <1>5, <1>7, <1>8 DEF BegunInv

\* An action that neither moves a run on nor closes it as completed, nor begins
\* a step, keeps the invariant.
LEMMA OthersKeep ==
  ASSUME BegunInv, PipelinesTypeOK', begun' = begun,
         \A r \in Runs : status'[r] # "none" => status[r] # "none" /\ current'[r] = current[r],
         \A r \in Runs : status'[r] = "completed" => status[r] = "completed",
         \A c \in Callers : call'[c] # Idle => call'[c] = call[c]
  PROVE  BegunInv'
  <1>1. \A r \in Runs : status'[r] # "none" => 0..current'[r] \subseteq begun'[r]
    BY DEF BegunInv
  <1>2. \A c \in Callers : call'[c] # Idle => 0..call'[c].at \subseteq begun'[call'[c].run]
    BY DEF BegunInv
  <1>3. CompletedRunsRanEverything'
    BY DEF BegunInv, CompletedRunsRanEverything
  <1>4. QED BY <1>1, <1>2, <1>3 DEF BegunInv

\* A run completes only at its last step.
LEMMA CompletesKeeps ==
  ASSUME BegunInv, NEW r \in Runs, NEW ok \in BOOLEAN, AdvanceCompletes(r, ok)
  PROVE  BegunInv'
  <1>1. /\ status[r] = "running" /\ current[r] + 1 >= Steps
        /\ status' = [status EXCEPT ![r] = "completed"]
        /\ steps' = [steps EXCEPT ![r] = Ended(r, ok)]
        /\ UNCHANGED <<current, templates, call, begun>>
    BY DEF AdvanceCompletes
  <1>2. PipelinesTypeOK /\ PipelinesTypeOK'
    BY <1>1, EndedType DEF BegunInv, PipelinesTypeOK, Statuses
  <1>3. Indexes \subseteq begun[r]
    BY <1>1, <1>2, IndexFacts DEF BegunInv, PipelinesTypeOK
  <1>4. CompletedRunsRanEverything'
    <2> SUFFICES ASSUME NEW q \in Runs, status'[q] = "completed" PROVE begun'[q] = Indexes
      BY DEF CompletedRunsRanEverything
    <2>1. begun[q] \subseteq Indexes
      BY <1>2 DEF PipelinesTypeOK
    <2>2. CASE q = r
      BY <1>1, <1>3, <2>1, <2>2
    <2>3. CASE q # r
      BY <1>1, <1>2, <2>3 DEF BegunInv, CompletedRunsRanEverything, PipelinesTypeOK
    <2>4. QED BY <2>2, <2>3
  <1>5. \A q \in Runs : status'[q] # "none" => status[q] # "none"
    BY <1>1, <1>2 DEF PipelinesTypeOK
  <1>6. QED BY <1>1, <1>2, <1>4, <1>5 DEF BegunInv

\* Advancing begins the next step, whether the row is written now or later.
LEMMA AdvanceKeeps ==
  ASSUME BegunInv, NEW c \in Callers, NEW r \in Runs, NEW ok \in BOOLEAN, Advance(c, r, ok)
  PROVE  BegunInv'
  <1> DEFINE next == current[r] + 1
             s == [Ended(r, ok) EXCEPT ![next] = "running"]
  <1>1. /\ status[r] = "running" /\ next < Steps
        /\ Begin(r, next) /\ UNCHANGED <<status, templates>>
        /\ \/ Await(c, "advance", r, next, s) /\ UNCHANGED <<current, steps>>
           \/ /\ current' = [current EXCEPT ![r] = next]
              /\ steps' = [steps EXCEPT ![r] = s]
              /\ UNCHANGED call
    BY DEF Advance
  <1>2. next \in Indexes /\ 0..next = 0..current[r] \cup {next}
    BY <1>1, IndexFacts DEF BegunInv, PipelinesTypeOK
  <1>3. s \in [Indexes -> StepStates]
    BY EndedType DEF BegunInv, StepStates
  <1> HIDE DEF next, s
  <1>4. PipelinesTypeOK /\ PipelinesTypeOK'
    <2>1. call' \in [Callers -> Calls]
      BY <1>1, <1>2, <1>3, AwaitType DEF BegunInv, PipelinesTypeOK
    <2>2. begun' \in [Runs -> SUBSET Indexes]
      BY <1>1, <1>2, BeginType DEF BegunInv
    <2>3. steps' \in [Runs -> [Indexes -> StepStates]] /\ current' \in [Runs -> Indexes]
      <3>1. CASE UNCHANGED <<current, steps>>
        BY <3>1 DEF BegunInv, PipelinesTypeOK
      <3>2. CASE current' = [current EXCEPT ![r] = next] /\ steps' = [steps EXCEPT ![r] = s]
        BY <3>2, <1>2, <1>3 DEF BegunInv, PipelinesTypeOK
      <3>3. QED BY <1>1, <3>1, <3>2
    <2>4. QED BY <1>1, <2>1, <2>2, <2>3 DEF BegunInv, PipelinesTypeOK
  <1>5. /\ begun'[r] = begun[r] \cup {next}
        /\ \A q \in Runs : begun[q] \subseteq begun'[q]
    BY <1>1, <1>2, <1>4, BeginType
  <1>6. 0..next \subseteq begun'[r]
    BY <1>1, <1>2, <1>5 DEF BegunInv
  <1>7. \A q \in Runs : status'[q] # "none" => 0..current'[q] \subseteq begun'[q]
    BY <1>1, <1>4, <1>5, <1>6 DEF BegunInv, PipelinesTypeOK
  <1>8. \A d \in Callers : call'[d] # Idle =>
          \/ call[d] # Idle /\ call'[d] = call[d]
          \/ call'[d].run = r /\ call'[d].at = next
    BY <1>1, <1>2, <1>3, <1>4, AwaitType
  <1>9. \A d \in Callers : call'[d] # Idle => 0..call'[d].at \subseteq begun'[call'[d].run]
    <2> SUFFICES ASSUME NEW d \in Callers, call'[d] # Idle
                 PROVE  0..call'[d].at \subseteq begun'[call'[d].run]
      OBVIOUS
    <2>1. CASE call[d] # Idle /\ call'[d] = call[d]
      BY <2>1, <1>4, <1>5, CallType DEF BegunInv
    <2>2. CASE call'[d].run = r /\ call'[d].at = next
      BY <2>2, <1>6
    <2>3. QED BY <1>8, <2>1, <2>2
  <1>10. CompletedRunsRanEverything'
    <2>1. \A q \in Runs : begun'[q] \in SUBSET Indexes
      BY <1>4 DEF PipelinesTypeOK
    <2>2. QED BY <1>1, <1>5, <2>1, CompletedKeeps DEF BegunInv
  <1>11. QED BY <1>4, <1>7, <1>9, <1>10 DEF BegunInv

\* The answer to a spawn moves a run to a step that was begun with those before
\* it, be it on or back.
LEMMA ReturnKeeps ==
  ASSUME BegunInv, NEW c \in Callers, SpawnReturns(c)
  PROVE  BegunInv'
  <1> DEFINE r == call[c].run
  <1>1. /\ call[c] # Idle /\ call' = [call EXCEPT ![c] = Idle]
        /\ UNCHANGED <<status, templates, begun>>
        /\ current' = current \/ current' = [current EXCEPT ![r] = call[c].at]
        /\ steps' = steps \/ steps' = [steps EXCEPT ![r] = call[c].steps]
    BY DEF SpawnReturns
  <1>2. /\ r \in Runs /\ call[c].at \in Indexes /\ call[c].steps \in [Indexes -> StepStates]
        /\ 0..call[c].at \subseteq begun[r]
    BY <1>1, CallType DEF BegunInv
  <1> HIDE DEF r
  <1>3. PipelinesTypeOK /\ PipelinesTypeOK'
    BY <1>1, <1>2 DEF BegunInv, PipelinesTypeOK, Calls
  <1>4. \A q \in Runs : status'[q] # "none" => 0..current'[q] \subseteq begun'[q]
    BY <1>1, <1>2, <1>3 DEF BegunInv, PipelinesTypeOK
  <1>5. \A d \in Callers : call'[d] # Idle => call'[d] = call[d]
    BY <1>1, <1>3 DEF PipelinesTypeOK
  <1>6. \A d \in Callers : call'[d] # Idle => 0..call'[d].at \subseteq begun'[call'[d].run]
    BY <1>1, <1>5 DEF BegunInv
  <1>7. CompletedRunsRanEverything'
    BY <1>1 DEF BegunInv, CompletedRunsRanEverything
  <1>8. QED BY <1>3, <1>4, <1>6, <1>7 DEF BegunInv

\* Every step keeps the invariant.
LEMMA BegunStep == BegunInv /\ [PipelinesNext]_pipelineVars => BegunInv'
  <1> SUFFICES ASSUME BegunInv, [PipelinesNext]_pipelineVars PROVE BegunInv'
    OBVIOUS
  <1>t. PipelinesTypeOK
    BY DEF BegunInv
  <1>1. CASE \E c \in Callers, r \in Runs : StartPipeline(c, r)
    BY <1>1, StartKeeps
  <1>2. CASE \E c \in Callers, r \in Runs, ok \in BOOLEAN : Advance(c, r, ok)
    BY <1>2, AdvanceKeeps
  <1>3. ASSUME NEW r \in Runs, AdvanceStops(r) PROVE BegunInv'
    <2>1. /\ status' = [status EXCEPT ![r] = "failed"] /\ status[r] = "running"
          /\ UNCHANGED <<current, templates, call, begun>>
          /\ steps' = [steps EXCEPT ![r] =
               [i \in Indexes |-> IF i > current[r] THEN "skipped" ELSE Ended(r, FALSE)[i]]]
      BY <1>3 DEF AdvanceStops
    <2>2. [i \in Indexes |-> IF i > current[r] THEN "skipped" ELSE Ended(r, FALSE)[i]]
            \in [Indexes -> StepStates]
      BY <1>t, EndedType DEF StepStates
    <2>3. PipelinesTypeOK'
      BY <1>t, <2>1, <2>2 DEF PipelinesTypeOK, Statuses
    <2>4. \A q \in Runs : /\ status'[q] # "none" => status[q] # "none"
                          /\ status'[q] = "completed" => status[q] = "completed"
      BY <1>t, <2>1 DEF PipelinesTypeOK
    <2>5. QED BY <2>1, <2>3, <2>4, OthersKeep
  <1>4. ASSUME NEW r \in Runs, CancelRun(r) PROVE BegunInv'
    <2>1. /\ status' = [status EXCEPT ![r] = "cancelled"] /\ status[r] = "running"
          /\ UNCHANGED <<current, templates, call, begun>>
          /\ steps' = [steps EXCEPT ![r] =
               [i \in Indexes |-> IF @[i] \in {"pending", "running"} THEN "skipped" ELSE @[i]]]
      BY <1>4 DEF CancelRun
    <2>2. [i \in Indexes |-> IF steps[r][i] \in {"pending", "running"} THEN "skipped" ELSE steps[r][i]]
            \in [Indexes -> StepStates]
      BY <1>t DEF PipelinesTypeOK, StepStates
    <2>3. PipelinesTypeOK'
      BY <1>t, <2>1, <2>2 DEF PipelinesTypeOK, Statuses
    <2>4. \A q \in Runs : /\ status'[q] # "none" => status[q] # "none"
                          /\ status'[q] = "completed" => status[q] = "completed"
      BY <1>t, <2>1 DEF PipelinesTypeOK
    <2>5. QED BY <2>1, <2>3, <2>4, OthersKeep
  <1>5. CASE \E r \in Runs, ok \in BOOLEAN : AdvanceCompletes(r, ok)
    BY <1>5, CompletesKeeps
  <1>6. CASE \E c \in Callers : SpawnReturns(c)
    BY <1>6, ReturnKeeps
  <1>7. ASSUME NEW i \in Indexes, DeleteTemplate(i) PROVE BegunInv'
    <2>1. PipelinesTypeOK'
      BY <1>t, <1>7 DEF DeleteTemplate, PipelinesTypeOK
    <2>2. QED BY <1>7, <2>1, OthersKeep DEF DeleteTemplate
  <1>8. CASE DeletePipeline
    <2>1. PipelinesTypeOK'
      BY <1>t, <1>8 DEF DeletePipeline, PipelinesTypeOK, Statuses
    <2>2. QED BY <1>8, <2>1, OthersKeep DEF DeletePipeline
  <1>9. CASE ServerRestarts
    <2>1. PipelinesTypeOK'
      BY <1>t, <1>9 DEF ServerRestarts, PipelinesTypeOK, Calls
    <2>2. QED BY <1>9, <2>1, OthersKeep DEF ServerRestarts
  <1>10. CASE UNCHANGED pipelineVars
    <2>1. PipelinesTypeOK'
      BY <1>t, <1>10 DEF pipelineVars, PipelinesTypeOK
    <2>2. QED BY <1>10, <2>1, OthersKeep DEF pipelineVars
  <1>11. QED
    BY <1>1, <1>2, <1>3, <1>4, <1>5, <1>6, <1>7, <1>8, <1>9, <1>10 DEF PipelinesNext

-----------------------------------------------------------------------------
(* Pipelines: theorems *)

\* The inductive invariant, which contains the types: wherever the row of a run
\* or a request that awaits a spawn is, the steps up to there have been begun.
THEOREM BegunUpToHere == PipelinesSpec => []BegunInv
  <1>1. PipelinesInit => BegunInv
    BY BegunInit
  <1>2. BegunInv /\ [PipelinesNext]_pipelineVars => BegunInv'
    BY BegunStep
  <1>3. QED BY <1>1, <1>2, PTL DEF PipelinesSpec

\* A run that completes has begun every one of its steps, although overlapping
\* requests write old snapshots over newer ones and may move the run back.
THEOREM CompletedRuns == PipelinesSpec => []CompletedRunsRanEverything
  <1>1. BegunInv => CompletedRunsRanEverything
    BY DEF BegunInv
  <1>2. QED BY <1>1, BegunUpToHere, PTL

\* A run that was cancelled, has failed or has completed stays so: no answer that
\* comes late opens it again.
THEOREM ClosedRuns == PipelinesSpec => ClosedRunsStayClosed
  <1>1. BegunInv /\ [PipelinesNext]_pipelineVars =>
          [\A r \in Runs : status[r] \in {"completed", "failed", "cancelled"}
             => status'[r] \in {status[r], "none"}]_pipelineVars
    <2> SUFFICES ASSUME BegunInv, PipelinesNext, NEW q \in Runs,
                        status[q] \in {"completed", "failed", "cancelled"}
                 PROVE  status'[q] \in {status[q], "none"}
      OBVIOUS
    <2>t. status \in [Runs -> Statuses]
      BY DEF BegunInv, PipelinesTypeOK
    <2>1. CASE \E r \in Runs : /\ status[r] \in {"none", "running"}
                               /\ \E v \in Statuses : status' = [status EXCEPT ![r] = v]
      BY <2>1, <2>t
    <2>2. CASE status' = status
      BY <2>2
    <2>3. CASE status' = [r \in Runs |-> "none"]
      BY <2>3
    <2>4. \/ \E r \in Runs : /\ status[r] \in {"none", "running"}
                             /\ \E v \in Statuses : status' = [status EXCEPT ![r] = v]
          \/ status' = status
          \/ status' = [r \in Runs |-> "none"]
      <3>1. CASE \E c \in Callers, r \in Runs : StartPipeline(c, r)
        BY <3>1 DEF StartPipeline, Statuses
      <3>2. CASE \E c \in Callers, r \in Runs, ok \in BOOLEAN : Advance(c, r, ok)
        BY <3>2 DEF Advance
      <3>3. CASE \E r \in Runs : AdvanceStops(r)
        BY <3>3 DEF AdvanceStops, Statuses
      <3>4. CASE \E r \in Runs : CancelRun(r)
        BY <3>4 DEF CancelRun, Statuses
      <3>5. CASE \E r \in Runs, ok \in BOOLEAN : AdvanceCompletes(r, ok)
        BY <3>5 DEF AdvanceCompletes, Statuses
      <3>6. CASE \E c \in Callers : SpawnReturns(c)
        BY <3>6 DEF SpawnReturns
      <3>7. CASE \E i \in Indexes : DeleteTemplate(i)
        BY <3>7 DEF DeleteTemplate
      <3>8. CASE DeletePipeline \/ ServerRestarts
        BY <3>8 DEF DeletePipeline, ServerRestarts
      <3>9. QED BY <3>1, <3>2, <3>3, <3>4, <3>5, <3>6, <3>7, <3>8 DEF PipelinesNext
    <2>5. QED BY <2>1, <2>2, <2>3, <2>4
  <1>2. QED BY <1>1, BegunUpToHere, PTL DEF PipelinesSpec, ClosedRunsStayClosed

-----------------------------------------------------------------------------
(* Accounts *)
\* The inductive invariant.
AccountsInv == AccountsTypeOK /\ AnAdminRemains

-----------------------------------------------------------------------------
(* Accounts: lemmas *)

\* Rows have their type.
LEMMA RowType ==
  ASSUME NEW role \in Roles, NEW e \in Emails \cup {"none"}
  PROVE  Local(role, e) \in AccountRows
  BY DEF Local, AccountRows

\* Users have ids.
LEMMA UsersAreIds == AccountsTypeOK => users \subseteq UserIds
  BY DEF AccountsTypeOK, UserIds

\* Connecting a row to a Google account keeps its type and its role.
LEMMA ConnectedType ==
  ASSUME NEW row \in AccountRows, NEW e \in Emails
  PROVE  Connected(row, e) \in AccountRows /\ Connected(row, e).role = row.role
  BY DEF Connected, AccountRows

\* Steps that leave users and their roles alone keep the administrators.
LEMMA SameRoles ==
  ASSUME AnAdminRemains, users' = users, overtaken' = overtaken,
         \A u \in users : account'[u].role = account[u].role
  PROVE  AnAdminRemains'
  BY DEF AnAdminRemains, Admins

\* The end of a request keeps an administrator, unless overtaken becomes true: the
\* one who acts, if their row is left as it is.
LEMMA EndsKeeps ==
  ASSUME AccountsTypeOK, AnAdminRemains, NEW r \in Requests, NEW rows, NEW left, NEW unguarded,
         unguarded \in BOOLEAN, Ends(r, rows, left, unguarded),
         ~unguarded /\ acting[r] \in Admins => acting[r] \in left /\ rows[acting[r]].role = "admin"
  PROVE  AnAdminRemains'
  <1> SUFFICES ASSUME ~overtaken' PROVE Admins' # {}
    BY DEF AnAdminRemains
  <1>1. /\ account' = rows /\ users' = left /\ ~overtaken
        /\ \/ ~unguarded /\ acting[r] \in Admins
           \/ \A u \in Admins : u \in left /\ rows[u].role = "admin"
    BY DEF Ends
  <1>2. PICK u \in Admins : TRUE
    BY <1>1 DEF AnAdminRemains
  <1>3. CASE ~unguarded /\ acting[r] \in Admins
    BY <1>1, <1>3 DEF Admins
  <1>4. CASE \A v \in Admins : v \in left /\ rows[v].role = "admin"
    BY <1>1, <1>2, <1>4 DEF Admins
  <1>5. QED BY <1>1, <1>3, <1>4

\* The end of a request keeps the types.
LEMMA EndsType ==
  ASSUME AccountsTypeOK, NEW r \in Requests, NEW rows \in [UserIds -> AccountRows],
         NEW left \in SUBSET (1..lastUser'), NEW unguarded \in BOOLEAN,
         Ends(r, rows, left, unguarded),
         lastUser' \in UserIds, signedIn' \subseteq left,
         requested' \in [Emails -> {"none", "pending", "approved", "rejected"}]
  PROVE  AccountsTypeOK'
  <1>1. overtaken' \in BOOLEAN
    BY DEF Ends, AccountsTypeOK
  <1>2. /\ account' = rows /\ users' = left
        /\ acting' \in [Requests -> UserIds \cup {Key, Nobody}]
    BY DEF Ends, AccountsTypeOK
  <1>3. QED BY <1>1, <1>2 DEF AccountsTypeOK

-----------------------------------------------------------------------------
(* Accounts: invariant *)

\* It holds at first.
LEMMA AccountsStart == AccountsInit => AccountsInv
  <1> SUFFICES ASSUME AccountsInit PROVE AccountsInv
    OBVIOUS
  <1>1. Local("admin", "none") \in AccountRows /\ Local("admin", "none").role = "admin"
    BY RowType DEF Local
  <1>2. AccountsTypeOK
    <2>1. 1 \in UserIds /\ {1} \subseteq 1..1
      BY DEF UserIds
    <2>2. account \in [UserIds -> AccountRows]
      BY <1>1 DEF AccountsInit
    <2>3. /\ requested \in [Emails -> {"none", "pending", "approved", "rejected"}]
          /\ acting \in [Requests -> UserIds \cup {Key, Nobody}]
      BY DEF AccountsInit
    <2>4. QED BY <2>1, <2>2, <2>3 DEF AccountsInit, AccountsTypeOK
  <1>3. 1 \in Admins
    BY <1>1 DEF AccountsInit, Admins, UserIds
  <1>4. QED BY <1>2, <1>3 DEF AccountsInv, AnAdminRemains

\* Signing in and out, connecting, and looking up who acts.
LEMMA SessionsKeep ==
  ASSUME AccountsInv,
         \/ \E u \in UserIds : Login(u) \/ DisconnectGoogle(u) \/ SessionEnds(u)
         \/ \E e \in Emails : GoogleLogin(e)
         \/ \E r \in Requests, u \in UserIds \cup {Key} : Authenticate(r, u)
  PROVE  AccountsInv'
  <1>t. AccountsTypeOK /\ AnAdminRemains /\ \A u \in users : u \in UserIds
    BY DEF AccountsInv, AccountsTypeOK, UserIds
  <1>1. ASSUME NEW u \in UserIds, Login(u) \/ SessionEnds(u) PROVE AccountsInv'
    <2>1. AccountsTypeOK'
      BY <1>t, <1>1 DEF Login, SessionEnds, AccountsTypeOK
    <2>2. QED BY <1>t, <1>1, <2>1, SameRoles DEF Login, SessionEnds, AccountsInv
  <1>2. ASSUME NEW u \in UserIds, DisconnectGoogle(u) PROVE AccountsInv'
    <2>r. account[u] \in AccountRows
      BY <1>t DEF AccountsTypeOK
    <2>a. [[account[u] EXCEPT !.google = FALSE] EXCEPT !.sub = "none"] \in AccountRows
      <3> DEFINE R == Roles \cup {NoRole}
                 S == Emails \cup {"none"}
      <3>1. "none" \in S
        OBVIOUS
      <3> HIDE DEF R, S
      <3>2. AccountRows = [role : R, google : BOOLEAN, sub : S, email : S, approved : BOOLEAN]
        BY Zenon DEF AccountRows, R, S
      <3>3. QED BY <2>r, <3>1, <3>2
    <2>b. account' \in [UserIds -> AccountRows]
      BY <1>t, <1>2, <2>a DEF DisconnectGoogle, AccountsTypeOK, AccountRows
    <2>1. AccountsTypeOK'
      BY <1>t, <1>2, <2>b DEF DisconnectGoogle, AccountsTypeOK
    <2>2. \A v \in users : account'[v].role = account[v].role
      BY <1>t, <1>2 DEF DisconnectGoogle, AccountsTypeOK, AccountRows
    <2>3. QED BY <1>t, <1>2, <2>1, <2>2, SameRoles DEF DisconnectGoogle, AccountsInv
  <1>3. ASSUME NEW e \in Emails, NEW u \in users, account' = [account EXCEPT ![u] = Connected(@, e)],
               signedIn' = signedIn \cup {u},
               UNCHANGED <<users, lastUser, requested, acting, overtaken>>
        PROVE  AccountsInv'
    <2>1. /\ Connected(account[u], e) \in AccountRows
          /\ Connected(account[u], e).role = account[u].role
      BY <1>t, ConnectedType DEF AccountsTypeOK
    <2>2. AccountsTypeOK'
      BY <1>t, <1>3, <2>1 DEF AccountsTypeOK
    <2>3. \A v \in users : account'[v].role = account[v].role
      BY <1>t, <1>3, <2>1 DEF AccountsTypeOK
    <2>4. QED BY <1>t, <1>3, <2>2, <2>3, SameRoles DEF AccountsInv
  <1>4. ASSUME NEW e \in Emails, requested' = [requested EXCEPT ![e] = "pending"],
               UNCHANGED <<users, lastUser, account, signedIn, acting, overtaken>>
        PROVE  AccountsInv'
    <2>1. AccountsTypeOK'
      BY <1>t, <1>4 DEF AccountsTypeOK
    <2>2. QED BY <1>t, <1>4, <2>1, SameRoles DEF AccountsInv
  <1>5. ASSUME NEW r \in Requests, NEW u \in UserIds \cup {Key}, Authenticate(r, u) PROVE AccountsInv'
    <2>1. AccountsTypeOK'
      BY <1>t, <1>5 DEF Authenticate, AccountsTypeOK
    <2>2. QED BY <1>t, <1>5, <2>1, SameRoles DEF Authenticate, AccountsInv
  <1>6. QED BY <1>1, <1>2, <1>3, <1>4, <1>5 DEF GoogleLogin

\* Creating a user, or refusing to do anything.
LEMMA CreateKeeps ==
  ASSUME AccountsInv, NEW r \in Requests, NEW role \in Roles, NEW google \in BOOLEAN,
         NEW e \in Emails \cup {"none"}, CreateUserAs(r, role, google, e)
  PROVE  AccountsInv'
  <1> DEFINE new == lastUser + 1
             row == [Local(role, e) EXCEPT !.google = google]
             rows == [account EXCEPT ![new] = row]
  <1>t. AccountsTypeOK /\ AnAdminRemains
    BY DEF AccountsInv
  <1>1. /\ lastUser < MaxUsers /\ lastUser' = new /\ UNCHANGED <<signedIn, requested>>
        /\ Ends(r, rows, users \cup {new}, FALSE)
    BY DEF CreateUserAs
  <1>2. new \in UserIds /\ new \notin users /\ users \subseteq 1..new
    BY <1>t, <1>1 DEF AccountsTypeOK, UserIds
  <1>3. row \in AccountRows
    BY RowType DEF Local, AccountRows
  <1> HIDE DEF row, new
  <1>4. rows \in [UserIds -> AccountRows] /\ \A u \in users : rows[u] = account[u]
    BY <1>t, <1>2, <1>3 DEF AccountsTypeOK
  <1> HIDE DEF rows
  <1>5. AccountsTypeOK'
    <2>1. users \cup {new} \in SUBSET (1..lastUser') /\ signedIn' \subseteq users \cup {new}
      BY <1>t, <1>1, <1>2 DEF AccountsTypeOK, UserIds
    <2>2. QED BY <1>t, <1>1, <1>2, <1>4, <2>1, EndsType DEF AccountsTypeOK
  <1>6. AnAdminRemains'
    <2>1. acting[r] \in Admins => acting[r] \in users \cup {new} /\ rows[acting[r]].role = "admin"
      BY <1>4 DEF Admins
    <2>2. QED BY <1>t, <1>1, <2>1, EndsKeeps
  <1>7. QED BY <1>5, <1>6 DEF AccountsInv

\* Updating a user: the administrator who acts keeps the role, or sends an empty one.
LEMMA UpdateKeeps ==
  ASSUME AccountsInv, NEW r \in Requests, NEW u \in UserIds, NEW role \in Roles \cup {NoRole},
         NEW e \in Emails \cup {"none"}, NEW approved \in BOOLEAN,
         UpdateUserAs(r, u, role, e, approved)
  PROVE  AccountsInv'
  <1> DEFINE rows == [account EXCEPT ![u].role = role, ![u].email = e, ![u].approved = approved]
  <1>t. AccountsTypeOK /\ AnAdminRemains
    BY DEF AccountsInv
  <1>b. PICK emptied \in BOOLEAN : emptied = (role = NoRole /\ u = acting[r])
    BY Zenon
  <1>1. /\ u \in users /\ Ends(r, rows, users, emptied)
        /\ u = acting[r] => role \in {"admin", account[u].role, NoRole}
        /\ UNCHANGED <<lastUser, signedIn, requested>>
    BY <1>b, Zenon DEF UpdateUserAs
  <1>2. /\ rows \in [UserIds -> AccountRows]
        /\ rows[u].role = role
        /\ \A v \in UserIds \ {u} : rows[v] = account[v]
    <2> DEFINE row == [account[u] EXCEPT !.role = role, !.email = e, !.approved = approved]
    <2>1. account[u] \in AccountRows /\ account \in [UserIds -> AccountRows]
      BY <1>t DEF AccountsTypeOK
    <2>2. row \in AccountRows /\ row.role = role
      BY <2>1 DEF AccountRows
    <2>3. rows = [account EXCEPT ![u] = row]
      BY <2>1 DEF AccountRows
    <2> HIDE DEF row, rows
    <2>4. QED BY <2>1, <2>2, <2>3
  <1>c. ~emptied /\ u = acting[r] => role \in {"admin", account[u].role}
    BY <1>1, <1>b, Zenon
  <1> HIDE DEF rows
  <1>3. AccountsTypeOK'
    <2>1. users \in SUBSET (1..lastUser') /\ signedIn' \subseteq users /\ lastUser' \in UserIds
      BY <1>t, <1>1 DEF AccountsTypeOK
    <2>2. requested' \in [Emails -> {"none", "pending", "approved", "rejected"}]
      BY <1>t, <1>1 DEF AccountsTypeOK
    <2>3. rows \in [UserIds -> AccountRows] /\ Ends(r, rows, users, emptied)
      BY <1>1, <1>2
    <2>4. QED BY <1>t, <1>b, <2>1, <2>2, <2>3, EndsType, Zenon
  <1>4. ~emptied /\ acting[r] \in Admins => acting[r] \in users /\ rows[acting[r]].role = "admin"
    <2> SUFFICES ASSUME ~emptied, acting[r] \in Admins
                 PROVE  acting[r] \in users /\ rows[acting[r]].role = "admin"
      OBVIOUS
    <2>1. acting[r] \in users /\ acting[r] \in UserIds /\ account[acting[r]].role = "admin"
      BY <1>t, UsersAreIds DEF Admins
    <2>2. QED BY <1>1, <1>2, <1>c, <2>1
  <1>5. AnAdminRemains'
    <2>1. Ends(r, rows, users, emptied)
      BY <1>1
    <2>2. QED BY <1>t, <1>b, <1>4, <2>1, EndsKeeps, Zenon
  <1>6. QED BY <1>3, <1>5 DEF AccountsInv

\* Deleting a user: the administrator who acts stays.
LEMMA DeleteKeeps ==
  ASSUME AccountsInv, NEW r \in Requests, NEW u \in UserIds, DeleteUserAs(r, u)
  PROVE  AccountsInv'
  <1> DEFINE rows == [account EXCEPT ![u] = Local("admin", "none")]
  <1>t. AccountsTypeOK /\ AnAdminRemains
    BY DEF AccountsInv
  <1>1. /\ u \in users \ {acting[r]} /\ signedIn' = signedIn \ {u}
        /\ Ends(r, rows, users \ {u}, FALSE)
        /\ UNCHANGED <<lastUser, requested>>
    BY DEF DeleteUserAs
  <1>2. Local("admin", "none") \in AccountRows
    BY RowType
  <1>3. /\ rows \in [UserIds -> AccountRows]
        /\ \A v \in UserIds \ {u} : rows[v] = account[v]
    BY <1>t, <1>2 DEF AccountsTypeOK
  <1> HIDE DEF rows
  <1>4. AccountsTypeOK'
    <2>1. users \ {u} \in SUBSET (1..lastUser') /\ signedIn' \subseteq users \ {u} /\ lastUser' \in UserIds
      BY <1>t, <1>1 DEF AccountsTypeOK
    <2>2. QED BY <1>t, <1>1, <1>3, <2>1, EndsType DEF AccountsTypeOK
  <1>5. acting[r] \in Admins => acting[r] \in users \ {u} /\ rows[acting[r]].role = "admin"
    <2> SUFFICES ASSUME acting[r] \in Admins
                 PROVE  acting[r] \in users \ {u} /\ rows[acting[r]].role = "admin"
      OBVIOUS
    <2>1. acting[r] \in users /\ acting[r] \in UserIds /\ account[acting[r]].role = "admin"
      BY <1>t, UsersAreIds DEF Admins
    <2>2. QED BY <1>1, <1>3, <2>1
  <1>6. AnAdminRemains'
    BY <1>t, <1>1, <1>5, EndsKeeps
  <1>7. QED BY <1>4, <1>6 DEF AccountsInv

\* Deciding on a request for access.
LEMMA DecideKeeps ==
  ASSUME AccountsInv, NEW r \in Requests, NEW e \in Emails,
         Reject(r, e) \/ \E role \in Roles : Approve(r, e, role)
  PROVE  AccountsInv'
  <1>t. AccountsTypeOK /\ AnAdminRemains /\ \A u \in users : u \in UserIds
    BY DEF AccountsInv, AccountsTypeOK, UserIds
  <1>1. CASE Reject(r, e)
    <2>1. /\ requested' = [requested EXCEPT ![e] = "rejected"] /\ UNCHANGED <<lastUser, signedIn>>
          /\ Ends(r, account, users, FALSE)
      BY <1>1 DEF Reject
    <2>2. AccountsTypeOK'
      <3>1. requested' \in [Emails -> {"none", "pending", "approved", "rejected"}]
        BY <1>t, <2>1 DEF AccountsTypeOK
      <3>2. QED BY <1>t, <2>1, <3>1, EndsType DEF AccountsTypeOK
    <2>3. acting[r] \in Admins => acting[r] \in users /\ account[acting[r]].role = "admin"
      BY DEF Admins
    <2>4. QED BY <1>t, <2>1, <2>2, <2>3, EndsKeeps DEF AccountsInv
  <1>2. ASSUME NEW role \in Roles, Approve(r, e, role) PROVE AccountsInv'
    <2>1. requested' = [requested EXCEPT ![e] = "approved"] /\ signedIn' = signedIn
      BY <1>2 DEF Approve
    <2>2. requested' \in [Emails -> {"none", "pending", "approved", "rejected"}]
      BY <1>t, <2>1 DEF AccountsTypeOK
    <2>3. ASSUME NEW u \in users, lastUser' = lastUser,
                 Ends(r, [account EXCEPT ![u] = [Connected(@, e) EXCEPT !.role = role, !.approved = TRUE]],
                      users, TRUE)
          PROVE  AccountsInv'
      <3> DEFINE row == [Connected(account[u], e) EXCEPT !.role = role, !.approved = TRUE]
                 rows == [account EXCEPT ![u] = row]
      <3>1. Connected(account[u], e) \in AccountRows
        BY <1>t, ConnectedType DEF AccountsTypeOK
      <3>2. row \in AccountRows
        BY <3>1 DEF AccountRows
      <3> HIDE DEF row
      <3>3. rows \in [UserIds -> AccountRows]
        BY <1>t, <3>2 DEF AccountsTypeOK
      <3>4. Ends(r, rows, users, TRUE)
        BY <2>3 DEF row
      <3> HIDE DEF rows
      <3>5. AccountsTypeOK'
        BY <1>t, <2>1, <2>2, <2>3, <3>3, <3>4, EndsType DEF AccountsTypeOK
      <3>6. AnAdminRemains'
        BY <1>t, <3>4, EndsKeeps
      <3>7. QED BY <3>5, <3>6 DEF AccountsInv
    <2>4. ASSUME lastUser < MaxUsers, lastUser' = lastUser + 1,
                 Ends(r, [account EXCEPT ![lastUser'] = Connected(Local(role, e), e)],
                      users \cup {lastUser'}, TRUE)
          PROVE  AccountsInv'
      <3> DEFINE row == Connected(Local(role, e), e)
                 rows == [account EXCEPT ![lastUser'] = row]
      <3>1. row \in AccountRows
        BY RowType, ConnectedType
      <3> HIDE DEF row
      <3>2. lastUser' \in UserIds /\ users \cup {lastUser'} \in SUBSET (1..lastUser')
        BY <1>t, <2>4 DEF AccountsTypeOK, UserIds
      <3>3. rows \in [UserIds -> AccountRows]
        BY <1>t, <3>1, <3>2 DEF AccountsTypeOK
      <3>4. Ends(r, rows, users \cup {lastUser'}, TRUE)
        BY <2>4 DEF row
      <3> HIDE DEF rows
      <3>5. signedIn' \subseteq users \cup {lastUser'}
        BY <1>t, <2>1 DEF AccountsTypeOK
      <3>6. AccountsTypeOK'
        BY <1>t, <2>2, <3>2, <3>3, <3>4, <3>5, EndsType
      <3>7. AnAdminRemains'
        BY <1>t, <3>4, EndsKeeps
      <3>8. QED BY <3>6, <3>7 DEF AccountsInv
    <2>5. QED BY <1>2, <2>3, <2>4 DEF Approve
  <1>3. QED BY <1>1, <1>2

\* A refusal changes nothing.
LEMMA RefusedKeeps ==
  ASSUME AccountsInv, NEW r \in Requests, Refused(r)
  PROVE  AccountsInv'
  <1>t. AccountsTypeOK /\ AnAdminRemains
    BY DEF AccountsInv
  <1>1. Ends(r, account, users, FALSE) /\ UNCHANGED <<lastUser, signedIn, requested>>
    BY DEF Refused
  <1>2. AccountsTypeOK'
    BY <1>t, <1>1, EndsType DEF AccountsTypeOK
  <1>3. acting[r] \in Admins => acting[r] \in users /\ account[acting[r]].role = "admin"
    BY DEF Admins
  <1>4. QED BY <1>t, <1>1, <1>2, <1>3, EndsKeeps DEF AccountsInv

\* After a restart there is the administrator it has seeded, or nothing changed.
LEMMA RestartKeeps ==
  ASSUME AccountsInv, Restart
  PROVE  AccountsInv'
  <1>t. AccountsTypeOK /\ AnAdminRemains
    BY DEF AccountsInv
  <1>1. /\ acting' = [r \in Requests |-> Nobody]
        /\ UNCHANGED <<signedIn, requested, overtaken>>
    BY DEF Restart
  <1>2. acting' \in [Requests -> UserIds \cup {Key, Nobody}]
    BY <1>1
  <1>3. CASE UNCHANGED <<users, lastUser, account>>
    <2>1. AccountsTypeOK'
      BY <1>t, <1>1, <1>2, <1>3 DEF AccountsTypeOK
    <2>2. QED BY <1>t, <1>1, <1>3, <2>1, SameRoles DEF AccountsInv
  <1>4. CASE /\ users = {} /\ lastUser < MaxUsers
             /\ lastUser' = lastUser + 1 /\ users' = {lastUser'}
             /\ account' = [account EXCEPT ![lastUser'] = Local("admin", "none")]
    <2>1. Local("admin", "none") \in AccountRows /\ Local("admin", "none").role = "admin"
      BY RowType DEF Local
    <2>2. lastUser' \in UserIds /\ users' \subseteq 1..lastUser' /\ signedIn' \subseteq users'
      BY <1>t, <1>1, <1>4 DEF AccountsTypeOK, UserIds
    <2>3. account' \in [UserIds -> AccountRows] /\ account'[lastUser'].role = "admin"
      BY <1>t, <1>4, <2>1, <2>2 DEF AccountsTypeOK
    <2>4. AccountsTypeOK'
      BY <1>t, <1>1, <1>2, <2>2, <2>3 DEF AccountsTypeOK
    <2>5. AnAdminRemains'
      BY <1>4, <2>3 DEF AnAdminRemains, Admins
    <2>6. QED BY <2>4, <2>5 DEF AccountsInv
  <1>5. QED BY <1>3, <1>4 DEF Restart

\* Every step keeps the invariant.
LEMMA AccountsStep == AccountsInv /\ [AccountsNext]_accountVars => AccountsInv'
  <1> SUFFICES ASSUME AccountsInv, [AccountsNext]_accountVars PROVE AccountsInv'
    OBVIOUS
  <1>1. CASE \/ \E u \in UserIds : Login(u) \/ DisconnectGoogle(u) \/ SessionEnds(u)
             \/ \E e \in Emails : GoogleLogin(e)
             \/ \E r \in Requests, u \in UserIds \cup {Key} : Authenticate(r, u)
    BY <1>1, SessionsKeep
  <1>2. CASE \E r \in Requests, role \in Roles, e \in Emails \cup {"none"}, b \in BOOLEAN :
               CreateUserAs(r, role, b, e)
    BY <1>2, CreateKeeps
  <1>9. ASSUME NEW r \in Requests, NEW u \in UserIds, NEW role \in Roles \cup {NoRole},
               NEW e \in Emails \cup {"none"}, NEW b \in BOOLEAN, UpdateUserAs(r, u, role, e, b)
        PROVE  AccountsInv'
    BY <1>9, UpdateKeeps
  <1>3. CASE \E r \in Requests, u \in UserIds : DeleteUserAs(r, u)
    BY <1>3, DeleteKeeps
  <1>4. CASE \E r \in Requests, e \in Emails : Reject(r, e) \/ \E role \in Roles : Approve(r, e, role)
    BY <1>4, DecideKeeps
  <1>5. CASE \E r \in Requests : Refused(r)
    BY <1>5, RefusedKeeps
  <1>6. CASE Restart
    BY <1>6, RestartKeeps
  <1>7. CASE UNCHANGED accountVars
    BY <1>7 DEF accountVars, AccountsInv, AccountsTypeOK, AnAdminRemains, Admins
  <1>10. CASE \E r \in Requests, u \in UserIds, role \in Roles \cup {NoRole}, e \in Emails \cup {"none"},
                 b \in BOOLEAN : UpdateUserAs(r, u, role, e, b)
    BY <1>9, <1>10
  <1>8. QED BY <1>1, <1>2, <1>3, <1>4, <1>5, <1>6, <1>7, <1>10 DEF AccountsNext

-----------------------------------------------------------------------------
(* Accounts: theorem *)

\* There is always somebody who can administer users, except after changes by a
\* key, by an administrator who has lost the role while the body of the request
\* was awaited, by an approval, or by an empty role sent for oneself.
THEOREM AdminRemains == AccountsSpec => []AnAdminRemains
  <1>1. AccountsInit => AccountsInv
    BY AccountsStart
  <1>2. AccountsInv /\ [AccountsNext]_accountVars => AccountsInv'
    BY AccountsStep
  <1>3. AccountsInv => AnAdminRemains
    BY DEF AccountsInv
  <1>4. QED BY <1>1, <1>2, <1>3, PTL DEF AccountsSpec

-----------------------------------------------------------------------------
(* Configuration files *)

\* An empty file is as long as nothing, and no text is shorter.
LEMMA EmptyIsShortest ==
  /\ Size(Empty) = 0
  /\ \A doc \in Docs : Size(doc) \in Nat
  <1>1. {c \in Entries \X (1..Longest) : c[2] <= Empty[c[1]]} = {}
    <2> SUFFICES ASSUME NEW c \in Entries \X (1..Longest) PROVE ~(c[2] <= Empty[c[1]])
      OBVIOUS
    <2>1. c[1] \in Entries /\ c[2] \in 1..Longest
      OBVIOUS
    <2>2. Empty[c[1]] = 0
      BY <2>1 DEF Empty
    <2>3. QED BY <2>1, <2>2
  <1>2. Size(Empty) = 0
    BY <1>1, FS_EmptySet DEF Size
  <1>3. IsFiniteSet(Entries \X (1..Longest))
    <2>1. IsFiniteSet(1..Longest)
      BY FS_Interval
    <2>2. QED BY <2>1, FS_Product
  <1>4. ASSUME NEW doc \in Docs PROVE Size(doc) \in Nat
    <2>1. IsFiniteSet({c \in Entries \X (1..Longest) : c[2] <= doc[c[1]]})
      BY <1>3, FS_Subset
    <2>2. QED BY <2>1, FS_CardinalityType DEF Size
  <1>5. QED BY <1>2, <1>4

\* What is in use has its type.
LEMMA DocTypes ==
  /\ Empty \in Docs
  /\ FilesTypeOK => disk.doc \in Docs /\ disk.state \in {"missing", "good", "bad"}
  /\ FilesTypeOK => \A w \in Writers : req[w] # NoRequest => req[w] \in FileRequests
  /\ \A q \in FileRequests : q # NoRequest
  BY DEF Empty, Docs, Texts, FilesTypeOK, FileRequests, NoRequest

\* An edit of what was read, when nobody else has a request under way and what
\* was read is the file, adds up with the edits before it.
LEMMA ChangeAddsUp ==
  ASSUME FilesInv, NEW w \in Writers, NEW base \in Docs, NEW hashed \in BOOLEAN,
         NEW k \in Entries, NEW v \in 0..Longest, Change(w, base, hashed, k, v),
         ~disturbed /\ ~Busy => base = disk.doc,
         file = "cron" => v <= 2 /\ \A l \in Entries : base[l] <= 2
  PROVE  FilesInv'
  <1> DEFINE new == [stage |-> "read", doc |-> [base EXCEPT ![k] = v],
                     base |-> IF hashed THEN base ELSE Empty, hashed |-> hashed]
  <1>t. FilesTypeOK
    BY DEF FilesInv
  <1>1. /\ req[w] = NoRequest /\ req' = [req EXCEPT ![w] = new]
        /\ disturbed' = (disturbed \/ Busy)
        /\ ledger' = IF disturbed' THEN Empty ELSE [ledger EXCEPT ![k] = v]
        /\ UNCHANGED <<file, disk, loaded>>
    BY DEF Change
  <1>2. [base EXCEPT ![k] = v] \in Docs /\ [ledger EXCEPT ![k] = v] \in Docs
    BY <1>t DEF Docs, FilesTypeOK
  <1>3. new \in FileRequests /\ new.doc = [base EXCEPT ![k] = v] /\ new.stage = "read"
    BY <1>2, DocTypes DEF FileRequests
  <1> HIDE DEF new
  <1>4. /\ req' \in [Writers -> FileRequests \cup {NoRequest}]
        /\ req'[w] = new /\ \A u \in Writers \ {w} : req'[u] = req[u]
    BY <1>t, <1>1, <1>3 DEF FilesTypeOK
  <1>5. FilesTypeOK'
    BY <1>t, <1>1, <1>2, <1>4, DocTypes DEF FilesTypeOK
  <1>6. Busy'
    BY <1>3, <1>4, DocTypes DEF Busy
  <1>7. ASSUME ~disturbed'
        PROVE  /\ \A u \in Writers \ {w} : req'[u] = NoRequest
               /\ new.doc = ledger'
    <2>1. ~disturbed /\ ~Busy
      BY <1>1, <1>7
    <2>2. \A u \in Writers : req[u] = NoRequest
      BY <2>1 DEF Busy
    <2>3. base = ledger
      BY <2>1 DEF FilesInv, EditsAddUp
    <2>4. QED BY <1>1, <1>3, <1>4, <1>7, <2>2, <2>3
  <1>8. OneEditAtATime'
    BY <1>3, <1>4, <1>7 DEF OneEditAtATime
  <1>9. EditsAddUp'
    BY <1>6 DEF EditsAddUp
  <1>10. (disk.state = "missing" => disk.doc = Empty)'
    BY <1>1 DEF FilesInv, Empty
  <1>11. JobsAreOnOrOff'
    <2>1. file = "cron" => \A l \in Entries : [base EXCEPT ![k] = v][l] <= 2
      BY DEF Docs
    <2>2. QED BY <1>1, <1>3, <1>4, <2>1 DEF FilesInv, JobsAreOnOrOff
  <1>12. QED BY <1>5, <1>8, <1>9, <1>10, <1>11 DEF FilesInv

\* Opening the file for a request keeps what the request holds.
LEMMA OpenAddsUp ==
  ASSUME FilesInv, NEW w \in Writers, OpenFile(w)
  PROVE  FilesInv'
  <1>t. FilesTypeOK
    BY DEF FilesInv
  <1> DEFINE new == [req[w] EXCEPT !.stage = "open"]
  <1>1. /\ req[w].stage = "read" /\ req' = [req EXCEPT ![w] = new]
        /\ disk' = [doc |-> Empty, state |-> "bad"]
        /\ UNCHANGED <<file, loaded, ledger, disturbed>>
    BY <1>t DEF OpenFile, FilesTypeOK, FileRequests, NoRequest
  <1>2. req[w] \in FileRequests
    BY <1>t, <1>1 DEF FilesTypeOK, NoRequest
  <1>3. new \in FileRequests /\ new.doc = req[w].doc
    BY <1>2 DEF FileRequests
  <1> HIDE DEF new
  <1>4. /\ req' \in [Writers -> FileRequests \cup {NoRequest}]
        /\ req'[w] = new /\ \A u \in Writers \ {w} : req'[u] = req[u]
    BY <1>t, <1>1, <1>3 DEF FilesTypeOK
  <1>5. FilesTypeOK'
    BY <1>t, <1>1, <1>4, DocTypes DEF FilesTypeOK, Texts
  <1>6. Busy'
    BY <1>3, <1>4, DocTypes DEF Busy
  <1>7. EditsAddUp' /\ (disk.state = "missing" => disk.doc = Empty)'
    BY <1>1, <1>6 DEF EditsAddUp
  <1>8. OneEditAtATime'
    <2> SUFFICES ASSUME ~disturbed PROVE OneEditAtATime'
      BY <1>1 DEF OneEditAtATime
    <2>1. req[w] # NoRequest /\ new # NoRequest
      BY <1>2, <1>3, DocTypes
    <2>2. (\A u \in Writers \ {w} : req[u] = NoRequest) /\ req[w].doc = ledger
      BY <2>1 DEF FilesInv, OneEditAtATime
    <2>3. QED BY <1>1, <1>3, <1>4, <2>1, <2>2 DEF OneEditAtATime, Empty
  <1>9. JobsAreOnOrOff'
    <2>1. disk'.doc = Empty /\ \A k \in Entries : Empty[k] = 0
      BY <1>1 DEF Empty
    <2>2. req[w] # NoRequest
      BY <1>2, DocTypes
    <2>3. file = "cron" =>
            \A k \in Entries, u \in Writers : req'[u] # NoRequest => req'[u].doc[k] <= 2
      BY <1>3, <1>4, <2>2 DEF FilesInv, JobsAreOnOrOff
    <2>4. QED BY <1>1, <2>1, <2>3 DEF JobsAreOnOrOff
  <1>10. QED BY <1>5, <1>7, <1>8, <1>9 DEF FilesInv

\* A text written into the file that was emptied for it is the whole file.
LEMMA WriteAddsUp ==
  ASSUME FilesInv, NEW w \in Writers, WriteText(w)
  PROVE  FilesInv'
  <1>t. FilesTypeOK
    BY DEF FilesInv
  <1>1. /\ req[w].stage = "open" /\ req' = [req EXCEPT ![w] = NoRequest]
        /\ disk' = IF Size(disk.doc) > Size(req[w].doc) THEN [disk EXCEPT !.state = "bad"]
                   ELSE [doc |-> req[w].doc, state |-> "good"]
        /\ UNCHANGED <<file, loaded, ledger, disturbed>>
    BY DEF WriteText
  <1>2. req[w] \in FileRequests
    BY <1>t, <1>1 DEF FilesTypeOK, NoRequest
  <1>3. req[w].doc \in Docs
    BY <1>2 DEF FileRequests
  <1>4. /\ req' \in [Writers -> FileRequests \cup {NoRequest}]
        /\ req'[w] = NoRequest /\ \A u \in Writers \ {w} : req'[u] = req[u]
    BY <1>t, <1>1 DEF FilesTypeOK
  <1>5. disk' \in Texts /\ disk'.state \in {"good", "bad"}
    <2>1. [disk EXCEPT !.state = "bad"] \in Texts /\ [disk EXCEPT !.state = "bad"].state = "bad"
      BY <1>t DEF FilesTypeOK, Texts
    <2>2. [doc |-> req[w].doc, state |-> "good"] \in Texts
      BY <1>3 DEF Texts
    <2>3. QED BY <1>1, <2>1, <2>2
  <1>6. FilesTypeOK'
    BY <1>t, <1>1, <1>4, <1>5 DEF FilesTypeOK
  <1>7. ASSUME ~disturbed
        PROVE  /\ \A u \in Writers : req'[u] = NoRequest
               /\ disk'.state = "good" /\ disk'.doc = ledger
    <2>1. req[w] # NoRequest
      BY <1>2, DocTypes
    <2>2. /\ \A u \in Writers \ {w} : req[u] = NoRequest
          /\ req[w].doc = ledger /\ disk = [doc |-> Empty, state |-> "bad"]
      BY <1>1, <1>7, <2>1 DEF FilesInv, OneEditAtATime
    <2>3. disk.doc = Empty
      BY <2>2
    <2>4. ~(Size(disk.doc) > Size(req[w].doc))
      BY <1>3, <2>3, EmptyIsShortest
    <2>5. disk' = [doc |-> req[w].doc, state |-> "good"]
      BY <1>1, <2>4
    <2>6. QED BY <1>4, <2>2, <2>5
  <1>8. EditsAddUp'
    BY <1>1, <1>7 DEF EditsAddUp
  <1>9. OneEditAtATime'
    BY <1>1, <1>7 DEF OneEditAtATime
  <1>10. JobsAreOnOrOff'
    <2>1. disk'.doc = disk.doc \/ disk'.doc = req[w].doc
      BY <1>t, <1>1 DEF FilesTypeOK, Texts
    <2>2. req[w] # NoRequest
      BY <1>2, DocTypes
    <2>3. file = "cron" => \A k \in Entries : disk'.doc[k] <= 2
      BY <2>1, <2>2 DEF FilesInv, JobsAreOnOrOff
    <2>4. QED BY <1>1, <1>4, <2>3 DEF FilesInv, JobsAreOnOrOff
  <1>11. QED BY <1>5, <1>6, <1>8, <1>9, <1>10 DEF FilesInv

\* Every step keeps the invariant.
LEMMA FilesStep == FilesInv /\ [FilesNext]_fileVars => FilesInv'
  <1> SUFFICES ASSUME FilesInv, [FilesNext]_fileVars PROVE FilesInv'
    OBVIOUS
  <1>t. FilesTypeOK /\ disk.doc \in Docs /\ Empty \in Docs /\ disk.state \in {"missing", "good", "bad"}
    BY DocTypes DEF FilesInv
  <1>a. ASSUME NEW w \in Writers, NEW k \in Entries, NEW v \in 0..Longest,
               \E hashed \in BOOLEAN : Change(w, disk.doc, hashed, k, v), file = "cron" => v <= 2
        PROVE  FilesInv'
    BY <1>t, <1>a, ChangeAddsUp DEF FilesInv, JobsAreOnOrOff
  <1>b. \A k \in Entries : disk.doc[k] \in 0..Longest /\ (file = "cron" => disk.doc[k] <= 2)
    BY <1>t DEF Docs, FilesInv, JobsAreOnOrOff
  <1>1. CASE Load
    <2>1. /\ disk.doc \in Docs /\ loaded' = disk.doc
          /\ UNCHANGED <<file, disk, req, ledger, disturbed>>
      BY <1>t, <1>1 DEF Load
    <2>2. FilesTypeOK'
      BY <1>t, <2>1 DEF FilesTypeOK
    <2>3. QED BY <2>1, <2>2 DEF FilesInv, EditsAddUp, OneEditAtATime, JobsAreOnOrOff, Busy, Empty
  <1>2. CASE ServerStops
    <2>1. /\ req' = [w \in Writers |-> NoRequest] /\ disturbed' = TRUE /\ ledger' = Empty
          /\ UNCHANGED <<file, disk, loaded>>
      BY <1>2 DEF ServerStops
    <2>2. FilesTypeOK'
      BY <1>t, <2>1 DEF FilesTypeOK
    <2>3. QED BY <2>1, <2>2 DEF FilesInv, EditsAddUp, OneEditAtATime, JobsAreOnOrOff, Empty
  <1>3. ASSUME NEW w \in Writers, NEW k \in Entries, NEW v \in 0..Longest, NEW hashed \in BOOLEAN,
               UpdateConfig(w, k, v, hashed) \/ SaveAllowlist(w, k, v, hashed)
        PROVE  FilesInv'
    BY <1>3, <1>a DEF UpdateConfig, SaveAllowlist
  <1>4. ASSUME NEW w \in Writers, NEW k \in Entries, AddJob(w, k)
        PROVE  FilesInv'
    <2> DEFINE base == IF disk.state = "good" THEN disk.doc ELSE Empty
    <2>1. \E hashed \in BOOLEAN : Change(w, base, hashed, k, 2)
      BY <1>4 DEF AddJob
    <2>2. base \in Docs /\ 2 \in 0..Longest
      BY <1>t
    <2>3. ~disturbed /\ ~Busy => base = disk.doc
      BY <1>t DEF FilesInv, EditsAddUp
    <2>5. file = "cron" => \A l \in Entries : base[l] <= 2
      <3>1. \A l \in Entries : Empty[l] = 0
        BY DEF Empty
      <3>2. QED BY <1>b, <3>1
    <2> HIDE DEF base
    <2>4. QED BY <2>1, <2>2, <2>3, <2>5, ChangeAddsUp
  <1>5. ASSUME NEW w \in Writers, NEW k \in Entries, ToggleJob(w, k) \/ RemoveJob(w, k)
        PROVE  FilesInv'
    <2>1. CASE RemoveJob(w, k)
      <3>1. \E hashed \in BOOLEAN : Change(w, disk.doc, hashed, k, 0)
        BY <2>1 DEF RemoveJob
      <3>2. 0 \in 0..Longest /\ 0 <= 2
        OBVIOUS
      <3>3. QED BY <1>a, <3>1, <3>2
    <2>2. CASE ToggleJob(w, k)
      <3>1. \E hashed \in BOOLEAN : Change(w, disk.doc, hashed, k, 3 - disk.doc[k])
        BY <2>2 DEF ToggleJob
      <3>0. file = "cron" /\ disk.doc[k] # 0
        BY <2>2 DEF ToggleJob
      <3>2. 3 - disk.doc[k] \in 0..Longest /\ 3 - disk.doc[k] <= 2
        BY <1>b, <3>0
      <3>3. QED BY <1>a, <3>1, <3>2
    <2>3. QED BY <1>5, <2>1, <2>2
  <1>6. ASSUME NEW w \in Writers, NEW k \in Entries, NEW l \in Entries, CloneJob(w, k, l)
        PROVE  FilesInv'
    <2>1. \E hashed \in BOOLEAN : Change(w, disk.doc, hashed, l, disk.doc[k])
      BY <1>6 DEF CloneJob
    <2>2. QED BY <1>a, <1>b, <2>1
  <1>7. CASE \E w \in Writers : OpenFile(w) \/ WriteText(w)
    BY <1>7, OpenAddsUp, WriteAddsUp
  <1>8. CASE UNCHANGED fileVars
    <2>1. UNCHANGED <<file, disk, loaded, req, ledger, disturbed>>
      BY <1>8 DEF fileVars
    <2>2. FilesTypeOK'
      BY <1>t, <2>1 DEF FilesTypeOK
    <2>3. QED BY <2>1, <2>2 DEF FilesInv, EditsAddUp, OneEditAtATime, JobsAreOnOrOff, Busy, Empty
  <1>9. QED
    BY <1>1, <1>2, <1>3, <1>4, <1>5, <1>6, <1>7, <1>8 DEF FilesNext

\* At the start a file holds no edits, or those that the gateway's file begins with.
LEMMA FilesStart == FilesInit => FilesInv
  <1> SUFFICES ASSUME FilesInit PROVE FilesInv
    OBVIOUS
  <1> DEFINE doc == IF file = "config" THEN [k \in Entries |-> IF k \in Roots THEN 1 ELSE 0] ELSE Empty
  <1>1. doc \in Docs /\ (file # "config" => doc = Empty) /\ \A k \in Entries : doc[k] <= 2
    BY DEF Docs, Empty
  <1>2. /\ disk = [doc |-> doc, state |-> IF file = "config" THEN "good" ELSE "missing"]
        /\ loaded = doc /\ ledger = doc /\ disturbed = FALSE /\ file \in Files
        /\ req = [w \in Writers |-> NoRequest]
    BY DEF FilesInit
  <1> HIDE DEF doc
  <1>3. FilesTypeOK
    BY <1>1, <1>2 DEF FilesTypeOK, Texts
  <1>4. disk.doc = doc /\ disk.state # "bad" /\ (disk.state = "missing" => doc = Empty)
    BY <1>1, <1>2
  <1>5. QED BY <1>1, <1>2, <1>3, <1>4 DEF FilesInv, EditsAddUp, OneEditAtATime, JobsAreOnOrOff

\* Requests that do not overlap lose nothing of each other, unless a restart
\* came between reading and the end of writing.
THEOREM EditsAreKept == FilesSpec => [](EditsAddUp /\ OneEditAtATime)
  <1>1. FilesInit => FilesInv
    BY FilesStart
  <1>2. FilesInv /\ [FilesNext]_fileVars => FilesInv'
    BY FilesStep
  <1>3. FilesInv => EditsAddUp /\ OneEditAtATime
    BY DEF FilesInv
  <1>4. QED BY <1>1, <1>2, <1>3, PTL DEF FilesSpec

-----------------------------------------------------------------------------
(* The four together *)

\* Each component keeps its own invariant while it takes its steps, and while
\* another one does.
Together == TicketInv /\ BegunInv /\ FilesInv /\ AccountsInv

\* A step is one of one component, and all the others stand still.
LEMMA TogetherStep == Together /\ [WorkNext]_workVars => Together'
  <1>1. ASSUME Together, TicketingNext \/ UNCHANGED ticketingVars PROVE TicketInv'
    BY <1>1, TicketStep DEF Together
  <1>2. ASSUME Together, PipelinesNext \/ UNCHANGED pipelineVars PROVE BegunInv'
    BY <1>2, BegunStep DEF Together
  <1>3. ASSUME Together, FilesNext \/ UNCHANGED fileVars PROVE FilesInv'
    BY <1>3, FilesStep DEF Together
  <1>4. ASSUME Together, AccountsNext \/ UNCHANGED accountVars PROVE AccountsInv'
    BY <1>4, AccountsStep DEF Together
  <1>5. ASSUME WorkNext \/ UNCHANGED workVars
        PROVE  /\ TicketingNext \/ UNCHANGED ticketingVars
               /\ PipelinesNext \/ UNCHANGED pipelineVars
               /\ FilesNext \/ UNCHANGED fileVars
               /\ AccountsNext \/ UNCHANGED accountVars
    BY <1>5, Zenon DEF WorkNext, Only, workVars
  <1>6. QED BY <1>1, <1>2, <1>3, <1>4, <1>5 DEF Together

\* Every variable of tickets, pipelines, files and accounts has its type, with
\* the references between rows that the types state: what a project, a run, a
\* request or a session names is there.
THEOREM WorkTyped == WorkSpec => []WorkTypeOK
  <1>1. WorkInit => Together
    BY TicketStart, BegunInit, FilesStart, AccountsStart DEF WorkInit, Together
  <1>2. Together /\ [WorkNext]_workVars => Together'
    BY TogetherStep
  <1>3. Together => WorkTypeOK
    BY DEF Together, WorkTypeOK, TicketInv, BegunInv, FilesInv, AccountsInv
  <1>4. QED BY <1>1, <1>2, <1>3, PTL DEF WorkSpec
=============================================================================
