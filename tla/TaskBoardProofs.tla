-------------------------- MODULE TaskBoardProofs --------------------------
(***************************************************************************)
(* What holds of TaskBoard for every set of tasks, agents and runs.        *)
(*                                                                         *)
(* Two shapes of step are all there is: a handler writes some tasks and    *)
(* leaves the runs alone, and a run takes a turn: it ends one task and     *)
(* takes up another.  Each action is shown to have one of the shapes, and  *)
(* what the properties need is proved of the shapes.                       *)
(***************************************************************************)
EXTENDS TaskBoard, FiniteSetTheorems, TLAPS

-----------------------------------------------------------------------------
(* The two shapes *)

\* The task a run waits for and the rest of its batch, for either kind of run.
Current == [w \in Runs |-> IF w \in DispatchRuns THEN serving[w] ELSE judging[w]]
Waiting == [w \in Runs |-> IF w \in DispatchRuns THEN batch[w] ELSE pending[w]]

\* The column a run takes tasks from, the one it puts them in while it works on
\* them and those it may give them back in.
Source(w)  == IF w \in DispatchRuns THEN "assigned" ELSE "review"
Under(w)   == IF w \in DispatchRuns THEN "in_progress" ELSE "quality_review"
Outcome(w) == IF w \in DispatchRuns THEN {"review", "assigned"}
              ELSE {"done", "in_progress", "review"}

\* A handler has written the tasks S, and put those in closed to done unreviewed.
Handled(S, closed) ==
  /\ S \subseteq Tasks /\ closed \subseteq S
  /\ \A t \in Tasks \ S : (t \in rows' <=> t \in rows) /\ status'[t] = status[t]
  /\ UNCHANGED runVars
  /\ Noted(S, closed)

\* Run w has given back its task in column v and taken next out of rest, or
\* nothing when nothing is left.
Turned(w, v, rest, next) ==
  /\ rest \subseteq Tasks /\ next \in rest \cup {Nobody} /\ (next = Nobody => rest = {})
  /\ rows' = rows
  /\ \A t \in rows : status'[t] = IF t = next THEN Under(w)
                                  ELSE IF t = Current[w] THEN v ELSE status[t]
  /\ \A t \in Tasks \ rows : status'[t] = status[t]
  /\ Current' = [Current EXCEPT ![w] = next]
  /\ Waiting' = [Waiting EXCEPT ![w] = rest \ {next}]
  /\ unreviewed' = unreviewed \ {Current[w], next}
  /\ disturbed' = (disturbed \cup ({Current[w], next} \cap Held(Runs \ {w})))
                    \cap (Held(Runs \ {w}) \cup rest)
  /\ loose' = (loose \ {Current[w], next}) \cup
              (IF v = "in_progress" THEN {Current[w]} ELSE {})

\* Where rest comes from: it is what w has left of its batch, or w was idle and
\* has read a new one.
Ready(w, rest) ==
  \/ Current[w] # Nobody /\ rest = Waiting[w]
  \/ Current[w] = Nobody /\ rest # {} /\ \A t \in rest : t \in rows /\ status[t] = Source(w)

\* A step of run w.
TakesTurn(w) ==
  \E v \in Outcome(w), rest \in SUBSET Tasks, next \in Tasks \cup {Nobody} :
    Turned(w, v, rest, next) /\ Ready(w, rest)

\* A column written with one value has it where rows were written, and keeps
\* the old one elsewhere.
LEMMA WriteAt ==
  ASSUME NEW col, NEW S, NEW v, NEW t \in Tasks
  PROVE  Write(col, S, v)[t] = IF t \in S \cap rows THEN v ELSE col[t]
  BY DEF Write

\* The step of a dispatch run between two awaits is a turn.
LEMMA ServeNextTurns ==
  ASSUME TypeOK, NEW d \in DispatchRuns, NEW v, v # "in_progress", NEW rest \in SUBSET Tasks,
         ServeNext(d, rest, Write(status, {serving[d]}, v)),
         UNCHANGED <<rows, judging, pending>>
  PROVE  \E next \in Tasks \cup {Nobody} : Turned(d, v, rest, next)
  <1> DEFINE column == Write(status, {serving[d]}, v)
  <1>1. /\ d \in Runs /\ Nobody \notin Tasks /\ Current[d] = serving[d]
        /\ rows \subseteq Tasks /\ unreviewed \subseteq Tasks /\ disturbed \subseteq Tasks
        /\ loose \subseteq Tasks /\ serving \in [DispatchRuns -> Tasks \cup {Nobody}]
        /\ batch \in [DispatchRuns -> SUBSET Tasks]
    BY BoardAssumption DEF Runs, Current, TypeOK
  <1>2. \A t \in Tasks : column[t] = IF t \in rows /\ t = serving[d] THEN v ELSE status[t]
    BY WriteAt
  <1> HIDE DEF column
  <1>3. ASSUME NEW next \in Tasks \cup {Nobody},
               serving' = [serving EXCEPT ![d] = next],
               batch' = [batch EXCEPT ![d] = rest \ {next}]
        PROVE  /\ Current' = [Current EXCEPT ![d] = next]
               /\ Waiting' = [Waiting EXCEPT ![d] = rest \ {next}]
    BY <1>1, <1>3 DEF Current, Waiting, Runs
  <1>4. CASE rest = {}
    <2>1. /\ status' = column
          /\ serving' = [serving EXCEPT ![d] = Nobody]
          /\ batch' = [batch EXCEPT ![d] = {}]
          /\ RunNoted(d, {serving[d]}, {}, {})
      BY <1>4 DEF ServeNext, column
    <2>2. Current' = [Current EXCEPT ![d] = Nobody] /\ Waiting' = [Waiting EXCEPT ![d] = rest \ {Nobody}]
      BY <1>3, <1>4, <2>1
    <2>3. /\ unreviewed' = unreviewed \ {serving[d], Nobody}
          /\ loose' = (loose \ {serving[d], Nobody}) \cup {}
      BY <1>1, <2>1 DEF RunNoted
    <2>4. disturbed' = (disturbed \cup ({serving[d], Nobody} \cap Held(Runs \ {d})))
                         \cap (Held(Runs \ {d}) \cup {})
      BY <1>1, <2>1 DEF RunNoted, Held
    <2>5. Turned(d, v, rest, Nobody)
      BY <1>1, <1>2, <1>4, <2>1, <2>2, <2>3, <2>4 DEF Turned
    <2>6. QED BY <2>5
  <1>5. CASE rest # {}
    <2>1. PICK t \in rest : /\ status' = Write(column, {t}, "in_progress")
                            /\ serving' = [serving EXCEPT ![d] = t]
                            /\ batch' = [batch EXCEPT ![d] = rest \ {t}]
                            /\ RunNoted(d, {serving[d], t}, {}, rest)
      BY <1>5 DEF ServeNext, column
    <2>2. Current' = [Current EXCEPT ![d] = t] /\ Waiting' = [Waiting EXCEPT ![d] = rest \ {t}]
      BY <1>3, <2>1
    <2>3. \A u \in Tasks : status'[u] = IF u \in rows /\ u = t THEN "in_progress" ELSE column[u]
      BY <2>1, WriteAt
    <2>4. Turned(d, v, rest, t)
      BY <1>1, <1>2, <2>1, <2>2, <2>3 DEF Turned, RunNoted, Under
    <2>5. QED BY <2>4
  <1>6. QED BY <1>4, <1>5

\* So is that of a review run.
LEMMA JudgeNextTurns ==
  ASSUME TypeOK, NEW r \in ReviewRuns, NEW v, NEW rest \in SUBSET Tasks,
         JudgeNext(r, rest, Write(status, {judging[r]}, v),
                   IF v = "in_progress" THEN {judging[r]} ELSE {}),
         UNCHANGED <<rows, serving, batch>>
  PROVE  \E next \in Tasks \cup {Nobody} : Turned(r, v, rest, next)
  <1> DEFINE column == Write(status, {judging[r]}, v)
             back == IF v = "in_progress" THEN {judging[r]} ELSE {}
  <1>1. /\ r \in Runs /\ r \notin DispatchRuns /\ Nobody \notin Tasks /\ Current[r] = judging[r]
        /\ rows \subseteq Tasks /\ unreviewed \subseteq Tasks /\ disturbed \subseteq Tasks
        /\ loose \subseteq Tasks /\ judging \in [ReviewRuns -> Tasks \cup {Nobody}]
        /\ pending \in [ReviewRuns -> SUBSET Tasks]
    BY BoardAssumption DEF Runs, Current, TypeOK
  <1>2. \A t \in Tasks : column[t] = IF t \in rows /\ t = judging[r] THEN v ELSE status[t]
    BY WriteAt
  <1>b. back = IF v = "in_progress" THEN {Current[r]} ELSE {}
    BY <1>1
  <1>j. JudgeNext(r, rest, column, back)
    OBVIOUS
  <1> HIDE DEF column, back
  <1>3. ASSUME NEW next \in Tasks \cup {Nobody},
               judging' = [judging EXCEPT ![r] = next],
               pending' = [pending EXCEPT ![r] = rest \ {next}]
        PROVE  /\ Current' = [Current EXCEPT ![r] = next]
               /\ Waiting' = [Waiting EXCEPT ![r] = rest \ {next}]
    BY <1>1, <1>3, BoardAssumption DEF Current, Waiting, Runs
  <1>4. CASE rest = {}
    <2>1. /\ status' = column
          /\ judging' = [judging EXCEPT ![r] = Nobody]
          /\ pending' = [pending EXCEPT ![r] = {}]
          /\ RunNoted(r, {judging[r]}, back, {})
      BY <1>4, <1>j DEF JudgeNext
    <2>2. Current' = [Current EXCEPT ![r] = Nobody] /\ Waiting' = [Waiting EXCEPT ![r] = rest \ {Nobody}]
      BY <1>3, <1>4, <2>1
    <2>3. /\ unreviewed' = unreviewed \ {judging[r], Nobody}
          /\ loose' = (loose \ {judging[r], Nobody}) \cup back
      BY <1>1, <2>1 DEF RunNoted
    <2>4. disturbed' = (disturbed \cup ({judging[r], Nobody} \cap Held(Runs \ {r})))
                         \cap (Held(Runs \ {r}) \cup {})
      BY <1>1, <2>1 DEF RunNoted, Held
    <2>5. Turned(r, v, rest, Nobody)
      BY <1>1, <1>2, <1>4, <1>b, <2>1, <2>2, <2>3, <2>4 DEF Turned
    <2>6. QED BY <2>5
  <1>5. CASE rest # {}
    <2>1. PICK t \in rest : /\ status' = Write(column, {t}, "quality_review")
                            /\ judging' = [judging EXCEPT ![r] = t]
                            /\ pending' = [pending EXCEPT ![r] = rest \ {t}]
                            /\ RunNoted(r, {judging[r], t}, back, rest)
      BY <1>5, <1>j DEF JudgeNext
    <2>2. Current' = [Current EXCEPT ![r] = t] /\ Waiting' = [Waiting EXCEPT ![r] = rest \ {t}]
      BY <1>3, <2>1
    <2>3. \A u \in Tasks : status'[u] = IF u \in rows /\ u = t THEN "quality_review" ELSE column[u]
      BY <2>1, WriteAt
    <2>4. Turned(r, v, rest, t)
      BY <1>1, <1>2, <1>b, <2>1, <2>2, <2>3 DEF Turned, RunNoted, Under
    <2>5. QED BY <2>4
  <1>6. QED BY <1>4, <1>5

\* A batch the query returns is not empty when there is anything to return.
LEMMA BatchesHaveTasks ==
  ASSUME NEW S, NEW candidates, candidates # {}, IsBatch(S, candidates)
  PROVE  S # {}
  BY FS_EmptySet, BoardAssumption DEF IsBatch

\* A run that serves nothing has no row to give back.
LEMMA NothingToGiveBack ==
  ASSUME TypeOK, NEW v
  PROVE  Write(status, {Nobody}, v) = status
  BY BoardAssumption DEF Write, TypeOK

\* Every step of a dispatch run is a turn, and makes nothing done.
LEMMA DispatcherTurns ==
  ASSUME TypeOK, NEW d \in DispatchRuns, Dispatcher(d)
  PROVE  \E v \in Outcome(d), rest \in SUBSET Tasks, next \in Tasks \cup {Nobody} :
           Turned(d, v, rest, next) /\ Ready(d, rest)
  <1>0. d \in Runs /\ Current[d] = serving[d] /\ Waiting[d] = batch[d] /\ batch[d] \in SUBSET Tasks
    BY DEF Runs, Current, Waiting, TypeOK
  <1>1. CASE StartDispatch(d)
    <2>1. PICK S \in SUBSET Dispatchable : IsBatch(S, Dispatchable) /\ ServeNext(d, S, status)
      BY <1>1 DEF StartDispatch
    <2>2. /\ S \in SUBSET Tasks /\ S # {}
          /\ \A t \in S : t \in rows /\ status[t] = "assigned"
      BY <1>1, <2>1, BatchesHaveTasks DEF StartDispatch, Dispatchable, TypeOK
    <2>3. serving[d] = Nobody /\ UNCHANGED <<rows, judging, pending>>
      BY <1>1 DEF StartDispatch
    <2>4. status = Write(status, {serving[d]}, "review")
      BY <2>3, NothingToGiveBack
    <2>5. ServeNext(d, S, Write(status, {serving[d]}, "review"))
      BY <2>1, <2>4
    <2>6. PICK next \in Tasks \cup {Nobody} : Turned(d, "review", S, next)
      BY <2>2, <2>3, <2>5, ServeNextTurns
    <2>7. Ready(d, S) /\ "review" \in Outcome(d)
      BY <1>0, <2>2, <2>3 DEF Ready, Source, Outcome
    <2>8. QED BY <2>2, <2>6, <2>7
  <1>2. ASSUME NEW v \in {"review", "assigned"}, serving[d] # Nobody,
               ServeNext(d, batch[d], Write(status, {serving[d]}, v)),
               UNCHANGED <<rows, judging, pending>>
        PROVE  \E u \in Outcome(d), rest \in SUBSET Tasks, next \in Tasks \cup {Nobody} :
                 Turned(d, u, rest, next) /\ Ready(d, rest)
    <2>1. PICK next \in Tasks \cup {Nobody} : Turned(d, v, batch[d], next)
      BY <1>0, <1>2, ServeNextTurns
    <2>2. Ready(d, batch[d]) /\ v \in Outcome(d)
      BY <1>0, <1>2 DEF Ready, Outcome
    <2>3. QED BY <1>0, <2>1, <2>2
  <1>3. CASE AgentAnswers(d)
    BY <1>2, <1>3 DEF AgentAnswers
  <1>4. CASE AgentFails(d)
    BY <1>2, <1>4 DEF AgentFails
  <1>5. QED BY <1>1, <1>3, <1>4 DEF Dispatcher

\* The step of a review run that a verdict ends is a turn.
LEMMA VerdictTurns ==
  ASSUME TypeOK, NEW r \in ReviewRuns, NEW verdict \in Verdicts, AegisVerdict(r, verdict)
  PROVE  \E next \in Tasks \cup {Nobody} :
           /\ Turned(r, IF verdict = "approved" THEN "done" ELSE "in_progress", pending[r], next)
           /\ Ready(r, pending[r])
  <1> DEFINE v == IF verdict = "approved" THEN "done" ELSE "in_progress"
  <1>1. /\ r \in Runs /\ Current[r] = judging[r] /\ Waiting[r] = pending[r]
        /\ pending[r] \in SUBSET Tasks /\ judging[r] # Nobody
        /\ UNCHANGED <<rows, serving, batch>>
    BY BoardAssumption DEF Runs, Current, Waiting, TypeOK, AegisVerdict
  <1>2. (IF verdict = "approved" THEN {} ELSE {judging[r]})
           = (IF v = "in_progress" THEN {judging[r]} ELSE {})
    OBVIOUS
  <1>3. JudgeNext(r, pending[r], Write(status, {judging[r]}, v),
                  IF v = "in_progress" THEN {judging[r]} ELSE {})
    BY <1>2 DEF AegisVerdict
  <1> HIDE DEF v
  <1>4. PICK next \in Tasks \cup {Nobody} : Turned(r, v, pending[r], next)
    BY <1>1, <1>3, JudgeNextTurns
  <1>5. Ready(r, pending[r])
    BY <1>1 DEF Ready
  <1>6. QED BY <1>4, <1>5 DEF v

\* The other steps of a review run are turns that make nothing done.
LEMMA OtherReviewTurns ==
  ASSUME TypeOK, NEW r \in ReviewRuns, StartReview(r) \/ AegisFails(r)
  PROVE  \E rest \in SUBSET Tasks, next \in Tasks \cup {Nobody} :
           Turned(r, "review", rest, next) /\ Ready(r, rest)
  <1>0. /\ r \in Runs /\ Current[r] = judging[r] /\ Waiting[r] = pending[r]
        /\ pending[r] \in SUBSET Tasks /\ r \notin DispatchRuns
        /\ UNCHANGED <<rows, serving, batch>>
    BY BoardAssumption DEF Runs, Current, Waiting, TypeOK, StartReview, AegisFails
  <1>1. CASE StartReview(r)
    <2>1. PICK S \in SUBSET Reviewable : IsBatch(S, Reviewable) /\ JudgeNext(r, S, status, {})
      BY <1>1 DEF StartReview
    <2>2. /\ S \in SUBSET Tasks /\ S # {}
          /\ \A t \in S : t \in rows /\ status[t] = "review"
      BY <1>1, <2>1, BatchesHaveTasks DEF StartReview, Reviewable, TypeOK
    <2>3. judging[r] = Nobody
      BY <1>1 DEF StartReview
    <2>4. status = Write(status, {judging[r]}, "review")
      BY <2>3, NothingToGiveBack
    <2>5. JudgeNext(r, S, Write(status, {judging[r]}, "review"),
                    IF "review" = "in_progress" THEN {judging[r]} ELSE {})
      BY <2>1, <2>4
    <2>6. PICK next \in Tasks \cup {Nobody} : Turned(r, "review", S, next)
      BY <1>0, <2>2, <2>5, JudgeNextTurns
    <2>7. Ready(r, S)
      BY <1>0, <2>2, <2>3 DEF Ready, Source
    <2>8. QED BY <2>2, <2>6, <2>7
  <1>2. CASE AegisFails(r)
    <2>1. JudgeNext(r, pending[r], Write(status, {judging[r]}, "review"),
                    IF "review" = "in_progress" THEN {judging[r]} ELSE {})
      BY <1>2 DEF AegisFails
    <2>2. PICK next \in Tasks \cup {Nobody} : Turned(r, "review", pending[r], next)
      BY <1>0, <2>1, JudgeNextTurns
    <2>3. Ready(r, pending[r])
      BY <1>0, <1>2 DEF Ready, AegisFails
    <2>4. QED BY <1>0, <2>2, <2>3
  <1>3. QED BY <1>1, <1>2

\* Every step of a review run is a turn.
LEMMA ReviewerTurns ==
  ASSUME TypeOK, NEW r \in ReviewRuns, Reviewer(r)
  PROVE  TakesTurn(r)
  <1>0. r \notin DispatchRuns /\ pending[r] \in SUBSET Tasks
    BY BoardAssumption DEF TypeOK
  <1>1. CASE StartReview(r) \/ AegisFails(r)
    <2>1. PICK rest \in SUBSET Tasks, next \in Tasks \cup {Nobody} :
            Turned(r, "review", rest, next) /\ Ready(r, rest)
      BY <1>1, OtherReviewTurns
    <2>2. "review" \in Outcome(r)
      BY <1>0 DEF Outcome
    <2>3. QED BY <2>1, <2>2 DEF TakesTurn
  <1>2. ASSUME NEW verdict \in Verdicts, AegisVerdict(r, verdict) PROVE TakesTurn(r)
    <2> DEFINE v == IF verdict = "approved" THEN "done" ELSE "in_progress"
    <2>1. PICK next \in Tasks \cup {Nobody} : Turned(r, v, pending[r], next) /\ Ready(r, pending[r])
      BY <1>2, VerdictTurns
    <2>2. v \in Outcome(r)
      BY <1>0 DEF Outcome
    <2> HIDE DEF v
    <2>3. QED BY <1>0, <2>1, <2>2 DEF TakesTurn
  <1>3. QED BY <1>1, <1>2 DEF Reviewer

-----------------------------------------------------------------------------
(* The handlers *)

\* CreateTask is a handler's step.
LEMMA CreateTaskHandles ==
  ASSUME TypeOK, NEW t \in Tasks, NEW s, NEW a, CreateTask(t, s, a)
  PROVE  \E S, closed : Handled(S, closed)
  <1> DEFINE closed == IF s = "done" THEN {t} ELSE {}
  <1>1. Noted({t}, closed) /\ UNCHANGED runVars
    BY DEF CreateTask
  <1>2. \A u \in Tasks \ {t} : (u \in rows' <=> u \in rows) /\ status'[u] = status[u]
    BY DEF CreateTask, TypeOK
  <1>3. closed \subseteq {t}
    OBVIOUS
  <1> HIDE DEF closed
  <1>4. Handled({t}, closed)
    BY <1>1, <1>2, <1>3 DEF Handled
  <1>5. QED BY <1>4

\* UpdateTask is.
LEMMA UpdateTaskHandles ==
  ASSUME TypeOK, NEW t \in Tasks, NEW s, NEW a, NEW w, UpdateTask(t, s, a, w)
  PROVE  \E S, closed : Handled(S, closed)
  <1>1. Noted({t}, {}) /\ UNCHANGED runVars
    BY DEF UpdateTask
  <1>2. \A u \in Tasks \ {t} : (u \in rows' <=> u \in rows) /\ status'[u] = status[u]
    BY DEF UpdateTask, TypeOK
  <1>3. Handled({t}, {})
    BY <1>1, <1>2 DEF Handled
  <1>4. QED BY <1>3

\* MoveCards is.
LEMMA MoveCardsHandles ==
  ASSUME TypeOK, NEW S \in SUBSET Tasks, NEW target, MoveCards(S, target)
  PROVE  \E W, closed : Handled(W, closed)
  <1>1. Noted(S, {}) /\ UNCHANGED runVars
    BY DEF MoveCards
  <1>2. \A u \in Tasks \ S : (u \in rows' <=> u \in rows) /\ status'[u] = status[u]
    BY DEF MoveCards
  <1>3. Handled(S, {})
    BY <1>1, <1>2 DEF Handled
  <1>4. QED BY <1>3

\* DeleteTask, SubmitReview and ClaimTask are.
LEMMA OtherTaskHandles ==
  ASSUME TypeOK, NEW t \in Tasks, NEW a, NEW who, NEW v,
         DeleteTask(t) \/ SubmitReview(t, who, v) \/ ClaimTask(a, t)
  PROVE  \E S, closed : Handled(S, closed)
  <1>1. Noted({t}, {}) /\ UNCHANGED runVars
    BY DEF DeleteTask, SubmitReview, ClaimTask
  <1>2. \A u \in Tasks \ {t} : (u \in rows' <=> u \in rows) /\ status'[u] = status[u]
    BY DEF DeleteTask, SubmitReview, ClaimTask, TypeOK
  <1>3. Handled({t}, {})
    BY <1>1, <1>2 DEF Handled
  <1>4. QED BY <1>3

\* A row for an issue is.
LEMMA InsertIssueHandles ==
  ASSUME TypeOK, NEW t \in Tasks, NEW column, NEW a, NEW closed \in SUBSET {t},
         InsertIssue(t, column, a, closed)
  PROVE  \E S, C : Handled(S, C)
  <1>1. Noted({t}, closed) /\ UNCHANGED runVars
    BY DEF InsertIssue
  <1>2. \A u \in Tasks \ {t} : (u \in rows' <=> u \in rows) /\ status'[u] = status[u]
    BY DEF InsertIssue, TypeOK
  <1>3. Handled({t}, closed)
    BY <1>1, <1>2 DEF Handled
  <1>4. QED BY <1>3

\* So is an issue written over a row.
LEMMA PullIssueHandles ==
  ASSUME TypeOK, NEW t \in Tasks, NEW state, NEW label, PullIssue(t, state, label)
  PROVE  \E S, closed : Handled(S, closed)
  <1>1. PICK closed \in SUBSET {t} : Noted({t}, closed)
    <2> DEFINE column == CASE state = "closed"  -> "done"
                           [] label = "none"    -> status[t]
                           [] OTHER             -> label
               closed == IF column = "done" /\ (status[t] # "done" \/ t \in unreviewed)
                           THEN {t} ELSE {}
    <2>1. Noted({t}, closed)
      BY DEF PullIssue
    <2>2. closed \in SUBSET {t}
      OBVIOUS
    <2> HIDE DEF closed
    <2>3. QED BY <2>1, <2>2
  <1>2. /\ UNCHANGED runVars
        /\ \A u \in Tasks \ {t} : (u \in rows' <=> u \in rows) /\ status'[u] = status[u]
    BY DEF PullIssue, TypeOK
  <1>3. Handled({t}, closed)
    BY <1>1, <1>2 DEF Handled
  <1>4. QED BY <1>3

\* Every step of an operator, of GitHub or of a claim is a handler's step.
LEMMA HandlersHandle ==
  ASSUME TypeOK, Operator \/ GitHub \/ (\E a \in Agents, t \in Tasks : ClaimTask(a, t))
  PROVE  \E S, closed : Handled(S, closed)
  <1>1. CASE Operator
    BY <1>1, CreateTaskHandles, UpdateTaskHandles, MoveCardsHandles, OtherTaskHandles DEF Operator
  <1>2. CASE GitHub
    <2>1. PICK t \in Tasks, state \in {"open", "closed"} :
            \/ \E a \in AskAssignee : ImportIssue(t, state, a)
            \/ \E label \in AskStatus : PullNewIssue(t, state, label)
            \/ \E label \in AskStatus \cup {"none"} : PullIssue(t, state, label)
      BY <1>2 DEF GitHub
    <2>2. ASSUME NEW a \in AskAssignee, ImportIssue(t, state, a)
          PROVE  \E S, closed : Handled(S, closed)
      <3>1. InsertIssue(t, "done", a, {t}) \/ InsertIssue(t, "inbox", a, {})
        BY <2>2 DEF ImportIssue
      <3>2. {t} \in SUBSET {t} /\ {} \in SUBSET {t}
        OBVIOUS
      <3>3. QED BY <3>1, <3>2, InsertIssueHandles
    <2>3. ASSUME NEW label \in AskStatus, PullNewIssue(t, state, label)
          PROVE  \E S, closed : Handled(S, closed)
      <3> DEFINE column == IF state = "closed" THEN "done" ELSE label
      <3>1. (IF column = "done" THEN {t} ELSE {}) \in SUBSET {t}
        OBVIOUS
      <3>2. PICK closed \in SUBSET {t} : InsertIssue(t, column, Unassigned, closed)
        BY <2>3, <3>1 DEF PullNewIssue
      <3> HIDE DEF column
      <3>3. QED BY <3>2, InsertIssueHandles
    <2>4. QED BY <2>1, <2>2, <2>3, PullIssueHandles
  <1>3. CASE \E a \in Agents, t \in Tasks : ClaimTask(a, t)
    BY <1>3, OtherTaskHandles
  <1>4. QED BY <1>1, <1>2, <1>3

-----------------------------------------------------------------------------
(* Type correctness *)

\* Writing one legal value to any rows of a column leaves a legal column.
LEMMA WriteType ==
  ASSUME NEW V, NEW col \in [Tasks -> V], NEW S, NEW v \in V
  PROVE  Write(col, S, v) \in [Tasks -> V]
  BY DEF Write

\* The history variables hold tasks after a handler's step.
LEMMA HandledNotes ==
  ASSUME TypeOK, NEW S, NEW closed, Handled(S, closed)
  PROVE  unreviewed' \subseteq Tasks /\ disturbed' \subseteq Tasks /\ loose' \subseteq Tasks
  BY DEF Handled, Noted, TypeOK

\* And after a turn, which sends back a task at most.
LEMMA TurnedNotes ==
  ASSUME TypeOK, NEW w \in Runs, NEW v, NEW rest, NEW next, Turned(w, v, rest, next),
         v = "in_progress" => Current[w] \in Tasks
  PROVE  unreviewed' \subseteq Tasks /\ disturbed' \subseteq Tasks /\ loose' \subseteq Tasks
  BY DEF Turned, Held, TypeOK

\* The step to the next task of a dispatch batch keeps the types of what it
\* writes.
LEMMA ServeNextType ==
  ASSUME TypeOK, NEW d \in DispatchRuns, NEW rest \in SUBSET Tasks,
         NEW column \in [Tasks -> Statuses], ServeNext(d, rest, column)
  PROVE  /\ status'  \in [Tasks -> Statuses]
         /\ serving' \in [DispatchRuns -> Tasks \cup {Nobody}]
         /\ batch'   \in [DispatchRuns -> SUBSET Tasks]
  <1>1. CASE rest = {}
    BY <1>1 DEF TypeOK, ServeNext
  <1>2. CASE rest # {}
    <2>1. PICK t \in rest : /\ status' = Write(column, {t}, "in_progress")
                            /\ serving' = [serving EXCEPT ![d] = t]
                            /\ batch' = [batch EXCEPT ![d] = rest \ {t}]
      BY <1>2 DEF ServeNext
    <2>2. status' \in [Tasks -> Statuses]
      BY <2>1, WriteType DEF Statuses
    <2>3. QED BY <2>1, <2>2 DEF TypeOK
  <1>3. QED BY <1>1, <1>2

\* The same for a review batch.
LEMMA JudgeNextType ==
  ASSUME TypeOK, NEW r \in ReviewRuns, NEW rest \in SUBSET Tasks,
         NEW column \in [Tasks -> Statuses], NEW back, JudgeNext(r, rest, column, back)
  PROVE  /\ status'  \in [Tasks -> Statuses]
         /\ judging' \in [ReviewRuns -> Tasks \cup {Nobody}]
         /\ pending' \in [ReviewRuns -> SUBSET Tasks]
  <1>1. CASE rest = {}
    BY <1>1 DEF TypeOK, JudgeNext
  <1>2. CASE rest # {}
    <2>1. PICK t \in rest : /\ status' = Write(column, {t}, "quality_review")
                            /\ judging' = [judging EXCEPT ![r] = t]
                            /\ pending' = [pending EXCEPT ![r] = rest \ {t}]
      BY <1>2 DEF JudgeNext
    <2>2. status' \in [Tasks -> Statuses]
      BY <2>1, WriteType DEF Statuses
    <2>3. QED BY <2>1, <2>2 DEF TypeOK
  <1>3. QED BY <1>1, <1>2

\* Every step of an operator keeps the types.
LEMMA OperatorType == TypeOK /\ Operator => TypeOK'
  <1> SUFFICES ASSUME TypeOK, Operator PROVE TypeOK'
    OBVIOUS
  <1>0. unreviewed' \subseteq Tasks /\ disturbed' \subseteq Tasks /\ loose' \subseteq Tasks
    BY HandlersHandle, HandledNotes
  <1>1. ASSUME NEW t \in Tasks, NEW s \in AskStatus, NEW a \in AskAssignee, CreateTask(t, s, a)
        PROVE  TypeOK'
    <2>1. NormalizeTaskCreateStatus(s, a) \in Statuses /\ a \in Assignees
      BY BoardAssumption DEF NormalizeTaskCreateStatus, Statuses, Assignees
    <2>2. QED BY <1>0, <1>1, <2>1 DEF CreateTask, TypeOK, reviewVars, runVars
  <1>2. ASSUME NEW t \in Tasks, NEW s \in AskStatus \cup {"omitted"},
               NEW a \in (AskAssignee \ {Unassigned}) \cup {"same"}, NEW w \in BOOLEAN,
               UpdateTask(t, s, a, w)
        PROVE  TypeOK'
    <2>1. ParsedStatus(s) \in Statuses
      BY BoardAssumption DEF ParsedStatus, Statuses
    <2>2. NormalizeTaskUpdateStatus(status[t], ParsedStatus(s), a, a # "same") = ParsedStatus(s)
      BY <2>1 DEF NormalizeTaskUpdateStatus, Statuses
    <2>3. status' \in [Tasks -> Statuses]
      BY <1>2, <2>1, <2>2 DEF UpdateTask, TypeOK
    <2>4. assignee' \in [Tasks -> Assignees]
      BY <1>2, BoardAssumption DEF UpdateTask, TypeOK, Assignees
    <2>5. fresh' \in [ReviewRuns -> SUBSET Tasks]
      BY <1>2 DEF UpdateTask, NewResolution, TypeOK
    <2>6. QED BY <1>0, <1>2, <2>3, <2>4, <2>5 DEF UpdateTask, TypeOK, reviewVars, runVars
  <1>3. ASSUME NEW S \in SUBSET Tasks, NEW target \in [S -> AskStatus], MoveCards(S, target)
        PROVE  TypeOK'
    <2>1. status' \in [Tasks -> Statuses]
      BY <1>3, BoardAssumption DEF MoveCards, TypeOK, Statuses
    <2>2. QED BY <1>0, <1>3, <2>1 DEF MoveCards, TypeOK, reviewVars, runVars
  <1>4. ASSUME NEW t \in Tasks, DeleteTask(t)
        PROVE  TypeOK'
    BY <1>0, <1>4 DEF DeleteTask, TypeOK, runVars
  <1>5. ASSUME NEW t \in Tasks, NEW who, NEW v \in Verdicts, SubmitReview(t, who, v)
        PROVE  TypeOK'
    <2>1. latest' \in [Tasks -> SUBSET Verdicts]
      BY <1>5 DEF SubmitReview, AfterReview, TypeOK
    <2>2. status' \in [Tasks -> Statuses]
      BY <1>5 DEF SubmitReview, Statuses, TypeOK
    <2>3. signoff' \in [Tasks -> BOOLEAN]
      BY <1>5 DEF SubmitReview, TypeOK
    <2>4. QED BY <1>0, <1>5, <2>1, <2>2, <2>3 DEF SubmitReview, TypeOK, runVars
  <1>6. QED BY <1>1, <1>2, <1>3, <1>4, <1>5 DEF Operator

\* So does every step of GitHub.
LEMMA GitHubType == TypeOK /\ GitHub => TypeOK'
  <1> SUFFICES ASSUME TypeOK, GitHub PROVE TypeOK'
    OBVIOUS
  <1>0. unreviewed' \subseteq Tasks /\ disturbed' \subseteq Tasks /\ loose' \subseteq Tasks
    BY HandlersHandle, HandledNotes
  <1>1. PICK t \in Tasks, state \in {"open", "closed"} :
          \/ \E a \in AskAssignee : ImportIssue(t, state, a)
          \/ \E label \in AskStatus : PullNewIssue(t, state, label)
          \/ \E label \in AskStatus \cup {"none"} : PullIssue(t, state, label)
    BY DEF GitHub
  <1>2. ASSUME NEW column \in Statuses, NEW a \in Assignees, NEW closed,
               InsertIssue(t, column, a, closed)
        PROVE  TypeOK'
    BY <1>0, <1>2 DEF InsertIssue, TypeOK, reviewVars, runVars
  <1>3. ASSUME NEW a \in AskAssignee, ImportIssue(t, state, a)
        PROVE  TypeOK'
    <2>1. a \in Assignees /\ {"done", "inbox"} \subseteq Statuses
      BY BoardAssumption DEF Assignees, Statuses
    <2>2. InsertIssue(t, "done", a, {t}) \/ InsertIssue(t, "inbox", a, {})
      BY <1>3 DEF ImportIssue
    <2>3. QED BY <1>2, <2>1, <2>2
  <1>4. ASSUME NEW label \in AskStatus, PullNewIssue(t, state, label)
        PROVE  TypeOK'
    <2>1. (IF state = "closed" THEN "done" ELSE label) \in Statuses /\ Unassigned \in Assignees
      BY BoardAssumption DEF Assignees, Statuses
    <2>2. PICK column \in Statuses, closed \in SUBSET {t} : InsertIssue(t, column, Unassigned, closed)
      BY <1>4, <2>1 DEF PullNewIssue
    <2>3. QED BY <1>2, <2>1, <2>2
  <1>5. ASSUME NEW label \in AskStatus \cup {"none"}, PullIssue(t, state, label)
        PROVE  TypeOK'
    <2>1. PICK column \in Statuses : status' = [status EXCEPT ![t] = column]
      <3>1. status[t] \in Statuses /\ (label = "none" \/ label \in Statuses) /\ "done" \in Statuses
        BY BoardAssumption DEF TypeOK, Statuses
      <3>2. CASE state = "closed"
        BY <1>5, <3>1, <3>2 DEF PullIssue
      <3>3. CASE state # "closed" /\ label = "none"
        BY <1>5, <3>1, <3>3 DEF PullIssue
      <3>4. CASE state # "closed" /\ label # "none"
        BY <1>5, <3>1, <3>4 DEF PullIssue
      <3>5. QED BY <3>2, <3>3, <3>4
    <2>2. status' \in [Tasks -> Statuses]
      BY <2>1 DEF TypeOK
    <2>3. QED BY <1>0, <1>5, <2>2 DEF PullIssue, TypeOK, reviewVars, runVars
  <1>6. QED BY <1>1, <1>3, <1>4, <1>5

\* A claim keeps the types.
LEMMA ClaimTaskType ==
  ASSUME TypeOK, NEW a \in Agents, NEW t \in Tasks, ClaimTask(a, t)
  PROVE  TypeOK'
  <1>1. unreviewed' \subseteq Tasks /\ disturbed' \subseteq Tasks /\ loose' \subseteq Tasks
    BY HandlersHandle, HandledNotes
  <1>2. QED BY <1>1 DEF ClaimTask, TypeOK, Statuses, Assignees, reviewVars, runVars

\* A dispatch run keeps the types.
LEMMA DispatcherType ==
  ASSUME TypeOK, NEW d \in DispatchRuns, Dispatcher(d)
  PROVE  TypeOK'
  <1>0. unreviewed' \subseteq Tasks /\ disturbed' \subseteq Tasks /\ loose' \subseteq Tasks
    <2>1. PICK v \in Outcome(d), rest \in SUBSET Tasks, next \in Tasks \cup {Nobody} :
            Turned(d, v, rest, next)
      BY DispatcherTurns
    <2>2. v # "in_progress" /\ d \in Runs
      BY <2>1 DEF Outcome, Runs
    <2>3. QED BY <2>1, <2>2, TurnedNotes
  <1>1. CASE StartDispatch(d)
    <2>1. PICK S \in SUBSET Dispatchable : ServeNext(d, S, status)
      BY <1>1 DEF StartDispatch
    <2>2. S \in SUBSET Tasks
      BY <2>1 DEF Dispatchable, TypeOK
    <2>3. QED BY <1>0, <1>1, <2>1, <2>2, ServeNextType DEF StartDispatch, TypeOK, reviewVars
  <1>2. CASE AgentAnswers(d)
    <2>1. Write(status, {serving[d]}, "review") \in [Tasks -> Statuses]
      BY WriteType DEF TypeOK, Statuses
    <2>2. fresh' \in [ReviewRuns -> SUBSET Tasks]
      BY <1>2 DEF AgentAnswers, NewResolution, TypeOK
    <2>3. batch[d] \in SUBSET Tasks
      BY DEF TypeOK
    <2>4. QED BY <1>0, <1>2, <2>1, <2>2, <2>3, ServeNextType DEF AgentAnswers, TypeOK
  <1>3. CASE AgentFails(d)
    <2>1. Write(status, {serving[d]}, "assigned") \in [Tasks -> Statuses]
      BY WriteType DEF TypeOK, Statuses
    <2>2. batch[d] \in SUBSET Tasks
      BY DEF TypeOK
    <2>3. QED BY <1>0, <1>3, <2>1, <2>2, ServeNextType DEF AgentFails, TypeOK, reviewVars
  <1>4. QED BY <1>1, <1>2, <1>3 DEF Dispatcher

\* A review run keeps the types.
LEMMA ReviewerType ==
  ASSUME TypeOK, NEW r \in ReviewRuns, Reviewer(r)
  PROVE  TypeOK'
  <1>0. r \in Runs /\ Current[r] = judging[r] /\ r \notin DispatchRuns
    BY BoardAssumption DEF Runs, Current
  <1>1. CASE StartReview(r)
    <2>1. PICK S \in SUBSET Reviewable :
            JudgeNext(r, S, status, {}) /\ fresh' = [fresh EXCEPT ![r] = S]
      BY <1>1 DEF StartReview
    <2>2. S \in SUBSET Tasks
      BY <2>1 DEF Reviewable, TypeOK
    <2>3. fresh' \in [ReviewRuns -> SUBSET Tasks]
      BY <2>1, <2>2 DEF TypeOK
    <2>4. unreviewed' \subseteq Tasks /\ disturbed' \subseteq Tasks /\ loose' \subseteq Tasks
      BY <1>0, <1>1, OtherReviewTurns, TurnedNotes
    <2>5. QED BY <1>1, <2>1, <2>2, <2>3, <2>4, JudgeNextType DEF StartReview, TypeOK, reviewVars
  <1>2. ASSUME NEW v \in Verdicts, AegisVerdict(r, v) PROVE TypeOK'
    <2> DEFINE t == judging[r]
               column == Write(status, {t}, IF v = "approved" THEN "done" ELSE "in_progress")
               back == IF v = "approved" THEN {} ELSE {t}
    <2>1. t \in Tasks
      BY <1>2 DEF AegisVerdict, TypeOK
    <2>2. column \in [Tasks -> Statuses]
      BY WriteType DEF TypeOK, Statuses
    <2>3. pending[r] \in SUBSET Tasks /\ JudgeNext(r, pending[r], column, back)
      BY <1>2 DEF AegisVerdict, TypeOK
    <2>4. latest' \in [Tasks -> SUBSET Verdicts]
      BY <1>2, <2>1 DEF AegisVerdict, AfterReview, TypeOK
    <2>5. signoff' \in [Tasks -> BOOLEAN]
      BY <1>2, <2>1 DEF AegisVerdict, TypeOK
    <2>6. Current[r] \in Tasks
      BY <1>0, <2>1
    <2> HIDE DEF column, back, t
    <2>7. unreviewed' \subseteq Tasks /\ disturbed' \subseteq Tasks /\ loose' \subseteq Tasks
      BY <1>0, <1>2, <2>6, VerdictTurns, TurnedNotes
    <2>8. /\ status'  \in [Tasks -> Statuses]
          /\ judging' \in [ReviewRuns -> Tasks \cup {Nobody}]
          /\ pending' \in [ReviewRuns -> SUBSET Tasks]
      BY <2>2, <2>3, JudgeNextType
    <2>9. QED BY <1>2, <2>4, <2>5, <2>7, <2>8 DEF AegisVerdict, TypeOK
  <1>3. CASE AegisFails(r)
    <2>1. Write(status, {judging[r]}, "review") \in [Tasks -> Statuses]
      BY WriteType DEF TypeOK, Statuses
    <2>2. pending[r] \in SUBSET Tasks
      BY DEF TypeOK
    <2>3. unreviewed' \subseteq Tasks /\ disturbed' \subseteq Tasks /\ loose' \subseteq Tasks
      BY <1>0, <1>3, OtherReviewTurns, TurnedNotes
    <2>4. QED BY <1>3, <2>1, <2>2, <2>3, JudgeNextType DEF AegisFails, TypeOK, reviewVars
  <1>4. QED BY <1>1, <1>2, <1>3 DEF Reviewer

\* Every step keeps the types.
LEMMA StepType == TypeOK /\ [Next]_vars => TypeOK'
  <1> SUFFICES ASSUME TypeOK, [Next]_vars PROVE TypeOK'
    OBVIOUS
  <1>1. CASE Operator
    BY <1>1, OperatorType
  <1>2. CASE GitHub
    BY <1>2, GitHubType
  <1>3. CASE Restart
    BY <1>3 DEF Restart, TypeOK, rowVars, reviewVars
  <1>4. CASE UNCHANGED vars
    BY <1>4 DEF TypeOK, vars, rowVars, reviewVars, runVars, noteVars
  <1>5. CASE \E a \in Agents, t \in Tasks : PollQueue(a, t)
    BY <1>4, <1>5, ClaimTaskType DEF PollQueue, ContinueCurrent
  <1>6. QED BY <1>1, <1>2, <1>3, <1>4, <1>5, DispatcherType, ReviewerType DEF Next

\* Every variable keeps its type, whoever writes.
THEOREM TypeCorrect == Spec => []TypeOK
  <1>1. Init => TypeOK
    BY DEF Init, TypeOK, Statuses, Assignees
  <1>2. QED BY <1>1, StepType, PTL DEF Spec

-----------------------------------------------------------------------------
(* Done is signed off, whoever writes *)

\* A turn makes at most the task done that it ends, and a task it leaves done
\* keeps its place among the unreviewed.
LEMMA TurnedDone ==
  ASSUME TypeOK, NEW w \in Runs, NEW v, NEW rest, NEW next, Turned(w, v, rest, next),
         NEW t \in rows, status'[t] = "done"
  PROVE  \/ t = Current[w] /\ v = "done"
         \/ status[t] = "done" /\ (t \in unreviewed => t \in unreviewed')
  BY DEF Turned, Under

\* A run's step that makes nothing done and leaves the reviews alone keeps the
\* invariant.
LEMMA QuietTurnSigns ==
  ASSUME SignOffInv, TypeOK', UNCHANGED reviewVars,
         NEW w \in Runs, NEW v, v # "done", NEW rest, NEW next, Turned(w, v, rest, next)
  PROVE  SignOffInv'
  <1>1. rows' = rows /\ latest' = latest /\ signoff' = signoff /\ TypeOK
    BY DEF Turned, reviewVars, SignOffInv
  <1>2. DoneIsSignedOff'
    BY <1>1, TurnedDone DEF SignOffInv, DoneIsSignedOff
  <1>3. ReviewsBelongToRows' /\ ApprovalsAreSignedOff'
    BY <1>1 DEF SignOffInv, ReviewsBelongToRows, ApprovalsAreSignedOff
  <1>4. QED BY <1>2, <1>3 DEF SignOffInv

\* Nor does a handler that leaves the reviews and the rows' number alone, as
\* long as what it makes done is approved or noted as unreviewed.
LEMMA QuietHandlerSigns ==
  ASSUME SignOffInv, TypeOK', UNCHANGED reviewVars, rows \subseteq rows',
         NEW S, NEW closed, Handled(S, closed),
         \A t \in S : status'[t] = "done" => signoff[t] \/ t \in closed
  PROVE  SignOffInv'
  <1>1. latest' = latest /\ signoff' = signoff /\ rows' \subseteq Tasks /\ TypeOK
    BY DEF reviewVars, TypeOK, SignOffInv
  <1>2. \A t \in rows' : status'[t] = "done" => signoff'[t] \/ t \in unreviewed'
    <2> SUFFICES ASSUME NEW t \in rows', status'[t] = "done"
                 PROVE  signoff'[t] \/ t \in unreviewed'
      OBVIOUS
    <2>1. CASE t \in S
      BY <1>1, <2>1 DEF Handled, Noted
    <2>2. CASE t \notin S
      BY <1>1, <2>2 DEF Handled, Noted, SignOffInv, DoneIsSignedOff
    <2>3. QED BY <2>1, <2>2
  <1>3. ReviewsBelongToRows' /\ ApprovalsAreSignedOff'
    BY <1>1 DEF SignOffInv, ReviewsBelongToRows, ApprovalsAreSignedOff
  <1>4. QED BY <1>2, <1>3 DEF SignOffInv, DoneIsSignedOff

\* An approval that opens the gate is one somebody answered for.
LEMMA ApprovedIsSignedOff ==
  ASSUME SignOffInv, NEW t \in Tasks, MayBeApproved(t)
  PROVE  signoff[t]
  BY DEF SignOffInv, ApprovalsAreSignedOff, MayBeApproved

\* A new review of a row keeps reviews with rows and approvals with sign-offs.
LEMMA ReviewSigns ==
  ASSUME SignOffInv, NEW t \in rows, NEW verdict \in Verdicts, rows' = rows,
         \/ \E l \in AfterReview(t, verdict) : latest' = [latest EXCEPT ![t] = l]
         \/ latest' = latest,
         signoff' = [signoff EXCEPT ![t] = @ \/ verdict = "approved"]
  PROVE  ReviewsBelongToRows' /\ ApprovalsAreSignedOff'
  <1>1. /\ latest \in [Tasks -> SUBSET Verdicts] /\ signoff \in [Tasks -> BOOLEAN] /\ t \in Tasks
    BY DEF SignOffInv, TypeOK
  <1>2. \A u \in Tasks \ {t} : latest'[u] = latest[u] /\ (signoff'[u] <=> signoff[u])
    BY <1>1
  <1>3. "approved" \in latest'[t] => verdict = "approved" \/ "approved" \in latest[t]
    BY <1>1 DEF AfterReview
  <1>4. signoff'[t] <=> (signoff[t] \/ verdict = "approved")
    BY <1>1
  <1>5. ReviewsBelongToRows'
    BY <1>2 DEF SignOffInv, ReviewsBelongToRows
  <1>6. ApprovalsAreSignedOff'
    BY <1>2, <1>3, <1>4 DEF SignOffInv, ApprovalsAreSignedOff
  <1>7. QED BY <1>5, <1>6

\* Every step of an operator keeps the invariant.
LEMMA OperatorSigns ==
  ASSUME SignOffInv, TypeOK', Operator
  PROVE  SignOffInv'
  <1>0. TypeOK /\ status \in [Tasks -> Statuses]
    BY DEF SignOffInv, TypeOK
  <1>1. ASSUME NEW t \in Tasks, NEW s \in AskStatus, NEW a \in AskAssignee, CreateTask(t, s, a)
        PROVE  SignOffInv'
    <2> DEFINE closed == IF s = "done" THEN {t} ELSE {}
    <2>1. /\ UNCHANGED reviewVars /\ rows \subseteq rows' /\ UNCHANGED runVars
          /\ \A u \in Tasks \ {t} : (u \in rows' <=> u \in rows) /\ status'[u] = status[u]
          /\ Noted({t}, closed)
      BY <1>0, <1>1 DEF CreateTask
    <2>2. status'[t] = "done" => s = "done"
      BY <1>0, <1>1 DEF CreateTask, NormalizeTaskCreateStatus
    <2>3. closed \subseteq {t} /\ (s = "done" => t \in closed)
      OBVIOUS
    <2> HIDE DEF closed
    <2>4. Handled({t}, closed)
      BY <2>1, <2>3 DEF Handled
    <2>5. QED BY <2>1, <2>2, <2>3, <2>4, QuietHandlerSigns
  <1>2. ASSUME NEW t \in Tasks, NEW s \in AskStatus \cup {"omitted"},
               NEW a \in (AskAssignee \ {Unassigned}) \cup {"same"}, NEW w \in BOOLEAN,
               UpdateTask(t, s, a, w)
        PROVE  SignOffInv'
    <2>1. ParsedStatus(s) \in Statuses
      BY BoardAssumption DEF ParsedStatus, Statuses
    <2>2. NormalizeTaskUpdateStatus(status[t], ParsedStatus(s), a, a # "same") = ParsedStatus(s)
      BY <2>1 DEF NormalizeTaskUpdateStatus, Statuses
    <2>3. status'[t] = ParsedStatus(s) /\ (ParsedStatus(s) = "done" => MayBeApproved(t))
      BY <1>0, <1>2, <2>1, <2>2 DEF UpdateTask, Statuses
    <2>4. status'[t] = "done" => signoff[t]
      BY <2>3, ApprovedIsSignedOff
    <2>5. /\ UNCHANGED reviewVars /\ rows \subseteq rows' /\ UNCHANGED runVars /\ Noted({t}, {})
          /\ \A u \in Tasks \ {t} : (u \in rows' <=> u \in rows) /\ status'[u] = status[u]
      BY <1>0, <1>2 DEF UpdateTask
    <2>6. Handled({t}, {})
      BY <2>5 DEF Handled
    <2>7. QED BY <2>4, <2>5, <2>6, QuietHandlerSigns
  <1>3. ASSUME NEW S \in SUBSET Tasks, NEW target \in [S -> AskStatus], MoveCards(S, target)
        PROVE  SignOffInv'
    <2>1. /\ UNCHANGED reviewVars /\ rows \subseteq rows' /\ UNCHANGED runVars /\ Noted(S, {})
          /\ \A u \in Tasks \ S : (u \in rows' <=> u \in rows) /\ status'[u] = status[u]
      BY <1>3 DEF MoveCards
    <2>2. Handled(S, {})
      BY <2>1 DEF Handled
    <2>3. \A t \in S : status'[t] = "done" => signoff[t]
      BY <1>3, ApprovedIsSignedOff DEF MoveCards
    <2>4. QED BY <2>1, <2>2, <2>3, QuietHandlerSigns
  <1>4. ASSUME NEW t \in Tasks, DeleteTask(t)
        PROVE  SignOffInv'
    BY <1>4 DEF DeleteTask, Noted, SignOffInv, DoneIsSignedOff,
         ReviewsBelongToRows, ApprovalsAreSignedOff, TypeOK
  <1>5. ASSUME NEW t \in Tasks, NEW who, NEW v \in Verdicts, SubmitReview(t, who, v)
        PROVE  SignOffInv'
    <2>1. ReviewsBelongToRows' /\ ApprovalsAreSignedOff'
      BY <1>5, ReviewSigns DEF SubmitReview
    <2>2. /\ \A u \in Tasks \ {t} : status'[u] = status[u] /\ (signoff'[u] <=> signoff[u])
          /\ status'[t] = "done" => signoff'[t]
      BY <1>5 DEF SubmitReview, SignOffInv, TypeOK
    <2>3. rows' = rows /\ unreviewed' = unreviewed \ {t}
      BY <1>5 DEF SubmitReview, Noted
    <2>4. DoneIsSignedOff'
      BY <2>2, <2>3 DEF SignOffInv, DoneIsSignedOff, TypeOK
    <2>5. QED BY <2>1, <2>4 DEF SignOffInv
  <1>6. QED BY <1>1, <1>2, <1>3, <1>4, <1>5 DEF Operator

\* Every step of GitHub keeps the invariant.
LEMMA GitHubSigns ==
  ASSUME SignOffInv, TypeOK', GitHub
  PROVE  SignOffInv'
  <1>0. TypeOK /\ status \in [Tasks -> Statuses]
    BY DEF SignOffInv, TypeOK
  <1>1. PICK t \in Tasks, state \in {"open", "closed"} :
          \/ \E a \in AskAssignee : ImportIssue(t, state, a)
          \/ \E label \in AskStatus : PullNewIssue(t, state, label)
          \/ \E label \in AskStatus \cup {"none"} : PullIssue(t, state, label)
    BY DEF GitHub
  <1>2. ASSUME NEW column, NEW a, NEW closed \in SUBSET {t}, column = "done" => t \in closed,
               InsertIssue(t, column, a, closed)
        PROVE  SignOffInv'
    <2>1. /\ UNCHANGED reviewVars /\ rows \subseteq rows' /\ UNCHANGED runVars /\ Noted({t}, closed)
          /\ \A u \in Tasks \ {t} : (u \in rows' <=> u \in rows) /\ status'[u] = status[u]
          /\ status'[t] = column
      BY <1>0, <1>2 DEF InsertIssue
    <2>2. Handled({t}, closed)
      BY <2>1 DEF Handled
    <2>3. QED BY <1>2, <2>1, <2>2, QuietHandlerSigns
  <1>3. ASSUME NEW a \in AskAssignee, ImportIssue(t, state, a)
        PROVE  SignOffInv'
    <2>1. InsertIssue(t, "done", a, {t}) \/ InsertIssue(t, "inbox", a, {})
      BY <1>3 DEF ImportIssue
    <2>2. {t} \in SUBSET {t} /\ {} \in SUBSET {t} /\ "inbox" # "done" /\ t \in {t}
      OBVIOUS
    <2>3. QED BY <1>2, <2>1, <2>2
  <1>4. ASSUME NEW label \in AskStatus, PullNewIssue(t, state, label)
        PROVE  SignOffInv'
    <2> DEFINE column == IF state = "closed" THEN "done" ELSE label
               closed == IF column = "done" THEN {t} ELSE {}
    <2>1. InsertIssue(t, column, Unassigned, closed)
      BY <1>4 DEF PullNewIssue
    <2>2. closed \in SUBSET {t} /\ (column = "done" => t \in closed)
      OBVIOUS
    <2> HIDE DEF column, closed
    <2>3. QED BY <1>2, <2>1, <2>2
  <1>5. ASSUME NEW label \in AskStatus \cup {"none"}, PullIssue(t, state, label)
        PROVE  SignOffInv'
    <2> DEFINE column == CASE state = "closed"  -> "done"
                           [] label = "none"    -> status[t]
                           [] OTHER             -> label
               closed == IF column = "done" /\ (status[t] # "done" \/ t \in unreviewed)
                           THEN {t} ELSE {}
    <2>1. /\ t \in rows /\ status' = [status EXCEPT ![t] = column] /\ Noted({t}, closed)
      BY <1>5 DEF PullIssue
    <2>2. /\ UNCHANGED reviewVars /\ rows \subseteq rows' /\ UNCHANGED runVars
      BY <1>5 DEF PullIssue
    <2>3. closed \in SUBSET {t}
      OBVIOUS
    <2>4. column = "done" => signoff[t] \/ t \in closed
      <3> SUFFICES ASSUME column = "done", t \notin closed PROVE signoff[t]
        OBVIOUS
      <3>1. status[t] = "done" /\ t \notin unreviewed
        OBVIOUS
      <3>2. QED BY <2>1, <3>1 DEF SignOffInv, DoneIsSignedOff
    <2> HIDE DEF column, closed
    <2>5. /\ status'[t] = column
          /\ \A u \in Tasks \ {t} : (u \in rows' <=> u \in rows) /\ status'[u] = status[u]
      BY <1>0, <1>5, <2>1 DEF PullIssue
    <2>6. Handled({t}, closed)
      BY <2>1, <2>2, <2>3, <2>5 DEF Handled
    <2>7. QED BY <2>2, <2>4, <2>5, <2>6, QuietHandlerSigns
  <1>6. QED BY <1>1, <1>3, <1>4, <1>5

\* A verdict of Aegis keeps the invariant.
LEMMA VerdictSigns ==
  ASSUME SignOffInv, TypeOK', NEW r \in ReviewRuns, NEW verdict \in Verdicts,
         AegisVerdict(r, verdict)
  PROVE  SignOffInv'
  <1> DEFINE v == IF verdict = "approved" THEN "done" ELSE "in_progress"
  <1>0. TypeOK /\ r \in Runs /\ Current[r] = judging[r]
    BY BoardAssumption DEF SignOffInv, Runs, Current
  <1>1. PICK next \in Tasks \cup {Nobody} : Turned(r, v, pending[r], next)
    BY <1>0, VerdictTurns
  <1>2. ReviewsBelongToRows' /\ ApprovalsAreSignedOff'
    BY <1>1, ReviewSigns DEF AegisVerdict, Turned
  <1>3. /\ judging[r] \in rows /\ judging[r] \in Tasks /\ rows' = rows
        /\ \A t \in Tasks : signoff[t] => signoff'[t]
        /\ v = "done" => signoff'[judging[r]]
    <2>1. judging[r] \in rows /\ judging[r] \in Tasks /\ rows' = rows
      BY <1>0 DEF AegisVerdict, TypeOK
    <2>2. /\ signoff' = [signoff EXCEPT ![judging[r]] = @ \/ verdict = "approved"]
          /\ signoff \in [Tasks -> BOOLEAN]
      BY <1>0 DEF AegisVerdict, TypeOK
    <2>3. \A t \in Tasks : signoff[t] => signoff'[t]
      BY <2>1, <2>2
    <2>4. v = "done" => verdict = "approved"
      OBVIOUS
    <2>5. v = "done" => signoff'[judging[r]]
      BY <2>1, <2>2, <2>4
    <2>6. QED BY <2>1, <2>3, <2>5
  <1> HIDE DEF v
  <1>4. ASSUME NEW t \in rows, status'[t] = "done"
        PROVE  signoff'[t] \/ t \in unreviewed'
    <2>1. CASE t = judging[r] /\ v = "done"
      BY <1>3, <2>1
    <2>2. CASE status[t] = "done" /\ (t \in unreviewed => t \in unreviewed')
      BY <1>0, <1>3, <2>2 DEF SignOffInv, DoneIsSignedOff, TypeOK
    <2>3. QED BY <1>0, <1>1, <1>4, <2>1, <2>2, TurnedDone
  <1>5. DoneIsSignedOff'
    BY <1>3, <1>4 DEF DoneIsSignedOff
  <1>6. QED BY <1>2, <1>5 DEF SignOffInv

\* Every step keeps the inductive invariant: a step that makes a task done either
\* records who answers for it, reads an approval that was answered for, or notes
\* that nobody has.
LEMMA SignOffStep == SignOffInv /\ [Next]_vars => SignOffInv'
  <1> SUFFICES ASSUME SignOffInv, [Next]_vars PROVE SignOffInv'
    OBVIOUS
  <1>0. TypeOK /\ TypeOK'
    BY StepType DEF SignOffInv
  <1>1. CASE UNCHANGED vars
    BY <1>0, <1>1 DEF vars, rowVars, reviewVars, noteVars, SignOffInv, DoneIsSignedOff,
         ReviewsBelongToRows, ApprovalsAreSignedOff
  <1>2. ASSUME NEW a \in Agents, NEW t \in Tasks, PollQueue(a, t) PROVE SignOffInv'
    <2>1. CASE ContinueCurrent(a, t)
      BY <1>1, <2>1 DEF ContinueCurrent
    <2>2. CASE ClaimTask(a, t)
      BY <1>0, <2>2 DEF ClaimTask, Noted, reviewVars, SignOffInv, DoneIsSignedOff,
           ReviewsBelongToRows, ApprovalsAreSignedOff, TypeOK
    <2>3. QED BY <1>2, <2>1, <2>2 DEF PollQueue
  <1>3. ASSUME NEW d \in DispatchRuns, Dispatcher(d) PROVE SignOffInv'
    <2>1. PICK v \in Outcome(d), rest \in SUBSET Tasks, next \in Tasks \cup {Nobody} :
            Turned(d, v, rest, next)
      BY <1>0, <1>3, DispatcherTurns
    <2>2. v # "done" /\ d \in Runs /\ UNCHANGED reviewVars
      BY <1>3, <2>1 DEF Outcome, Runs, Dispatcher, StartDispatch, AgentAnswers, AgentFails, reviewVars
    <2>3. QED BY <1>0, <2>1, <2>2, QuietTurnSigns
  <1>4. ASSUME NEW r \in ReviewRuns, StartReview(r) \/ AegisFails(r) PROVE SignOffInv'
    <2>1. PICK rest \in SUBSET Tasks, next \in Tasks \cup {Nobody} : Turned(r, "review", rest, next)
      BY <1>0, <1>4, OtherReviewTurns
    <2>2. "review" # "done" /\ r \in Runs /\ UNCHANGED reviewVars
      BY <1>4 DEF Runs, StartReview, AegisFails
    <2>3. QED BY <1>0, <2>1, <2>2, QuietTurnSigns
  <1>5. CASE Restart
    BY <1>0, <1>5 DEF Restart, rowVars, reviewVars, SignOffInv, DoneIsSignedOff,
         ReviewsBelongToRows, ApprovalsAreSignedOff
  <1>6. QED BY <1>0, <1>1, <1>2, <1>3, <1>4, <1>5, OperatorSigns, GitHubSigns, VerdictSigns
        DEF Next, Reviewer

\* Whoever writes, whenever, and with any number of concurrent runs: a task is
\* done only if somebody approved it or it came to done by POST or from GitHub
\* and has stayed there; and no review outlives its task.
THEOREM DoneNeedsSignOff == Spec => [](DoneIsSignedOff /\ ReviewsBelongToRows)
  <1>1. Init => SignOffInv
    BY DEF Init, SignOffInv, TypeOK, Statuses, Assignees, DoneIsSignedOff,
         ReviewsBelongToRows, ApprovalsAreSignedOff
  <1>2. SignOffInv => DoneIsSignedOff /\ ReviewsBelongToRows
    BY DEF SignOffInv
  <1>3. QED BY <1>1, <1>2, SignOffStep, PTL DEF Spec

-----------------------------------------------------------------------------
(* Runs own what they hold, until somebody else writes it *)

\* RunsOwnTheirTasks and BatchesShrink, said of both kinds of run at once.
Owned ==
  \A w \in Runs :
    /\ Current[w] \notin disturbed \cup {Nobody} =>
         /\ Current[w] \in rows /\ status[Current[w]] = Under(w)
         /\ \A u \in Runs \ {w} : Current[u] # Current[w]
    /\ \A t \in Waiting[w] \ disturbed : t \in rows /\ status[t] = Source(w)
    /\ Current[w] \notin Waiting[w]

\* What Current and Waiting are, run by run.
LEMMA RunByRun ==
  /\ \A d \in DispatchRuns : /\ d \in Runs /\ Current[d] = serving[d] /\ Waiting[d] = batch[d]
                             /\ Under(d) = "in_progress" /\ Source(d) = "assigned"
  /\ \A r \in ReviewRuns : /\ r \in Runs /\ Current[r] = judging[r] /\ Waiting[r] = pending[r]
                           /\ Under(r) = "quality_review" /\ Source(r) = "review"
  /\ \A w \in Runs : w \in DispatchRuns \/ w \in ReviewRuns
  BY BoardAssumption DEF Runs, Current, Waiting, Under, Source

\* Said of both at once or of each kind, it is the same: a dispatch run and a
\* review run keep what they work on in different columns.
LEMMA OwnedIsRunsInv == TypeOK => (Owned <=> RunsOwnTheirTasks /\ BatchesShrink)
  <1> SUFFICES ASSUME TypeOK PROVE Owned <=> RunsOwnTheirTasks /\ BatchesShrink
    OBVIOUS
  <1>1. ASSUME Owned PROVE RunsOwnTheirTasks /\ BatchesShrink
    <2>1. BatchesShrink
      BY <1>1, RunByRun DEF Owned, BatchesShrink
    <2>2. RunsOwnTheirTasks
      BY <1>1, RunByRun DEF Owned, RunsOwnTheirTasks
    <2>3. QED BY <2>1, <2>2
  <1>2. ASSUME RunsOwnTheirTasks, BatchesShrink PROVE Owned
    <2>1. ASSUME NEW w \in Runs, Current[w] \notin disturbed \cup {Nobody}
          PROVE  /\ Current[w] \in rows /\ status[Current[w]] = Under(w)
                 /\ \A u \in Runs \ {w} : Current[u] # Current[w]
      <3>1. Current[w] \in rows /\ status[Current[w]] = Under(w)
        BY <1>2, <2>1, RunByRun DEF RunsOwnTheirTasks
      <3>2. ASSUME NEW u \in Runs \ {w}, Current[u] = Current[w] PROVE FALSE
        <4>1. status[Current[u]] = Under(u)
          BY <1>2, <2>1, <3>2, RunByRun DEF RunsOwnTheirTasks
        <4>2. Under(u) = Under(w)
          BY <3>1, <3>2, <4>1
        <4>3. \/ u \in DispatchRuns /\ w \in DispatchRuns
              \/ u \in ReviewRuns /\ w \in ReviewRuns
          BY <4>2, RunByRun
        <4>4. QED BY <1>2, <2>1, <3>2, <4>3, RunByRun DEF RunsOwnTheirTasks
      <3>3. QED BY <3>1, <3>2
    <2>2. ASSUME NEW w \in Runs
          PROVE  /\ \A t \in Waiting[w] \ disturbed : t \in rows /\ status[t] = Source(w)
                 /\ Current[w] \notin Waiting[w]
      BY <1>2, RunByRun DEF RunsOwnTheirTasks, BatchesShrink
    <2>3. QED BY <2>1, <2>2 DEF Owned
  <1>3. QED BY <1>1, <1>2

\* What a run holds, as far as it is a task, is its current task and its batch.
LEMMA HeldTasks ==
  \A W \in SUBSET Runs :
    /\ \A w \in W, t \in Tasks : t = Current[w] \/ t \in Waiting[w] => t \in Held(W)
    /\ \A t \in Held(W) : t \in Tasks /\ \E w \in W : t = Current[w] \/ t \in Waiting[w]
  BY BoardAssumption DEF Held, HeldBy, Current, Waiting, Runs

\* The functions Current and Waiting have the types of their parts.
LEMMA CurrentType ==
  ASSUME TypeOK
  PROVE  Current \in [Runs -> Tasks \cup {Nobody}] /\ Waiting \in [Runs -> SUBSET Tasks]
  BY DEF Current, Waiting, Runs, TypeOK

\* A handler keeps it: the task it writes is disturbed for whoever holds it.
LEMMA HandlersSpareRuns ==
  ASSUME TypeOK, Owned, NEW S, NEW closed, Handled(S, closed)
  PROVE  Owned'
  <1>1. Current' = Current /\ Waiting' = Waiting
    BY DEF Handled, runVars, Current, Waiting
  <1>2. disturbed' = disturbed \cup (S \cap Held(Runs))
    BY DEF Handled, Noted
  <1>3. \A t \in Tasks : t \in Held(Runs) /\ t \notin disturbed' =>
           t \notin disturbed /\ (t \in rows' <=> t \in rows) /\ status'[t] = status[t]
    BY <1>2 DEF Handled
  <1>4. \A w \in Runs : Current[w] # Nobody => Current[w] \in Tasks /\ Current[w] \in Held(Runs)
    BY CurrentType, HeldTasks
  <1>5. \A w \in Runs : \A t \in Waiting[w] : t \in Tasks /\ t \in Held(Runs)
    BY CurrentType, HeldTasks
  <1>6. ASSUME NEW w \in Runs, Current[w] \notin disturbed' \cup {Nobody}
        PROVE  /\ Current[w] \in rows' /\ status'[Current[w]] = Under(w)
               /\ \A u \in Runs \ {w} : Current[u] # Current[w]
    BY <1>3, <1>4, <1>6 DEF Owned
  <1>7. ASSUME NEW w \in Runs, NEW t \in Waiting[w] \ disturbed'
        PROVE  t \in rows' /\ status'[t] = Source(w)
    BY <1>3, <1>5, <1>7 DEF Owned
  <1>8. QED BY <1>1, <1>6, <1>7 DEF Owned, Under, Source

\* A turn keeps it: what the run moves is disturbed for the other runs, and what
\* it has read and nobody has disturbed is where it was.
LEMMA TurnsSpareRuns ==
  ASSUME TypeOK, Owned, NEW w \in Runs, TakesTurn(w)
  PROVE  Owned'
  <1>1. PICK v \in Outcome(w), rest \in SUBSET Tasks, next \in Tasks \cup {Nobody} :
          Turned(w, v, rest, next) /\ Ready(w, rest)
    BY DEF TakesTurn
  <1> DEFINE others == Held(Runs \ {w})
  <1>2. /\ rows' = rows /\ rows \subseteq Tasks
        /\ \A t \in rows : status'[t] = IF t = next THEN Under(w)
                                        ELSE IF t = Current[w] THEN v ELSE status[t]
        /\ next \in rest \cup {Nobody} /\ (next = Nobody => rest = {})
    BY <1>1 DEF Turned, TypeOK
  <1>3. /\ Current' \in [Runs -> Tasks \cup {Nobody}] /\ Current'[w] = next
        /\ Waiting'[w] = rest \ {next}
        /\ \A u \in Runs \ {w} : Current'[u] = Current[u] /\ Waiting'[u] = Waiting[u]
    BY <1>1, CurrentType DEF Turned
  <1>4. disturbed' = (disturbed \cup ({Current[w], next} \cap others)) \cap (others \cup rest)
    BY <1>1 DEF Turned
  <1>5. \A t \in rest \ disturbed : t \in rows /\ status[t] = Source(w) /\ t # Current[w]
    <2>1. CASE Current[w] # Nobody /\ rest = Waiting[w]
      BY <2>1 DEF Owned
    <2>2. CASE Current[w] = Nobody /\ \A t \in rest : t \in rows /\ status[t] = Source(w)
      BY <2>2, BoardAssumption
    <2>3. QED BY <1>1, <2>1, <2>2 DEF Ready
  <1>6. \A u \in Runs \ {w} :
          /\ Current[u] # Nobody => Current[u] \in Tasks /\ Current[u] \in others
          /\ \A t \in Waiting[u] : t \in Tasks /\ t \in others
    BY CurrentType, HeldTasks
  <1> HIDE DEF others
  <1>7. ASSUME NEW u \in Runs \ {w}
        PROVE  /\ Current'[u] \notin disturbed' \cup {Nobody} =>
                    /\ Current'[u] \in rows /\ status'[Current'[u]] = Under(u)
                    /\ \A x \in Runs \ {u} : Current'[x] # Current'[u]
               /\ \A t \in Waiting'[u] \ disturbed' : t \in rows /\ status'[t] = Source(u)
               /\ Current'[u] \notin Waiting'[u]
    <2>1. Current'[u] = Current[u] /\ Waiting'[u] = Waiting[u]
      BY <1>3
    <2>2. \A t \in others : t \notin disturbed' =>
             t \notin disturbed /\ t # next /\ t # Current[w] /\ (t \in rows => status'[t] = status[t])
      BY <1>2, <1>4
    <2>3. ASSUME Current[u] \notin disturbed' \cup {Nobody}
          PROVE  /\ Current[u] \in rows /\ status'[Current[u]] = Under(u)
                 /\ \A x \in Runs \ {u} : Current'[x] # Current[u]
      <3>1. Current[u] \in others
        BY <1>6, <2>3
      <3>2. /\ Current[u] \notin disturbed /\ Current[u] # next
            /\ Current[u] \in rows => status'[Current[u]] = status[Current[u]]
        BY <2>2, <2>3, <3>1
      <3>3. /\ Current[u] \in rows /\ status[Current[u]] = Under(u)
            /\ \A x \in Runs \ {u} : Current[x] # Current[u]
        BY <2>3, <3>2 DEF Owned
      <3>4. QED BY <1>3, <3>2, <3>3
    <2>4. ASSUME NEW t \in Waiting[u] \ disturbed'
          PROVE  t \in rows /\ status'[t] = Source(u)
      <3>1. t \in others
        BY <1>6
      <3>2. t \notin disturbed /\ (t \in rows => status'[t] = status[t])
        BY <2>2, <3>1
      <3>3. QED BY <3>2 DEF Owned
    <2>5. QED BY <2>1, <2>3, <2>4 DEF Owned
  <1>8. /\ Current'[w] \notin disturbed' \cup {Nobody} =>
             /\ Current'[w] \in rows /\ status'[Current'[w]] = Under(w)
             /\ \A x \in Runs \ {w} : Current'[x] # Current'[w]
        /\ \A t \in Waiting'[w] \ disturbed' : t \in rows /\ status'[t] = Source(w)
        /\ Current'[w] \notin Waiting'[w]
    <2>1. ASSUME next \notin disturbed' \cup {Nobody}
          PROVE  /\ next \in rows /\ status'[next] = Under(w)
                 /\ \A x \in Runs \ {w} : Current[x] # next
      <3>1. next \in rest /\ next \notin disturbed /\ next \notin others
        BY <1>2, <1>4, <2>1
      <3>2. next \in rows /\ status'[next] = Under(w)
        BY <1>2, <1>5, <3>1
      <3>3. \A x \in Runs \ {w} : Current[x] # next
        BY <1>6, <2>1, <3>1
      <3>4. QED BY <3>2, <3>3
    <2>2. ASSUME NEW t \in (rest \ {next}) \ disturbed'
          PROVE  t \in rows /\ status'[t] = Source(w)
      <3>1. t \in rest \ disturbed
        BY <1>4
      <3>2. t \in rows /\ status[t] = Source(w) /\ t # Current[w] /\ t # next
        BY <1>5, <3>1
      <3>3. QED BY <1>2, <3>2
    <2>3. QED BY <1>3, <2>1, <2>2
  <1>9. Owned' <=>
          \A u \in Runs :
            /\ Current'[u] \notin disturbed' \cup {Nobody} =>
                 /\ Current'[u] \in rows' /\ status'[Current'[u]] = Under(u)
                 /\ \A x \in Runs \ {u} : Current'[x] # Current'[u]
            /\ \A t \in Waiting'[u] \ disturbed' : t \in rows' /\ status'[t] = Source(u)
            /\ Current'[u] \notin Waiting'[u]
    BY DEF Owned, Under, Source
  <1>10. \A u \in Runs :
            /\ Current'[u] \notin disturbed' \cup {Nobody} =>
                 /\ Current'[u] \in rows' /\ status'[Current'[u]] = Under(u)
                 /\ \A x \in Runs \ {u} : Current'[x] # Current'[u]
            /\ \A t \in Waiting'[u] \ disturbed' : t \in rows' /\ status'[t] = Source(u)
            /\ Current'[u] \notin Waiting'[u]
    <2> SUFFICES ASSUME NEW u \in Runs
                 PROVE  /\ Current'[u] \notin disturbed' \cup {Nobody} =>
                             /\ Current'[u] \in rows' /\ status'[Current'[u]] = Under(u)
                             /\ \A x \in Runs \ {u} : Current'[x] # Current'[u]
                        /\ \A t \in Waiting'[u] \ disturbed' : t \in rows' /\ status'[t] = Source(u)
                        /\ Current'[u] \notin Waiting'[u]
      OBVIOUS
    <2>1. CASE u = w
      BY <1>2, <1>8, <2>1
    <2>2. CASE u # w
      BY <1>2, <1>7, <2>2
    <2>3. QED BY <2>1, <2>2
  <1>11. QED BY <1>9, <1>10

\* Every step keeps it.
LEMMA OwnedStep == TypeOK /\ Owned /\ [Next]_vars => Owned'
  <1> SUFFICES ASSUME TypeOK, Owned, [Next]_vars PROVE Owned'
    OBVIOUS
  <1>1. CASE UNCHANGED vars
    BY <1>1 DEF vars, rowVars, runVars, noteVars, Owned, Current, Waiting, Under, Source
  <1>2. CASE Operator \/ GitHub \/ (\E a \in Agents, t \in Tasks : ClaimTask(a, t))
    BY <1>2, HandlersHandle, HandlersSpareRuns
  <1>3. ASSUME NEW a \in Agents, NEW t \in Tasks, PollQueue(a, t) PROVE Owned'
    BY <1>1, <1>2, <1>3 DEF PollQueue, ContinueCurrent
  <1>4. ASSUME NEW d \in DispatchRuns, Dispatcher(d) PROVE Owned'
    <2>1. d \in Runs /\ TakesTurn(d)
      BY <1>4, DispatcherTurns DEF TakesTurn, Runs
    <2>2. QED BY <2>1, TurnsSpareRuns
  <1>5. ASSUME NEW r \in ReviewRuns, Reviewer(r) PROVE Owned'
    <2>1. r \in Runs /\ TakesTurn(r)
      BY <1>5, ReviewerTurns DEF Runs
    <2>2. QED BY <2>1, TurnsSpareRuns
  <1>6. CASE Restart
    <2>1. \A w \in Runs : Current'[w] = Nobody /\ Waiting'[w] = {}
      BY <1>6 DEF Restart, Current, Waiting, Runs
    <2>2. QED BY <2>1 DEF Owned
  <1>7. QED BY <1>1, <1>2, <1>3, <1>4, <1>5, <1>6 DEF Next

\* So every step keeps RunsInv.
LEMMA RunsStep == RunsInv /\ [Next]_vars => RunsInv'
  <1> SUFFICES ASSUME RunsInv, [Next]_vars PROVE RunsInv'
    OBVIOUS
  <1>1. TypeOK /\ TypeOK' /\ Owned'
    BY StepType, OwnedIsRunsInv, OwnedStep DEF RunsInv
  <1>2. (TypeOK => (Owned <=> RunsOwnTheirTasks /\ BatchesShrink))'
    BY OwnedIsRunsInv, PTL
  <1>3. QED BY <1>1, <1>2 DEF RunsInv

\* A run waits for a task in the column it put it in, and alone, and comes to the
\* rest of its batch where it found it, unless somebody else has written that
\* very task since: for any number of runs, agents and operators, through failing
\* gateways and restarts.
THEOREM RunsOwn == Spec => []RunsOwnTheirTasks
  <1>1. Init => RunsInv
    BY DEF Init, RunsInv, TypeOK, Statuses, Assignees, RunsOwnTheirTasks, BatchesShrink
  <1>2. RunsInv => RunsOwnTheirTasks
    BY DEF RunsInv
  <1>3. QED BY <1>1, <1>2, RunsStep, PTL DEF Spec

-----------------------------------------------------------------------------
(* Tasks under way are served *)

\* MarkedTasksAreServed, said of both kinds of run at once.
Served == \A t \in rows : status[t] \in UnderWay /\ t \notin loose => \E w \in Runs : Current[w] = t

\* It is the same.
LEMMA ServedIsMarked == Served <=> MarkedTasksAreServed
  BY RunByRun DEF Served, MarkedTasksAreServed

\* A handler keeps it: what it puts under way is loose.
LEMMA HandlersLeaveServed ==
  ASSUME TypeOK, TypeOK', Served, NEW S, NEW closed, Handled(S, closed)
  PROVE  Served'
  <1>1. Current' = Current
    BY DEF Handled, runVars, Current
  <1>2. \A t \in Tasks \ S : (t \in rows' <=> t \in rows) /\ status'[t] = status[t]
    BY DEF Handled
  <1>3. loose' = (loose \ S) \cup {t \in S : status'[t] \in UnderWay}
    BY DEF Handled, Noted
  <1>4. ASSUME NEW t \in rows', status'[t] \in UnderWay, t \notin loose'
        PROVE  \E w \in Runs : Current[w] = t
    BY <1>2, <1>3, <1>4 DEF Served, TypeOK
  <1>5. QED BY <1>1, <1>4 DEF Served, UnderWay

\* A turn keeps it: what the run gives back leaves the columns of work under way
\* or is sent back, and what it takes up it serves.
LEMMA TurnsLeaveServed ==
  ASSUME TypeOK, Served, NEW w \in Runs, TakesTurn(w)
  PROVE  Served'
  <1>1. PICK v \in Outcome(w), rest \in SUBSET Tasks, next \in Tasks \cup {Nobody} :
          Turned(w, v, rest, next)
    BY DEF TakesTurn
  <1>2. /\ rows' = rows
        /\ \A t \in rows : status'[t] = IF t = next THEN Under(w)
                                        ELSE IF t = Current[w] THEN v ELSE status[t]
        /\ loose' = (loose \ {Current[w], next}) \cup
                    (IF v = "in_progress" THEN {Current[w]} ELSE {})
    BY <1>1 DEF Turned
  <1>3. Current'[w] = next /\ \A u \in Runs \ {w} : Current'[u] = Current[u]
    BY <1>1, CurrentType DEF Turned
  <1>4. v \in UnderWay => v = "in_progress"
    BY DEF Outcome, UnderWay
  <1>5. ASSUME NEW t \in rows, status'[t] \in UnderWay, t \notin loose'
        PROVE  \E u \in Runs : Current'[u] = t
    <2>1. CASE t = next
      BY <1>3, <2>1
    <2>2. CASE t # next /\ t = Current[w]
      <3>1. status'[t] = v
        BY <1>2, <2>2
      <3>2. v = "in_progress"
        BY <1>4, <1>5, <3>1
      <3>3. t \in loose'
        BY <1>2, <2>2, <3>2
      <3>4. QED BY <1>5, <3>3
    <2>3. CASE t # next /\ t # Current[w]
      <3>1. status[t] \in UnderWay /\ t \notin loose
        BY <1>2, <1>5, <2>3
      <3>2. PICK u \in Runs : Current[u] = t
        BY <3>1 DEF Served
      <3>3. Current'[u] = t
        BY <1>3, <2>3, <3>2
      <3>4. QED BY <3>3
    <2>4. QED BY <2>1, <2>2, <2>3
  <1>6. QED BY <1>2, <1>5 DEF Served, UnderWay

\* Every step keeps it.
LEMMA ServedStep == TypeOK /\ Served /\ [Next]_vars => Served'
  <1> SUFFICES ASSUME TypeOK, Served, [Next]_vars PROVE Served'
    OBVIOUS
  <1>0. TypeOK'
    BY StepType
  <1>1. CASE UNCHANGED vars
    BY <1>1 DEF vars, rowVars, runVars, noteVars, Served, Current, UnderWay
  <1>2. CASE Operator \/ GitHub \/ (\E a \in Agents, t \in Tasks : ClaimTask(a, t))
    BY <1>0, <1>2, HandlersHandle, HandlersLeaveServed
  <1>3. ASSUME NEW a \in Agents, NEW t \in Tasks, PollQueue(a, t) PROVE Served'
    BY <1>1, <1>2, <1>3 DEF PollQueue, ContinueCurrent
  <1>4. ASSUME NEW d \in DispatchRuns, Dispatcher(d) PROVE Served'
    <2>1. d \in Runs /\ TakesTurn(d)
      BY <1>4, DispatcherTurns DEF TakesTurn, Runs
    <2>2. QED BY <2>1, TurnsLeaveServed
  <1>5. ASSUME NEW r \in ReviewRuns, Reviewer(r) PROVE Served'
    <2>1. r \in Runs /\ TakesTurn(r)
      BY <1>5, ReviewerTurns DEF Runs
    <2>2. QED BY <2>1, TurnsLeaveServed
  <1>6. CASE Restart
    BY <1>6 DEF Restart, rowVars, Served, TypeOK
  <1>7. QED BY <1>1, <1>2, <1>3, <1>4, <1>5, <1>6 DEF Next

\* No run forgets a task it has marked: what is under way because a run put it
\* there, some run is waiting for, through failures and however runs overlap,
\* until a restart ends the runs.
THEOREM MarkedAreServed == Spec => []MarkedTasksAreServed
  <1>1. Init => TypeOK /\ Served
    BY DEF Init, TypeOK, Statuses, Assignees, Served
  <1>2. TypeOK /\ Served /\ [Next]_vars => TypeOK' /\ Served'
    BY StepType, ServedStep
  <1>3. Served => MarkedTasksAreServed
    BY ServedIsMarked
  <1>4. QED BY <1>1, <1>2, <1>3, PTL DEF Spec
=============================================================================
