-------------------------- MODULE TaskLeaseProofs --------------------------
(***************************************************************************)
(* The board implements the leases of TaskLease, for every set of tasks,   *)
(* agents and concurrent runs and whatever anybody writes in between.      *)
(***************************************************************************)
EXTENDS TaskBoardProofs

\* The column of a card in the refinement mapping; its lease is the Current of
\* the run and it is broken when it is disturbed.
Column == [t \in Tasks |-> IF t \in rows THEN status[t] ELSE "absent"]

\* What a step of the leases may change.
LeaseTuple == <<Column, Current, disturbed>>

\* The leases see a board of legal columns, and a card is absent when it has no
\* row.
LEMMA ColumnType ==
  ASSUME TypeOK
  PROVE  /\ Column \in [Tasks -> Lease!Columns]
         /\ \A t \in Tasks : Column[t] = "absent" <=> t \notin rows
  BY DEF TypeOK, Column, Statuses, Lease!Columns

\* The names of the two levels agree.
LEMMA LeaseNames ==
  /\ Lease!Runs = Runs
  /\ \A w \in Runs : /\ Lease!From(w) = Source(w) /\ Lease!Under(w) = Under(w)
                     /\ Lease!To(w) = Outcome(w)
  BY BoardAssumption DEF Lease!Runs, Runs, Lease!From, Lease!Under, Lease!To, Source, Under, Outcome

\* A leased card is one some run waits for.
LEMMA LeasedCards ==
  \A W \in SUBSET Runs : Lease!Leased(W) = {Current[w] : w \in W} \ {Nobody}
  <1> SUFFICES ASSUME NEW W \in SUBSET Runs
               PROVE  Lease!Leased(W) = {Current[w] : w \in W} \ {Nobody}
    OBVIOUS
  <1>1. Lease!Leased(W) =
          {[u \in DispatchRuns \cup ReviewRuns |->
              IF u \in DispatchRuns THEN serving[u] ELSE judging[u]][w] : w \in W} \ {Nobody}
    BY DEF Lease!Leased
  <1>2. QED BY <1>1 DEF Current, Runs

\* A handler's step is a move: what it writes under a lease is broken.
LEMMA HandlersMove ==
  ASSUME TypeOK, TypeOK', NEW S, NEW closed, Handled(S, closed)
  PROVE  Lease!Move
  <1>1. Current' = Current
    BY DEF Handled, runVars, Current
  <1>2. Column' \in [Tasks -> Lease!Columns]
    BY DEF TypeOK, Column, Statuses, Lease!Columns
  <1>3. disturbed' = disturbed \cup (S \cap Held(Runs)) /\ disturbed' \subseteq Tasks
    BY DEF Handled, Noted, TypeOK
  <1>4. ASSUME NEW t \in Lease!Leased(Runs) \ disturbed'
        PROVE  Column'[t] = Column[t]
    <2>1. PICK w \in Runs : t = Current[w] /\ t # Nobody
      BY <1>4, LeasedCards
    <2>2. t \in Tasks /\ t \in Held(Runs)
      BY <2>1, CurrentType, HeldTasks
    <2>3. t \notin S
      BY <1>3, <2>2
    <2>4. QED BY <2>2, <2>3 DEF Handled, Column
  <1>5. Lease!Leased(Lease!Runs) = Lease!Leased(Runs)
    BY LeaseNames
  <1>6. QED BY <1>1, <1>2, <1>3, <1>4, <1>5 DEF Lease!Move, Column, Current, Runs

\* A turn of a run is a turn of its lease.
LEMMA TurnsAreTurns ==
  ASSUME TypeOK, Owned, NEW w \in Runs, TakesTurn(w)
  PROVE  Lease!Turn(w)
  <1>1. PICK v \in Outcome(w), rest \in SUBSET Tasks, next \in Tasks \cup {Nobody} :
          Turned(w, v, rest, next) /\ Ready(w, rest)
    BY DEF TakesTurn
  <1>2. /\ rows' = rows /\ rows \subseteq Tasks /\ Nobody \notin Tasks
        /\ \A t \in rows : status'[t] = IF t = next THEN Under(w)
                                        ELSE IF t = Current[w] THEN v ELSE status[t]
        /\ next \in rest \cup {Nobody} /\ (next = Nobody => rest = {})
        /\ Current' = [Current EXCEPT ![w] = next]
    BY <1>1, BoardAssumption DEF Turned, TypeOK
  <1>3. Current[w] # next
    BY <1>1, <1>2 DEF Ready, Owned
  <1>4. next \notin disturbed \cup {Nobody} => Column[next] = Source(w) /\ next \notin Lease!Leased(Runs)
    <2> SUFFICES ASSUME next \notin disturbed \cup {Nobody}
                 PROVE  Column[next] = Source(w) /\ next \notin Lease!Leased(Runs)
      OBVIOUS
    <2>1. next \in rest /\ next \in Tasks
      BY <1>2
    <2>2. next \in rows /\ status[next] = Source(w)
      BY <1>1, <2>1 DEF Ready, Owned
    <2>3. ASSUME NEW u \in Runs, Current[u] = next PROVE FALSE
      <3>1. status[next] = Under(u)
        BY <2>3 DEF Owned
      <3>2. QED BY <2>2, <3>1 DEF Source, Under
    <2>4. QED BY <2>1, <2>2, <2>3, LeasedCards DEF Column
  <1>5. Column' = [t \in Tasks |->
           IF Column[t] = "absent" THEN "absent"
           ELSE IF t = Current[w] THEN v ELSE IF t = next THEN Under(w) ELSE Column[t]]
    <2>1. \A t \in Tasks : Column[t] = "absent" <=> t \notin rows
      BY ColumnType
    <2>2. Column' = [t \in Tasks |-> IF t \in rows THEN status'[t] ELSE "absent"]
      BY <1>2 DEF Column
    <2>3. \A t \in rows : Column[t] = status[t] /\ t \in Tasks
      BY <1>2 DEF Column
    <2> HIDE DEF Column
    <2>4. QED BY <1>2, <1>3, <2>1, <2>2, <2>3
  <1>6. /\ disturbed' \subseteq Tasks
        /\ Lease!Leased(Runs \ {w}) \cap (disturbed \cup {Current[w], next}) \subseteq disturbed'
        /\ next \in disturbed => next \in disturbed'
    <2>1. disturbed' = (disturbed \cup ({Current[w], next} \cap Held(Runs \ {w})))
                         \cap (Held(Runs \ {w}) \cup rest)
      BY <1>1 DEF Turned
    <2>2. Lease!Leased(Runs \ {w}) \subseteq Held(Runs \ {w})
      <3> SUFFICES ASSUME NEW t \in Lease!Leased(Runs \ {w}) PROVE t \in Held(Runs \ {w})
        OBVIOUS
      <3>1. PICK u \in Runs \ {w} : t = Current[u] /\ t # Nobody
        BY LeasedCards
      <3>2. t \in Tasks
        BY <3>1, CurrentType
      <3>3. QED BY <3>1, <3>2, HeldTasks
    <2>3. disturbed \subseteq Tasks
      BY DEF TypeOK
    <2>4. Held(Runs \ {w}) \subseteq Tasks
      BY DEF Held
    <2>5. QED BY <1>1, <1>2, <2>1, <2>2, <2>3, <2>4
  <1>7. /\ Lease!From(w) = Source(w) /\ Lease!Under(w) = Under(w) /\ Lease!To(w) = Outcome(w)
        /\ Lease!Runs = Runs
    BY LeaseNames
  <1>8. \E outcome \in Lease!To(w), taken \in Tasks \cup {Nobody} :
          /\ Current[w] # taken
          /\ taken \notin disturbed \cup {Nobody} =>
               Column[taken] = Lease!From(w) /\ taken \notin Lease!Leased(Lease!Runs)
          /\ Current' = [Current EXCEPT ![w] = taken]
          /\ Column' = [t \in Tasks |->
               IF Column[t] = "absent" THEN "absent"
               ELSE IF t = Current[w] THEN outcome ELSE IF t = taken THEN Lease!Under(w) ELSE Column[t]]
          /\ disturbed' \subseteq Tasks
          /\ Lease!Leased(Lease!Runs \ {w}) \cap (disturbed \cup {Current[w], taken}) \subseteq disturbed'
          /\ taken \in disturbed => taken \in disturbed'
    <2> HIDE DEF Column, Current
    <2>1. v \in Lease!To(w)
      BY <1>7
    <2>2. QED BY <1>2, <1>3, <1>4, <1>5, <1>6, <1>7, <2>1
  <1>9. QED BY <1>8 DEF Lease!Turn, Column, Current, Runs

\* Every step of the board is a step of the leases.
LEMMA LeaseStep ==
  TypeOK /\ Owned /\ [Next]_vars => [Lease!Next]_LeaseTuple
  <1> SUFFICES ASSUME TypeOK, Owned, [Next]_vars PROVE [Lease!Next]_LeaseTuple
    OBVIOUS
  <1>0. TypeOK'
    BY StepType
  <1>1. CASE UNCHANGED vars
    BY <1>1 DEF vars, rowVars, runVars, noteVars, LeaseTuple, Column, Current
  <1>2. CASE Operator \/ GitHub \/ (\E a \in Agents, t \in Tasks : ClaimTask(a, t))
    <2>1. Lease!Move
      BY <1>0, <1>2, HandlersHandle, HandlersMove
    <2>2. QED BY <2>1 DEF Lease!Next
  <1>3. ASSUME NEW a \in Agents, NEW t \in Tasks, PollQueue(a, t) PROVE [Lease!Next]_LeaseTuple
    BY <1>1, <1>2, <1>3 DEF PollQueue, ContinueCurrent
  <1>4. ASSUME NEW w \in Runs, TakesTurn(w) PROVE [Lease!Next]_LeaseTuple
    <2>1. Lease!Turn(w)
      BY <1>4, TurnsAreTurns
    <2>2. w \in Lease!Runs
      BY LeaseNames
    <2>3. QED BY <2>1, <2>2 DEF Lease!Next
  <1>5. ASSUME NEW d \in DispatchRuns, Dispatcher(d) PROVE [Lease!Next]_LeaseTuple
    <2>1. d \in Runs /\ TakesTurn(d)
      BY <1>5, DispatcherTurns DEF TakesTurn, Runs
    <2>2. QED BY <1>4, <2>1
  <1>6. ASSUME NEW r \in ReviewRuns, Reviewer(r) PROVE [Lease!Next]_LeaseTuple
    <2>1. r \in Runs /\ TakesTurn(r)
      BY <1>6, ReviewerTurns DEF Runs
    <2>2. QED BY <1>4, <2>1
  <1>7. CASE Restart
    <2>1. Lease!Drop
      BY <1>7 DEF Restart, rowVars, Lease!Drop, Lease!Runs
    <2>2. QED BY <2>1 DEF Lease!Next
  <1>8. QED BY <1>1, <1>2, <1>3, <1>5, <1>6, <1>7 DEF Next

\* The board implements the leases: a card nobody interferes with is with one run
\* at a time, a run takes it from the column it serves and gives it back in one
\* it may deliver to - with any number of runs of either kind, anybody writing
\* any card at any time, failing gateways and restarts.
THEOREM BoardImplementsLease == Spec => ImplementsLease
  <1>1. Init => TypeOK /\ Owned
    <2>1. Init => RunsInv
      BY DEF Init, RunsInv, TypeOK, Statuses, Assignees, RunsOwnTheirTasks, BatchesShrink
    <2>2. QED BY <2>1, OwnedIsRunsInv DEF RunsInv
  <1>2. Init => Lease!Init
    BY DEF Init, Lease!Init, Lease!Runs
  <1>3. TypeOK /\ Owned /\ [Next]_vars => TypeOK' /\ Owned' /\ [Lease!Next]_LeaseTuple
    BY StepType, OwnedStep, LeaseStep
  <1>4. QED BY <1>1, <1>2, <1>3, PTL
        DEF Spec, ImplementsLease, Lease!Spec, LeaseTuple, Column, Current, Runs

-----------------------------------------------------------------------------
(* What the leases come to *)

\* The inductive invariant: each lease is of a card or of none, and an unbroken
\* one is the only one of its card, which is in the column of work under way.
Exclusive ==
  /\ Current \in [Runs -> Tasks \cup {Nobody}]
  /\ \A w \in Runs : Current[w] \notin disturbed \cup {Nobody} =>
       /\ Column[Current[w]] = Under(w)
       /\ \A v \in Runs \ {w} : Current[v] # Current[w]

\* A move keeps it.
LEMMA MoveExcludes == Exclusive /\ Lease!Move => Exclusive'
  <1> SUFFICES ASSUME Exclusive, Lease!Move PROVE Exclusive'
    OBVIOUS
  <1>1. /\ Current' = Current /\ disturbed \subseteq disturbed'
        /\ \A t \in Lease!Leased(Runs) \ disturbed' : Column'[t] = Column[t]
    BY LeaseNames DEF Lease!Move, Column, Current, Runs
  <1>2. ASSUME NEW w \in Runs, Current[w] \notin disturbed' \cup {Nobody}
        PROVE  /\ Column'[Current[w]] = Under(w)
               /\ \A v \in Runs \ {w} : Current[v] # Current[w]
    <2>1. Current[w] \in Lease!Leased(Runs) \ disturbed'
      BY <1>2, LeasedCards
    <2>2. Column'[Current[w]] = Column[Current[w]] /\ Current[w] \notin disturbed
      BY <1>1, <2>1
    <2>3. QED BY <1>2, <2>2 DEF Exclusive
  <1> HIDE DEF Column, Current
  <1>3. QED BY <1>1, <1>2 DEF Exclusive, Under

\* A turn keeps it.
LEMMA TurnExcludes ==
  ASSUME Exclusive, NEW w \in Runs, Lease!Turn(w)
  PROVE  Exclusive'
  <1>1. PICK outcome \in Lease!To(w), next \in Tasks \cup {Nobody} :
          /\ next \notin disturbed \cup {Nobody} =>
               Column[next] = Lease!From(w) /\ next \notin Lease!Leased(Lease!Runs)
          /\ Current' = [Current EXCEPT ![w] = next]
          /\ Column' = [t \in Tasks |->
               IF Column[t] = "absent" THEN "absent"
               ELSE IF t = Current[w] THEN outcome ELSE IF t = next THEN Lease!Under(w) ELSE Column[t]]
          /\ Lease!Leased(Lease!Runs \ {w}) \cap (disturbed \cup {Current[w], next}) \subseteq disturbed'
          /\ Current[w] # next
          /\ next \in disturbed => next \in disturbed'
    BY DEF Lease!Turn, Column, Current, Runs
  <1>2. Lease!Runs = Runs /\ Lease!From(w) = Source(w) /\ Lease!Under(w) = Under(w)
    BY LeaseNames
  <1>3. /\ Current' \in [Runs -> Tasks \cup {Nobody}] /\ Current'[w] = next
        /\ \A u \in Runs \ {w} : Current'[u] = Current[u]
    BY <1>1 DEF Exclusive
  <1>4. ASSUME NEW u \in Runs \ {w}, Current[u] \notin disturbed' \cup {Nobody}
        PROVE  /\ Column'[Current[u]] = Under(u)
               /\ \A v \in Runs \ {u} : Current'[v] # Current[u]
    <2>1. Current[u] \in Lease!Leased(Runs \ {w}) /\ Current[u] \in Tasks
      BY <1>4, LeasedCards DEF Exclusive
    <2>2. Current[u] \notin disturbed /\ Current[u] # Current[w] /\ Current[u] # next
      BY <1>1, <1>2, <1>4, <2>1
    <2>3. /\ Column[Current[u]] = Under(u) /\ Under(u) # "absent"
          /\ \A v \in Runs \ {u} : Current[v] # Current[u]
      BY <1>4, <2>2 DEF Exclusive, Under
    <2>4. Column'[Current[u]] = Under(u)
      BY <1>1, <2>1, <2>2, <2>3
    <2>5. QED BY <1>3, <2>2, <2>3, <2>4
  <1>5. ASSUME next \notin disturbed' \cup {Nobody}
        PROVE  /\ Column'[next] = Under(w)
               /\ \A v \in Runs \ {w} : Current'[v] # next
    <2>1. Column[next] = Source(w) /\ next \notin Lease!Leased(Runs) /\ next \in Tasks
      BY <1>1, <1>2, <1>5
    <2>2. Column'[next] = Under(w)
      BY <1>1, <1>2, <2>1 DEF Source
    <2>3. \A v \in Runs \ {w} : Current[v] # next
      BY <1>5, <2>1, LeasedCards
    <2>4. QED BY <1>3, <2>2, <2>3
  <1> HIDE DEF Column, Current
  <1>6. ASSUME NEW u \in Runs, Current'[u] \notin disturbed' \cup {Nobody}
        PROVE  /\ Column'[Current'[u]] = Under(u)
               /\ \A v \in Runs \ {u} : Current'[v] # Current'[u]
    <2>1. CASE u = w
      BY <1>3, <1>5, <1>6, <2>1
    <2>2. CASE u # w
      BY <1>3, <1>4, <1>6, <2>2
    <2>3. QED BY <2>1, <2>2
  <1>7. QED BY <1>3, <1>6 DEF Exclusive, Under

\* What the leases come to, whatever the runs and the others do: an unbroken card
\* is leased once, and is in the column of work under way.
THEOREM LeasesExclude == Lease!Spec => []Lease!LeasesAreExclusive
  <1>1. Lease!Init => Exclusive
    <2> SUFFICES ASSUME Lease!Init PROVE Exclusive
      OBVIOUS
    <2>1. Current = [w \in Runs |-> Nobody]
      BY LeaseNames DEF Lease!Init, Current, Runs
    <2> HIDE DEF Current
    <2>2. QED BY <2>1 DEF Exclusive
  <1>2. Exclusive /\ [Lease!Next]_LeaseTuple => Exclusive'
    <2> SUFFICES ASSUME Exclusive, [Lease!Next]_LeaseTuple PROVE Exclusive'
      OBVIOUS
    <2>1. CASE UNCHANGED LeaseTuple
      BY <2>1 DEF LeaseTuple, Exclusive, Under
    <2>2. CASE Lease!Drop
      <3>1. Current' = [w \in Runs |-> Nobody]
        BY <2>2, LeaseNames DEF Lease!Drop, Current, Runs
      <3> HIDE DEF Current
      <3>2. QED BY <3>1 DEF Exclusive
    <2>3. ASSUME NEW w \in Lease!Runs, Lease!Turn(w) PROVE Exclusive'
      BY <2>3, TurnExcludes, LeaseNames
    <2>4. QED BY <2>1, <2>2, <2>3, MoveExcludes DEF Lease!Next
  <1>3. Exclusive => Lease!LeasesAreExclusive
    <2> SUFFICES ASSUME Exclusive PROVE Lease!LeasesAreExclusive
      OBVIOUS
    <2>1. \A w \in Lease!Runs : Current[w] \notin disturbed \cup {Nobody} =>
            /\ Column[Current[w]] = Lease!Under(w)
            /\ \A v \in Lease!Runs \ {w} : Current[v] # Current[w]
      BY LeaseNames DEF Exclusive
    <2>2. QED BY <2>1 DEF Lease!LeasesAreExclusive, Column, Current, Runs
  <1>4. QED BY <1>1, <1>2, <1>3, PTL DEF Lease!Spec, LeaseTuple, Column, Current, Runs
=============================================================================
