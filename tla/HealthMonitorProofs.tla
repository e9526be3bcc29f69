------------------------ MODULE HealthMonitorProofs ------------------------
(***************************************************************************)
(* What holds of HealthMonitor for every set of agents and errors.         *)
(***************************************************************************)
EXTENDS HealthMonitor, TLAPS

-----------------------------------------------------------------------------
(* Type correctness *)

Reads == [Agents -> [alive : BOOLEAN, errors : SUBSET Errors]]

\* What the merge shows of a read are errors.
LEMMA KeptType ==
  ASSUME NEW a, NEW r \in [alive : BOOLEAN, errors : SUBSET Errors]
  PROVE  Kept(a, r) \subseteq r.errors /\ Kept(a, r) \subseteq Errors
  BY DEF Kept

\* The composite health is a level.
LEMMA HealthType ==
  ASSUME NEW up \in BOOLEAN, NEW errors
  PROVE  ComputeCompositeHealth(up, errors) \in Levels
  BY DEF ComputeCompositeHealth, Levels

\* The end of a tick keeps the types of the cache and of what was told.
LEMMA MergeType ==
  ASSUME TypeOK, NEW seen \in SUBSET Agents, NEW r \in Reads, Merge(seen, r)
  PROVE  /\ known' \subseteq Agents
         /\ told'  \in [Agents -> Levels \cup {"none"}]
         /\ shown' \in [Agents -> SUBSET Errors]
         /\ level' \in [Agents -> Levels]
         /\ flagged' \subseteq known'
         /\ hidden' \subseteq Agents
  <1>1. \A a \in Agents : r[a] \in [alive : BOOLEAN, errors : SUBSET Errors]
    BY DEF Reads
  <1>2. \A a \in Agents : /\ Kept(a, r[a]) \subseteq Errors
                          /\ ComputeCompositeHealth(r[a].alive, r[a].errors) \in Levels
                          /\ ComputeCompositeHealth(r[a].alive, Kept(a, r[a])) \in Levels
    BY <1>1, KeptType, HealthType
  <1>3. \A a \in Agents : Broadcast(a, r[a]) \in Levels \cup {"none"}
    BY <1>2 DEF Broadcast, TypeOK
  <1>4. told' \in [Agents -> Levels \cup {"none"}]
    BY <1>3 DEF Merge
  <1>5. shown' \in [Agents -> SUBSET Errors]
    BY <1>2 DEF Merge
  <1>6. level' \in [Agents -> Levels]
    BY <1>2 DEF Merge, Levels
  <1>7. known' \subseteq Agents /\ flagged' \subseteq known' /\ hidden' \subseteq Agents
    BY DEF Merge
  <1>8. QED BY <1>4, <1>5, <1>6, <1>7

\* The tick's own state is reset to its initial value.
LEMMA EndsType ==
  ASSUME TickEnds
  PROVE  ticking' \in BOOLEAN /\ left' \subseteq Agents /\ checked' \subseteq Agents /\ read' \in Reads
  BY DEF TickEnds, Reads, Unread

\* What a check reads has the type of a read.
LEMMA CheckedType ==
  ASSUME TypeOK, NEW a \in Agents
  PROVE  [read EXCEPT ![a] = CheckAgentHealth(a)] \in Reads
  <1>1. CheckAgentHealth(a) \in [alive : BOOLEAN, errors : SUBSET Errors]
    BY DEF CheckAgentHealth, TypeOK
  <1>2. QED BY <1>1 DEF TypeOK, Reads

\* A check keeps the types.
LEMMA CheckType ==
  ASSUME TypeOK, NEW a \in Agents, Check(a)
  PROVE  TypeOK'
  <1> DEFINE r == [read EXCEPT ![a] = CheckAgentHealth(a)]
  <1>1. r \in Reads
    BY CheckedType
  <1>2. /\ older' = [older EXCEPT ![a] = older[a] \ (onDisk[a] \cap LogErrors)]
        /\ UNCHANGED <<diskVars, dismissed, truncated, failures>>
        /\ \/ Merge(checked \cup {a}, r) /\ TickEnds
           \/ /\ left' = left \ {a} /\ checked' = checked \cup {a} /\ read' = r
              /\ UNCHANGED <<cacheVars, told, ticking, hidden>>
    BY DEF Check
  <1>3. older' \in [Agents -> SUBSET Errors]
    BY <1>2 DEF TypeOK
  <1> HIDE DEF r
  <1>4. CASE Merge(checked \cup {a}, r) /\ TickEnds
    BY <1>1, <1>2, <1>3, <1>4, MergeType, EndsType DEF TypeOK, diskVars, Reads
  <1>5. CASE /\ left' = left \ {a} /\ checked' = checked \cup {a} /\ read' = r
             /\ UNCHANGED <<cacheVars, told, ticking, hidden>>
    BY <1>1, <1>2, <1>3, <1>5 DEF TypeOK, diskVars, cacheVars, Reads
  <1>6. QED BY <1>2, <1>4, <1>5

\* So does the start of a tick.
LEMMA TickStartsType ==
  ASSUME TypeOK, TickStarts
  PROVE  TypeOK'
  <1>1. CASE Merge({}, read) /\ TickEnds
    BY <1>1, MergeType, EndsType DEF TickStarts, TypeOK, diskVars, Reads
  <1>2. CASE /\ ticking' = TRUE /\ left' = present /\ checked' = {}
             /\ UNCHANGED <<cacheVars, told, read, hidden>>
    BY <1>2 DEF TickStarts, TypeOK, diskVars, cacheVars
  <1>3. QED BY <1>1, <1>2 DEF TickStarts

\* So does every step.
LEMMA StepType == TypeOK /\ [Next]_vars => TypeOK'
  <1> SUFFICES ASSUME TypeOK, [Next]_vars PROVE TypeOK'
    OBVIOUS
  <1>1. CASE TickStarts
    BY <1>1, TickStartsType
  <1>2. CASE CheckFails
    BY <1>2, EndsType, MonitorAssumption DEF CheckFails, TypeOK, diskVars, cacheVars, history, Reads
  <1>3. ASSUME NEW a \in Agents, Check(a) PROVE TypeOK'
    BY <1>3, CheckType
  <1>4. ASSUME NEW a \in Agents, NEW emptied \in BOOLEAN, DismissErrors(a, emptied) PROVE TypeOK'
    BY <1>4 DEF DismissErrors, TypeOK, tickVars, ErrorsOf
  <1>5. ASSUME NEW a \in Agents, GatewayToggles(a) \/ AgentToggles(a) PROVE TypeOK'
    BY <1>5 DEF GatewayToggles, AgentToggles, TypeOK, tickVars, cacheVars, history
  <1>6. ASSUME NEW a \in Agents, NEW e \in Errors, ErrorOccurs(a, e) \/ ErrorAges(a, e)
        PROVE  TypeOK'
    BY <1>6 DEF ErrorOccurs, ErrorAges, TypeOK, tickVars, cacheVars, history
  <1>7. CASE Restart
    BY <1>7, EndsType, MonitorAssumption DEF Restart, TypeOK, diskVars, Levels, Reads
  <1>8. CASE UNCHANGED vars
    BY <1>8 DEF vars, diskVars, cacheVars, tickVars, history, TypeOK
  <1>9. QED BY <1>1, <1>2, <1>3, <1>4, <1>5, <1>6, <1>7, <1>8 DEF Next, Monitor

-----------------------------------------------------------------------------
(* Truncated log lines *)

\* A check, and the merge that may follow it, bring no truncated line back.
LEMMA CheckDismissal ==
  ASSUME DismissalInv, TypeOK', NEW a \in Agents, Check(a)
  PROVE  DismissalInv'
  <1> DEFINE r == [read EXCEPT ![a] = CheckAgentHealth(a)]
  <1>1. /\ r \in Reads
        /\ r[a].errors = onDisk[a]
        /\ \A b \in Agents : b # a => r[b] = read[b]
    BY CheckedType DEF DismissalInv, TypeOK, CheckAgentHealth
  <1>2. /\ older' = [older EXCEPT ![a] = older[a] \ (onDisk[a] \cap LogErrors)]
        /\ UNCHANGED <<onDisk, happened, truncated>>
        /\ \/ Merge(checked \cup {a}, r) /\ TickEnds
           \/ read' = r /\ UNCHANGED <<shown, flagged>>
    BY DEF Check, diskVars, cacheVars
  <1>3. \A b \in Agents : r[b].errors \subseteq ErrorsOf(b)
    BY <1>1 DEF ErrorsOf
  <1>4. \A b \in Agents : \A e \in r[b].errors \cap truncated : b # a /\ b \in flagged /\ e \in older[b]
    BY <1>1 DEF DismissalInv
  <1> HIDE DEF r
  <1>5. CASE Merge(checked \cup {a}, r) /\ TickEnds
    <2>1. \A b \in Agents : shown'[b] \subseteq r[b].errors /\ shown'[b] \cap truncated = {}
      BY <1>4, <1>5 DEF Merge, Kept
    <2>2. \A b \in Agents : read'[b].errors = {}
      BY <1>5 DEF TickEnds, Unread
    <2>3. \A b \in Agents : ErrorsOf(b)' \subseteq ErrorsOf(b)
      BY <1>2, <1>3, <2>1, <2>2 DEF ErrorsOf
    <2>4. QED BY <1>2, <2>1, <2>2, <2>3 DEF DismissalInv
  <1>6. CASE read' = r /\ UNCHANGED <<shown, flagged>>
    <2>1. \A b \in Agents : ErrorsOf(b)' \subseteq ErrorsOf(b)
      BY <1>2, <1>3, <1>6 DEF ErrorsOf
    <2>2. \A b \in Agents : \A e \in read'[b].errors \cap truncated : b \in flagged' /\ e \in older'[b]
      BY <1>2, <1>4, <1>6 DEF DismissalInv, TypeOK
    <2>3. QED BY <1>2, <1>6, <2>1, <2>2 DEF DismissalInv
  <1>7. QED BY <1>2, <1>5, <1>6

\* A dismissal covers what is shown and what a tick has read already.
LEMMA DismissDismissal ==
  ASSUME DismissalInv, TypeOK', NEW a \in Agents, NEW emptied \in BOOLEAN, DismissErrors(a, emptied)
  PROVE  DismissalInv'
  <1>1. /\ flagged' = flagged \cup {a}
        /\ shown' = [shown EXCEPT ![a] = {}]
        /\ older' = [older EXCEPT ![a] = (onDisk[a] \cap SessionErrors) \cup read[a].errors]
        /\ UNCHANGED <<happened, read>>
    BY DEF DismissErrors, tickVars
  <1>2. \/ /\ onDisk' = [onDisk EXCEPT ![a] = onDisk[a] \ LogErrors]
           /\ truncated' = truncated \cup (ErrorsOf(a) \cap LogErrors)
        \/ UNCHANGED <<onDisk, truncated>>
    BY DEF DismissErrors, DismissalInv, TypeOK
  <1>3. /\ onDisk'[a] \subseteq onDisk[a] /\ shown'[a] = {}
        /\ \A b \in Agents : b # a => onDisk'[b] = onDisk[b] /\ shown'[b] = shown[b] /\ older'[b] = older[b]
    BY <1>1, <1>2 DEF DismissalInv, TypeOK
  <1>4. \A b \in Agents : ErrorsOf(b)' \subseteq ErrorsOf(b)
    BY <1>1, <1>3 DEF ErrorsOf
  <1>5. truncated' \subseteq truncated \cup ErrorsOf(a)
    BY <1>2
  <1>6. \A b \in Agents : (onDisk'[b] \cup shown'[b]) \cap truncated' = {}
    <2>1. TAKE b \in Agents
    <2>2. CASE b # a
      <3>1. onDisk[b] \cup shown[b] \subseteq ErrorsOf(b) /\ ErrorsOf(a) \cap ErrorsOf(b) = {}
        BY <2>2 DEF ErrorsOf, DismissalInv
      <3>2. QED BY <1>3, <1>5, <2>2, <3>1 DEF DismissalInv
    <2>3. CASE b = a
      <3>1. onDisk[a] \cap truncated = {}
        BY DEF DismissalInv
      <3>2. onDisk'[a] \cap truncated' = {}
        BY <1>2, <3>1 DEF DismissalInv, TypeOK
      <3>3. QED BY <1>3, <2>3, <3>2
    <2>4. QED BY <2>2, <2>3
  <1>7. \A b \in Agents : \A e \in read'[b].errors \cap truncated' : b \in flagged' /\ e \in older'[b]
    <2>1. TAKE b \in Agents
    <2>2. CASE b = a
      BY <1>1, <2>2 DEF DismissalInv, TypeOK
    <2>3. CASE b # a
      <3>1. read[b].errors \subseteq ErrorsOf(b) /\ ErrorsOf(a) \cap ErrorsOf(b) = {}
        BY <2>3 DEF ErrorsOf, DismissalInv
      <3>2. QED BY <1>1, <1>3, <1>5, <2>3, <3>1 DEF DismissalInv
    <2>4. QED BY <2>2, <2>3
  <1>8. truncated' \subseteq happened'
    BY <1>1, <1>5 DEF DismissalInv
  <1>9. QED BY <1>1, <1>4, <1>6, <1>7, <1>8 DEF DismissalInv

\* A new error is none that was truncated.
LEMMA OccursDismissal ==
  ASSUME DismissalInv, TypeOK', NEW a \in Agents, NEW e \in Errors, ErrorOccurs(a, e)
  PROVE  DismissalInv'
  <1>1. /\ e \notin happened /\ happened' = happened \cup {e}
        /\ onDisk' = [onDisk EXCEPT ![a] = onDisk[a] \cup {e}]
        /\ UNCHANGED <<shown, flagged, older, read, truncated>>
    BY DEF ErrorOccurs, cacheVars, tickVars, history
  <1>2. \A b \in Agents : ErrorsOf(b)' = IF b = a THEN ErrorsOf(b) \cup {e} ELSE ErrorsOf(b)
    BY <1>1 DEF ErrorsOf, DismissalInv, TypeOK
  <1>3. \A b \in Agents : e \notin ErrorsOf(b)
    BY <1>1 DEF DismissalInv
  <1>4. \A b \in Agents : (onDisk'[b] \cup shown'[b]) \cap truncated' = {}
    BY <1>1 DEF DismissalInv, TypeOK
  <1>5. \A b, c \in Agents : b # c => ErrorsOf(b)' \cap ErrorsOf(c)' = {}
    BY <1>2, <1>3 DEF DismissalInv
  <1>6. QED BY <1>1, <1>2, <1>4, <1>5 DEF DismissalInv

\* Steps after which an agent has no more errors than before.
LEMMA ClearDismissal ==
  ASSUME DismissalInv, TypeOK', UNCHANGED <<onDisk, happened, truncated>>,
         \A a \in Agents : shown'[a] \subseteq shown[a] /\ read'[a].errors = {}
  PROVE  DismissalInv'
  <1>1. \A a \in Agents : ErrorsOf(a)' \subseteq ErrorsOf(a)
    BY DEF ErrorsOf
  <1>2. QED BY <1>1 DEF DismissalInv

\* Every step keeps the invariant.
LEMMA DismissalStep == DismissalInv /\ [Next]_vars => DismissalInv'
  <1> SUFFICES ASSUME DismissalInv, [Next]_vars PROVE DismissalInv'
    OBVIOUS
  <1>0. TypeOK'
    BY StepType DEF DismissalInv
  <1>1. CASE TickStarts
    <2>1. CASE Merge({}, read) /\ TickEnds
      BY <1>0, <1>1, <2>1, ClearDismissal DEF TickStarts, Merge, TickEnds, Unread, diskVars
    <2>2. CASE UNCHANGED <<cacheVars, told, read>>
      BY <1>0, <1>1, <2>2 DEF TickStarts, DismissalInv, ErrorsOf, diskVars, cacheVars
    <2>3. QED BY <1>1, <2>1, <2>2 DEF TickStarts
  <1>2. CASE CheckFails
    BY <1>0, <1>2, ClearDismissal DEF CheckFails, TickEnds, Unread, diskVars, cacheVars, history
  <1>3. ASSUME NEW a \in Agents, Check(a) PROVE DismissalInv'
    BY <1>0, <1>3, CheckDismissal
  <1>4. ASSUME NEW a \in Agents, NEW emptied \in BOOLEAN, DismissErrors(a, emptied) PROVE DismissalInv'
    BY <1>0, <1>4, DismissDismissal
  <1>5. ASSUME NEW a \in Agents, GatewayToggles(a) \/ AgentToggles(a) PROVE DismissalInv'
    BY <1>0, <1>5 DEF GatewayToggles, AgentToggles, DismissalInv, ErrorsOf, tickVars, cacheVars, history
  <1>6. ASSUME NEW a \in Agents, NEW e \in Errors, ErrorOccurs(a, e) PROVE DismissalInv'
    BY <1>0, <1>6, OccursDismissal
  <1>7. ASSUME NEW a \in Agents, NEW e \in Errors, ErrorAges(a, e) PROVE DismissalInv'
    <2>1. /\ onDisk' = [onDisk EXCEPT ![a] = onDisk[a] \ {e}]
          /\ UNCHANGED <<happened, shown, flagged, older, read, truncated>>
      BY <1>7 DEF ErrorAges, cacheVars, tickVars, history
    <2>2. \A b \in Agents : onDisk'[b] \subseteq onDisk[b]
      BY <2>1 DEF DismissalInv, TypeOK
    <2>3. \A b \in Agents : ErrorsOf(b)' \subseteq ErrorsOf(b)
      BY <2>1, <2>2 DEF ErrorsOf
    <2>4. QED BY <1>0, <2>1, <2>2, <2>3 DEF DismissalInv
  <1>8. CASE Restart
    BY <1>0, <1>8, ClearDismissal DEF Restart, TickEnds, Unread, diskVars
  <1>9. CASE UNCHANGED vars
    BY <1>0, <1>9 DEF vars, diskVars, cacheVars, tickVars, history, DismissalInv, ErrorsOf
  <1>10. QED BY <1>1, <1>2, <1>3, <1>4, <1>5, <1>6, <1>7, <1>8, <1>9 DEF Next, Monitor

\* Initially no error has occurred.
LEMMA InitDismissal == Init => DismissalInv
  <1> SUFFICES ASSUME Init PROVE DismissalInv
    OBVIOUS
  <1>1. TypeOK
    <2>1. Unread \in [alive : BOOLEAN, errors : SUBSET Errors]
      BY DEF Unread
    <2>2. read \in [Agents -> [alive : BOOLEAN, errors : SUBSET Errors]]
      BY <2>1 DEF Init
    <2>3. /\ onDisk \in [Agents -> SUBSET Errors] /\ shown \in [Agents -> SUBSET Errors]
          /\ older \in [Agents -> SUBSET Errors]
      BY DEF Init
    <2>4. level \in [Agents -> Levels] /\ told \in [Agents -> Levels \cup {"none"}]
      BY DEF Init, Levels
    <2>5. failures \in 0..MaxFailures
      BY MonitorAssumption DEF Init
    <2>6. QED BY <2>2, <2>3, <2>4, <2>5 DEF Init, TypeOK
  <1>2. \A a \in Agents : ErrorsOf(a) = {}
    BY DEF Init, ErrorsOf, Unread
  <1>3. QED BY <1>1, <1>2 DEF Init, DismissalInv, Unread, ErrorsOf

\* For any agents and errors, whatever a tick had read when the operator
\* dismissed, through failing ticks and restarts, and whether or not earlier
\* truncations failed: no log line from before a dismissal that emptied the log
\* is shown again.
THEOREM DismissalsAreFinal == Spec => []DismissedLinesStayAway
  <1>1. DismissalInv => DismissedLinesStayAway
    BY DEF DismissalInv, DismissedLinesStayAway
  <1>2. QED BY InitDismissal, DismissalStep, <1>1, PTL DEF Spec

\* Every variable of the monitor keeps its type.
THEOREM TypeCorrect == Spec => []TypeOK
  <1>1. DismissalInv => TypeOK
    BY DEF DismissalInv
  <1>2. QED BY InitDismissal, DismissalStep, <1>1, PTL DEF Spec

-----------------------------------------------------------------------------
(* What the clients were told *)

\* With fewer errors an agent is no worse.
LEMMA FewerErrors ==
  ASSUME NEW up \in BOOLEAN, NEW all, NEW some \in SUBSET all
  PROVE  AsBad(ComputeCompositeHealth(up, all), ComputeCompositeHealth(up, some))
  BY DEF AsBad, ComputeCompositeHealth, Levels

\* A merge tells the clients of no agent less than it caches, and the same
\* unless it has hidden errors, now or since they were told last.
LEMMA MergeTells ==
  ASSUME TypeOK, ClientsKnowTheWorst, NEW seen \in SUBSET Agents, NEW r \in Reads, Merge(seen, r),
         NEW a \in seen
  PROVE  AsBad(told'[a], level'[a]) /\ (a \in hidden' \/ told'[a] = level'[a])
  <1> DEFINE now  == ComputeCompositeHealth(r[a].alive, r[a].errors)
             kept == ComputeCompositeHealth(r[a].alive, Kept(a, r[a]))
  <1>1. r[a] \in [alive : BOOLEAN, errors : SUBSET Errors]
    BY DEF Reads
  <1>2. AsBad(now, kept) /\ now \in Levels /\ kept \in Levels
    BY <1>1, FewerErrors, HealthType, KeptType
  <1>3. level'[a] = kept
    BY DEF Merge
  <1>4. told'[a] = IF Differs(a, r[a]) THEN now ELSE told[a]
    BY DEF Merge, Broadcast
  <1>5. a \in hidden' <=> (Kept(a, r[a]) # r[a].errors \/ (a \in hidden /\ ~Differs(a, r[a])))
    BY DEF Merge
  <1>6. Kept(a, r[a]) = r[a].errors => now = kept
    OBVIOUS
  <1>7. ~Differs(a, r[a]) => a \in known /\ now = level[a]
    BY DEF Differs
  <1> HIDE DEF now, kept
  <1>8. CASE Differs(a, r[a])
    BY <1>2, <1>3, <1>4, <1>5, <1>6, <1>8
  <1>9. CASE ~Differs(a, r[a])
    <2>1. /\ told'[a] = told[a] /\ level[a] = now
          /\ AsBad(told[a], now) /\ (a \in hidden \/ told[a] = now)
      BY <1>4, <1>7, <1>9 DEF ClientsKnowTheWorst
    <2>2. AsBad(told[a], kept)
      BY <1>2, <2>1 DEF AsBad, Levels
    <2>3. QED BY <1>3, <1>5, <1>6, <1>9, <2>1, <2>2
  <1>10. QED BY <1>8, <1>9

\* Every step keeps the clients informed.
LEMMA ToldStep == TypeOK /\ ClientsKnowTheWorst /\ [Next]_vars => ClientsKnowTheWorst'
  <1> SUFFICES ASSUME TypeOK, ClientsKnowTheWorst, [Next]_vars PROVE ClientsKnowTheWorst'
    OBVIOUS
  <1>1. CASE TickStarts
    <2>1. CASE Merge({}, read)
      BY <2>1 DEF Merge, ClientsKnowTheWorst
    <2>2. CASE UNCHANGED <<cacheVars, told, hidden>>
      BY <2>2 DEF ClientsKnowTheWorst, cacheVars
    <2>3. QED BY <1>1, <2>1, <2>2 DEF TickStarts
  <1>2. CASE CheckFails
    BY <1>2 DEF CheckFails, ClientsKnowTheWorst, cacheVars, history
  <1>3. ASSUME NEW a \in Agents, Check(a) PROVE ClientsKnowTheWorst'
    <2> DEFINE r == [read EXCEPT ![a] = CheckAgentHealth(a)]
    <2>1. r \in Reads /\ checked \cup {a} \in SUBSET Agents
      BY CheckedType DEF TypeOK
    <2>2. CASE Merge(checked \cup {a}, r)
      <3>1. known' = checked \cup {a}
        BY <2>2 DEF Merge
      <3>2. \A b \in checked \cup {a} :
              AsBad(told'[b], level'[b]) /\ (b \in hidden' \/ told'[b] = level'[b])
        BY <2>1, <2>2, MergeTells
      <3>3. QED BY <3>1, <3>2 DEF ClientsKnowTheWorst, AsBad, Levels
    <2>3. CASE UNCHANGED <<cacheVars, told, hidden>>
      BY <2>3 DEF ClientsKnowTheWorst, cacheVars
    <2>4. QED BY <1>3, <2>2, <2>3 DEF Check
  <1>4. ASSUME NEW a \in Agents, NEW emptied \in BOOLEAN, DismissErrors(a, emptied)
        PROVE  ClientsKnowTheWorst'
    <2>1. /\ told' = [told EXCEPT ![a] = level[a]]
          /\ hidden' = hidden \ {a}
          /\ UNCHANGED <<known, level>>
      BY <1>4 DEF DismissErrors
    <2>2. ASSUME NEW b \in known'
          PROVE  AsBad(told'[b], level'[b]) /\ (b \in hidden' \/ told'[b] = level'[b])
      <3>1. b \in Agents /\ b \in known
        BY <2>1, <2>2 DEF TypeOK
      <3>2. CASE b = a
        BY <2>1, <3>1, <3>2 DEF TypeOK, AsBad
      <3>3. CASE b # a
        BY <2>1, <3>1, <3>3 DEF TypeOK, ClientsKnowTheWorst
      <3>4. QED BY <3>2, <3>3
    <2>3. QED BY <2>2 DEF ClientsKnowTheWorst, AsBad, Levels
  <1>5. ASSUME NEW a \in Agents, GatewayToggles(a) \/ AgentToggles(a) PROVE ClientsKnowTheWorst'
    BY <1>5 DEF GatewayToggles, AgentToggles, ClientsKnowTheWorst, cacheVars, history
  <1>6. ASSUME NEW a \in Agents, NEW e \in Errors, ErrorOccurs(a, e) \/ ErrorAges(a, e)
        PROVE  ClientsKnowTheWorst'
    BY <1>6 DEF ErrorOccurs, ErrorAges, ClientsKnowTheWorst, cacheVars, history
  <1>7. CASE Restart
    BY <1>7 DEF Restart, ClientsKnowTheWorst
  <1>8. CASE UNCHANGED vars
    BY <1>8 DEF vars, cacheVars, history, ClientsKnowTheWorst
  <1>9. QED BY <1>1, <1>2, <1>3, <1>4, <1>5, <1>6, <1>7, <1>8 DEF Next, Monitor

\* Through agents that come and go, dismissals in mid-tick, failing ticks and
\* restarts, the clients are never left with a better status of an agent than
\* the cached one, and with another one only if the last they were told counted
\* errors that the merge hid.
THEOREM ClientsAreTold == Spec => []ClientsKnowTheWorst
  <1>1. Init => TypeOK /\ ClientsKnowTheWorst
    BY InitDismissal DEF Init, DismissalInv, ClientsKnowTheWorst
  <1>2. TypeOK /\ ClientsKnowTheWorst /\ [Next]_vars => (TypeOK /\ ClientsKnowTheWorst)'
    BY StepType, ToldStep
  <1>3. QED BY <1>1, <1>2, PTL DEF Spec
=============================================================================
