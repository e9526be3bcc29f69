------------------------ MODULE AgentLifecycleProofs ------------------------
(***************************************************************************)
(* What holds of AgentLifecycle for every set of agents, processes and     *)
(* verifications.                                                          *)
(***************************************************************************)
EXTENDS AgentLifecycle, TLAPS

\* Initially nothing is under way.
LEMMA InitLock == Init => LockInv
  <1> SUFFICES ASSUME Init PROVE LockInv
    OBVIOUS
  <1>1. TypeOK
    BY LifecycleAssumption DEF Init, TypeOK
  <1>2. VerificationHoldsLock
    BY DEF Init, VerificationHoldsLock
  <1>3. LockIsYoung
    BY DEF Init, LockIsYoung
  <1>4. QED BY <1>1, <1>2, <1>3 DEF LockInv

\* A request that takes the lock for verification o and starts it.
LEMMA TakeHolds ==
  ASSUME LockInv, NEW a \in Agents, NEW o \in Ops, NEW k \in {"start", "stop"},
         NEW p \in Pids \cup {NoPid}, AcquireLock(a, k, o), forced' = forced,
         Begin(o, [kind |-> k, agent |-> a, pid |-> p])
  PROVE  /\ VerificationHoldsLock' /\ LockIsYoung'
         /\ age' \in [Agents -> 0..LockTimeout] /\ waited' \in [Ops -> Nat]
         /\ lock' \in [Agents -> {"free", "start", "stop"}]
         /\ holder' \in [Agents -> Ops \cup {NoOp}]
         /\ work' \in [Ops -> Jobs \cup {Idle}]
  <1> DEFINE job == [kind |-> k, agent |-> a, pid |-> p]
  <1>1. job \in Jobs /\ job.agent = a /\ job.kind = k
    BY DEF Jobs
  <1>2. job # Idle
    BY <1>1, LifecycleAssumption DEF Jobs
  <1> HIDE DEF job
  <1>3. work' = [work EXCEPT ![o] = job] /\ waited' = [waited EXCEPT ![o] = 0]
    BY DEF job, Begin
  <1>4. /\ lock' \in [Agents -> {"free", "start", "stop"}]
        /\ holder' \in [Agents -> Ops \cup {NoOp}]
        /\ work' \in [Ops -> Jobs \cup {Idle}]
        /\ age' \in [Agents -> 0..LockTimeout] /\ waited' \in [Ops -> Nat]
    BY <1>1, <1>3, LifecycleAssumption DEF LockInv, TypeOK, AcquireLock
  <1>5. ASSUME NEW q \in Ops, work'[q] # Idle, work'[q].agent \notin forced'
        PROVE  /\ holder'[work'[q].agent] = q /\ lock'[work'[q].agent] = work'[q].kind
               /\ age'[work'[q].agent] = waited'[q]
    <2>1. CASE q = o
      BY <1>1, <1>3, <2>1 DEF LockInv, TypeOK, AcquireLock
    <2>2. CASE q # o
      <3>1. work'[q] = work[q] /\ work[q] \in Jobs /\ waited'[q] = waited[q]
        BY <1>3, <1>5, <2>2 DEF LockInv, TypeOK
      <3>2. work[q].agent \in Agents /\ work[q].kind \in {"start", "stop"}
        BY <3>1 DEF Jobs
      <3>3. /\ lock[work[q].agent] = work[q].kind /\ holder[work[q].agent] = q
            /\ age[work[q].agent] = waited[q]
        BY <1>5, <3>1 DEF LockInv, VerificationHoldsLock, LockIsYoung
      <3>4. work[q].agent # a
        BY <3>2, <3>3 DEF AcquireLock
      <3>5. QED BY <3>1, <3>2, <3>3, <3>4 DEF LockInv, TypeOK, AcquireLock
    <2>3. QED BY <2>1, <2>2
  <1>6. ASSUME NEW q \in Ops, work'[q] # Idle PROVE waited'[q] <= WaitOf(work'[q].kind)
    BY <1>1, <1>3, <1>6, LifecycleAssumption DEF LockInv, TypeOK, LockIsYoung, WaitOf
  <1>7. QED BY <1>4, <1>5, <1>6 DEF VerificationHoldsLock, LockIsYoung

\* What was exempt for a verification that goes on stays exempt.
LEMMA EndForced ==
  ASSUME LockInv, NEW o \in Ops, End(o)
  PROVE  /\ work' \in [Ops -> Jobs \cup {Idle}] /\ waited' \in [Ops -> Nat]
         /\ forced' \subseteq forced /\ work'[o] = Idle
         /\ \A q \in Ops : work'[q] # Idle =>
              /\ q # o /\ work'[q] = work[q] /\ work[q] \in Jobs /\ waited'[q] = waited[q]
              /\ work[q].agent \in Agents /\ (work[q].agent \in forced => work[q].agent \in forced')
  <1>1. /\ work' \in [Ops -> Jobs \cup {Idle}] /\ waited' \in [Ops -> Nat]
        /\ forced' \subseteq forced /\ work'[o] = Idle
    BY DEF LockInv, TypeOK, End
  <1>2. ASSUME NEW q \in Ops, work'[q] # Idle
        PROVE  /\ q # o /\ work'[q] = work[q] /\ work[q] \in Jobs /\ waited'[q] = waited[q]
               /\ work[q].agent \in Agents /\ (work[q].agent \in forced => work[q].agent \in forced')
    <2>1. q # o /\ work'[q] = work[q] /\ work[q] \in Jobs /\ waited'[q] = waited[q]
      BY <1>1, <1>2 DEF LockInv, TypeOK, End
    <2>2. work[q].agent \in Agents
      BY <2>1 DEF Jobs
    <2>3. work[q].agent \in forced => work[q].agent \in forced'
      BY <1>2, <2>1 DEF End
    <2>4. QED BY <2>1, <2>2, <2>3
  <1>3. QED BY <1>1, <1>2

\* A verification that ends and deletes its agent's lock deletes no lock that
\* another verification counts on.
LEMMA EndHolds ==
  ASSUME LockInv, NEW o \in Ops, work[o] # Idle, ReleaseLock(work[o].agent),
         End(o), UNCHANGED procVars, alone' \subseteq Ops
  PROVE  LockInv'
  <1>1. work[o].agent \in Agents
    BY DEF LockInv, TypeOK, Jobs
  <1>2. TypeOK'
    BY <1>1, EndForced, LifecycleAssumption DEF LockInv, TypeOK, ReleaseLock, procVars
  <1>3. ASSUME NEW q \in Ops, work'[q] # Idle
        PROVE  /\ waited'[q] <= WaitOf(work'[q].kind)
               /\ work'[q].agent \notin forced' =>
                    /\ holder'[work'[q].agent] = q /\ lock'[work'[q].agent] = work'[q].kind
                    /\ age'[work'[q].agent] = waited'[q]
    <2>1. /\ q # o /\ work'[q] = work[q] /\ waited'[q] = waited[q]
          /\ work[q].agent \in Agents /\ (work[q].agent \in forced => work[q].agent \in forced')
      BY <1>3, EndForced
    <2>2. waited[q] <= WaitOf(work[q].kind)
      BY <1>3, <2>1 DEF LockInv, LockIsYoung
    <2>3. ASSUME work[q].agent \notin forced
          PROVE  /\ holder'[work[q].agent] = q /\ lock'[work[q].agent] = work[q].kind
                 /\ age'[work[q].agent] = waited[q]
      <3>1. /\ holder[work[q].agent] = q /\ lock[work[q].agent] = work[q].kind
            /\ age[work[q].agent] = waited[q]
        BY <1>3, <2>1, <2>3 DEF LockInv, VerificationHoldsLock, LockIsYoung
      <3>2. work[o].agent = work[q].agent => holder[work[q].agent] = o
        BY <2>3 DEF LockInv, VerificationHoldsLock
      <3>3. work[q].agent # work[o].agent
        BY <2>1, <3>1, <3>2
      <3>4. QED BY <2>1, <3>1, <3>3 DEF LockInv, TypeOK, ReleaseLock
    <2>4. QED BY <2>1, <2>2, <2>3
  <1>4. QED BY <1>2, <1>3 DEF LockInv, VerificationHoldsLock, LockIsYoung

\* What the processes do leaves locks and verifications alone.
LEMMA HostHolds ==
  ASSUME LockInv, NEW p \in Pids,
         Boot(p) \/ Exit(p) \/ (\E a \in Agents : KeepAlive(a, p))
  PROVE  LockInv'
  <1>1. UNCHANGED <<lock, holder, age, work, waited, forced>> /\ TypeOK'
    BY DEF LockInv, TypeOK, Boot, Exit, KeepAlive, Spawn, lockVars, workVars, histVars
  <1>2. QED BY <1>1 DEF LockInv, VerificationHoldsLock, LockIsYoung

\* A start takes the lock its verification will hold.
LEMMA StartHolds ==
  ASSUME LockInv, NEW a \in Agents, NEW o \in Ops, Start(a, o)
  PROVE  LockInv'
  <1>1. CASE \E p \in Pids :
               /\ Spawn(p, a)
               /\ Begin(o, [kind |-> "start", agent |-> a, pid |-> p])
    <2>1. PICK p \in Pids :
               /\ Spawn(p, a)
               /\ Begin(o, [kind |-> "start", agent |-> a, pid |-> p])
      BY <1>1
    <2>2. AcquireLock(a, "start", o) /\ UNCHANGED <<kept, loaded, forced, alone>>
      BY DEF Start, histVars
    <2>3. phase' \in [Pids -> {"unused", "booting", "up", "gone"}] /\ home' \in [Pids -> Agents]
      BY <2>1 DEF LockInv, TypeOK, Spawn
    <2>4. QED BY <2>1, <2>2, <2>3, TakeHolds DEF LockInv, TypeOK
  <1>2. CASE /\ Begin(o, [kind |-> "start", agent |-> a, pid |-> NoPid])
             /\ UNCHANGED <<phase, home>>
    <2>1. AcquireLock(a, "start", o) /\ UNCHANGED <<kept, loaded, forced, alone>>
      BY DEF Start, histVars
    <2>2. QED BY <1>2, <2>1, TakeHolds DEF LockInv, TypeOK
  <1>3. QED BY <1>1, <1>2 DEF Start

\* So does a stop.
LEMMA StopHolds ==
  ASSUME LockInv, NEW a \in Agents, NEW o \in Ops, Stop(a, o)
  PROVE  LockInv'
  <1>1. PICK p \in FindAgentPid(a) :
           /\ StopAgent(p, "SIGTERM")
           /\ Begin(o, [kind |-> "stop", agent |-> a, pid |-> p])
    BY DEF Stop
  <1>2. AcquireLock(a, "stop", o) /\ forced' = forced /\ alone' \subseteq Ops
    BY DEF Stop, LockInv, TypeOK
  <1>3. p \in Pids
    BY DEF FindAgentPid
  <1>4. UNCHANGED <<phase, home, kept>> /\ loaded' \subseteq Supervised
    BY <1>1 DEF StopAgent, LockInv, TypeOK
  <1>5. QED BY <1>1, <1>2, <1>3, <1>4, TakeHolds DEF LockInv, TypeOK

\* A stop that gives up ends its verification and abandons the lock.
LEMMA StopGivesUpHolds ==
  ASSUME LockInv, NEW o \in Ops, StopGivesUp(o)
  PROVE  LockInv'
  <1>1. TypeOK'
    BY EndForced DEF LockInv, TypeOK, StopGivesUp, procVars
  <1>2. ASSUME NEW q \in Ops, work'[q] # Idle
        PROVE  /\ waited'[q] <= WaitOf(work'[q].kind)
               /\ work'[q].agent \notin forced' =>
                    /\ holder'[work'[q].agent] = q /\ lock'[work'[q].agent] = work'[q].kind
                    /\ age'[work'[q].agent] = waited'[q]
    <2>1. /\ q # o /\ work'[q] = work[q] /\ waited'[q] = waited[q]
          /\ work[q].agent \in Agents /\ (work[q].agent \in forced => work[q].agent \in forced')
      BY <1>2, EndForced DEF StopGivesUp
    <2>2. /\ waited[q] <= WaitOf(work[q].kind)
          /\ work[q].agent \notin forced =>
               /\ holder[work[q].agent] = q /\ lock[work[q].agent] = work[q].kind
               /\ age[work[q].agent] = waited[q]
      BY <1>2, <2>1 DEF LockInv, VerificationHoldsLock, LockIsYoung
    <2>3. QED BY <2>1, <2>2 DEF StopGivesUp
  <1>3. QED BY <1>1, <1>2 DEF LockInv, VerificationHoldsLock, LockIsYoung

\* A lock expires after its verification has ended.
LEMMA ExpiryHolds ==
  ASSUME LockInv, NEW a \in Agents, CleanExpiredLock(a)
  PROVE  LockInv'
  <1>1. TypeOK' /\ UNCHANGED <<work, waited, forced>>
    BY LifecycleAssumption
    DEF LockInv, TypeOK, CleanExpiredLock, ReleaseLock, procVars, workVars, histVars
  <1>2. ASSUME NEW q \in Ops, work[q] # Idle, work[q].agent \notin forced
        PROVE  /\ holder'[work[q].agent] = q /\ lock'[work[q].agent] = work[q].kind
               /\ age'[work[q].agent] = waited[q]
    <2>1. work[q].agent \in Agents /\ waited[q] \in Nat
      BY <1>2 DEF LockInv, TypeOK, Jobs
    <2>2. /\ holder[work[q].agent] = q /\ lock[work[q].agent] = work[q].kind
          /\ age[work[q].agent] = waited[q] /\ waited[q] <= WaitOf(work[q].kind)
      BY <1>2 DEF LockInv, VerificationHoldsLock, LockIsYoung
    <2>3. waited[q] < LockTimeout
      BY <2>1, <2>2, LifecycleAssumption DEF WaitOf
    <2>4. work[q].agent # a
      BY <2>1, <2>2, <2>3, LifecycleAssumption DEF CleanExpiredLock
    <2>5. QED BY <2>1, <2>2, <2>4 DEF LockInv, TypeOK, CleanExpiredLock, ReleaseLock
  <1>3. QED BY <1>1, <1>2 DEF LockInv, VerificationHoldsLock, LockIsYoung

\* A lock ages with its verification.
LEMMA TickHolds == ASSUME LockInv, Tick PROVE LockInv'
  <1>1. /\ UNCHANGED <<phase, home, kept, loaded, lock, holder, work, forced, alone>>
        /\ \A q \in Ops : waited'[q] = IF work[q] = Idle THEN waited[q] ELSE waited[q] + 1
        /\ \A a \in Agents :
             age'[a] = IF lock[a] = "free" \/ age[a] = LockTimeout THEN age[a] ELSE age[a] + 1
    BY DEF Tick, procVars, histVars
  <1>2. waited' \in [Ops -> Nat] /\ age' \in [Agents -> 0..LockTimeout]
    <2>1. waited' \in [Ops -> Nat]
      BY DEF Tick, LockInv, TypeOK
    <2>2. \A n \in 0..LockTimeout : n = LockTimeout \/ n + 1 \in 0..LockTimeout
      BY LifecycleAssumption
    <2>3. QED BY <2>1, <2>2 DEF Tick, LockInv, TypeOK
  <1>3. TypeOK'
    BY <1>1, <1>2 DEF LockInv, TypeOK
  <1>4. ASSUME NEW q \in Ops, work[q] # Idle
        PROVE  /\ waited'[q] <= WaitOf(work[q].kind)
               /\ work[q].agent \notin forced => age'[work[q].agent] = waited'[q]
    <2>1. work[q].agent \in Agents /\ work[q].kind \in {"start", "stop"} /\ waited[q] \in Nat
      BY <1>4 DEF LockInv, TypeOK, Jobs
    <2>2. /\ waited[q] < WaitOf(work[q].kind) /\ WaitOf(work[q].kind) \in Nat
          /\ WaitOf(work[q].kind) < LockTimeout
      BY <1>4, LifecycleAssumption DEF Tick, WaitOf
    <2>3. waited'[q] = waited[q] + 1 /\ waited[q] < LockTimeout
      BY <1>1, <1>4, <2>1, <2>2, LifecycleAssumption
    <2>4. ASSUME work[q].agent \notin forced PROVE age'[work[q].agent] = waited'[q]
      <3>1. lock[work[q].agent] = work[q].kind /\ age[work[q].agent] = waited[q]
        BY <1>4, <2>4 DEF LockInv, VerificationHoldsLock, LockIsYoung
      <3>2. lock[work[q].agent] # "free" /\ age[work[q].agent] # LockTimeout
        BY <2>1, <2>3, <3>1, LifecycleAssumption
      <3>3. QED BY <1>1, <2>1, <2>3, <3>1, <3>2
    <2>5. QED BY <2>1, <2>2, <2>3, <2>4
  <1>5. QED BY <1>1, <1>3, <1>4 DEF LockInv, VerificationHoldsLock, LockIsYoung

\* A force-stop takes the lock away under a verification, but notes it.
LEMMA ForceStopHolds ==
  ASSUME LockInv, NEW a \in Agents, ForceStop(a)
  PROVE  LockInv'
  <1>1. phase' \in [Pids -> {"unused", "booting", "up", "gone"}]
        /\ home' \in [Pids -> Agents] /\ kept' \subseteq Pids /\ loaded' \subseteq Supervised
    <2>1. CASE FindAgentPid(a) = {}
      BY <2>1 DEF ForceStop, procVars, LockInv, TypeOK
    <2>2. CASE FindAgentPid(a) # {}
      <3>1. PICK p \in FindAgentPid(a) : StopAgent(p, "SIGKILL")
        BY <2>2 DEF ForceStop
      <3>2. QED BY <3>1 DEF StopAgent, LockInv, TypeOK
    <2>3. QED BY <2>1, <2>2
  <1>2. ReleaseLock(a) /\ work' = work /\ waited' = waited /\ alone' = alone
        /\ forced' = IF holder[a] = NoOp THEN forced ELSE forced \cup {a}
    BY DEF ForceStop, workVars
  <1>3. TypeOK'
    BY <1>1, <1>2, LifecycleAssumption DEF LockInv, TypeOK, ReleaseLock
  <1>4. ASSUME NEW q \in Ops, work[q] # Idle, work[q].agent \notin forced'
        PROVE  /\ holder'[work[q].agent] = q /\ lock'[work[q].agent] = work[q].kind
               /\ age'[work[q].agent] = waited[q]
    <2>1. work[q].agent \in Agents
      BY <1>4 DEF LockInv, TypeOK, Jobs
    <2>2. /\ holder[work[q].agent] = q /\ lock[work[q].agent] = work[q].kind
          /\ age[work[q].agent] = waited[q]
      BY <1>2, <1>4 DEF LockInv, VerificationHoldsLock, LockIsYoung
    <2>3. work[q].agent # a
      BY <1>2, <1>4, <2>2, LifecycleAssumption
    <2>4. QED BY <1>2, <2>1, <2>2, <2>3 DEF LockInv, TypeOK, ReleaseLock
  <1>5. QED BY <1>2, <1>3, <1>4 DEF LockInv, VerificationHoldsLock, LockIsYoung

\* Every step keeps the invariant.
LEMMA LockStep == LockInv /\ [Next]_vars => LockInv'
  <1> SUFFICES ASSUME LockInv, [Next]_vars PROVE LockInv'
    OBVIOUS
  <1>1. CASE \E a \in Agents, o \in Ops : Start(a, o) \/ Stop(a, o)
    BY <1>1, StartHolds, StopHolds
  <1>2. CASE \E a \in Agents : ForceStop(a) \/ CleanExpiredLock(a)
    BY <1>2, ExpiryHolds, ForceStopHolds
  <1>3. CASE \E o \in Ops : StartSeen(o) \/ StartGivesUp(o) \/ StopSeen(o) \/ StopGivesUp(o)
    <2>1. PICK o \in Ops : StartSeen(o) \/ StartGivesUp(o) \/ StopSeen(o) \/ StopGivesUp(o)
      BY <1>3
    <2>2. CASE StartSeen(o) \/ StartGivesUp(o)
      BY <2>2, EndHolds DEF StartSeen, StartGivesUp, LockInv, TypeOK
    <2>3. CASE StopSeen(o)
      <3>1. alone' \subseteq Ops
        BY <2>3 DEF StopSeen, LockInv, TypeOK
      <3>2. QED BY <2>3, <3>1, EndHolds DEF StopSeen
    <2>4. CASE StopGivesUp(o)
      BY <2>4, StopGivesUpHolds
    <2>5. QED BY <2>1, <2>2, <2>3, <2>4
  <1>4. CASE \E p \in Pids : Boot(p) \/ Exit(p) \/ (\E a \in Agents : KeepAlive(a, p))
    BY <1>4, HostHolds
  <1>5. CASE Restart
    BY <1>5, LifecycleAssumption DEF Restart, LockInv, TypeOK, VerificationHoldsLock, LockIsYoung, procVars
  <1>6. CASE UNCHANGED vars
    BY <1>6 DEF vars, procVars, lockVars, workVars, histVars, LockInv, TypeOK, VerificationHoldsLock, LockIsYoung
  <1>7. QED BY <1>1, <1>2, <1>3, <1>4, <1>5, <1>6, TickHolds DEF Next

\* The lifecycle state never leaves its type.
THEOREM LifecycleTyped == Spec => []TypeOK
  <1>1. LockInv => TypeOK
    BY DEF LockInv
  <1>2. QED BY InitLock, LockStep, <1>1, PTL DEF Spec

\* Until a force-stop takes the lock away under a verification, the lifecycle
\* lock does what it is for: however starts, stops, their verifications,
\* expiries and restarts interleave, the operation under way holds its agent's
\* lock.
THEOREM LocksHold == Spec => []VerificationHoldsLock
  <1>1. LockInv => VerificationHoldsLock
    BY DEF LockInv
  <1>2. QED BY InitLock, LockStep, <1>1, PTL DEF Spec

\* Hence at most one operation on an agent is under way.
THEOREM LocksExclude == Spec => []OneOperationPerAgent
  <1>1. LockInv => OneOperationPerAgent
    BY DEF LockInv, VerificationHoldsLock, OneOperationPerAgent
  <1>2. QED BY InitLock, LockStep, <1>1, PTL DEF Spec

-----------------------------------------------------------------------------
(* What a stop that reports success has left *)

\* Steps that bring nothing to life for an agent whose stop is being verified.
LEMMA DownKept ==
  ASSUME DownInv, alone' \subseteq alone, loaded' \subseteq loaded,
         \A o \in alone' : work'[o] = work[o] /\ (work[o].agent \in forced => work[o].agent \in forced'),
         \A o \in alone' : work[o].agent \notin forced' =>
           \A p \in Pids : Alive(p)' /\ home'[p] = work[o].agent => Alive(p) /\ home[p] = home'[p]
  PROVE  \A o \in alone' : StillDown(o)'
  <1> SUFFICES ASSUME NEW o \in alone' PROVE StillDown(o)'
    OBVIOUS
  <1>1. StillDown(o) /\ work'[o] = work[o]
    BY DEF DownInv
  <1>2. ASSUME work[o].agent \notin forced'
        PROVE  LiveOf(work[o].agent)' \subseteq {work[o].pid} /\ work[o].agent \notin loaded'
    <2>1. LiveOf(work[o].agent) \subseteq {work[o].pid} /\ work[o].agent \notin loaded
      BY <1>1, <1>2 DEF StillDown
    <2>2. LiveOf(work[o].agent)' \subseteq LiveOf(work[o].agent)
      BY <1>1, <1>2 DEF LiveOf
    <2>3. QED BY <2>1, <2>2
  <1>3. QED BY <1>1, <1>2 DEF StillDown, LiveOf, Alive

\* A new process is alive for its own agent and for no other.
LEMMA SpawnAlive ==
  ASSUME TypeOK, NEW q \in Pids, NEW a \in Agents, Spawn(q, a),
         NEW b \in Agents, a # b, NEW p \in Pids, Alive(p)', home'[p] = b
  PROVE  Alive(p) /\ home[p] = home'[p]
  BY DEF TypeOK, Spawn, Alive

\* A start finds the lock free, so that it starts no agent whose stop is being
\* verified.
LEMMA StartDown ==
  ASSUME DownInv, NEW a \in Agents, NEW o \in Ops, Start(a, o)
  PROVE  \A q \in alone' : StillDown(q)'
  <1>0. LockInv /\ TypeOK
    BY DEF DownInv, LockInv
  <1>1. /\ alone' = alone /\ forced' = forced /\ loaded' = loaded
        /\ work[o] = Idle /\ lock[a] = "free"
        /\ \A q \in Ops \ {o} : work'[q] = work[q]
        /\ (\E p \in Pids : Spawn(p, a)) \/ UNCHANGED <<phase, home>>
    BY <1>0 DEF Start, Begin, AcquireLock, histVars, TypeOK
  <1>2. \A q \in alone : q \in Ops \ {o}
    BY <1>0, <1>1 DEF DownInv, StillDown, TypeOK
  <1>3. ASSUME NEW q \in alone, work[q].agent \notin forced
        PROVE  work[q].agent \in Agents /\ work[q].agent # a
    <2>1. work[q] # Idle /\ work[q].kind = "stop" /\ work[q] \in Jobs
      BY <1>0, <1>2 DEF DownInv, StillDown, TypeOK
    <2>2. lock[work[q].agent] = "stop"
      BY <1>0, <1>2, <1>3, <2>1 DEF LockInv, VerificationHoldsLock
    <2>3. QED BY <1>1, <2>1, <2>2 DEF Jobs
  <1>4. ASSUME NEW q \in alone, work[q].agent \notin forced,
               NEW p \in Pids, Alive(p)', home'[p] = work[q].agent
        PROVE  Alive(p) /\ home[p] = home'[p]
    <2>1. CASE \E r \in Pids : Spawn(r, a)
      BY <1>0, <1>3, <1>4, <2>1, SpawnAlive
    <2>2. CASE UNCHANGED <<phase, home>>
      BY <1>4, <2>2 DEF Alive
    <2>3. QED BY <1>1, <2>1, <2>2
  <1>5. QED BY <1>1, <1>2, <1>4, DownKept

\* A stop that signals all there is of the agent unloads what launchd has of it.
LEMMA StopDown ==
  ASSUME DownInv, NEW a \in Agents, NEW o \in Ops, Stop(a, o)
  PROVE  \A q \in alone' : StillDown(q)'
  <1>0. LockInv /\ TypeOK
    BY DEF DownInv, LockInv
  <1>1. PICK p \in FindAgentPid(a) :
           /\ StopAgent(p, "SIGTERM")
           /\ Begin(o, [kind |-> "stop", agent |-> a, pid |-> p])
           /\ alone' = IF LiveOf(a) = {p} /\ (a \in loaded => p \in kept)
                       THEN alone \cup {o} ELSE alone
    BY DEF Stop
  <1>2. /\ work[o] = Idle /\ forced' = forced /\ p \in Pids
        /\ UNCHANGED <<phase, home>>
        /\ loaded' = IF p \in kept THEN loaded \ {home[p]} ELSE loaded
    BY <1>1 DEF Stop, StopAgent, FindAgentPid
  <1>3. o \notin alone /\ alone \subseteq Ops
    BY <1>0, <1>2 DEF DownInv, StillDown, TypeOK
  <1>4. ASSUME NEW q \in alone PROVE StillDown(q)'
    <2>1. work'[q] = work[q]
      BY <1>0, <1>1, <1>3 DEF TypeOK, Begin
    <2>2. StillDown(q) /\ loaded' \subseteq loaded
      BY <1>2 DEF DownInv
    <2>3. LiveOf(work[q].agent)' = LiveOf(work[q].agent)
      BY <1>2, <2>1 DEF LiveOf, Alive
    <2>4. QED BY <1>2, <2>1, <2>2, <2>3 DEF StillDown, LiveOf, Alive
  <1>5. ASSUME o \in alone' PROVE StillDown(o)'
    <2> DEFINE job == [kind |-> "stop", agent |-> a, pid |-> p]
    <2>1. LiveOf(a) = {p} /\ (a \in loaded => p \in kept)
      BY <1>1, <1>3, <1>5
    <2>2. home[p] = a
      BY <2>1 DEF LiveOf
    <2>3. a \notin loaded'
      BY <1>2, <2>1, <2>2
    <2>4. work'[o] = job /\ job # Idle
      <3>1. job \in Jobs /\ a \in Agents
        BY <1>2 DEF Jobs
      <3> HIDE DEF job
      <3>2. work'[o] = job
        BY <1>0, <1>1 DEF TypeOK, Begin, job
      <3>3. QED BY <3>1, <3>2, LifecycleAssumption DEF Jobs
    <2>5. LiveOf(a)' = {p}
      BY <1>2, <2>1 DEF LiveOf, Alive
    <2>6. work'[o].kind = "stop" /\ work'[o].agent = a /\ work'[o].pid = p /\ work'[o] # Idle
      BY <2>4
    <2>7. QED BY <2>3, <2>5, <2>6 DEF StillDown, LiveOf, Alive
  <1>6. QED BY <1>1, <1>4, <1>5

\* A verification that ends takes its own history with it.
LEMMA EndDown ==
  ASSUME DownInv, NEW o \in Ops, StartSeen(o) \/ StartGivesUp(o) \/ StopSeen(o) \/ StopGivesUp(o)
  PROVE  \A q \in alone' : StillDown(q)'
  <1>1. /\ UNCHANGED <<phase, home, loaded>>
        /\ alone' \subseteq alone /\ o \notin alone' /\ End(o)
    <2>1. CASE StartSeen(o) \/ StartGivesUp(o)
      <3>1. work[o].kind = "start" /\ UNCHANGED <<phase, home, loaded, alone>> /\ End(o)
        BY <2>1 DEF StartSeen, StartGivesUp, procVars
      <3>2. o \notin alone
        BY <3>1 DEF DownInv, StillDown
      <3>3. QED BY <3>1, <3>2
    <2>2. CASE StopSeen(o) \/ StopGivesUp(o)
      BY <2>2 DEF StopSeen, StopGivesUp, procVars
    <2>3. QED BY <2>1, <2>2
  <1>2. ASSUME NEW q \in alone'
        PROVE  work'[q] = work[q] /\ (work[q].agent \in forced => work[q].agent \in forced')
    <2>1. q \in Ops /\ q # o /\ work[q] # Idle
      BY <1>1 DEF DownInv, LockInv, TypeOK, StillDown
    <2>2. work'[q] = work[q]
      BY <1>1, <2>1 DEF End, DownInv, LockInv, TypeOK
    <2>3. QED BY <1>1, <2>1, <2>2, EndForced DEF DownInv
  <1>3. QED BY <1>1, <1>2, DownKept DEF Alive

\* What processes do of themselves: launchd respawns no agent it has unloaded.
LEMMA HostDown ==
  ASSUME DownInv, NEW p \in Pids,
         Boot(p) \/ Exit(p) \/ (\E a \in Agents : KeepAlive(a, p))
  PROVE  \A q \in alone' : StillDown(q)'
  <1>0. TypeOK
    BY DEF DownInv, LockInv
  <1>1. UNCHANGED <<loaded, work, forced, alone>>
    BY DEF Boot, Exit, KeepAlive, workVars, histVars
  <1>2. CASE Boot(p) \/ Exit(p)
    <2>1. \A r \in Pids : Alive(r)' => Alive(r) /\ home[r] = home'[r]
      BY <1>0, <1>2 DEF Boot, Exit, Alive, TypeOK
    <2>2. QED BY <1>1, <2>1, DownKept
  <1>3. ASSUME NEW a \in Agents, KeepAlive(a, p) PROVE \A q \in alone' : StillDown(q)'
    <2>1. a \in loaded /\ Spawn(p, a)
      BY <1>3 DEF KeepAlive
    <2>2. ASSUME NEW q \in alone, work[q].agent \notin forced
          PROVE  work[q].agent \in Agents /\ work[q].agent # a
      BY <1>0, <2>1, <2>2 DEF DownInv, StillDown, TypeOK, Jobs
    <2>3. ASSUME NEW q \in alone, work[q].agent \notin forced,
                 NEW r \in Pids, Alive(r)', home'[r] = work[q].agent
          PROVE  Alive(r) /\ home[r] = home'[r]
      BY <1>0, <2>1, <2>2, <2>3, SpawnAlive
    <2>4. QED BY <1>1, <2>3, DownKept
  <1>4. QED BY <1>2, <1>3

\* A force-stop ends processes and unloads jobs.
LEMMA ForceStopDown ==
  ASSUME DownInv, NEW a \in Agents, ForceStop(a)
  PROVE  \A q \in alone' : StillDown(q)'
  <1>0. TypeOK
    BY DEF DownInv, LockInv
  <1>1. UNCHANGED <<work, alone>> /\ forced \subseteq forced'
    BY DEF ForceStop, workVars
  <1>2. loaded' \subseteq loaded /\ \A r \in Pids : Alive(r)' => Alive(r) /\ home[r] = home'[r]
    <2>1. CASE UNCHANGED procVars
      BY <2>1 DEF procVars, Alive
    <2>2. ASSUME NEW p \in FindAgentPid(a), StopAgent(p, "SIGKILL")
          PROVE  loaded' \subseteq loaded /\ \A r \in Pids : Alive(r)' => Alive(r) /\ home[r] = home'[r]
      BY <1>0, <2>2 DEF StopAgent, Alive, TypeOK
    <2>3. QED BY <2>1, <2>2 DEF ForceStop
  <1>3. QED BY <1>1, <1>2, DownKept

\* Every step keeps it.
LEMMA DownStep == DownInv /\ [Next]_vars => DownInv'
  <1> SUFFICES ASSUME DownInv, [Next]_vars PROVE DownInv'
    OBVIOUS
  <1>0. LockInv'
    BY LockStep DEF DownInv
  <1>1. \A q \in alone' : StillDown(q)'
    <2>1. CASE \E a \in Agents, o \in Ops : Start(a, o) \/ Stop(a, o)
      BY <2>1, StartDown, StopDown
    <2>2. CASE \E a \in Agents : ForceStop(a)
      BY <2>2, ForceStopDown
    <2>3. ASSUME NEW a \in Agents, CleanExpiredLock(a) PROVE \A q \in alone' : StillDown(q)'
      BY <2>3, DownKept DEF CleanExpiredLock, procVars, workVars, histVars, Alive
    <2>4. CASE \E o \in Ops : StartSeen(o) \/ StartGivesUp(o) \/ StopSeen(o) \/ StopGivesUp(o)
      BY <2>4, EndDown
    <2>5. CASE \E p \in Pids : Boot(p) \/ Exit(p) \/ (\E a \in Agents : KeepAlive(a, p))
      BY <2>5, HostDown
    <2>6. CASE Restart
      BY <2>6 DEF Restart
    <2>7. CASE UNCHANGED vars
      BY <2>7, DownKept DEF vars, procVars, workVars, histVars, Alive
    <2>8. CASE Tick
      BY <2>8, DownKept DEF Tick, procVars, histVars, Alive
    <2>9. QED BY <2>1, <2>2, <2>3, <2>4, <2>5, <2>6, <2>7, <2>8 DEF Next
  <1>2. QED BY <1>0, <1>1 DEF DownInv

\* When a stop reports success and the process it signalled was all there was
\* of the agent, nothing of the agent runs: neither a start nor launchd has
\* brought it back.
THEOREM StopsEndAgents == Spec => StopMeansDown
  <1>1. Init => DownInv
    BY InitLock DEF Init, DownInv
  <1>2. DownInv /\ [Next]_vars => DownInv'
    BY DownStep
  <1>3. DownInv => \A o \in Ops : StopSeen(o) /\ o \in alone /\ work[o].agent \notin forced
                                   => LiveOf(work[o].agent) = {}
    <2> SUFFICES ASSUME DownInv, NEW o \in alone, StopSeen(o), work[o].agent \notin forced
                 PROVE  LiveOf(work[o].agent) = {}
      OBVIOUS
    <2>1. LiveOf(work[o].agent) \subseteq {work[o].pid} /\ ~Alive(work[o].pid)
      BY DEF DownInv, StillDown, StopSeen
    <2>2. QED BY <2>1 DEF LiveOf
  <1>4. QED BY <1>1, <1>2, <1>3, PTL DEF Spec, StopMeansDown
=============================================================================
