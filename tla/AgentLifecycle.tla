--------------------------- MODULE AgentLifecycle ---------------------------
(***************************************************************************)
(* Starting and stopping the nanobot gateways of the agents: the lifecycle *)
(* locks of the health monitor, the start, stop and force-stop handlers,   *)
(* the background verification a start or a stop leaves behind, and the    *)
(* gateway processes of the host, with launchd.                            *)
(*                                                                         *)
(* A handler runs from its lock check to its answer without an await, so   *)
(* it is one action; its verification loop polls the process once a second *)
(* and anything may happen between two polls.  A handler that refuses or   *)
(* fails gives back the lock it took and changes nothing.                  *)
(*                                                                         *)
(* Time passes in ticks, since a lock expires of itself.  That it outlives *)
(* the verification it was taken for is an assumption about the host: see  *)
(* LifecycleAssumption.                                                    *)
(***************************************************************************)
EXTENDS Naturals

CONSTANTS
  Agents,     \* discovered agents
  Bare,       \* agents whose gateway neither listens on its port nor names it
              \* in its command line
  Supervised, \* agents launchd keeps alive
  Startable,  \* bound: the agents operators start from the dashboard
  Ops,        \* verifications that may be under way at once
  Pids,       \* bound: processes the host ever starts; none is reused
  NoPid,      \* spawn returned no pid
  Idle,       \* an unused verification slot
  NoOp,       \* the lock has outlived its verification, or is free
  MayForce,   \* do operators use force-stop?
  MayCrash,   \* may the dashboard restart?
  SlowBoot,   \* does a gateway take time to become visible after the spawn?
  StartWait,  \* from taking a start's lock to the end of its verification
  StopWait,   \* from taking a stop's lock to the end of its verification
  LockTimeout \* LOCK_TIMEOUT_MS

\* A lock lasts 30 seconds.  A verification polls for 15 seconds after a start
\* and for 10 after a stop, up to a second more for the last poll; a stop's comes
\* after the commands that find and signal the process, which together may take
\* 25 seconds before they time out.  Assumed is that they answer in less than 19,
\* and that nothing else holds up the server for so long.
ASSUME LifecycleAssumption ==
  /\ StartWait \in Nat /\ StopWait \in Nat /\ LockTimeout \in Nat
  /\ StartWait < LockTimeout /\ StopWait < LockTimeout
  /\ Bare \subseteq Agents /\ Supervised \subseteq Agents /\ Startable \subseteq Agents
  /\ NoPid \notin Pids /\ NoOp \notin Ops
  /\ Idle \notin [kind : {"start", "stop"}, agent : Agents, pid : Pids \cup {NoPid}]
  /\ MayForce \in BOOLEAN /\ MayCrash \in BOOLEAN /\ SlowBoot \in BOOLEAN

VARIABLES
  phase,   \* life of a process
  home,    \* home[p]: the agent process p is the gateway of
  kept,    \* processes launchd runs
  loaded,  \* agents whose launchd job is loaded: KeepAlive respawns them
  lock,    \* lifecycleLocks: the action that locks an agent
  holder,  \* history: the verification that will release the lock
  age,     \* how long the agent's lock has been there, up to LockTimeout
  work,    \* the verifications under way
  waited,  \* how long each has been under way, from the taking of its lock
  forced,  \* history: agents a force-stop has unlocked under a verification,
           \* until no verification of theirs is under way
  alone    \* history: the stops whose process was all there was of the agent

procVars == <<phase, home, kept, loaded>>
lockVars == <<lock, holder, age>>
workVars == <<work, waited>>
histVars == <<forced, alone>>
vars     == <<procVars, lockVars, workVars, histVars>>

WaitOf(kind) == IF kind = "start" THEN StartWait ELSE StopWait

Jobs == [kind : {"start", "stop"}, agent : Agents, pid : Pids \cup {NoPid}]

TypeOK ==
  /\ phase \in [Pids -> {"unused", "booting", "up", "gone"}]
  /\ home \in [Pids -> Agents]
  /\ kept \subseteq Pids
  /\ loaded \subseteq Supervised
  /\ lock \in [Agents -> {"free", "start", "stop"}]
  /\ holder \in [Agents -> Ops \cup {NoOp}]
  /\ age \in [Agents -> 0..LockTimeout]
  /\ work \in [Ops -> Jobs \cup {Idle}]
  /\ waited \in [Ops -> Nat]
  /\ forced \subseteq Agents /\ alone \subseteq Ops

Init ==
  /\ phase = [p \in Pids |-> "unused"]
  /\ \E a \in Agents : home = [p \in Pids |-> a]
  /\ kept = {}
  /\ loaded = Supervised
  /\ lock = [a \in Agents |-> "free"]
  /\ holder = [a \in Agents |-> NoOp]
  /\ age = [a \in Agents |-> 0]
  /\ work = [o \in Ops |-> Idle]
  /\ waited = [o \in Ops |-> 0]
  /\ forced = {} /\ alone = {}

Alive(p) == phase[p] \in {"booting", "up"}
LiveOf(a) == {p \in Pids : Alive(p) /\ home[p] = a}

\* Whatever findAgentPid may answer: the gateway on the agent's port or with
\* the port in its command line, otherwise any gateway without a port.
FindAgentPid(a) ==
  LET own == {p \in Pids : phase[p] = "up" /\ home[p] = a /\ a \notin Bare}
  IN IF own # {} THEN own ELSE {p \in Pids : phase[p] = "up" /\ home[p] \in Bare}

Spawn(p, a) ==
  /\ phase[p] = "unused"
  /\ phase' = [phase EXCEPT ![p] = IF SlowBoot THEN "booting" ELSE "up"]
  /\ home' = [home EXCEPT ![p] = a]

\* acquireLock, on a lock that was free or had expired.
AcquireLock(a, action, o) ==
  /\ lock[a] = "free"
  /\ lock' = [lock EXCEPT ![a] = action]
  /\ holder' = [holder EXCEPT ![a] = o]
  /\ age' = [age EXCEPT ![a] = 0]

\* releaseLock deletes the agent's lock, whoever holds it.
ReleaseLock(a) ==
  /\ lock' = [lock EXCEPT ![a] = "free"]
  /\ holder' = [holder EXCEPT ![a] = NoOp]
  /\ age' = [age EXCEPT ![a] = 0]

\* The verification of the lock begins with it, and ends.
Begin(o, job) == work' = [work EXCEPT ![o] = job] /\ waited' = [waited EXCEPT ![o] = 0]
End(o) ==
  /\ work' = [work EXCEPT ![o] = Idle]
  /\ waited' = [waited EXCEPT ![o] = 0]
  /\ forced' = {a \in forced : \E q \in Ops \ {o} : work[q] # Idle /\ work[q].agent = a}

\* POST /api/agents/[id]/start.
Start(a, o) ==
  /\ a \in Startable
  /\ work[o] = Idle
  /\ AcquireLock(a, "start", o)
  /\ FindAgentPid(a) = {}
  /\ \/ \E p \in Pids :
          /\ Spawn(p, a)
          /\ Begin(o, [kind |-> "start", agent |-> a, pid |-> p])
     \/ /\ Begin(o, [kind |-> "start", agent |-> a, pid |-> NoPid])
        /\ UNCHANGED <<phase, home>>
  /\ UNCHANGED <<kept, loaded, histVars>>

\* The verification of a start sees its process: success.
StartSeen(o) ==
  /\ work[o] # Idle
  /\ work[o].kind = "start"
  /\ work[o].pid # NoPid
  /\ Alive(work[o].pid)
  /\ ReleaseLock(work[o].agent)
  /\ End(o)
  /\ UNCHANGED <<procVars, alone>>

\* No poll has seen it.
StartGivesUp(o) ==
  /\ work[o] # Idle
  /\ work[o].kind = "start"
  /\ waited[o] = StartWait
  /\ work[o].pid # NoPid => ~Alive(work[o].pid)
  /\ ReleaseLock(work[o].agent)
  /\ End(o)
  /\ UNCHANGED <<procVars, alone>>

\* Mutant: the signal alone, which leaves the job loaded.
SignalOnly(p, signal) ==
  /\ phase' = IF signal = "SIGKILL" THEN [phase EXCEPT ![p] = "gone"] ELSE phase
  /\ UNCHANGED <<home, kept, loaded>>

\* stopAgent: launchctl unload when launchd runs the process, which also ends
\* the respawning; otherwise the signal goes to the process group.  SIGKILL
\* takes effect at once; what is asked to end otherwise may take its time.
StopAgent(p, signal) ==
  /\ phase' = IF p \notin kept /\ signal = "SIGKILL" THEN [phase EXCEPT ![p] = "gone"] ELSE phase
  /\ loaded' = IF p \in kept THEN loaded \ {home[p]} ELSE loaded
  /\ UNCHANGED <<home, kept>>

\* Mutant: a stop goes ahead beside whatever locks the agent.
StopUnlocked(a, o) ==
  /\ work[o] = Idle
  /\ lock' = [lock EXCEPT ![a] = "stop"]
  /\ holder' = [holder EXCEPT ![a] = o]
  /\ age' = [age EXCEPT ![a] = 0]
  /\ \E p \in FindAgentPid(a) :
       /\ StopAgent(p, "SIGTERM")
       /\ Begin(o, [kind |-> "stop", agent |-> a, pid |-> p])
       /\ alone' = IF LiveOf(a) = {p} /\ (a \in loaded => p \in kept)
                   THEN alone \cup {o} ELSE alone
  /\ UNCHANGED forced

\* POST /api/agents/[id]/stop.
Stop(a, o) ==
  /\ work[o] = Idle
  /\ AcquireLock(a, "stop", o)
  /\ \E p \in FindAgentPid(a) :
       /\ StopAgent(p, "SIGTERM")
       /\ Begin(o, [kind |-> "stop", agent |-> a, pid |-> p])
       /\ alone' = IF LiveOf(a) = {p} /\ (a \in loaded => p \in kept)
                   THEN alone \cup {o} ELSE alone
  /\ UNCHANGED forced

\* The verification of a stop finds the process gone: success.
StopSeen(o) ==
  /\ work[o] # Idle
  /\ work[o].kind = "stop"
  /\ ~Alive(work[o].pid)
  /\ ReleaseLock(work[o].agent)
  /\ End(o)
  /\ alone' = alone \ {o}
  /\ UNCHANGED procVars

\* The last poll still saw the process, which may have ended since: the lock stays,
\* so that force-stop can use it.
StopGivesUp(o) ==
  /\ work[o] # Idle
  /\ work[o].kind = "stop"
  /\ waited[o] = StopWait
  /\ holder' = [a \in Agents |-> IF holder[a] = o THEN NoOp ELSE holder[a]]
  /\ End(o)
  /\ alone' = alone \ {o}
  /\ UNCHANGED <<procVars, lock, age>>

\* Mutant: the lock is not given back.
ForceStopKeepsLock(a) ==
  /\ MayForce
  /\ lock[a] \in {"free", "stop"}
  /\ IF FindAgentPid(a) = {} THEN UNCHANGED procVars
     ELSE \E p \in FindAgentPid(a) : StopAgent(p, "SIGKILL")
  /\ lock' = [lock EXCEPT ![a] = "force_stop"]
  /\ UNCHANGED <<holder, age, workVars, histVars>>

\* POST /api/agents/[id]/force-stop: takes over a stop's lock or takes its own,
\* and releases it before it answers, process or not.
ForceStop(a) ==
  /\ MayForce
  /\ lock[a] \in {"free", "stop"}
  /\ IF FindAgentPid(a) = {} THEN UNCHANGED procVars
     ELSE \E p \in FindAgentPid(a) : StopAgent(p, "SIGKILL")
  /\ ReleaseLock(a)
  /\ forced' = IF holder[a] = NoOp THEN forced ELSE forced \cup {a}
  /\ UNCHANGED <<workVars, alone>>

\* Mutant: LOCK_TIMEOUT_MS is no longer than the time a verification takes.
ExpireEarly(a) ==
  /\ lock[a] # "free" /\ age[a] >= StopWait
  /\ ReleaseLock(a)
  /\ UNCHANGED <<procVars, workVars, histVars>>

\* Mutant: only the locks of starts are cleaned up.
ExpireStarts(a) ==
  /\ lock[a] = "start" /\ age[a] = LockTimeout
  /\ ReleaseLock(a)
  /\ UNCHANGED <<procVars, workVars, histVars>>

\* A lock that has expired goes as soon as somebody asks for one.
CleanExpiredLock(a) ==
  /\ lock[a] # "free" /\ age[a] = LockTimeout
  /\ ReleaseLock(a)
  /\ UNCHANGED <<procVars, workVars, histVars>>

\* Time passes, while no verification is overdue.
Tick ==
  /\ \A o \in Ops : work[o] # Idle => waited[o] < WaitOf(work[o].kind)
  /\ waited' = [o \in Ops |-> IF work[o] = Idle THEN waited[o] ELSE waited[o] + 1]
  /\ age' = [a \in Agents |-> IF lock[a] = "free" \/ age[a] = LockTimeout THEN age[a] ELSE age[a] + 1]
  /\ waited' # waited \/ age' # age
  /\ UNCHANGED <<procVars, lock, holder, work, histVars>>

\* The dashboard restarts: locks and verifications lived in its memory, the
\* gateways are detached.
Restart ==
  /\ MayCrash
  /\ lock' = [a \in Agents |-> "free"]
  /\ holder' = [a \in Agents |-> NoOp]
  /\ age' = [a \in Agents |-> 0]
  /\ work' = [o \in Ops |-> Idle]
  /\ waited' = [o \in Ops |-> 0]
  /\ forced' = {} /\ alone' = {}
  /\ UNCHANGED procVars

\* The host: the launch script brings its gateway up, a process ends (by
\* itself or because it was told to), launchd restarts what it keeps alive.
Boot(p) ==
  /\ phase[p] = "booting"
  /\ phase' = [phase EXCEPT ![p] = "up"]
  /\ UNCHANGED <<home, kept, loaded, lockVars, workVars, histVars>>

Exit(p) ==
  /\ Alive(p)
  /\ phase' = [phase EXCEPT ![p] = "gone"]
  /\ UNCHANGED <<home, kept, loaded, lockVars, workVars, histVars>>

KeepAlive(a, p) ==
  /\ a \in loaded
  /\ ~ \E q \in kept : Alive(q) /\ home[q] = a
  /\ Spawn(p, a)
  /\ kept' = kept \cup {p}
  /\ UNCHANGED <<loaded, lockVars, workVars, histVars>>

Next ==
  \/ \E a \in Agents, o \in Ops : Start(a, o) \/ Stop(a, o)
  \/ \E a \in Agents : ForceStop(a) \/ CleanExpiredLock(a)
  \/ \E o \in Ops : StartSeen(o) \/ StartGivesUp(o) \/ StopSeen(o) \/ StopGivesUp(o)
  \/ \E p \in Pids : Boot(p) \/ Exit(p) \/ (\E a \in Agents : KeepAlive(a, p))
  \/ Tick \/ Restart

Spec == Init /\ [][Next]_vars

\* A verification polls once a second and gives up in time; acquireLock and
\* getLock clean expired locks whenever anybody asks for the agent.
Fairness ==
  /\ WF_vars(Tick)
  /\ \A o \in Ops : WF_vars(StartSeen(o) \/ StartGivesUp(o) \/ StopSeen(o) \/ StopGivesUp(o))
  /\ \A a \in Agents : WF_vars(CleanExpiredLock(a))

FairSpec == Spec /\ Fairness

-----------------------------------------------------------------------------
(* Properties *)

\* A verification under way holds its agent's lock, and nobody else does -
\* "Prevents concurrent operations on the same agent" - until a force-stop
\* takes the lock away under it.
VerificationHoldsLock ==
  \A o \in Ops : work[o] # Idle /\ work[o].agent \notin forced =>
    /\ holder[work[o].agent] = o
    /\ lock[work[o].agent] = work[o].kind

\* Hence no two operations on an agent are under way at once.
OneOperationPerAgent ==
  \A o1, o2 \in Ops :
    /\ work[o1] # Idle /\ work[o2] # Idle
    /\ work[o1].agent = work[o2].agent /\ work[o1].agent \notin forced
    => o1 = o2

\* The inductive invariant: the lock is as old as the verification it is for.
LockIsYoung ==
  \A o \in Ops : work[o] # Idle =>
    /\ waited[o] <= WaitOf(work[o].kind)
    /\ work[o].agent \notin forced => age[work[o].agent] = waited[o]
LockInv == TypeOK /\ VerificationHoldsLock /\ LockIsYoung

\* When the process a stop signalled was all there was of the agent, and the
\* stop reports success, nothing of the agent is left running: launchd has not
\* brought it back, and no start slipped in.
StopMeansDown ==
  [][\A o \in Ops :
       StopSeen(o) /\ o \in alone /\ work[o].agent \notin forced
         => LiveOf(work[o].agent) = {}]_vars

\* While the verification of such a stop is under way, what it signalled is
\* still all there is, and launchd is not going to add to it.
StillDown(o) ==
  /\ work[o] # Idle /\ work[o].kind = "stop"
  /\ work[o].agent \notin forced =>
       LiveOf(work[o].agent) \subseteq {work[o].pid} /\ work[o].agent \notin loaded

\* The inductive invariant behind it.
DownInv == LockInv /\ \A o \in alone : StillDown(o)

\* No agent stays locked for good, whatever becomes of its process, its
\* verification or the dashboard.
LocksAreReleased == \A a \in Agents : lock[a] # "free" ~> lock[a] = "free"
=============================================================================
