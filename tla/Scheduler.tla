----------------------------- MODULE Scheduler -----------------------------
(***************************************************************************)
(* The scheduler: every minute an interval timer calls tick(), which goes  *)
(* through the tasks in order and awaits each one that is due.  A tick may *)
(* take longer than a minute; the next one starts all the same, with its   *)
(* own time.  Tasks may be switched off.  A manual trigger calls the       *)
(* function of a task without a look at this state, or a change to it.     *)
(***************************************************************************)
EXTENDS Naturals

CONSTANTS
  Jobs,      \* number of tasks, in the order of the map
  Seldom,    \* the tasks that are not due every minute
  SeldomInterval, \* their intervalMs, in minutes
  Switches,  \* the tasks that are switched on and off
  MaxTicks,  \* bound: ticks under way at a time
  MaxMinute  \* bound on the clock

ASSUME SchedulerAssumption ==
  /\ Jobs \in Nat \ {0} /\ Seldom \subseteq 1..Jobs /\ Switches \subseteq 1..Jobs
  /\ SeldomInterval \in Nat \ {0}
  /\ MaxTicks \in Nat /\ MaxMinute \in Nat

JobIds == 1..Jobs
Ticks  == 1..MaxTicks
Interval(j) == IF j \in Seldom THEN SeldomInterval ELSE 1

VARIABLES
  minute,   \* the time, in the interval of the timer
  nextRun,  \* nextRun[j] and running[j] of task j
  running,
  enabled,  \* the tasks whose setting is on
  tickOf,   \* tickOf[k]: a tick under way, its time and the task it awaits
  started   \* history: started[j]: the times with which ticks began task j

schedulerVars == <<minute, nextRun, running, enabled, tickOf, started>>

NoTick == [time |-> 0, awaits |-> 0]

SchedulerTypeOK ==
  /\ minute \in 0..MaxMinute
  /\ nextRun \in [JobIds -> Nat]
  /\ running \in [JobIds -> BOOLEAN]
  /\ enabled \subseteq JobIds
  /\ tickOf \in [Ticks -> [time : Nat, awaits : 0..Jobs]]
  /\ started \in [JobIds -> SUBSET Nat]

SchedulerInit ==
  /\ minute = 0
  /\ nextRun = [j \in JobIds |-> Interval(j)]
  /\ running = [j \in JobIds |-> FALSE]
  /\ enabled = JobIds
  /\ tickOf = [k \in Ticks |-> NoTick]
  /\ started = [j \in JobIds |-> {}]

\* Mutant: a task that is still running is taken again.
DueAgain(j, t, next, run) == t >= next[j] /\ j \in enabled

Due(j, t, next, run) == ~run[j] /\ t >= next[j] /\ j \in enabled

\* From task j on, with these times and marks: the first task that is due is
\* begun, or the tick ends.
Proceed(k, j, t, next, run) ==
  \/ /\ \A i \in j..Jobs : ~Due(i, t, next, run)
     /\ tickOf' = [tickOf EXCEPT ![k] = NoTick]
     /\ running' = run
     /\ UNCHANGED started
  \/ \E i \in j..Jobs :
       /\ Due(i, t, next, run) /\ \A h \in j..(i-1) : ~Due(h, t, next, run)
       /\ tickOf' = [tickOf EXCEPT ![k] = [time |-> t, awaits |-> i]]
       /\ running' = [run EXCEPT ![i] = TRUE]
       /\ started' = [started EXCEPT ![i] = @ \cup {t}]

\* The timer fires.
TickBegins(k) ==
  /\ tickOf[k] = NoTick /\ minute < MaxMinute
  /\ minute' = minute + 1
  /\ Proceed(k, 1, minute', nextRun, running)
  /\ UNCHANGED <<nextRun, enabled>>

\* Mutant: the next run is reckoned as if the tick had begun a minute earlier.
RunEndsEarly(k) ==
  LET t == tickOf[k].time  j == tickOf[k].awaits
      next == [nextRun EXCEPT ![j] = t + Interval(j) - 1]
  IN /\ j # 0
     /\ nextRun' = next
     /\ Proceed(k, j + 1, t, next, [running EXCEPT ![j] = FALSE])
     /\ UNCHANGED <<minute, enabled>>

\* The awaited task has finished, or thrown; the tick goes on with the tasks
\* after it, and with the time it began with.
RunEnds(k) ==
  LET t == tickOf[k].time  j == tickOf[k].awaits
      next == [nextRun EXCEPT ![j] = t + Interval(j)]
  IN /\ j # 0
     /\ nextRun' = next
     /\ Proceed(k, j + 1, t, next, [running EXCEPT ![j] = FALSE])
     /\ UNCHANGED <<minute, enabled>>

SettingChanges(j) ==
  /\ j \in Switches
  /\ enabled' = IF j \in enabled THEN enabled \ {j} ELSE enabled \cup {j}
  /\ UNCHANGED <<minute, nextRun, running, tickOf, started>>

SchedulerNext ==
  \/ \E k \in Ticks : TickBegins(k) \/ RunEnds(k)
  \/ \E j \in JobIds : SettingChanges(j)

SchedulerSpec == SchedulerInit /\ [][SchedulerNext]_schedulerVars

-----------------------------------------------------------------------------
(* Properties *)

\* Ticks that overtake each other, the later one running a task the earlier one
\* has not come to yet, never run one task at the same time.
OneTickPerTask ==
  \A k, l \in Ticks : k # l /\ tickOf[k].awaits # 0 => tickOf[k].awaits # tickOf[l].awaits

\* Nor do they run it more often than its interval says, by the times they go
\* by, although a slow tick goes by a time long past.
RunsAreSpaced ==
  \A j \in JobIds : \A s, t \in started[j] : s < t => t - s >= Interval(j)

\* The inductive invariant: the mark is set exactly while a tick awaits the
\* task, and nothing was begun later than the next run allows.
SchedulerInv ==
  /\ SchedulerTypeOK
  /\ OneTickPerTask
  /\ RunsAreSpaced
  /\ \A j \in JobIds : running[j] <=> \E k \in Ticks : tickOf[k].awaits = j
  /\ \A k \in Ticks : tickOf[k].awaits # 0 => tickOf[k].time \in started[tickOf[k].awaits]
  /\ \A j \in JobIds : ~running[j] => \A s \in started[j] : s + Interval(j) <= nextRun[j]
  /\ \A k \in Ticks : tickOf[k].awaits # 0 =>
       \A s \in started[tickOf[k].awaits] : s <= tickOf[k].time
=============================================================================
