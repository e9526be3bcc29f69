---------------------------- MODULE RateLimiter ----------------------------
(***************************************************************************)
(* A rate limiter: for each client a counter and the end of its window.    *)
(* Both kinds, by address and by agent name, count in the same way.        *)
(***************************************************************************)
EXTENDS Naturals, FiniteSets

CONSTANTS
  Clients,   \* addresses or agent names
  Window,    \* windowMs
  Quota,     \* maxRequests
  MaxNow     \* bound on the clock

ASSUME LimiterAssumption ==
  /\ Window \in Nat /\ Quota \in Nat \ {0} /\ MaxNow \in Nat

VARIABLES
  now,
  entry,     \* entry[c]: the entry of c in the store, or NoEntry
  admitted,  \* history: admitted[c]: the requests let through, by time and number
  tick       \* history: requests at this instant, to tell them apart

limiterVars == <<now, entry, admitted, tick>>

NoEntry == [count |-> 0, resetAt |-> 0]

LimiterTypeOK ==
  /\ now \in Nat
  /\ entry \in [Clients -> [count : Nat, resetAt : Nat]]
  /\ admitted \in [Clients -> SUBSET (Nat \X Nat)]
  /\ tick \in Nat

LimiterInit ==
  /\ now = 1 /\ tick = 0
  /\ entry = [c \in Clients |-> NoEntry]
  /\ admitted = [c \in Clients |-> {}]

\* Mutant: a window ends at resetAt, not after it.
ExpiredAt(c) == now >= entry[c].resetAt

Expired(c) == now > entry[c].resetAt

Admit(c) == admitted' = [admitted EXCEPT ![c] = @ \cup {<<now, tick>>}]

\* checkRateLimit.  A refused request counts too.
CheckRateLimit(c) ==
  /\ tick <= 2 * Quota
  /\ tick' = tick + 1
  /\ IF entry[c] = NoEntry \/ Expired(c)
     THEN /\ entry' = [entry EXCEPT ![c] = [count |-> 1, resetAt |-> now + Window]]
          /\ Admit(c)
     ELSE /\ entry' = [entry EXCEPT ![c].count = @ + 1]
          /\ IF entry[c].count + 1 > Quota THEN UNCHANGED admitted ELSE Admit(c)
  /\ UNCHANGED now

\* The interval timer.
Cleanup ==
  /\ \E c \in Clients : entry[c] # NoEntry /\ Expired(c)
  /\ entry' = [c \in Clients |-> IF Expired(c) THEN NoEntry ELSE entry[c]]
  /\ UNCHANGED <<now, admitted, tick>>

TimePasses ==
  /\ now < MaxNow
  /\ now' = now + 1 /\ tick' = 0
  /\ UNCHANGED <<entry, admitted>>

LimiterNext == Cleanup \/ TimePasses \/ \E c \in Clients : CheckRateLimit(c)

LimiterSpec == LimiterInit /\ [][LimiterNext]_limiterVars

-----------------------------------------------------------------------------
(* Properties *)

\* However requests and clean-ups are spread over the windows: in no stretch of
\* a window's length are more than twice the quota, less one, let through.
Stretch(c, from) == {r \in admitted[c] : from <= r[1] /\ r[1] <= from + Window}
BurstsAreBounded ==
  \A c \in Clients : \A from \in 1..now : Cardinality(Stretch(c, from)) <= 2 * Quota - 1

\* What was let through since the window of c opened, in the stretch before it,
\* and in the stretch before now.
Opened(c)       == entry[c].resetAt - Window
OfWindow(c)     == {r \in admitted[c] : r[1] >= Opened(c)}
BeforeWindow(c) == {r \in admitted[c] : r[1] < Opened(c) /\ r[1] + Window >= Opened(c)}
Recent(c)       == {r \in admitted[c] : r[1] + Window >= now}

\* No window exceeds the quota, and the request that opened it is out of any
\* stretch that reaches into the next one.
QuotaKept(c) ==
  /\ IsFiniteSet(admitted[c])
  /\ IF entry[c] = NoEntry
     THEN Cardinality(Recent(c)) < Quota /\ \A r \in admitted[c] : r[1] < now
     ELSE /\ Opened(c) \in 0..now /\ entry[c].count > 0
          /\ \E r \in admitted[c] : r[1] = Opened(c)
          /\ \A r \in admitted[c] : r[1] <= now /\ r[1] <= entry[c].resetAt
          /\ Cardinality(OfWindow(c)) <= entry[c].count /\ Cardinality(OfWindow(c)) <= Quota
          /\ Cardinality(BeforeWindow(c)) < Quota

\* The inductive invariant.
LimiterInv == LimiterTypeOK /\ BurstsAreBounded /\ \A c \in Clients : QuotaKept(c)
=============================================================================
