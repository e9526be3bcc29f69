------------------------------ MODULE Webhooks ------------------------------
(***************************************************************************)
(* Webhooks: events are posted to the enabled hooks, failures are retried  *)
(* from the rows of webhook_deliveries, and a hook whose retries are       *)
(* exhausted is disabled.  A delivery awaits the receiver, for ten seconds *)
(* at most; everything else may happen meanwhile.                          *)
(*                                                                         *)
(* Back-off is abstracted: a retry that is scheduled may be due at any     *)
(* time.                                                                   *)
(***************************************************************************)
EXTENDS Naturals, Sequences, FiniteSets

CONSTANTS
  Hooks,      \* ids of webhooks
  Events,     \* events, each of which happens once
  MaxRetries, \* MC_WEBHOOK_MAX_RETRIES
  KeepRows,   \* deliveries that are kept of a hook
  RetryRuns,  \* runs of processWebhookRetries that may overlap
  MaxManual,  \* bound: deliveries an operator asks for
  MaxRestarts \* bound

ASSUME WebhookAssumption ==
  /\ MaxRetries \in Nat \ {0} /\ KeepRows \in Nat \ {0}
  /\ MaxManual \in Nat /\ MaxRestarts \in Nat

VARIABLES
  hooks,     \* rows of webhooks
  on,        \* those that are enabled
  failures,  \* failures[h]: consecutive_failures
  rows,      \* rows[h]: the deliveries of h, in order; due: next_retry_at is set
  flying,    \* deliveries that await their receiver
  batch,     \* batch[r]: what retry run r has still to deliver, the first one now
  asked,     \* bound: deliveries an operator asked for
  restarts,  \* bound
  fired,     \* history: events that were fired at a hook
  tries,     \* history: tries[h][e]: automatic deliveries so far
  received,  \* history: deliveries the receiver took, <<hook, event>>
  lost       \* history: deliveries a restart or the pruning has cut off

hookVars    == <<hooks, on, failures>>
boundVars   == <<asked, restarts>>
webhookVars == <<hookVars, rows, flying, batch, boundVars, fired, tries, received, lost>>

Attempts  == 0..MaxRetries
Pairs     == Hooks \X Events
Rows      == [event : Events, attempt : Attempts, due : BOOLEAN]
Flights   == [hook : Hooks, event : Events, attempt : Attempts, auto : BOOLEAN]
Retries   == [hook : Hooks, event : Events, attempt : Attempts]

WebhooksTypeOK ==
  /\ on \subseteq hooks /\ hooks \subseteq Hooks
  /\ failures \in [Hooks -> Nat]
  /\ rows \in [Hooks -> Seq(Rows)]
  /\ flying \subseteq Flights
  /\ batch \in [RetryRuns -> Seq(Retries)]
  /\ asked \in 0..MaxManual /\ restarts \in 0..MaxRestarts
  /\ fired \subseteq Events
  /\ tries \in [Pairs -> Nat]
  /\ received \subseteq Pairs /\ lost \subseteq Pairs

WebhooksInit ==
  /\ hooks = Hooks /\ on = Hooks
  /\ failures = [h \in Hooks |-> 0]
  /\ rows = [h \in Hooks |-> << >>]
  /\ flying = {}
  /\ batch = [r \in RetryRuns |-> << >>]
  /\ asked = 0 /\ restarts = 0
  /\ fired = {}
  /\ tries = [p \in Pairs |-> 0]
  /\ received = {} /\ lost = {}

-----------------------------------------------------------------------------
(* The end of a delivery *)

\* The last KeepRows of a sequence of rows.
Newest(s) == IF Len(s) > KeepRows THEN SubSeq(s, Len(s) - KeepRows + 1, Len(s)) ELSE s
Pruned(s) == {i \in 1..Len(s) : i <= Len(s) - KeepRows}

\* What deliverWebhook writes when the receiver has answered or not.  Without
\* the hook the row cannot be inserted, and nothing is written.
Record(h, e, attempt, auto, ok) ==
  LET again == auto /\ ~ok /\ attempt < MaxRetries - 1
      all   == Append(rows[h], [event |-> e, attempt |-> attempt, due |-> again])
  IN IF h \notin hooks THEN UNCHANGED <<hookVars, rows>> /\ lost' = lost \cup {<<h, e>>}
     ELSE /\ rows' = [rows EXCEPT ![h] = Newest(all)]
          /\ lost' = lost \cup {<<h, all[i].event>> : i \in {j \in Pruned(all) : all[j].due}}
          /\ failures' = CASE ~auto -> failures
                           [] auto /\ ok -> [failures EXCEPT ![h] = 0]
                           [] auto /\ ~ok -> [failures EXCEPT ![h] = @ + 1]
          /\ on' = IF auto /\ ~ok /\ ~again /\ failures[h] + 1 >= MaxRetries THEN on \ {h} ELSE on
          /\ UNCHANGED hooks

Receive(h, e, ok) == received' = IF ok THEN received \cup {<<h, e>>} ELSE received

-----------------------------------------------------------------------------
(* Events, and deliveries asked for by an operator *)

\* fireWebhooksAsync: one delivery for each enabled hook.
Fire(e) ==
  /\ e \notin fired
  /\ fired' = fired \cup {e}
  /\ flying' = flying \cup {[hook |-> h, event |-> e, attempt |-> 0, auto |-> TRUE] : h \in on}
  /\ tries' = [p \in Pairs |-> IF p[1] \in on /\ p[2] = e THEN 1 ELSE tries[p]]
  /\ UNCHANGED <<hookVars, rows, batch, boundVars, received, lost>>

\* The retry an operator asks for takes the next number but schedules nothing;
\* a test is the same with another payload.
RetryByHand(h, i) ==
  /\ h \in hooks /\ i \in 1..Len(rows[h]) /\ asked < MaxManual
  /\ rows[h][i].attempt < MaxRetries
  /\ asked' = asked + 1
  /\ flying' = flying \cup {[hook |-> h, event |-> rows[h][i].event,
                             attempt |-> rows[h][i].attempt + 1, auto |-> FALSE]}
  /\ UNCHANGED <<hookVars, rows, batch, restarts, fired, tries, received, lost>>

Answer(f, ok) ==
  /\ f \in flying
  /\ flying' = flying \ {f}
  /\ Record(f.hook, f.event, f.attempt, f.auto, ok)
  /\ Receive(f.hook, f.event, ok)
  /\ UNCHANGED <<batch, boundVars, fired, tries>>

-----------------------------------------------------------------------------
(* processWebhookRetries *)

DueOf(h) == {i \in 1..Len(rows[h]) : rows[h][i].due}

\* The retries due, of one hook after the other.
TriesBegin(r) == tries' = [tries EXCEPT ![<<batch'[r][1].hook, batch'[r][1].event>>] = @ + 1]

RetryOf(h, i) == [hook |-> h, event |-> rows[h][i].event, attempt |-> rows[h][i].attempt + 1]

\* Mutant: next_retry_at is cleared when the retry is over.
RetriesBeginUncleared(r, h, i, g, j) ==
  /\ batch[r] = << >>
  /\ h \in on /\ i \in DueOf(h) /\ g \in on /\ j \in DueOf(g)
  /\ batch' = [batch EXCEPT ![r] =
       IF <<h, i>> = <<g, j>> THEN <<RetryOf(h, i)>> ELSE <<RetryOf(h, i), RetryOf(g, j)>>]
  /\ TriesBegin(r)
  /\ UNCHANGED <<hookVars, rows, flying, boundVars, fired, received, lost>>

\* Up to the first await: the retries that are due are read and all of them
\* cleared.  Bound: at most two in a batch.
RetriesBegin(r, h, i, g, j) ==
  /\ batch[r] = << >>
  /\ h \in on /\ i \in DueOf(h) /\ g \in on /\ j \in DueOf(g)
  /\ batch' = [batch EXCEPT ![r] =
       IF <<h, i>> = <<g, j>> THEN <<RetryOf(h, i)>> ELSE <<RetryOf(h, i), RetryOf(g, j)>>]
  /\ rows' = [k \in Hooks |-> [l \in DOMAIN rows[k] |->
       IF <<k, l>> \in {<<h, i>>, <<g, j>>} THEN [rows[k][l] EXCEPT !.due = FALSE] ELSE rows[k][l]]]
  /\ TriesBegin(r)
  /\ UNCHANGED <<hookVars, flying, boundVars, fired, received, lost>>

\* Mutant: a failure ends the batch.
RetryEndsBatch(r, ok) ==
  /\ batch[r] # << >>
  /\ LET d == Head(batch[r])
     IN Record(d.hook, d.event, d.attempt, TRUE, ok) /\ Receive(d.hook, d.event, ok)
  /\ batch' = [batch EXCEPT ![r] = IF ok THEN Tail(@) ELSE << >>]
  /\ IF batch'[r] # << >> THEN TriesBegin(r) ELSE UNCHANGED tries
  /\ UNCHANGED <<flying, boundVars, fired>>

\* One retry is over, and the next of the batch begins, on or off.
RetryEnds(r, ok) ==
  /\ batch[r] # << >>
  /\ LET d == Head(batch[r])
     IN Record(d.hook, d.event, d.attempt, TRUE, ok) /\ Receive(d.hook, d.event, ok)
  /\ batch' = [batch EXCEPT ![r] = Tail(@)]
  /\ IF batch'[r] # << >> THEN TriesBegin(r) ELSE UNCHANGED tries
  /\ UNCHANGED <<flying, boundVars, fired>>

-----------------------------------------------------------------------------
(* The operator's side, and restarts *)

Toggle(h) ==
  /\ h \in hooks
  /\ on' = IF h \in on THEN on \ {h} ELSE on \cup {h}
  /\ UNCHANGED <<hooks, failures, rows, flying, batch, boundVars, fired, tries, received, lost>>

ResetCircuit(h) ==
  /\ h \in hooks
  /\ on' = on \cup {h}
  /\ failures' = [failures EXCEPT ![h] = 0]
  /\ UNCHANGED <<hooks, rows, flying, batch, boundVars, fired, tries, received, lost>>

DeleteHook(h) ==
  /\ h \in hooks
  /\ hooks' = hooks \ {h} /\ on' = on \ {h}
  /\ rows' = [rows EXCEPT ![h] = << >>]
  /\ UNCHANGED <<failures, flying, batch, boundVars, fired, tries, received, lost>>

\* What was awaited, or waited in a batch, is gone; the rows stay.
ServerRestart ==
  /\ restarts < MaxRestarts
  /\ restarts' = restarts + 1
  /\ flying' = {} /\ batch' = [r \in RetryRuns |-> << >>]
  /\ lost' = lost \cup {<<f.hook, f.event>> : f \in flying}
       \cup UNION {{<<batch[r][i].hook, batch[r][i].event>> : i \in 1..Len(batch[r])} : r \in RetryRuns}
  /\ UNCHANGED <<hookVars, rows, asked, fired, tries, received>>

RetriesBeginAny(r) ==
  \E h, g \in on : \E i \in DueOf(h), j \in DueOf(g) : RetriesBegin(r, h, i, g, j)

WebhooksNext ==
  \/ \E e \in Events : Fire(e)
  \/ \E h \in Hooks : Toggle(h) \/ ResetCircuit(h) \/ DeleteHook(h) \/ \E i \in 1..Len(rows[h]) : RetryByHand(h, i)
  \/ \E f \in flying, ok \in BOOLEAN : Answer(f, ok)
  \/ \E r \in RetryRuns : RetriesBeginAny(r) \/ \E ok \in BOOLEAN : RetryEnds(r, ok)
  \/ ServerRestart

WebhooksSpec == WebhooksInit /\ [][WebhooksNext]_webhookVars

-----------------------------------------------------------------------------
(* Properties *)

\* Runs that overlap, by hand and by schedule, never send a retry twice: an event
\* is posted to a hook at most MaxRetries times, but for what operators ask for.
TriesAreBounded == \A p \in Pairs : tries[p] <= MaxRetries

\* A delivery of p under way or to come: in a row, in the air or in a batch.
InRow(p, i)      == i \in DueOf(p[1]) /\ rows[p[1]][i].event = p[2]
InAir(p, a)      == [hook |-> p[1], event |-> p[2], attempt |-> a, auto |-> TRUE] \in flying
InBatch(p, r, i) == i \in 1..Len(batch[r]) /\ batch[r][i].hook = p[1] /\ batch[r][i].event = p[2]

HasRow(p)    == \E i \in DueOf(p[1]) : InRow(p, i)
HasFlight(p) == \E a \in Attempts : InAir(p, a)
HasRetry(p)  == \E r \in RetryRuns : \E i \in 1..Len(batch[r]) : InBatch(p, r, i)

Waiting(p) == HasRow(p) \/ HasFlight(p) \/ HasRetry(p)

\* No event is forgotten: what was fired at a hook has been received, or was
\* posted MaxRetries times, or is waiting to be posted again, unless the hook
\* was deleted, the server restarted in the middle of a delivery, or newer
\* deliveries have pushed its row out of the two hundred.
Remembered(p) ==
  p \notin received \cup lost /\ tries[p] > 0 /\ p[1] \in hooks => tries[p] = MaxRetries \/ Waiting(p)

EventsAreNotForgotten == \A p \in Pairs : Remembered(p)

\* Each place a delivery waits in knows how often p was posted; of a batch only
\* the first has begun.
Counted(p) ==
  /\ tries[p] \in 0..MaxRetries
  /\ p[2] \notin fired => tries[p] = 0
  /\ \A a \in Attempts : InAir(p, a) => tries[p] = a + 1
  /\ \A i \in DueOf(p[1]) : InRow(p, i) => tries[p] = rows[p[1]][i].attempt + 1 /\ tries[p] < MaxRetries
  /\ \A r \in RetryRuns : \A i \in 1..Len(batch[r]) : InBatch(p, r, i) =>
       /\ batch[r][i].attempt \in 1..(MaxRetries - 1)
       /\ tries[p] = batch[r][i].attempt + (IF i = 1 THEN 1 ELSE 0)

\* And p waits in one place only.
InOnePlace(p) ==
  /\ \A i, j \in DueOf(p[1]) : InRow(p, i) /\ InRow(p, j) => i = j
  /\ \A r, s \in RetryRuns : \A i \in 1..Len(batch[r]), j \in 1..Len(batch[s]) :
       InBatch(p, r, i) /\ InBatch(p, s, j) => r = s /\ i = j
  /\ ~(HasRow(p) /\ HasFlight(p)) /\ ~(HasRow(p) /\ HasRetry(p)) /\ ~(HasFlight(p) /\ HasRetry(p))

\* The inductive invariant.
PairOK(p)   == Counted(p) /\ InOnePlace(p) /\ Remembered(p)
WebhooksInv ==
  /\ WebhooksTypeOK /\ (\A r \in RetryRuns : Len(batch[r]) <= 2)
  /\ \A p \in Pairs : PairOK(p)
=============================================================================
