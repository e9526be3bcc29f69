--------------------------- MODULE WebhooksProofs ---------------------------
(***************************************************************************)
(* Webhooks: an event is posted to a hook at most MaxRetries times, and it *)
(* is not forgotten before.  An automatic delivery waits in one place at a *)
(* time, the air, a row or a batch, and each place knows how often the     *)
(* event was posted.                                                       *)
(***************************************************************************)
EXTENDS Webhooks, SequenceTheorems, TLAPS

USE WebhookAssumption

-----------------------------------------------------------------------------
(* Operators *)

\* Pruning takes rows off the front and leaves the newest.
LEMMA NewestFacts ==
  ASSUME NEW S, NEW s \in Seq(S), Len(s) > 0
  PROVE  \E d \in 0..(Len(s) - 1) :
           /\ Newest(s) \in Seq(S) /\ Len(Newest(s)) = Len(s) - d
           /\ \A i \in 1..(Len(s) - d) : Newest(s)[i] = s[i + d]
           /\ Pruned(s) = 1..d
  <1>1. CASE Len(s) > KeepRows
    <2> DEFINE d == Len(s) - KeepRows
    <2>1. d \in 0..(Len(s) - 1) /\ Len(s) \in Nat
      BY <1>1
    <2>2. \A i \in (d + 1)..Len(s) : s[i] \in S
      BY <2>1, ElementOfSeq
    <2>3. /\ SubSeq(s, d + 1, Len(s)) \in Seq(S) /\ Len(SubSeq(s, d + 1, Len(s))) = Len(s) - d
          /\ \A i \in 1..(Len(s) - d) : SubSeq(s, d + 1, Len(s))[i] = s[i + d]
      <3>0. d + 1 \in Int /\ Len(s) \in Int
        BY <2>1
      <3>1. /\ SubSeq(s, d + 1, Len(s)) \in Seq(S)
            /\ Len(SubSeq(s, d + 1, Len(s))) = IF d + 1 <= Len(s) THEN Len(s) - (d + 1) + 1 ELSE 0
            /\ \A i \in 1..(Len(s) - (d + 1) + 1) : SubSeq(s, d + 1, Len(s))[i] = s[d + 1 + i - 1]
        BY <2>2, <3>0, SubSeqProperties
      <3>2. QED BY <2>1, <3>1
    <2>4. Newest(s) = SubSeq(s, d + 1, Len(s))
      BY <1>1 DEF Newest
    <2>5. Pruned(s) = 1..d
      BY <2>1 DEF Pruned
    <2>6. QED BY <2>1, <2>3, <2>4, <2>5
  <1>2. CASE Len(s) <= KeepRows
    <2>1. Newest(s) = s /\ Pruned(s) = {} /\ Len(s) \in Nat
      BY <1>2 DEF Newest, Pruned
    <2>2. 0 \in 0..(Len(s) - 1) /\ Len(s) - 0 = Len(s) /\ 1..0 = {}
      BY <2>1
    <2>3. \A i \in 1..(Len(s) - 0) : Newest(s)[i] = s[i + 0]
      BY <2>1
    <2>4. Newest(s) \in Seq(S) /\ Len(Newest(s)) = Len(s) - 0 /\ Pruned(s) = 1..0
      BY <2>1, <2>2
    <2>5. QED BY <2>2, <2>3, <2>4
  <1>3. QED BY <1>1, <1>2

\* The rows, the batches and the flights hold what their types say.
LEMMA WebhookTypes ==
  ASSUME WebhooksTypeOK
  PROVE  /\ \A h \in Hooks : /\ rows[h] \in Seq(Rows) /\ Len(rows[h]) \in Nat
                             /\ \A i \in 1..Len(rows[h]) : /\ rows[h][i] \in Rows
                                                           /\ rows[h][i].event \in Events
                                                           /\ rows[h][i].attempt \in Attempts
                                                           /\ rows[h][i].due \in BOOLEAN
         /\ \A r \in RetryRuns : /\ batch[r] \in Seq(Retries) /\ Len(batch[r]) \in Nat
                                 /\ \A i \in 1..Len(batch[r]) : /\ batch[r][i] \in Retries
                                                                /\ batch[r][i].hook \in Hooks
                                                                /\ batch[r][i].event \in Events
                                                                /\ batch[r][i].attempt \in Attempts
         /\ \A f \in flying : /\ f \in Flights /\ f.hook \in Hooks /\ f.event \in Events
                              /\ f.attempt \in Attempts /\ f.auto \in BOOLEAN
         /\ hooks \subseteq Hooks /\ on \subseteq Hooks
         /\ Attempts \subseteq Nat
  <1>1. ASSUME NEW h \in Hooks
        PROVE  /\ rows[h] \in Seq(Rows) /\ Len(rows[h]) \in Nat
               /\ \A i \in 1..Len(rows[h]) : rows[h][i] \in Rows
    BY ElementOfSeq, LenProperties DEF WebhooksTypeOK
  <1>2. ASSUME NEW r \in RetryRuns
        PROVE  /\ batch[r] \in Seq(Retries) /\ Len(batch[r]) \in Nat
               /\ \A i \in 1..Len(batch[r]) : batch[r][i] \in Retries
    BY ElementOfSeq, LenProperties DEF WebhooksTypeOK
  <1>3. hooks \subseteq Hooks /\ on \subseteq Hooks /\ flying \subseteq Flights /\ Attempts \subseteq Nat
    BY DEF WebhooksTypeOK, Attempts
  <1>4. QED BY <1>1, <1>2, <1>3 DEF Rows, Retries, Flights

\* d rows of h are taken off the front, and one of e is added at the end.
Shifted(h, e, attempt, again, d) ==
  /\ Len(rows'[h]) = Len(rows[h]) + 1 - d
  /\ \A i \in 1..(Len(rows[h]) - d) : rows'[h][i] = rows[h][i + d]
  /\ rows'[h][Len(rows'[h])].event = e /\ rows'[h][Len(rows'[h])].attempt = attempt
  /\ rows'[h][Len(rows'[h])].due <=> again
  /\ \A i \in 1..d : rows[h][i].due => <<h, rows[h][i].event>> \in lost'

Again(attempt, auto, ok) == auto /\ ~ok /\ attempt < MaxRetries - 1

\* A delivery that is over leaves a row at the end of its hook's rows; rows taken
\* off the front are lost when they were due.
LEMMA RecordEffect ==
  ASSUME WebhooksTypeOK, NEW h \in Hooks, NEW e \in Events, NEW attempt \in Attempts,
         NEW auto \in BOOLEAN, NEW ok \in BOOLEAN, Record(h, e, attempt, auto, ok)
  PROVE  /\ on' \subseteq hooks' /\ hooks' = hooks /\ failures' \in [Hooks -> Nat]
         /\ rows' \in [Hooks -> Seq(Rows)] /\ lost \subseteq lost' /\ lost' \subseteq Pairs
         /\ \A k \in Hooks \ {h} : rows'[k] = rows[k]
         /\ h \notin hooks => rows' = rows /\ <<h, e>> \in lost'
         /\ h \in hooks => \E d \in 0..Len(rows[h]) : Shifted(h, e, attempt, Again(attempt, auto, ok), d)
  <1>1. CASE h \notin hooks
    BY <1>1 DEF Record, WebhooksTypeOK, hookVars, Pairs
  <1>2. CASE h \in hooks
    <2> DEFINE again == auto /\ ~ok /\ attempt < MaxRetries - 1
               new   == [event |-> e, attempt |-> attempt, due |-> again]
               all   == Append(rows[h], new)
    <2>1. /\ rows' = [rows EXCEPT ![h] = Newest(all)]
          /\ lost' = lost \cup {<<h, all[i].event>> : i \in {j \in Pruned(all) : all[j].due}}
          /\ failures' = CASE ~auto -> failures
                           [] auto /\ ok -> [failures EXCEPT ![h] = 0]
                           [] auto /\ ~ok -> [failures EXCEPT ![h] = @ + 1]
          /\ on' = IF auto /\ ~ok /\ ~again /\ failures[h] + 1 >= MaxRetries THEN on \ {h} ELSE on
          /\ hooks' = hooks
      BY <1>2, Zenon DEF Record
    <2>2. new \in Rows /\ rows[h] \in Seq(Rows) /\ Len(rows[h]) \in Nat
      BY WebhookTypes DEF Rows
    <2> HIDE DEF new
    <2>3. /\ all \in Seq(Rows) /\ Len(all) = Len(rows[h]) + 1
          /\ \A i \in 1..Len(rows[h]) : all[i] = rows[h][i]
          /\ all[Len(rows[h]) + 1] = new
      BY <2>2, AppendProperties
    <2> HIDE DEF all
    <2>p. Len(all) > 0
      BY <2>2, <2>3
    <2>4. PICK d \in 0..(Len(all) - 1) :
            /\ Newest(all) \in Seq(Rows) /\ Len(Newest(all)) = Len(all) - d
            /\ \A i \in 1..(Len(all) - d) : Newest(all)[i] = all[i + d]
            /\ Pruned(all) = 1..d
      BY <2>3, <2>p, NewestFacts, Zenon
    <2>5. /\ rows' \in [Hooks -> Seq(Rows)] /\ rows'[h] = Newest(all)
          /\ \A k \in Hooks \ {h} : rows'[k] = rows[k]
      <3>1. rows \in [Hooks -> Seq(Rows)] /\ Newest(all) \in Seq(Rows)
        BY <2>4 DEF WebhooksTypeOK
      <3>2. QED BY <2>1, <3>1
    <2>6. d \in 0..Len(rows[h]) /\ d \in Nat
      BY <2>2, <2>3
    <2>7. Len(rows'[h]) = Len(rows[h]) + 1 - d
      BY <2>3, <2>4, <2>5
    <2>8. \A i \in 1..(Len(rows[h]) - d) : rows'[h][i] = rows[h][i + d]
      <3> TAKE i \in 1..(Len(rows[h]) - d)
      <3>1. i \in 1..(Len(all) - d) /\ i + d \in 1..Len(rows[h])
        BY <2>2, <2>3, <2>6
      <3>2. QED BY <2>3, <2>4, <2>5, <3>1
    <2>9. rows'[h][Len(rows'[h])] = new
      <3>1. Len(rows'[h]) \in 1..(Len(all) - d) /\ Len(rows'[h]) + d = Len(rows[h]) + 1
        BY <2>2, <2>3, <2>6, <2>7
      <3>2. rows'[h][Len(rows'[h])] = all[Len(rows'[h]) + d]
        BY <2>4, <2>5, <3>1
      <3>3. QED BY <2>3, <3>1, <3>2
    <2>10. \A i \in Pruned(all) : i \in 1..Len(rows[h]) /\ all[i] = rows[h][i]
      BY <2>2, <2>3, <2>4, <2>6
    <2>11. \A i \in 1..d : rows[h][i].due => <<h, rows[h][i].event>> \in lost'
      <3> SUFFICES ASSUME NEW i \in 1..d, rows[h][i].due PROVE <<h, rows[h][i].event>> \in lost'
        OBVIOUS
      <3>1. i \in {j \in Pruned(all) : all[j].due} /\ all[i] = rows[h][i]
        BY <2>4, <2>10
      <3>2. QED BY <2>1, <3>1
    <2>12. lost \subseteq lost' /\ lost' \subseteq Pairs
      <3>1. \A i \in Pruned(all) : all[i].event \in Events
        BY <2>10, WebhookTypes
      <3>2. lost \subseteq Pairs /\ \A i \in Pruned(all) : <<h, all[i].event>> \in Pairs
        BY <3>1 DEF WebhooksTypeOK, Pairs
      <3>3. QED BY <2>1, <3>2
    <2>13. on' \subseteq hooks' /\ failures' \in [Hooks -> Nat]
      BY <2>1 DEF WebhooksTypeOK
    <2>14. new.event = e /\ new.attempt = attempt /\ (new.due <=> auto /\ ~ok /\ attempt < MaxRetries - 1)
      BY Zenon DEF new
    <2>15. QED BY <1>2, <2>1, <2>5, <2>6, <2>7, <2>8, <2>9, <2>11, <2>12, <2>13, <2>14 DEF Shifted, Again
  <1>3. QED BY <1>1, <1>2

\* What a pair's rows are after a delivery of h and e.
RowsFollow(p, h, e, attempt, auto, ok) ==
  /\ \A i, j \in DueOf(p[1])' : InRow(p, i)' /\ InRow(p, j)' => i = j
  /\ \A i \in DueOf(p[1])' : InRow(p, i)' =>
       \/ HasRow(p) /\ tries[p] = rows'[p[1]][i].attempt + 1 /\ tries[p] < MaxRetries
       \/ /\ p = <<h, e>> /\ auto /\ ~ok /\ h \in hooks
          /\ rows'[p[1]][i].attempt = attempt /\ attempt < MaxRetries - 1
  /\ HasRow(p) /\ p \notin lost' => HasRow(p)'
  /\ p = <<h, e>> /\ auto /\ ~ok /\ attempt < MaxRetries - 1 /\ p \notin lost' => HasRow(p)'

\* The rows of a hook after a delivery of it has been recorded and the rest pruned.
LEMMA RowsAfter ==
  ASSUME WebhooksTypeOK, NEW h \in Hooks, NEW e \in Events, NEW attempt \in Attempts,
         NEW auto \in BOOLEAN, NEW ok \in BOOLEAN, Record(h, e, attempt, auto, ok),
         NEW p \in Pairs, Counted(p), InOnePlace(p), auto /\ p = <<h, e>> => ~HasRow(p)
  PROVE  RowsFollow(p, h, e, attempt, auto, ok)
  <1>t. p[1] \in Hooks /\ p[2] \in Events /\ p = <<p[1], p[2]>>
    BY DEF Pairs
  <1>r. /\ \A k \in Hooks \ {h} : rows'[k] = rows[k]
        /\ h \notin hooks => rows' = rows /\ <<h, e>> \in lost'
        /\ h \in hooks => \E d \in 0..Len(rows[h]) : Shifted(h, e, attempt, Again(attempt, auto, ok), d)
    BY RecordEffect, Zenon
  <1>1. CASE h \notin hooks \/ p[1] # h
    <2>0. /\ \A k \in Hooks \ {h} : rows'[k] = rows[k]
          /\ h \notin hooks => rows' = rows /\ <<h, e>> \in lost'
      BY <1>r
    <2>1. rows'[p[1]] = rows[p[1]] /\ (p = <<h, e>> => p \in lost') /\ (p = <<h, e>> => h \notin hooks)
      BY <1>t, <1>1, <2>0
    <2>2. DueOf(p[1])' = DueOf(p[1]) /\ \A i \in DueOf(p[1]) : InRow(p, i)' <=> InRow(p, i)
      BY <2>1 DEF DueOf, InRow
    <2>3. QED BY <2>1, <2>2 DEF RowsFollow, HasRow, Counted, InOnePlace
  <1>2. CASE h \in hooks /\ p[1] = h
    <2> DEFINE again == auto /\ ~ok /\ attempt < MaxRetries - 1
    <2>0. PICK d \in 0..Len(rows[h]) : Shifted(h, e, attempt, Again(attempt, auto, ok), d)
      BY <1>2, <1>r
    <2>1. /\ Len(rows'[h]) = Len(rows[h]) + 1 - d
          /\ \A i \in 1..(Len(rows[h]) - d) : rows'[h][i] = rows[h][i + d]
          /\ rows'[h][Len(rows'[h])].event = e /\ rows'[h][Len(rows'[h])].attempt = attempt
          /\ rows'[h][Len(rows'[h])].due <=> again
          /\ \A i \in 1..d : rows[h][i].due => <<h, rows[h][i].event>> \in lost'
      BY <2>0, Zenon DEF Shifted, Again
    <2>2. Len(rows[h]) \in Nat /\ d \in Nat /\ d <= Len(rows[h])
      <3>1. Len(rows[h]) \in Nat
        BY WebhookTypes
      <3>2. QED BY <2>0, <3>1
    <2>a. PICK n : n = Len(rows[h]) + 1 - d
      OBVIOUS
    <2>3. n \in Nat \ {0} /\ n = Len(rows[h]) + 1 - d
      BY <2>a, <2>2
    <2>4. ASSUME NEW i \in DueOf(h)', InRow(p, i)'
          PROVE  \/ /\ i # n /\ i \in Nat /\ i + d \in DueOf(h) /\ InRow(p, i + d)
                    /\ rows'[h][i] = rows[h][i + d]
                 \/ i = n /\ p = <<h, e>> /\ again /\ rows'[h][i].attempt = attempt
      <3>1. i \in 1..n /\ rows'[h][i].due /\ rows'[h][i].event = p[2]
        BY <1>2, <2>1, <2>3, <2>4 DEF DueOf, InRow
      <3>2. CASE i = n
        BY <1>t, <1>2, <2>1, <2>3, <3>1, <3>2
      <3>3. CASE i # n
        <4>1. i \in 1..(Len(rows[h]) - d) /\ i + d \in 1..Len(rows[h]) /\ i \in Nat
          BY <2>2, <2>3, <3>1, <3>3
        <4>2. rows'[h][i] = rows[h][i + d]
          BY <2>1, <4>1
        <4>3. QED BY <1>2, <3>1, <3>3, <4>1, <4>2 DEF DueOf, InRow
      <3>4. QED BY <3>2, <3>3
    <2>5. ASSUME NEW i \in DueOf(h), InRow(p, i), p \notin lost' PROVE HasRow(p)'
      <3>1. i \in 1..Len(rows[h]) /\ rows[h][i].due /\ rows[h][i].event = p[2]
        BY <1>2, <2>5 DEF DueOf, InRow
      <3>2. i \notin 1..d
        BY <1>t, <1>2, <2>1, <2>5, <3>1
      <3>3. i - d \in 1..(Len(rows[h]) - d) /\ i - d + d = i /\ i - d \in 1..Len(rows'[h])
        <4>1. \A m \in Nat : \A k \in 1..m : k \notin 1..d =>
                k - d \in 1..(m - d) /\ k - d + d = k /\ k - d \in 1..(m + 1 - d)
          BY <2>2
        <4>2. QED BY <2>1, <2>2, <3>1, <3>2, <4>1, Zenon
      <3>4. rows'[h][i - d] = rows[h][i]
        BY <2>1, <3>3
      <3>5. i - d \in DueOf(h)' /\ InRow(p, i - d)'
        BY <1>2, <3>1, <3>3, <3>4 DEF DueOf, InRow
      <3>6. QED BY <1>2, <3>5 DEF HasRow
    <2>6. p = <<h, e>> /\ again => HasRow(p)'
      <3>1. n \in 1..Len(rows'[h]) /\ n = Len(rows'[h])
        BY <2>1, <2>3
      <3>2. p = <<h, e>> /\ again => n \in DueOf(h)' /\ InRow(p, n)'
        BY <1>2, <2>1, <3>1 DEF DueOf, InRow
      <3>3. QED BY <1>2, <3>2 DEF HasRow
    <2>7. \A i, j \in DueOf(h)' : InRow(p, i)' /\ InRow(p, j)' => i = j
      <3> SUFFICES ASSUME NEW i \in DueOf(h)', NEW j \in DueOf(h)', InRow(p, i)', InRow(p, j)'
                   PROVE  i = j
        OBVIOUS
      <3>1. CASE i = n \/ j = n
        <4>1. p = <<h, e>> /\ auto
          BY <2>4, <3>1
        <4>2. \A k \in DueOf(h) : ~InRow(p, k)
          BY <1>2, <4>1 DEF HasRow
        <4>3. QED BY <2>4, <4>2
      <3>2. CASE i # n /\ j # n
        <4>1. i \in Nat /\ j \in Nat /\ i + d \in DueOf(h) /\ j + d \in DueOf(h) /\ InRow(p, i + d) /\ InRow(p, j + d)
          BY <2>4, <3>2
        <4>2. i + d = j + d
          BY <1>2, <4>1 DEF InOnePlace
        <4>3. QED BY <2>2, <4>1, <4>2
      <3>3. QED BY <3>1, <3>2
    <2>8. ASSUME NEW i \in DueOf(h)', InRow(p, i)'
          PROVE  \/ HasRow(p) /\ tries[p] = rows'[h][i].attempt + 1 /\ tries[p] < MaxRetries
                 \/ p = <<h, e>> /\ again /\ rows'[h][i].attempt = attempt
      BY <1>2, <2>4, <2>8 DEF HasRow, Counted
    <2>9. QED BY <1>2, <2>5, <2>6, <2>7, <2>8 DEF RowsFollow, HasRow
  <1>3. QED BY <1>1, <1>2

-----------------------------------------------------------------------------
(* Steps *)

\* What waits of a pair is told by its rows, the flights and the batches.
LEMMA SamePlaces ==
  ASSUME NEW p \in Pairs, rows'[p[1]] = rows[p[1]], UNCHANGED batch,
         \A a \in Attempts : InAir(p, a)' <=> InAir(p, a)
  PROVE  /\ DueOf(p[1])' = DueOf(p[1]) /\ \A i \in DueOf(p[1]) : InRow(p, i)' <=> InRow(p, i)
         /\ \A r \in RetryRuns : \A i \in 1..Len(batch[r]) : InBatch(p, r, i)' <=> InBatch(p, r, i)
         /\ HasRow(p)' <=> HasRow(p)
         /\ HasFlight(p)' <=> HasFlight(p)
         /\ HasRetry(p)' <=> HasRetry(p)
  <1>1. DueOf(p[1])' = DueOf(p[1]) /\ \A i \in DueOf(p[1]) : InRow(p, i)' <=> InRow(p, i)
    BY DEF DueOf, InRow
  <1>2. \A r \in RetryRuns : \A i \in 1..Len(batch[r]) : InBatch(p, r, i)' <=> InBatch(p, r, i)
    BY DEF InBatch
  <1>3. QED BY <1>1, <1>2 DEF HasRow, HasFlight, HasRetry

\* What holds of a hook and an event depends on what is kept about them.
LEMMA SamePairOK ==
  ASSUME NEW p \in Pairs, PairOK(p), rows'[p[1]] = rows[p[1]], UNCHANGED <<batch, tries>>,
         fired \subseteq fired', received \subseteq received', lost \subseteq lost', hooks' \subseteq hooks,
         \A a \in Attempts : InAir(p, a)' <=> InAir(p, a)
  PROVE  PairOK(p)'
  <1>1. /\ DueOf(p[1])' = DueOf(p[1]) /\ \A i \in DueOf(p[1]) : InRow(p, i)' <=> InRow(p, i)
        /\ \A r \in RetryRuns : \A i \in 1..Len(batch[r]) : InBatch(p, r, i)' <=> InBatch(p, r, i)
        /\ HasRow(p)' <=> HasRow(p)
        /\ HasFlight(p)' <=> HasFlight(p)
        /\ HasRetry(p)' <=> HasRetry(p)
    BY SamePlaces
  <1>2. Counted(p)'
    BY <1>1 DEF PairOK, Counted
  <1>3. InOnePlace(p)'
    BY <1>1 DEF PairOK, InOnePlace
  <1>4. Remembered(p)'
    BY <1>1 DEF PairOK, Remembered, Waiting
  <1>5. QED BY <1>2, <1>3, <1>4 DEF PairOK

\* A pair that was not posted waits nowhere.
LEMMA NotPosted ==
  ASSUME WebhooksTypeOK, NEW p \in Pairs, Counted(p), tries[p] = 0
  PROVE  ~HasRow(p) /\ ~HasFlight(p) /\ ~HasRetry(p)
  <1>t. p[1] \in Hooks
    BY DEF Pairs
  <1>1. ~HasRow(p)
    BY <1>t, WebhookTypes DEF Counted, HasRow, DueOf
  <1>2. ~HasFlight(p)
    BY WebhookTypes DEF Counted, HasFlight
  <1>3. ~HasRetry(p)
    <2> SUFFICES ASSUME NEW r \in RetryRuns, NEW i \in 1..Len(batch[r]), InBatch(p, r, i) PROVE FALSE
      BY DEF HasRetry
    <2>1. batch[r][i].attempt \in 1..(MaxRetries - 1) /\ tries[p] = batch[r][i].attempt + (IF i = 1 THEN 1 ELSE 0)
      BY DEF Counted
    <2>2. QED BY <2>1
  <1>4. QED BY <1>1, <1>2, <1>3

\* An event is posted to every hook that is on.
LEMMA FireKeeps ==
  ASSUME WebhooksInv, NEW e \in Events, Fire(e)
  PROVE  WebhooksInv'
  <1>t. WebhooksTypeOK /\ (\A r \in RetryRuns : Len(batch[r]) <= 2) /\ \A p \in Pairs : PairOK(p)
    BY DEF WebhooksInv
  <1>1. /\ e \notin fired /\ fired' = fired \cup {e}
        /\ flying' = flying \cup {[hook |-> h, event |-> e, attempt |-> 0, auto |-> TRUE] : h \in on}
        /\ tries' = [p \in Pairs |-> IF p[1] \in on /\ p[2] = e THEN 1 ELSE tries[p]]
        /\ UNCHANGED <<hooks, on, failures, rows, batch, asked, restarts, received, lost>>
    BY <1>t DEF Fire, hookVars, boundVars
  <1>2. WebhooksTypeOK'
    <2>1. flying' \subseteq Flights
      <3>1. 0 \in Attempts /\ on \subseteq Hooks /\ flying \subseteq Flights
        BY <1>t DEF WebhooksTypeOK, Attempts
      <3>2. \A h \in on : [hook |-> h, event |-> e, attempt |-> 0, auto |-> TRUE] \in Flights
        BY <3>1 DEF Flights
      <3>3. QED BY <1>1, <3>1, <3>2
    <2>2. tries' \in [Pairs -> Nat]
      BY <1>t, <1>1 DEF WebhooksTypeOK
    <2>3. QED BY <1>t, <1>1, <2>1, <2>2 DEF WebhooksTypeOK
  <1>3. ASSUME NEW p \in Pairs PROVE PairOK(p)'
    <2>t. PairOK(p) /\ Counted(p) /\ p[1] \in Hooks /\ p[2] \in Events
      BY <1>t DEF PairOK, Pairs
    <2>1. CASE p[2] = e /\ p[1] \in on
      <3>1. tries[p] = 0 /\ tries'[p] = 1 /\ p[2] \in fired'
        BY <1>1, <2>1, <2>t DEF Counted
      <3>2. ~HasRow(p) /\ ~HasFlight(p) /\ ~HasRetry(p)
        BY <1>t, <2>t, <3>1, NotPosted
      <3>3. \A a \in Attempts : InAir(p, a)' <=> a = 0
        <4>1. \A a \in Attempts : ~InAir(p, a)
          BY <3>2 DEF HasFlight
        <4>2. QED BY <1>1, <2>1, <4>1 DEF InAir
      <3>4. HasFlight(p)' /\ 0 \in Attempts
        BY <3>3 DEF HasFlight, Attempts
      <3>5. ~HasRow(p)' /\ ~HasRetry(p)'
        BY <1>1, <3>2 DEF HasRow, HasRetry, InRow, InBatch, DueOf
      <3>6. (\A i \in DueOf(p[1]) : ~InRow(p, i))' /\ (\A r \in RetryRuns : \A i \in 1..Len(batch[r]) : ~InBatch(p, r, i))'
        BY <3>5 DEF HasRow, HasRetry
      <3>7. Counted(p)'
        BY <3>1, <3>3, <3>6, WebhookAssumption DEF Counted
      <3>8. InOnePlace(p)'
        BY <3>5, <3>6 DEF InOnePlace
      <3>9. Remembered(p)'
        BY <3>4 DEF Remembered, Waiting
      <3>10. QED BY <3>7, <3>8, <3>9 DEF PairOK
    <2>2. CASE ~(p[2] = e /\ p[1] \in on)
      <3>1. tries'[p] = tries[p] /\ (p[2] \notin fired' => p[2] \notin fired)
        BY <1>1, <2>2
      <3>2. \A a \in Attempts : InAir(p, a)' <=> InAir(p, a)
        BY <1>1, <2>2 DEF InAir
      <3>3. /\ DueOf(p[1])' = DueOf(p[1]) /\ \A i \in DueOf(p[1]) : InRow(p, i)' <=> InRow(p, i)
            /\ \A r \in RetryRuns : \A i \in 1..Len(batch[r]) : InBatch(p, r, i)' <=> InBatch(p, r, i)
            /\ HasRow(p)' <=> HasRow(p)
            /\ HasFlight(p)' <=> HasFlight(p)
            /\ HasRetry(p)' <=> HasRetry(p)
        BY <1>1, <3>2, SamePlaces
      <3>4. Counted(p)'
        BY <1>1, <2>t, <3>1, <3>2, <3>3 DEF PairOK, Counted
      <3>5. InOnePlace(p)'
        BY <1>1, <2>t, <3>3 DEF PairOK, InOnePlace
      <3>6. Remembered(p)'
        BY <1>1, <2>t, <3>1, <3>3 DEF PairOK, Remembered, Waiting
      <3>7. QED BY <3>4, <3>5, <3>6 DEF PairOK
    <2>3. QED BY <2>1, <2>2
  <1>4. QED BY <1>t, <1>1, <1>2, <1>3 DEF WebhooksInv

\* What an operator does: switch, reset, delete, post once more.
LEMMA OperatorKeeps ==
  ASSUME WebhooksInv, NEW h \in Hooks,
         Toggle(h) \/ ResetCircuit(h) \/ DeleteHook(h) \/ \E i \in 1..Len(rows[h]) : RetryByHand(h, i)
  PROVE  WebhooksInv'
  <1>t. WebhooksTypeOK /\ (\A r \in RetryRuns : Len(batch[r]) <= 2) /\ \A p \in Pairs : PairOK(p)
    BY DEF WebhooksInv
  <1>1. CASE Toggle(h) \/ ResetCircuit(h)
    <2>1. /\ on' \subseteq on \cup {h} /\ h \in hooks /\ failures' \in [Hooks -> Nat]
          /\ UNCHANGED <<hooks, rows, flying, batch, asked, restarts, fired, tries, received, lost>>
      BY <1>t, <1>1 DEF Toggle, ResetCircuit, boundVars, WebhooksTypeOK
    <2>2. WebhooksTypeOK'
      BY <1>t, <2>1 DEF WebhooksTypeOK
    <2>3. ASSUME NEW p \in Pairs PROVE PairOK(p)'
      BY <1>t, <2>1, SamePairOK DEF InAir
    <2>4. QED BY <1>t, <2>1, <2>2, <2>3 DEF WebhooksInv
  <1>2. CASE DeleteHook(h)
    <2>1. /\ on' = on \ {h} /\ hooks' = hooks \ {h} /\ rows' = [rows EXCEPT ![h] = << >>]
          /\ UNCHANGED <<failures, flying, batch, asked, restarts, fired, tries, received, lost>>
      BY <1>t, <1>2 DEF DeleteHook, boundVars
    <2>2. WebhooksTypeOK'
      <3>1. rows' \in [Hooks -> Seq(Rows)]
        BY <1>t, <2>1 DEF WebhooksTypeOK
      <3>2. QED BY <1>t, <2>1, <3>1 DEF WebhooksTypeOK
    <2>3. ASSUME NEW p \in Pairs PROVE PairOK(p)'
      <3>t. p[1] \in Hooks /\ PairOK(p)
        BY <1>t DEF Pairs
      <3>1. CASE p[1] # h
        <4>1. rows'[p[1]] = rows[p[1]]
          BY <1>t, <2>1, <3>1, <3>t DEF WebhooksTypeOK
        <4>2. QED BY <2>1, <3>t, <4>1, SamePairOK DEF InAir
      <3>2. CASE p[1] = h
        <4>1. DueOf(p[1])' = {} /\ ~HasRow(p)'
          BY <1>t, <2>1, <3>2, <3>t DEF DueOf, HasRow, WebhooksTypeOK
        <4>2. /\ HasFlight(p)' <=> HasFlight(p)
              /\ HasRetry(p)' <=> HasRetry(p)
              /\ \A a \in Attempts : InAir(p, a)' <=> InAir(p, a)
              /\ \A r \in RetryRuns : \A i \in 1..Len(batch[r]) : InBatch(p, r, i)' <=> InBatch(p, r, i)
          BY <2>1 DEF HasFlight, HasRetry, InAir, InBatch
        <4>3. Counted(p)'
          BY <2>1, <3>t, <4>1, <4>2 DEF PairOK, Counted
        <4>4. InOnePlace(p)'
          BY <2>1, <3>t, <4>1, <4>2 DEF PairOK, InOnePlace
        <4>5. Remembered(p)'
          BY <2>1, <3>2 DEF Remembered
        <4>6. QED BY <4>3, <4>4, <4>5 DEF PairOK
      <3>3. QED BY <3>1, <3>2
    <2>4. QED BY <1>t, <2>1, <2>2, <2>3 DEF WebhooksInv
  <1>3. ASSUME NEW i \in 1..Len(rows[h]), RetryByHand(h, i) PROVE WebhooksInv'
    <2> DEFINE new == [hook |-> h, event |-> rows[h][i].event, attempt |-> rows[h][i].attempt + 1, auto |-> FALSE]
    <2>1. /\ rows[h][i].attempt < MaxRetries /\ asked < MaxManual /\ asked' = asked + 1
          /\ flying' = flying \cup {new}
          /\ UNCHANGED <<hooks, on, failures, rows, batch, restarts, fired, tries, received, lost>>
      BY <1>3 DEF RetryByHand, hookVars
    <2>2. rows[h][i].event \in Events /\ rows[h][i].attempt \in Attempts
      BY <1>t, WebhookTypes
    <2>3. new \in Flights
      BY <2>1, <2>2 DEF Flights, Attempts
    <2>4. WebhooksTypeOK'
      <3>1. flying' \subseteq Flights
        BY <1>t, <2>1, <2>3 DEF WebhooksTypeOK
      <3>2. QED BY <1>t, <2>1, <3>1 DEF WebhooksTypeOK
    <2>5. ASSUME NEW p \in Pairs PROVE PairOK(p)'
      <3>1. \A a \in Attempts : InAir(p, a)' <=> InAir(p, a)
        BY <2>1 DEF InAir
      <3>2. QED BY <1>t, <2>1, <3>1, SamePairOK
    <2>6. QED BY <1>t, <2>1, <2>4, <2>5 DEF WebhooksInv
  <1>4. QED BY <1>1, <1>2, <1>3

\* The server restarts: what was in the air, or taken for a retry, is lost.
LEMMA RestartKeeps ==
  ASSUME WebhooksInv, ServerRestart
  PROVE  WebhooksInv'
  <1>t. WebhooksTypeOK /\ \A p \in Pairs : PairOK(p)
    BY DEF WebhooksInv
  <1>1. /\ restarts < MaxRestarts /\ restarts' = restarts + 1
        /\ flying' = {} /\ batch' = [r \in RetryRuns |-> << >>]
        /\ lost' = lost \cup {<<f.hook, f.event>> : f \in flying}
             \cup UNION {{<<batch[r][i].hook, batch[r][i].event>> : i \in 1..Len(batch[r])} : r \in RetryRuns}
        /\ UNCHANGED <<hooks, on, failures, rows, asked, fired, tries, received>>
    BY DEF ServerRestart, hookVars
  <1>2. WebhooksTypeOK'
    <2>1. batch' \in [RetryRuns -> Seq(Retries)]
      BY <1>1
    <2>2. lost' \subseteq Pairs
      <3>1. /\ \A f \in flying : <<f.hook, f.event>> \in Pairs
            /\ \A r \in RetryRuns : \A i \in 1..Len(batch[r]) : <<batch[r][i].hook, batch[r][i].event>> \in Pairs
        BY <1>t, WebhookTypes DEF Pairs
      <3>2. lost \subseteq Pairs
        BY <1>t DEF WebhooksTypeOK
      <3>3. QED BY <1>1, <3>1, <3>2
    <2>3. flying' \subseteq Flights
      BY <1>1
    <2>4. QED BY <1>t, <1>1, <2>1, <2>2, <2>3 DEF WebhooksTypeOK
  <1>3. \A r \in RetryRuns : Len(batch'[r]) = 0
    BY <1>1
  <1>4. ASSUME NEW p \in Pairs PROVE PairOK(p)'
    <2>t. PairOK(p) /\ p = <<p[1], p[2]>>
      BY <1>t DEF Pairs
    <2>1. /\ \A a \in Attempts : ~InAir(p, a)'
          /\ \A r \in RetryRuns : (1..Len(batch[r]))' = {}
          /\ ~HasFlight(p)' /\ ~HasRetry(p)'
      BY <1>1, <1>3 DEF InAir, HasFlight, HasRetry
    <2>2. /\ DueOf(p[1])' = DueOf(p[1]) /\ (\A i \in DueOf(p[1]) : InRow(p, i)' <=> InRow(p, i))
          /\ HasRow(p)' <=> HasRow(p)
      BY <1>1 DEF DueOf, InRow, HasRow
    <2>3. HasFlight(p) \/ HasRetry(p) => p \in lost'
      <3>1. ASSUME NEW a \in Attempts, InAir(p, a) PROVE p \in lost'
        <4> DEFINE f == [hook |-> p[1], event |-> p[2], attempt |-> a, auto |-> TRUE]
        <4>1. f \in flying /\ <<f.hook, f.event>> = p
          BY <2>t, <3>1 DEF InAir
        <4> HIDE DEF f
        <4>2. QED BY <1>1, <4>1
      <3>2. ASSUME NEW r \in RetryRuns, NEW i \in 1..Len(batch[r]), InBatch(p, r, i) PROVE p \in lost'
        <4>1. <<batch[r][i].hook, batch[r][i].event>> = p
          BY <2>t, <3>2 DEF InBatch
        <4>2. p \in UNION {{<<batch[s][j].hook, batch[s][j].event>> : j \in 1..Len(batch[s])} : s \in RetryRuns}
          BY <4>1
        <4>3. QED BY <1>1, <4>2
      <3>3. QED BY <3>1, <3>2 DEF HasFlight, HasRetry
    <2>4. Counted(p)'
      BY <1>1, <2>t, <2>1, <2>2 DEF PairOK, Counted
    <2>5. InOnePlace(p)'
      BY <1>1, <2>t, <2>1, <2>2 DEF PairOK, InOnePlace
    <2>6. Remembered(p)'
      BY <1>1, <2>t, <2>2, <2>3 DEF PairOK, Remembered, Waiting
    <2>7. QED BY <2>4, <2>5, <2>6 DEF PairOK
  <1>5. QED BY <1>2, <1>3, <1>4 DEF WebhooksInv

\* The answer to a delivery that was in the air.
LEMMA AnswerKeeps ==
  ASSUME WebhooksInv, NEW h \in Hooks, NEW e \in Events, NEW attempt \in Attempts,
         NEW auto \in BOOLEAN, NEW ok \in BOOLEAN,
         [hook |-> h, event |-> e, attempt |-> attempt, auto |-> auto] \in flying,
         Record(h, e, attempt, auto, ok),
         flying' = flying \ {[hook |-> h, event |-> e, attempt |-> attempt, auto |-> auto]},
         received' = IF ok THEN received \cup {<<h, e>>} ELSE received,
         UNCHANGED <<batch, asked, restarts, fired, tries>>
  PROVE  WebhooksInv'
  <1> DEFINE f == [hook |-> h, event |-> e, attempt |-> attempt, auto |-> auto]
  <1>t. WebhooksTypeOK /\ (\A r \in RetryRuns : Len(batch[r]) <= 2) /\ \A p \in Pairs : PairOK(p)
    BY DEF WebhooksInv
  <1>f. attempt \in Nat
    BY <1>t, WebhookTypes
  <1>1. /\ flying' = flying \ {f} /\ f \in flying
        /\ received' = IF ok THEN received \cup {<<h, e>>} ELSE received
        /\ UNCHANGED <<batch, asked, restarts, fired, tries>>
    OBVIOUS
  <1>2. /\ on' \subseteq hooks' /\ hooks' = hooks /\ failures' \in [Hooks -> Nat]
        /\ rows' \in [Hooks -> Seq(Rows)] /\ lost \subseteq lost' /\ lost' \subseteq Pairs
        /\ h \notin hooks => <<h, e>> \in lost'
    BY <1>t, RecordEffect, Zenon
  <1>3. WebhooksTypeOK'
    <2>1. flying' \subseteq Flights /\ received' \subseteq Pairs /\ hooks' \subseteq Hooks
      BY <1>t, <1>1, <1>2 DEF WebhooksTypeOK, Pairs
    <2>2. QED BY <1>t, <1>1, <1>2, <2>1 DEF WebhooksTypeOK
  <1>4. ASSUME NEW p \in Pairs PROVE PairOK(p)'
    <2>t. PairOK(p) /\ Counted(p) /\ InOnePlace(p) /\ Remembered(p) /\ tries[p] \in 0..MaxRetries
      BY <1>t DEF PairOK, Counted
    <2> DEFINE mine == auto /\ p = <<h, e>>
    <2>1. mine => InAir(p, attempt) /\ HasFlight(p) /\ ~HasRow(p) /\ ~HasRetry(p) /\ tries[p] = attempt + 1
      <3>1. mine => InAir(p, attempt)
        BY <1>1 DEF InAir
      <3>2. QED BY <1>f, <2>t, <3>1 DEF HasFlight, InOnePlace, Counted
    <2>2. /\ \A i, j \in DueOf(p[1])' : InRow(p, i)' /\ InRow(p, j)' => i = j
          /\ \A i \in DueOf(p[1])' : InRow(p, i)' =>
               \/ HasRow(p) /\ tries[p] = rows'[p[1]][i].attempt + 1 /\ tries[p] < MaxRetries
               \/ /\ p = <<h, e>> /\ auto /\ ~ok /\ h \in hooks
                  /\ rows'[p[1]][i].attempt = attempt /\ attempt < MaxRetries - 1
          /\ HasRow(p) /\ p \notin lost' => HasRow(p)'
          /\ p = <<h, e>> /\ auto /\ ~ok /\ attempt < MaxRetries - 1 /\ p \notin lost' => HasRow(p)'
      <3>1. auto /\ p = <<h, e>> => ~HasRow(p)
        BY <2>1
      <3>2. RowsFollow(p, h, e, attempt, auto, ok)
        BY <1>t, <2>t, <3>1, RowsAfter, Zenon
      <3>3. QED BY <3>2, Zenon DEF RowsFollow
    <2>3. /\ \A r \in RetryRuns : \A i \in 1..Len(batch[r]) : InBatch(p, r, i)' <=> InBatch(p, r, i)
          /\ HasRetry(p)' <=> HasRetry(p)
      BY <1>1 DEF InBatch, HasRetry
    <2>4. \A a \in Attempts : InAir(p, a)' => InAir(p, a) /\ ~mine
      <3> SUFFICES ASSUME NEW a \in Attempts, InAir(p, a)', mine PROVE FALSE
        BY <1>1 DEF InAir
      <3>1. InAir(p, a) /\ [hook |-> p[1], event |-> p[2], attempt |-> a, auto |-> TRUE] # f
        BY <1>1 DEF InAir
      <3>2. a + 1 = attempt + 1 /\ a \in Nat
        BY <2>t, <2>1, <3>1, WebhookTypes, <1>t DEF Counted
      <3>3. auto = TRUE /\ p[1] = h /\ p[2] = e /\ a = attempt
        BY <1>f, <3>2
      <3>4. QED BY <3>1, <3>3
    <2>5. ~mine => \A a \in Attempts : InAir(p, a) => InAir(p, a)'
      <3> SUFFICES ASSUME ~mine, NEW a \in Attempts, InAir(p, a) PROVE InAir(p, a)'
        OBVIOUS
      <3> DEFINE g == [hook |-> p[1], event |-> p[2], attempt |-> a, auto |-> TRUE]
      <3>1. g = f => g.hook = f.hook /\ g.event = f.event /\ g.auto = f.auto
        OBVIOUS
      <3>2. g = f => p[1] = h /\ p[2] = e /\ auto
        BY <3>1
      <3>3. g # f
        BY <3>2 DEF Pairs
      <3>4. QED BY <1>1, <3>3 DEF InAir
    <2>6. /\ HasFlight(p)' => HasFlight(p) /\ ~mine
          /\ ~mine => (HasFlight(p) => HasFlight(p)')
          /\ HasRow(p)' => HasRow(p) \/ mine
      BY <2>2, <2>4, <2>5 DEF HasFlight, HasRow
    <2>7. Counted(p)'
      <3>1. \A i \in DueOf(p[1])' : InRow(p, i)' => tries[p] = rows'[p[1]][i].attempt + 1 /\ tries[p] < MaxRetries
        BY <1>f, <2>1, <2>2
      <3>2. QED BY <1>1, <2>t, <2>3, <2>4, <3>1 DEF Counted
    <2>8. InOnePlace(p)'
      <3>1. \A i, j \in DueOf(p[1])' : InRow(p, i)' /\ InRow(p, j)' => i = j
        BY <2>2
      <3>2. \A r, s \in RetryRuns : \A i \in 1..Len(batch[r]), j \in 1..Len(batch[s]) :
              (InBatch(p, r, i) /\ InBatch(p, s, j))' => r = s /\ i = j
        BY <2>t, <2>3 DEF InOnePlace
      <3>3. ~(HasRow(p) /\ HasFlight(p))' /\ ~(HasRow(p) /\ HasRetry(p))' /\ ~(HasFlight(p) /\ HasRetry(p))'
        BY <2>t, <2>1, <2>3, <2>6 DEF InOnePlace
      <3>4. QED BY <1>1, <3>1, <3>2, <3>3 DEF InOnePlace
    <2>9. Remembered(p)'
      <3> SUFFICES ASSUME p \notin received' \cup lost', tries'[p] > 0, p[1] \in hooks'
                   PROVE  tries'[p] = MaxRetries \/ Waiting(p)'
        BY DEF Remembered
      <3>1. CASE mine
        <4>1. ~ok /\ p \notin lost'
          BY <1>1, <3>1
        <4>2. CASE attempt < MaxRetries - 1
          BY <2>2, <3>1, <4>1, <4>2 DEF Waiting
        <4>3. CASE ~(attempt < MaxRetries - 1)
          BY <1>f, <1>1, <2>t, <2>1, <3>1, <4>3
        <4>4. QED BY <4>2, <4>3
      <3>2. CASE ~mine
        <4>1. tries[p] = MaxRetries \/ Waiting(p)
          BY <1>1, <1>2, <2>t DEF Remembered
        <4>2. QED BY <1>1, <2>2, <2>3, <2>6, <3>2, <4>1 DEF Waiting
      <3>3. QED BY <3>1, <3>2
    <2>10. QED BY <2>7, <2>8, <2>9 DEF PairOK
  <1>5. QED BY <1>t, <1>1, <1>3, <1>4 DEF WebhooksInv

\* The answer to the first delivery of a batch, and the start of the second.
RetryOver(r, h, e, attempt, auto, ok) ==
  /\ batch[r] # << >> /\ batch[r][1] = [hook |-> h, event |-> e, attempt |-> attempt]
  /\ Record(h, e, attempt, auto, ok) /\ auto
  /\ received' = IF ok THEN received \cup {<<h, e>>} ELSE received
  /\ batch' = [batch EXCEPT ![r] = Tail(@)]
  /\ IF batch'[r] # << >> THEN TriesBegin(r) ELSE UNCHANGED tries
  /\ UNCHANGED <<flying, asked, restarts, fired>>

\* A retry of a batch ends, with whatever it records.
LEMMA RetryEndsKeeps ==
  ASSUME WebhooksInv, NEW r \in RetryRuns, NEW h \in Hooks, NEW e \in Events,
         NEW attempt \in Attempts, NEW auto \in BOOLEAN, NEW ok \in BOOLEAN,
         RetryOver(r, h, e, attempt, auto, ok)
  PROVE  WebhooksInv'
  <1>a. /\ batch[r] # << >> /\ batch[r][1].hook = h /\ batch[r][1].event = e /\ batch[r][1].attempt = attempt
        /\ batch' = [batch EXCEPT ![r] = Tail(@)]
        /\ UNCHANGED <<flying, asked, restarts, fired>>
    <2>1. /\ batch[r] # << >> /\ batch[r][1] = [hook |-> h, event |-> e, attempt |-> attempt]
          /\ batch' = [batch EXCEPT ![r] = Tail(@)]
          /\ UNCHANGED <<flying, asked, restarts, fired>>
      BY Zenon DEF RetryOver
    <2>2. QED BY <2>1
  <1>c. Record(h, e, attempt, auto, ok) /\ auto
    BY Zenon DEF RetryOver
  <1>d. received' = IF ok THEN received \cup {<<h, e>>} ELSE received
    BY Zenon DEF RetryOver
  <1>e. /\ batch'[r] # << >> => tries' = [tries EXCEPT ![<<batch'[r][1].hook, batch'[r][1].event>>] = @ + 1]
        /\ batch'[r] = << >> => tries' = tries
    BY Zenon DEF RetryOver, TriesBegin
  <1>t. WebhooksTypeOK /\ (\A s \in RetryRuns : Len(batch[s]) <= 2) /\ \A p \in Pairs : PairOK(p)
    BY DEF WebhooksInv
  <1>b. /\ batch \in [RetryRuns -> Seq(Retries)] /\ batch[r] \in Seq(Retries)
        /\ Len(batch[r]) \in Nat /\ (Len(batch[r]) = 1 \/ Len(batch[r]) = 2)
        /\ Tail(batch[r]) \in Seq(Retries) /\ Len(Tail(batch[r])) = Len(batch[r]) - 1
        /\ \A i \in 1..Len(Tail(batch[r])) : Tail(batch[r])[i] = batch[r][i + 1]
        /\ attempt \in Nat
    <2>1. batch \in [RetryRuns -> Seq(Retries)] /\ batch[r] \in Seq(Retries) /\ attempt \in Nat
      BY <1>t, WebhookTypes DEF WebhooksTypeOK
    <2>2. Len(batch[r]) \in Nat /\ Len(batch[r]) # 0 /\ Len(batch[r]) <= 2
      BY <1>a, <1>t, <2>1, LenProperties, EmptySeq
    <2>3. /\ Tail(batch[r]) \in Seq(Retries) /\ Len(Tail(batch[r])) = Len(batch[r]) - 1
          /\ \A i \in 1..Len(Tail(batch[r])) : Tail(batch[r])[i] = batch[r][i + 1]
      BY <1>a, <2>1, HeadTailProperties, Zenon
    <2>4. Len(batch[r]) = 1 \/ Len(batch[r]) = 2
      <3>1. \A n \in Nat : n # 0 /\ n <= 2 => n = 1 \/ n = 2
        OBVIOUS
      <3>2. QED BY <2>2, <3>1, Zenon
    <2>5. QED BY <2>1, <2>2, <2>3, <2>4
  <1>1. /\ batch' \in [RetryRuns -> Seq(Retries)] /\ batch'[r] = Tail(batch[r])
        /\ \A s \in RetryRuns \ {r} : batch'[s] = batch[s]
        /\ Len(batch'[r]) = Len(batch[r]) - 1
        /\ Len(batch[r]) = 2 => batch'[r][1] = batch[r][2]
    <2>1. Len(Tail(batch[r])) = Len(batch[r]) - 1
      BY <1>b
    <2>2. Len(batch[r]) = 2 => Tail(batch[r])[1] = batch[r][2]
      <3>1. Len(batch[r]) = 2 => 1 \in 1..Len(Tail(batch[r]))
        BY <2>1
      <3>2. Len(batch[r]) = 2 => Tail(batch[r])[1] = batch[r][1 + 1]
        BY <1>b, <3>1
      <3>3. QED BY <3>2
    <2>3. QED BY <1>a, <1>b, <2>1, <2>2
  <1>2. /\ on' \subseteq hooks' /\ hooks' = hooks /\ failures' \in [Hooks -> Nat]
        /\ rows' \in [Hooks -> Seq(Rows)] /\ lost \subseteq lost' /\ lost' \subseteq Pairs
        /\ h \notin hooks => <<h, e>> \in lost'
    BY <1>c, <1>t, RecordEffect, Zenon
  <1>3. \A p \in Pairs : InBatch(p, r, 1) <=> p = <<h, e>>
    BY <1>a, <1>b DEF InBatch, Pairs
  <1>4. \A p \in Pairs : \A s \in RetryRuns : \A i \in 1..Len(batch'[s]) : InBatch(p, s, i)' =>
          \/ s # r /\ i \in 1..Len(batch[s]) /\ InBatch(p, s, i) /\ batch'[s][i] = batch[s][i]
          \/ s = r /\ i = 1 /\ 2 \in 1..Len(batch[r]) /\ InBatch(p, r, 2) /\ batch'[r][1] = batch[r][2]
    <2> SUFFICES ASSUME NEW p \in Pairs, NEW s \in RetryRuns, NEW i \in 1..Len(batch'[s]), InBatch(p, s, i)'
                 PROVE  \/ s # r /\ i \in 1..Len(batch[s]) /\ InBatch(p, s, i) /\ batch'[s][i] = batch[s][i]
                        \/ s = r /\ i = 1 /\ 2 \in 1..Len(batch[r]) /\ InBatch(p, r, 2) /\ batch'[r][1] = batch[r][2]
      OBVIOUS
    <2>1. CASE s # r
      BY <1>1, <2>1 DEF InBatch
    <2>2. CASE s = r
      <3>1. i = 1 /\ Len(batch[r]) = 2
        BY <1>b, <1>1, <2>2
      <3>2. batch'[r][1] = batch[r][2] /\ 2 \in 1..Len(batch[r])
        BY <1>b, <1>1, <2>2, <3>1
      <3>3. QED BY <2>2, <3>1, <3>2 DEF InBatch
    <2>3. QED BY <2>1, <2>2
  <1>5. \A p \in Pairs : \A s \in RetryRuns : \A i \in 1..Len(batch[s]) : InBatch(p, s, i) =>
          \/ s = r /\ i = 1 /\ p = <<h, e>>
          \/ s # r /\ i \in 1..Len(batch'[s]) /\ InBatch(p, s, i)'
          \/ s = r /\ 1 \in 1..Len(batch'[s]) /\ InBatch(p, r, 1)'
    <2> SUFFICES ASSUME NEW p \in Pairs, NEW s \in RetryRuns, NEW i \in 1..Len(batch[s]), InBatch(p, s, i)
                 PROVE  \/ s = r /\ i = 1 /\ p = <<h, e>>
                        \/ s # r /\ i \in 1..Len(batch'[s]) /\ InBatch(p, s, i)'
                        \/ s = r /\ 1 \in 1..Len(batch'[s]) /\ InBatch(p, r, 1)'
      OBVIOUS
    <2>1. CASE s # r
      BY <1>1, <2>1 DEF InBatch
    <2>2. CASE s = r /\ i = 1
      BY <1>3, <2>2
    <2>3. CASE s = r /\ i # 1
      <3>1. i = 2 /\ Len(batch[r]) = 2
        BY <1>b, <2>3
      <3>2. batch'[r][1] = batch[r][2] /\ Len(batch'[r]) = 2 - 1
        BY <1>1, <3>1, Zenon
      <3>3. 1 \in 1..Len(batch'[r])
        BY <3>2
      <3>4. QED BY <2>3, <3>1, <3>2, <3>3 DEF InBatch
    <2>4. QED BY <2>1, <2>2, <2>3
  <1>6. ASSUME NEW p \in Pairs
        PROVE  tries'[p] = IF 1 \in 1..Len(batch'[r]) /\ InBatch(p, r, 1)' THEN tries[p] + 1 ELSE tries[p]
    <2>1. tries \in [Pairs -> Nat] /\ p = <<p[1], p[2]>>
      BY <1>t DEF WebhooksTypeOK, Pairs
    <2>2. CASE batch'[r] # << >>
      <3>1. 1 \in 1..Len(batch'[r])
        BY <1>b, <1>1, <2>2, EmptySeq, LenProperties
      <3>2. tries' = [tries EXCEPT ![<<batch'[r][1].hook, batch'[r][1].event>>] = @ + 1]
        BY <1>e, <2>2
      <3>3. InBatch(p, r, 1)' <=> p = <<batch'[r][1].hook, batch'[r][1].event>>
        BY <2>1, <3>1 DEF InBatch
      <3>4. QED BY <2>1, <3>1, <3>2, <3>3
    <2>3. CASE batch'[r] = << >>
      <3>1. 1 \notin 1..Len(batch'[r]) /\ tries' = tries
        BY <1>e, <2>3, EmptySeq
      <3>2. QED BY <3>1
    <2>4. QED BY <2>2, <2>3
  <1>7. WebhooksTypeOK' /\ \A s \in RetryRuns : Len(batch'[s]) <= 2
    <2>1. received' \subseteq Pairs /\ hooks' \subseteq Hooks
      BY <1>d, <1>t, <1>2 DEF WebhooksTypeOK, Pairs
    <2>2. tries' \in [Pairs -> Nat]
      <3>1. tries \in [Pairs -> Nat]
        BY <1>t DEF WebhooksTypeOK
      <3>2. CASE batch'[r] # << >>
        BY <1>e, <3>1, <3>2
      <3>3. CASE batch'[r] = << >>
        BY <1>e, <3>1, <3>3
      <3>4. QED BY <3>2, <3>3
    <2>3. \A s \in RetryRuns : Len(batch'[s]) <= 2
      <3> TAKE s \in RetryRuns
      <3>1. CASE s = r
        <4>1. \A n \in Nat : n = 1 \/ n = 2 => n - 1 <= 2
          OBVIOUS
        <4>2. QED BY <1>b, <1>1, <3>1, <4>1, Zenon
      <3>2. CASE s # r
        BY <1>t, <1>1, <3>2
      <3>3. QED BY <3>1, <3>2
    <2>4. QED BY <1>a, <1>t, <1>1, <1>2, <2>1, <2>2, <2>3 DEF WebhooksTypeOK
  <1>8. ASSUME NEW p \in Pairs PROVE PairOK(p)'
    <2>t. PairOK(p) /\ Counted(p) /\ InOnePlace(p) /\ Remembered(p) /\ tries[p] \in 0..MaxRetries
      BY <1>t DEF PairOK, Counted
    <2> DEFINE mine == p = <<h, e>>
               next == 2 \in 1..Len(batch[r]) /\ InBatch(p, r, 2)
    <2>1. mine => /\ 1 \in 1..Len(batch[r]) /\ InBatch(p, r, 1) /\ HasRetry(p) /\ ~HasRow(p) /\ ~HasFlight(p) /\ ~next
                  /\ attempt < MaxRetries /\ tries[p] = attempt + 1
      <3> SUFFICES ASSUME mine
                   PROVE  /\ 1 \in 1..Len(batch[r]) /\ InBatch(p, r, 1) /\ HasRetry(p) /\ ~HasRow(p) /\ ~HasFlight(p) /\ ~next
                          /\ attempt < MaxRetries /\ tries[p] = attempt + 1
        OBVIOUS
      <3>1. 1 \in 1..Len(batch[r]) /\ InBatch(p, r, 1)
        BY <1>b, <1>3
      <3>2. HasRetry(p)
        BY <3>1 DEF HasRetry
      <3>3. ~HasRow(p) /\ ~HasFlight(p)
        BY <2>t, <3>2 DEF InOnePlace
      <3>4. ~next
        BY <2>t, <3>1 DEF InOnePlace
      <3>5. batch[r][1].attempt \in 1..(MaxRetries - 1) /\ tries[p] = batch[r][1].attempt + 1
        BY <2>t, <3>1 DEF Counted
      <3>6. attempt < MaxRetries /\ tries[p] = attempt + 1
        BY <1>a, <1>b, <3>5
      <3>7. QED BY <3>1, <3>2, <3>3, <3>4, <3>6
    <2>2. next => /\ HasRetry(p) /\ ~HasRow(p) /\ ~HasFlight(p) /\ ~mine
                  /\ batch[r][2].attempt \in 1..(MaxRetries - 1) /\ tries[p] = batch[r][2].attempt
                  /\ tries'[p] = tries[p] + 1 /\ HasRetry(p)' /\ p[2] \in fired
      <3> SUFFICES ASSUME next
                   PROVE  /\ HasRetry(p) /\ ~HasRow(p) /\ ~HasFlight(p) /\ ~mine
                          /\ batch[r][2].attempt \in 1..(MaxRetries - 1) /\ tries[p] = batch[r][2].attempt
                          /\ tries'[p] = tries[p] + 1 /\ HasRetry(p)' /\ p[2] \in fired
        OBVIOUS
      <3>1. HasRetry(p) /\ ~mine
        BY <2>1 DEF HasRetry
      <3>2. ~HasRow(p) /\ ~HasFlight(p)
        BY <2>t, <3>1 DEF InOnePlace
      <3>3. batch[r][2].attempt \in 1..(MaxRetries - 1) /\ tries[p] = batch[r][2].attempt
        <4>1. /\ batch[r][2].attempt \in 1..(MaxRetries - 1)
              /\ tries[p] = batch[r][2].attempt + (IF 2 = 1 THEN 1 ELSE 0)
          BY <2>t DEF Counted
        <4>2. QED BY <4>1
      <3>4. 1 \in 1..Len(batch'[r]) /\ InBatch(p, r, 1)'
        BY <1>5, <3>1
      <3>5. tries'[p] = tries[p] + 1 /\ HasRetry(p)'
        BY <1>6, <3>4 DEF HasRetry
      <3>6. p[2] \in fired
        BY <2>t, <3>3 DEF Counted
      <3>7. QED BY <3>1, <3>2, <3>3, <3>5, <3>6
    <2>3. ~next => tries'[p] = tries[p]
      BY <1>4, <1>6
    <2>4. /\ \A i, j \in DueOf(p[1])' : InRow(p, i)' /\ InRow(p, j)' => i = j
          /\ \A i \in DueOf(p[1])' : InRow(p, i)' =>
               \/ HasRow(p) /\ tries[p] = rows'[p[1]][i].attempt + 1 /\ tries[p] < MaxRetries
               \/ /\ p = <<h, e>> /\ auto /\ ~ok /\ h \in hooks
                  /\ rows'[p[1]][i].attempt = attempt /\ attempt < MaxRetries - 1
          /\ HasRow(p) /\ p \notin lost' => HasRow(p)'
          /\ p = <<h, e>> /\ auto /\ ~ok /\ attempt < MaxRetries - 1 /\ p \notin lost' => HasRow(p)'
      <3>1. auto /\ p = <<h, e>> => ~HasRow(p)
        BY <2>1
      <3>2. RowsFollow(p, h, e, attempt, auto, ok)
        BY <1>c, <1>t, <2>t, <3>1, RowsAfter, Zenon
      <3>3. QED BY <3>2, Zenon DEF RowsFollow
    <2>5. /\ \A a \in Attempts : InAir(p, a)' <=> InAir(p, a)
          /\ HasFlight(p)' <=> HasFlight(p)
      BY <1>a DEF InAir, HasFlight
    <2>6. mine => ~HasRetry(p)'
      <3> SUFFICES ASSUME mine, NEW s \in RetryRuns, NEW i \in 1..Len(batch'[s]), InBatch(p, s, i)' PROVE FALSE
        BY DEF HasRetry
      <3>1. s # r /\ i \in 1..Len(batch[s]) /\ InBatch(p, s, i)
        BY <1>4, <2>1
      <3>2. QED BY <2>t, <2>1, <3>1 DEF InOnePlace
    <2>7. ~mine => (HasRetry(p) => HasRetry(p)')
      BY <1>5 DEF HasRetry
    <2>8. HasRetry(p)' => HasRetry(p)
      BY <1>4 DEF HasRetry
    <2>9. \A i \in DueOf(p[1])' : InRow(p, i)' =>
             ~next /\ tries[p] = rows'[p[1]][i].attempt + 1 /\ tries[p] < MaxRetries
      BY <1>b, <2>1, <2>2, <2>4
    <2>10. \A s \in RetryRuns : \A i \in 1..Len(batch'[s]) : InBatch(p, s, i)' =>
             /\ batch'[s][i].attempt \in 1..(MaxRetries - 1)
             /\ tries'[p] = batch'[s][i].attempt + (IF i = 1 THEN 1 ELSE 0)
      <3> SUFFICES ASSUME NEW s \in RetryRuns, NEW i \in 1..Len(batch'[s]), InBatch(p, s, i)'
                   PROVE  /\ batch'[s][i].attempt \in 1..(MaxRetries - 1)
                          /\ tries'[p] = batch'[s][i].attempt + (IF i = 1 THEN 1 ELSE 0)
        OBVIOUS
      <3>1. CASE s = r
        <4>1. i = 1 /\ next /\ batch'[r][1] = batch[r][2]
          BY <1>4, <3>1
        <4>2. QED BY <2>2, <3>1, <4>1
      <3>2. CASE s # r
        <4>1. i \in 1..Len(batch[s]) /\ InBatch(p, s, i) /\ batch'[s][i] = batch[s][i]
          BY <1>4, <3>2
        <4>2. ~next
          BY <2>t, <3>2, <4>1 DEF InOnePlace
        <4>3. QED BY <2>t, <2>3, <4>1, <4>2 DEF Counted
      <3>3. QED BY <3>1, <3>2
    <2>11. Counted(p)'
      <3>1. tries'[p] \in 0..MaxRetries /\ (p[2] \notin fired' => tries'[p] = 0)
        BY <1>a, <2>t, <2>2, <2>3 DEF Counted
      <3>2. \A a \in Attempts : InAir(p, a)' => tries'[p] = a + 1
        <4>1. ASSUME NEW a \in Attempts, InAir(p, a)' PROVE tries'[p] = a + 1
          <5>1. InAir(p, a) /\ HasFlight(p)
            BY <2>5, <4>1 DEF HasFlight
          <5>2. QED BY <2>t, <2>2, <2>3, <5>1 DEF Counted
        <4>2. QED BY <4>1
      <3>3. \A i \in DueOf(p[1])' : InRow(p, i)' => tries'[p] = rows'[p[1]][i].attempt + 1 /\ tries'[p] < MaxRetries
        BY <2>3, <2>9
      <3>4. QED BY <2>10, <3>1, <3>2, <3>3 DEF Counted
    <2>12. InOnePlace(p)'
      <3>1. ASSUME NEW s \in RetryRuns, NEW i \in 1..Len(batch'[s]), InBatch(p, s, i)',
                   NEW q \in RetryRuns, NEW j \in 1..Len(batch'[q]), InBatch(p, q, j)'
            PROVE  s = q /\ i = j
        BY <1>4, <2>t, <3>1 DEF InOnePlace
      <3>2. ~(HasRow(p) /\ HasFlight(p))' /\ ~(HasRow(p) /\ HasRetry(p))' /\ ~(HasFlight(p) /\ HasRetry(p))'
        <4>1. HasRow(p)' => HasRow(p) \/ mine
          BY <2>4 DEF HasRow
        <4>2. QED BY <2>t, <2>1, <2>5, <2>6, <2>8, <4>1 DEF InOnePlace
      <3>3. QED BY <2>4, <3>1, <3>2 DEF InOnePlace
    <2>13. Remembered(p)'
      <3> SUFFICES ASSUME p \notin received' \cup lost', tries'[p] > 0, p[1] \in hooks'
                   PROVE  tries'[p] = MaxRetries \/ Waiting(p)'
        BY DEF Remembered
      <3>1. CASE mine
        <4>1. ~ok /\ auto
          BY <1>c, <1>d, <3>1
        <4>2. CASE attempt < MaxRetries - 1
          BY <2>4, <3>1, <4>1, <4>2 DEF Waiting
        <4>3. CASE ~(attempt < MaxRetries - 1)
          BY <1>b, <2>1, <2>3, <3>1, <4>3
        <4>4. QED BY <4>2, <4>3
      <3>2. CASE next
        BY <2>2, <3>2 DEF Waiting
      <3>3. CASE ~mine /\ ~next
        <4>1. tries[p] = MaxRetries \/ Waiting(p)
          BY <1>d, <1>2, <2>t, <2>3, <3>3 DEF Remembered
        <4>2. QED BY <2>3, <2>4, <2>5, <2>7, <3>3, <4>1 DEF Waiting
      <3>4. QED BY <3>1, <3>2, <3>3
    <2>14. QED BY <2>11, <2>12, <2>13 DEF PairOK
  <1>9. QED BY <1>7, <1>8 DEF WebhooksInv

\* A batch holds one retry or two.
LEMMA ShortSeqs ==
  ASSUME NEW S, NEW x \in S, NEW y \in S
  PROVE  /\ <<x>> \in Seq(S) /\ Len(<<x>>) = 1 /\ <<x>>[1] = x
         /\ <<x, y>> \in Seq(S) /\ Len(<<x, y>>) = 2 /\ <<x, y>>[1] = x /\ <<x, y>>[2] = y
  OBVIOUS

\* A function on the first n numbers is a sequence of n elements.
LEMMA FunctionIsSeq ==
  ASSUME NEW S, NEW n \in Nat, NEW f \in [1..n -> S]
  PROVE  f \in Seq(S) /\ Len(f) = n
  OBVIOUS

\* There is room for a try after one that was not the last.
LEMMA OneMoreTry ==
  ASSUME NEW n \in Nat, n + 1 < MaxRetries
  PROVE  n + 1 \in Attempts /\ n + 1 # 0 /\ n + 1 \in 1..(MaxRetries - 1) /\ (n + 1) + 1 \in 0..MaxRetries
  BY DEF Attempts

\* Rows that are due move into a batch, and the first of them is posted.
LEMMA RetriesBeginKeeps ==
  ASSUME WebhooksInv, NEW r \in RetryRuns, NEW h \in on, NEW g \in on,
         NEW i \in DueOf(h), NEW j \in DueOf(g), RetriesBegin(r, h, i, g, j)
  PROVE  WebhooksInv'
  <1>t. WebhooksTypeOK /\ (\A s \in RetryRuns : Len(batch[s]) <= 2) /\ \A p \in Pairs : PairOK(p)
    BY DEF WebhooksInv
  <1>p. PICK one : one = <<h, rows[h][i].event>>
    OBVIOUS
  <1>q. PICK two : two = <<g, rows[g][j].event>>
    OBVIOUS
  <1> USE <1>p, <1>q
  <1> DEFINE both == <<h, i>> # <<g, j>>
  <1>a. /\ batch[r] = << >>
        /\ batch' = [batch EXCEPT ![r] =
             IF <<h, i>> = <<g, j>> THEN <<RetryOf(h, i)>> ELSE <<RetryOf(h, i), RetryOf(g, j)>>]
        /\ rows' = [k \in Hooks |-> [l \in DOMAIN rows[k] |->
             IF <<k, l>> \in {<<h, i>>, <<g, j>>} THEN [rows[k][l] EXCEPT !.due = FALSE] ELSE rows[k][l]]]
        /\ tries' = [tries EXCEPT ![<<batch'[r][1].hook, batch'[r][1].event>>] = @ + 1]
        /\ UNCHANGED <<hooks, on, failures, flying, asked, restarts, fired, received, lost>>
    BY DEF RetriesBegin, TriesBegin, hookVars, boundVars
  <1>h. /\ h \in Hooks /\ i \in 1..Len(rows[h]) /\ rows[h][i].due /\ one \in Pairs
        /\ g \in Hooks /\ j \in 1..Len(rows[g]) /\ rows[g][j].due /\ two \in Pairs
        /\ rows[h][i].attempt \in Nat /\ rows[g][j].attempt \in Nat
        /\ rows[h][i].event \in Events /\ rows[g][j].event \in Events
    BY <1>t, WebhookTypes DEF DueOf, Pairs
  <1>i. InRow(one, i) /\ InRow(two, j) /\ HasRow(one) /\ HasRow(two)
    BY <1>h DEF InRow, HasRow
  \* What was due may be tried again.
  <1>n. /\ tries[one] = rows[h][i].attempt + 1 /\ tries[one] < MaxRetries
        /\ tries[two] = rows[g][j].attempt + 1 /\ tries[two] < MaxRetries
    BY <1>t, <1>h, <1>i DEF PairOK, Counted
  <1>o. both => one # two
    <2> SUFFICES ASSUME both, one = two PROVE FALSE
      OBVIOUS
    <2>1. h = g /\ InRow(one, i) /\ InRow(one, j)
      BY <1>i
    <2>2. i = j
      BY <1>t, <1>h, <2>1 DEF PairOK, InOnePlace
    <2>3. QED BY <2>1, <2>2
  <1>r. /\ RetryOf(h, i).hook = h /\ RetryOf(h, i).event = rows[h][i].event
        /\ RetryOf(h, i).attempt = rows[h][i].attempt + 1 /\ RetryOf(h, i) \in Retries
        /\ RetryOf(g, j).hook = g /\ RetryOf(g, j).event = rows[g][j].event
        /\ RetryOf(g, j).attempt = rows[g][j].attempt + 1 /\ RetryOf(g, j) \in Retries
    <2>1. rows[h][i].attempt + 1 \in Attempts /\ rows[g][j].attempt + 1 \in Attempts
      BY <1>h, <1>n, OneMoreTry, Zenon
    <2>2. QED BY <1>h, <2>1 DEF RetryOf, Retries
  <1>b. /\ batch' \in [RetryRuns -> Seq(Retries)]
        /\ \A s \in RetryRuns \ {r} : batch'[s] = batch[s]
        /\ ~both => batch'[r] = <<RetryOf(h, i)>>
        /\ both => batch'[r] = <<RetryOf(h, i), RetryOf(g, j)>>
    <2>1. /\ <<RetryOf(h, i)>> \in Seq(Retries) /\ <<RetryOf(h, i), RetryOf(g, j)>> \in Seq(Retries)
          /\ batch \in [RetryRuns -> Seq(Retries)]
      BY <1>r, <1>t, ShortSeqs DEF WebhooksTypeOK
    <2>2. CASE both
      <3>1. batch' = [batch EXCEPT ![r] = <<RetryOf(h, i), RetryOf(g, j)>>]
        BY <1>a, <2>2
      <3>2. QED BY <2>1, <2>2, <3>1
    <2>3. CASE ~both
      <3>1. batch' = [batch EXCEPT ![r] = <<RetryOf(h, i)>>]
        BY <1>a, <2>3
      <3>2. QED BY <2>1, <2>3, <3>1
    <2>4. QED BY <2>2, <2>3
  <1>c. /\ 1 \in 1..Len(batch'[r]) /\ batch'[r][1] = RetryOf(h, i)
        /\ both => 2 \in 1..Len(batch'[r]) /\ batch'[r][2] = RetryOf(g, j)
        /\ \A k \in 1..Len(batch'[r]) : k = 1 \/ (k = 2 /\ both)
        /\ Len(batch'[r]) <= 2
    <2>1. CASE both
      <3>1. batch'[r] = <<RetryOf(h, i), RetryOf(g, j)>>
        BY <1>b, <2>1
      <3>2. /\ Len(batch'[r]) = 2 /\ batch'[r][1] = RetryOf(h, i) /\ batch'[r][2] = RetryOf(g, j)
        BY <3>1
      <3>3. QED BY <2>1, <3>2
    <2>2. CASE ~both
      <3>1. batch'[r] = <<RetryOf(h, i)>>
        BY <1>b, <2>2
      <3>2. /\ Len(batch'[r]) = 1 /\ batch'[r][1] = RetryOf(h, i)
        BY <3>1
      <3>3. QED BY <2>2, <3>2
    <2>3. QED BY <2>1, <2>2
  <1>d. \A k \in Hooks :
          /\ rows'[k] \in Seq(Rows) /\ Len(rows'[k]) = Len(rows[k])
          /\ \A l \in 1..Len(rows[k]) :
               /\ rows'[k][l].event = rows[k][l].event /\ rows'[k][l].attempt = rows[k][l].attempt
               /\ rows'[k][l].due <=> rows[k][l].due /\ <<k, l>> # <<h, i>> /\ <<k, l>> # <<g, j>>
    <2> TAKE k \in Hooks
    <2>1. rows[k] \in Seq(Rows) /\ Len(rows[k]) \in Nat /\ DOMAIN rows[k] = 1..Len(rows[k])
      BY <1>t, WebhookTypes, LenProperties
    <2>2. rows'[k] = [l \in 1..Len(rows[k]) |->
             IF <<k, l>> \in {<<h, i>>, <<g, j>>} THEN [rows[k][l] EXCEPT !.due = FALSE] ELSE rows[k][l]]
      BY <1>a, <2>1
    <2>3. \A l \in 1..Len(rows[k]) : rows[k][l] \in Rows /\ [rows[k][l] EXCEPT !.due = FALSE] \in Rows
      BY <1>t, WebhookTypes DEF Rows
    <2>4. rows'[k] \in [1..Len(rows[k]) -> Rows]
      BY <2>2, <2>3
    <2>5. rows'[k] \in Seq(Rows) /\ Len(rows'[k]) = Len(rows[k])
      BY <2>1, <2>4, FunctionIsSeq
    <2>6. ASSUME NEW l \in 1..Len(rows[k])
          PROVE  /\ rows'[k][l].event = rows[k][l].event /\ rows'[k][l].attempt = rows[k][l].attempt
                 /\ rows'[k][l].due <=> rows[k][l].due /\ <<k, l>> # <<h, i>> /\ <<k, l>> # <<g, j>>
      <3>1. CASE <<k, l>> \in {<<h, i>>, <<g, j>>}
        <4>1. rows'[k][l] = [rows[k][l] EXCEPT !.due = FALSE]
          BY <2>2, <3>1
        <4>2. /\ rows'[k][l].event = rows[k][l].event /\ rows'[k][l].attempt = rows[k][l].attempt
              /\ rows'[k][l].due = FALSE
          BY <2>3, <4>1 DEF Rows
        <4>3. QED BY <3>1, <4>2
      <3>2. CASE <<k, l>> \notin {<<h, i>>, <<g, j>>}
        BY <2>2, <3>2
      <3>3. QED BY <3>1, <3>2
    <2>7. QED BY <2>5, <2>6
  <1>e. /\ \A p \in Pairs : tries'[p] = IF p = one THEN tries[p] + 1 ELSE tries[p]
        /\ tries' \in [Pairs -> Nat]
    <2>1. <<batch'[r][1].hook, batch'[r][1].event>> = one
      BY <1>c, <1>r
    <2>2. tries' = [tries EXCEPT ![one] = @ + 1] /\ tries \in [Pairs -> Nat]
      BY <1>a, <1>t, <2>1 DEF WebhooksTypeOK
    <2>3. one \in Pairs
      BY <1>h
    <2> HIDE <1>p, <1>q
    <2>4. tries' \in [Pairs -> Nat]
      BY <2>2, <2>3
    <2>5. ASSUME NEW p \in Pairs PROVE tries'[p] = IF p = one THEN tries[p] + 1 ELSE tries[p]
      BY <2>2, <2>3
    <2>6. QED BY <2>4, <2>5, Zenon
  <1>f. \A p \in Pairs : \A l \in Nat :
          l \in DueOf(p[1])' /\ InRow(p, l)' <=> l \in DueOf(p[1]) /\ InRow(p, l) /\ p # one /\ p # two
    <2> SUFFICES ASSUME NEW p \in Pairs, NEW l \in Nat
                 PROVE  l \in DueOf(p[1])' /\ InRow(p, l)' <=>
                          l \in DueOf(p[1]) /\ InRow(p, l) /\ p # one /\ p # two
      OBVIOUS
    <2>t. p[1] \in Hooks /\ p = <<p[1], p[2]>> /\ InOnePlace(p)
      BY <1>t DEF Pairs, PairOK
    <2>1. l \in DueOf(p[1])' /\ InRow(p, l)' <=>
            l \in DueOf(p[1]) /\ InRow(p, l) /\ <<p[1], l>> # <<h, i>> /\ <<p[1], l>> # <<g, j>>
      <3>1. /\ Len(rows'[p[1]]) = Len(rows[p[1]])
            /\ l \in 1..Len(rows[p[1]]) =>
                 /\ rows'[p[1]][l].event = rows[p[1]][l].event
                 /\ rows'[p[1]][l].due <=> rows[p[1]][l].due /\ <<p[1], l>> # <<h, i>> /\ <<p[1], l>> # <<g, j>>
        BY <1>d, <2>t
      <3>2. l \in DueOf(p[1])' <=> l \in 1..Len(rows[p[1]]) /\ rows'[p[1]][l].due
        BY <3>1 DEF DueOf
      <3>3. l \in DueOf(p[1]) <=> l \in 1..Len(rows[p[1]]) /\ rows[p[1]][l].due
        BY DEF DueOf
      <3>4. QED BY <3>1, <3>2, <3>3 DEF InRow
    <2>2. l \in DueOf(p[1]) /\ InRow(p, l) => (<<p[1], l>> = <<h, i>> <=> p = one)
      <3>1. l \in DueOf(p[1]) /\ InRow(p, l) /\ <<p[1], l>> = <<h, i>> => p = one
        BY <2>t DEF InRow
      <3>2. ASSUME l \in DueOf(p[1]), InRow(p, l), p = one PROVE l = i /\ p[1] = h
        <4>1. p[1] = h /\ i \in DueOf(p[1]) /\ InRow(p, i)
          BY <1>i, <3>2
        <4>2. QED BY <2>t, <3>2, <4>1 DEF InOnePlace
      <3>3. QED BY <3>1, <3>2
    <2>3. l \in DueOf(p[1]) /\ InRow(p, l) => (<<p[1], l>> = <<g, j>> <=> p = two)
      <3>1. l \in DueOf(p[1]) /\ InRow(p, l) /\ <<p[1], l>> = <<g, j>> => p = two
        BY <2>t DEF InRow
      <3>2. ASSUME l \in DueOf(p[1]), InRow(p, l), p = two PROVE l = j /\ p[1] = g
        <4>1. p[1] = g /\ j \in DueOf(p[1]) /\ InRow(p, j)
          BY <1>i, <3>2
        <4>2. QED BY <2>t, <3>2, <4>1 DEF InOnePlace
      <3>3. QED BY <3>1, <3>2
    <2>4. QED BY <2>1, <2>2, <2>3
  <1>g. \A p \in Pairs : \A s \in RetryRuns : \A k \in 1..Len(batch'[s]) : InBatch(p, s, k)' =>
          \/ s = r /\ k = 1 /\ p = one
          \/ s = r /\ k = 2 /\ p = two /\ both
          \/ s # r /\ k \in 1..Len(batch[s]) /\ InBatch(p, s, k) /\ batch'[s][k] = batch[s][k]
    <2> SUFFICES ASSUME NEW p \in Pairs, NEW s \in RetryRuns, NEW k \in 1..Len(batch'[s]), InBatch(p, s, k)'
                 PROVE  \/ s = r /\ k = 1 /\ p = one
                        \/ s = r /\ k = 2 /\ p = two /\ both
                        \/ s # r /\ k \in 1..Len(batch[s]) /\ InBatch(p, s, k) /\ batch'[s][k] = batch[s][k]
      OBVIOUS
    <2>t. p = <<p[1], p[2]>> /\ p[1] = batch'[s][k].hook /\ p[2] = batch'[s][k].event
      BY DEF Pairs, InBatch
    <2>1. CASE s # r
      BY <1>b, <2>1 DEF InBatch
    <2>2. CASE s = r /\ k = 1
      BY <1>c, <1>r, <2>t, <2>2
    <2>3. CASE s = r /\ k = 2 /\ both
      BY <1>c, <1>r, <2>t, <2>3
    <2>4. QED BY <1>c, <2>1, <2>2, <2>3
  <1>j. \A p \in Pairs : \A s \in RetryRuns : \A k \in 1..Len(batch[s]) : InBatch(p, s, k) =>
          k \in 1..Len(batch'[s]) /\ InBatch(p, s, k)'
    BY <1>a, <1>b DEF InBatch
  <1>k. /\ InBatch(one, r, 1)' /\ HasRetry(one)'
        /\ both => InBatch(two, r, 2)' /\ HasRetry(two)'
    BY <1>c, <1>h, <1>r DEF InBatch, HasRetry
  <1>1. WebhooksTypeOK' /\ \A s \in RetryRuns : Len(batch'[s]) <= 2
    <2>1. rows' \in [Hooks -> Seq(Rows)]
      BY <1>a, <1>d
    <2>2. tries' \in [Pairs -> Nat]
      BY <1>e
    <2>3. QED BY <1>a, <1>b, <1>c, <1>t, <2>1, <2>2 DEF WebhooksTypeOK
  <1>2. ASSUME NEW p \in Pairs PROVE PairOK(p)'
    <2>t. /\ PairOK(p) /\ Counted(p) /\ InOnePlace(p) /\ Remembered(p) /\ tries[p] \in 0..MaxRetries
          /\ p[1] \in Hooks
      BY <1>t DEF PairOK, Counted, Pairs
    <2> DEFINE mine == p = one \/ p = two
    <2>1. /\ \A a \in Attempts : InAir(p, a)' <=> InAir(p, a)
          /\ HasFlight(p)' <=> HasFlight(p)
      BY <1>a DEF InAir, HasFlight
    <2>2. mine => /\ HasRow(p) /\ ~HasFlight(p) /\ ~HasRetry(p) /\ p[2] \in fired
                  /\ HasRetry(p)' /\ ~HasRow(p)'
      <3>1. mine => HasRow(p) /\ ~HasFlight(p) /\ ~HasRetry(p)
        BY <1>i, <2>t DEF InOnePlace
      <3>2. mine => p[2] \in fired
        <4>1. mine => tries[p] # 0
          BY <1>h, <1>n, OneMoreTry, Zenon
        <4>2. QED BY <2>t, <4>1 DEF Counted
      <3>3. mine => HasRetry(p)'
        BY <1>k
      <3>4. DueOf(p[1])' \subseteq Nat
        BY <1>d, <2>t DEF DueOf
      <3>5. mine => ~HasRow(p)'
        BY <1>f, <3>4 DEF HasRow
      <3>6. QED BY <3>1, <3>2, <3>3, <3>5
    <2>3. /\ DueOf(p[1])' \subseteq Nat /\ DueOf(p[1]) \subseteq Nat
          /\ \A l \in DueOf(p[1])' : InRow(p, l)' =>
               l \in DueOf(p[1]) /\ InRow(p, l) /\ ~mine /\ rows'[p[1]][l].attempt = rows[p[1]][l].attempt
          /\ ~mine => \A l \in DueOf(p[1]) : InRow(p, l) => l \in DueOf(p[1])' /\ InRow(p, l)'
      <3>1. DueOf(p[1])' \subseteq Nat /\ DueOf(p[1]) \subseteq 1..Len(rows[p[1]]) /\ DueOf(p[1]) \subseteq Nat
        BY <1>d, <2>t DEF DueOf
      <3>2. \A l \in Nat :
              l \in DueOf(p[1])' /\ InRow(p, l)' <=> l \in DueOf(p[1]) /\ InRow(p, l) /\ p # one /\ p # two
        BY <1>f, Zenon
      <3>3. \A l \in 1..Len(rows[p[1]]) : rows'[p[1]][l].attempt = rows[p[1]][l].attempt
        BY <1>d, <2>t, Zenon
      <3>4. \A l \in DueOf(p[1])' : InRow(p, l)' => l \in DueOf(p[1]) /\ InRow(p, l) /\ ~mine
        BY <3>1, <3>2
      <3>5. ~mine => \A l \in DueOf(p[1]) : InRow(p, l) => l \in DueOf(p[1])' /\ InRow(p, l)'
        BY <3>1, <3>2
      <3>6. \A l \in DueOf(p[1])' : InRow(p, l)' => rows'[p[1]][l].attempt = rows[p[1]][l].attempt
        BY <3>1, <3>3, <3>4
      <3>7. QED BY <3>1, <3>4, <3>5, <3>6, Zenon
    <2>4. \A s \in RetryRuns : \A k \in 1..Len(batch'[s]) : InBatch(p, s, k)' =>
            /\ batch'[s][k].attempt \in 1..(MaxRetries - 1)
            /\ tries'[p] = batch'[s][k].attempt + (IF k = 1 THEN 1 ELSE 0)
      <3> SUFFICES ASSUME NEW s \in RetryRuns, NEW k \in 1..Len(batch'[s]), InBatch(p, s, k)'
                   PROVE  /\ batch'[s][k].attempt \in 1..(MaxRetries - 1)
                          /\ tries'[p] = batch'[s][k].attempt + (IF k = 1 THEN 1 ELSE 0)
        OBVIOUS
      <3>1. CASE s = r /\ k = 1 /\ p = one
        <4>1. tries'[p] = tries[p] + 1 /\ batch'[s][k].attempt = rows[h][i].attempt + 1
          BY <1>c, <1>e, <1>r, <3>1
        <4>2. rows[h][i].attempt + 1 \in 1..(MaxRetries - 1)
          BY <1>h, <1>n, OneMoreTry, Zenon
        <4>3. tries'[p] = batch'[s][k].attempt + 1
          BY <1>n, <3>1, <4>1, Zenon
        <4>4. QED BY <3>1, <4>1, <4>2, <4>3, Zenon
      <3>2. CASE s = r /\ k = 2 /\ p = two /\ both
        <4>1. tries'[p] = tries[p] /\ batch'[s][k].attempt = rows[g][j].attempt + 1
          BY <1>c, <1>e, <1>o, <1>r, <3>2
        <4>2. rows[g][j].attempt + 1 \in 1..(MaxRetries - 1)
          BY <1>h, <1>n, OneMoreTry, Zenon
        <4>3. tries'[p] = batch'[s][k].attempt /\ batch'[s][k].attempt \in Nat /\ k # 1
          BY <1>n, <3>2, <4>1, <4>2
        <4>4. QED BY <4>1, <4>2, <4>3
      <3>3. CASE s # r /\ k \in 1..Len(batch[s]) /\ InBatch(p, s, k) /\ batch'[s][k] = batch[s][k]
        <4>1. ~mine
          BY <2>2, <3>3 DEF HasRetry
        <4>2. tries'[p] = tries[p]
          BY <1>e, <4>1
        <4>3. QED BY <2>t, <3>3, <4>2 DEF Counted
      <3>4. QED BY <1>g, <3>1, <3>2, <3>3
    <2>5. Counted(p)'
      <3>1. tries'[p] \in 0..MaxRetries /\ (p[2] \notin fired' => tries'[p] = 0)
        <4>1. p = one => tries'[p] = (rows[h][i].attempt + 1) + 1 /\ p[2] \in fired
          BY <1>e, <1>n, <2>2, Zenon
        <4>2. (rows[h][i].attempt + 1) + 1 \in 0..MaxRetries
          BY <1>h, <1>n, OneMoreTry, Zenon
        <4>3. CASE p = one
          BY <1>a, <4>1, <4>2, <4>3, Zenon
        <4>4. CASE p # one
          <5>1. tries'[p] = tries[p] /\ fired' = fired
            BY <1>a, <1>e, <4>4, Zenon
          <5>2. QED BY <2>t, <5>1 DEF Counted
        <4>5. QED BY <4>3, <4>4
      <3>2. \A a \in Attempts : InAir(p, a)' => tries'[p] = a + 1
        <4>1. ASSUME NEW a \in Attempts, InAir(p, a)' PROVE tries'[p] = a + 1
          <5>1. InAir(p, a) /\ HasFlight(p)
            BY <2>1, <4>1 DEF HasFlight
          <5>2. QED BY <1>e, <2>t, <2>2, <5>1 DEF Counted
        <4>2. QED BY <4>1
      <3>3. \A l \in DueOf(p[1])' : InRow(p, l)' => tries'[p] = rows'[p[1]][l].attempt + 1 /\ tries'[p] < MaxRetries
        BY <1>e, <2>t, <2>3 DEF Counted
      <3>4. QED BY <2>4, <3>1, <3>2, <3>3 DEF Counted
    <2>6. InOnePlace(p)'
      <3>1. \A l, m \in DueOf(p[1])' : InRow(p, l)' /\ InRow(p, m)' => l = m
        BY <2>t, <2>3 DEF InOnePlace
      <3>2. ASSUME NEW s \in RetryRuns, NEW k \in 1..Len(batch'[s]), InBatch(p, s, k)',
                   NEW q \in RetryRuns, NEW m \in 1..Len(batch'[q]), InBatch(p, q, m)'
            PROVE  s = q /\ k = m
        <4>1. CASE mine
          <5>1. s = r /\ q = r
            BY <1>g, <2>2, <3>2, <4>1 DEF HasRetry
          <5>2. QED BY <1>g, <1>o, <3>2, <5>1
        <4>2. CASE ~mine
          <5>1. /\ k \in 1..Len(batch[s]) /\ InBatch(p, s, k)
                /\ m \in 1..Len(batch[q]) /\ InBatch(p, q, m)
            BY <1>g, <3>2, <4>2
          <5>2. QED BY <2>t, <5>1 DEF InOnePlace
        <4>3. QED BY <4>1, <4>2
      <3>3. ~mine => (HasRetry(p)' => HasRetry(p))
        BY <1>g DEF HasRetry
      <3>4. HasRow(p)' => HasRow(p)
        BY <2>3 DEF HasRow
      <3>5. ~(HasRow(p) /\ HasFlight(p))' /\ ~(HasRow(p) /\ HasRetry(p))' /\ ~(HasFlight(p) /\ HasRetry(p))'
        BY <2>t, <2>1, <2>2, <3>3, <3>4 DEF InOnePlace
      <3>6. QED BY <3>1, <3>2, <3>5 DEF InOnePlace
    <2>7. Remembered(p)'
      <3>1. CASE mine
        BY <2>2, <3>1 DEF Remembered, Waiting
      <3>2. CASE ~mine
        <4>1. /\ HasRow(p) => HasRow(p)'
              /\ HasRetry(p) => HasRetry(p)'
              /\ tries'[p] = tries[p]
          BY <1>e, <1>j, <2>3, <3>2 DEF HasRow, HasRetry
        <4>2. QED BY <1>a, <2>t, <2>1, <4>1 DEF Remembered, Waiting
      <3>3. QED BY <3>1, <3>2
    <2>8. QED BY <2>5, <2>6, <2>7 DEF PairOK
  <1>3. QED BY <1>1, <1>2 DEF WebhooksInv

\* The same for the action.
LEMMA RetryEndsStep ==
  ASSUME WebhooksInv, NEW r \in RetryRuns, NEW ok \in BOOLEAN, RetryEnds(r, ok)
  PROVE  WebhooksInv'
  <1>t. WebhooksTypeOK /\ batch[r] # << >> /\ batch[r] \in Seq(Retries)
    BY DEF WebhooksInv, WebhooksTypeOK, RetryEnds
  <1>1. Head(batch[r]) \in Retries /\ Head(batch[r]) = batch[r][1]
    BY <1>t, HeadTailProperties
  <1>2. PICK h \in Hooks, e \in Events, attempt \in Attempts :
          Head(batch[r]) = [hook |-> h, event |-> e, attempt |-> attempt]
    BY <1>1 DEF Retries
  <1>3. PICK auto \in BOOLEAN : auto = TRUE
    OBVIOUS
  <1>4. Head(batch[r]).hook = h /\ Head(batch[r]).event = e /\ Head(batch[r]).attempt = attempt
    BY <1>2
  <1>5. /\ Record(h, e, attempt, auto, ok)
        /\ received' = IF ok THEN received \cup {<<h, e>>} ELSE received
    BY <1>3, <1>4, Zenon DEF RetryEnds, Receive
  <1>6. /\ batch' = [batch EXCEPT ![r] = Tail(@)]
        /\ IF batch'[r] # << >> THEN TriesBegin(r) ELSE UNCHANGED tries
        /\ UNCHANGED <<flying, asked, restarts, fired>>
    BY Zenon DEF RetryEnds, boundVars
  <1>7. RetryOver(r, h, e, attempt, auto, ok)
    <2>1. batch[r][1] = [hook |-> h, event |-> e, attempt |-> attempt]
      BY <1>1, <1>2
    <2>2. QED BY <1>t, <1>3, <1>5, <1>6, <2>1, Zenon DEF RetryOver
  <1>8. QED BY <1>7, RetryEndsKeeps, Zenon

\* A first delivery, or one asked for by hand, is answered.
LEMMA AnswerStep ==
  ASSUME WebhooksInv, NEW f \in flying, NEW ok \in BOOLEAN, Answer(f, ok)
  PROVE  WebhooksInv'
  <1>1. PICK h \in Hooks, e \in Events, attempt \in Attempts, auto \in BOOLEAN :
          f = [hook |-> h, event |-> e, attempt |-> attempt, auto |-> auto]
    BY DEF WebhooksInv, WebhooksTypeOK, Flights
  <1>2. f.hook = h /\ f.event = e /\ f.attempt = attempt /\ f.auto = auto
    BY <1>1
  <1>3. /\ Record(h, e, attempt, auto, ok) /\ flying' = flying \ {f}
        /\ received' = IF ok THEN received \cup {<<h, e>>} ELSE received
        /\ UNCHANGED <<batch, asked, restarts, fired, tries>>
    BY <1>2, Zenon DEF Answer, Receive, boundVars
  <1>4. QED BY <1>1, <1>3, AnswerKeeps, Zenon

\* Every step keeps the invariant.
LEMMA WebhooksStep == WebhooksInv /\ [WebhooksNext]_webhookVars => WebhooksInv'
  <1> SUFFICES ASSUME WebhooksInv, [WebhooksNext]_webhookVars PROVE WebhooksInv'
    OBVIOUS
  <1>1. CASE \E e \in Events : Fire(e)
    BY <1>1, FireKeeps
  <1>2. CASE \E h \in Hooks : \/ Toggle(h) \/ ResetCircuit(h) \/ DeleteHook(h)
                             \/ \E i \in 1..Len(rows[h]) : RetryByHand(h, i)
    BY <1>2, OperatorKeeps
  <1>3. CASE \E f \in flying, ok \in BOOLEAN : Answer(f, ok)
    BY <1>3, AnswerStep, Zenon
  <1>4. CASE \E r \in RetryRuns : RetriesBeginAny(r)
    BY <1>4, RetriesBeginKeeps DEF RetriesBeginAny
  <1>5. CASE \E r \in RetryRuns : \E ok \in BOOLEAN : RetryEnds(r, ok)
    BY <1>5, RetryEndsStep, Zenon
  <1>6. CASE ServerRestart
    BY <1>6, RestartKeeps
  <1>7. CASE UNCHANGED webhookVars
    <2>1. UNCHANGED <<hooks, on, failures, rows, flying, batch, asked, restarts, fired, tries, received, lost>>
      BY <1>7 DEF webhookVars, hookVars, boundVars
    <2>2. WebhooksTypeOK'
      BY <2>1 DEF WebhooksInv, WebhooksTypeOK
    <2>3. ASSUME NEW p \in Pairs PROVE PairOK(p)'
      BY <2>1, SamePairOK DEF WebhooksInv, InAir
    <2>4. QED BY <2>1, <2>2, <2>3 DEF WebhooksInv
  <1>8. QED BY <1>1, <1>2, <1>3, <1>4, <1>5, <1>6, <1>7, Zenon DEF WebhooksNext

\* At first nothing has been fired.
LEMMA WebhooksStart == WebhooksInit => WebhooksInv
  <1> SUFFICES ASSUME WebhooksInit PROVE WebhooksInv
    OBVIOUS
  <1>1. /\ rows = [h \in Hooks |-> << >>] /\ flying = {} /\ batch = [r \in RetryRuns |-> << >>]
        /\ tries = [p \in Pairs |-> 0]
    BY DEF WebhooksInit
  <1>2. WebhooksTypeOK
    BY DEF WebhooksInit, WebhooksTypeOK
  <1>3. ASSUME NEW p \in Pairs PROVE PairOK(p)
    <2>1. tries[p] = 0 /\ DueOf(p[1]) = {} /\ \A r \in RetryRuns : 1..Len(batch[r]) = {}
      BY <1>1 DEF DueOf, Pairs
    <2>2. \A a \in Attempts : ~InAir(p, a)
      BY <1>1 DEF InAir
    <2>3. Counted(p)
      BY <2>1, <2>2 DEF Counted
    <2>4. InOnePlace(p)
      BY <2>1, <2>2 DEF InOnePlace, HasRow, HasFlight, HasRetry
    <2>5. Remembered(p)
      BY <2>1 DEF Remembered
    <2>6. QED BY <2>3, <2>4, <2>5 DEF PairOK
  <1>4. \A r \in RetryRuns : Len(batch[r]) <= 2
    BY <1>1
  <1>5. QED BY <1>2, <1>3, <1>4 DEF WebhooksInv

-----------------------------------------------------------------------------
(* Theorems *)

\* However scheduled and manual runs of the retries overlap, whatever is toggled,
\* deleted or restarted meanwhile: nobody is posted an event more than MaxRetries
\* times, but for what operators ask for.
THEOREM TriesStayBounded == WebhooksSpec => []TriesAreBounded
  <1>1. WebhooksInv => TriesAreBounded
    BY DEF WebhooksInv, PairOK, Counted, TriesAreBounded
  <1>2. QED BY <1>1, WebhooksStart, WebhooksStep, PTL DEF WebhooksSpec

\* What was fired at a hook has been received, or was posted MaxRetries times, or
\* waits to be posted again, unless its hook was deleted, a restart cut it off or
\* pruning took its row.
THEOREM EventsStayRemembered == WebhooksSpec => []EventsAreNotForgotten
  <1>1. WebhooksInv => EventsAreNotForgotten
    BY DEF WebhooksInv, PairOK, EventsAreNotForgotten
  <1>2. QED BY <1>1, WebhooksStart, WebhooksStep, PTL DEF WebhooksSpec
=============================================================================
