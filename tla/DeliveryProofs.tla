--------------------------- MODULE DeliveryProofs ---------------------------
(***************************************************************************)
(* The client: its copy of the board catches up.  Scheduler: a task runs   *)
(* once at a time, and not too soon.  Rate limiter: bursts are bounded.    *)
(* Notifications: repeats are bounded.  And the types of all components    *)
(* that MCDelivery puts side by side.                                      *)
(***************************************************************************)
EXTENDS MCDelivery, WebhooksProofs, FiniteSetTheorems, SequenceTheorems,
  WellFoundedInduction, TLAPS

-----------------------------------------------------------------------------
(* Numbers *)

\* A set of naturals that is not empty has a least element.
LEMMA LeastExists ==
  ASSUME NEW S \in SUBSET Nat, S # {}
  PROVE  \E n \in S : \A m \in S : n <= m
  <1>1. PICK n \in S : \A m \in S : ~(<<m, n>> \in OpToRel(<, Nat))
    BY NatLessThanWellFounded, WFMin
  <1>2. \A m \in S : ~(m < n)
    BY <1>1 DEF OpToRel
  <1>3. QED BY <1>2

-----------------------------------------------------------------------------
(* The client: what leads a copy where *)

\* An event at a position.
LEMMA EventTypes ==
  ASSUME NEW w \in Seq(EventsSet), NEW n \in 1..Len(w)
  PROVE  /\ w[n] \in EventsSet /\ w[n].id \in Cards
         /\ w[n].kind \in {"created", "status", "deleted"}
         /\ w[n].kind # "deleted" => w[n].column \in Columns
  <1>1. w[n] \in EventsSet
    BY ElementOfSeq
  <1>2. QED BY <1>1 DEF EventsSet

\* Without the first event, positions are one less.
LEMMA LeadsShifted ==
  ASSUME NEW w \in Seq(EventsSet), w # << >>, NEW i, NEW X, NEW s,
         NEW lo \in 1..Len(w), NEW hi \in 0..Len(w), lo <= hi + 1
  PROVE  /\ Gone(Tail(w), i, X, lo, hi - 1) <=> Gone(w, i, X, lo + 1, hi)
         /\ Leads(Tail(w), i, X, s, lo, hi - 1) <=> Leads(w, i, X, s, lo + 1, hi)
  <1>1. Len(Tail(w)) = Len(w) - 1 /\ \A n \in 1..(Len(w) - 1) : Tail(w)[n] = w[n + 1]
    BY HeadTailProperties
  <1>2. hi \in Nat /\ Len(w) \in Nat /\ hi <= Len(w)
    OBVIOUS
  <1>3. ASSUME NEW k, NEW l \in 1..(Len(w) + 1)
        PROVE  Has(Tail(w), k, i, l, hi - 1) <=> Has(w, k, i, l + 1, hi)
    <2>1. ASSUME NEW n \in l..(hi - 1) PROVE n + 1 \in (l + 1)..hi /\ Tail(w)[n] = w[n + 1]
      BY <1>1, <1>2
    <2>2. ASSUME NEW n \in (l + 1)..hi PROVE n - 1 \in l..(hi - 1) /\ Tail(w)[n - 1] = w[n]
      <3>1. n - 1 \in 1..(Len(w) - 1) /\ (n - 1) + 1 = n /\ n - 1 \in l..(hi - 1)
        BY <1>2
      <3>2. QED BY <1>1, <3>1
    <2>3. QED BY <2>1, <2>2 DEF Has
  <1>4. Gone(Tail(w), i, X, lo, hi - 1) <=> Gone(w, i, X, lo + 1, hi)
    BY <1>3 DEF Gone
  <1>5. ASSUME NEW n \in lo..(hi - 1)
        PROVE  /\ n + 1 \in (lo + 1)..hi /\ Tail(w)[n] = w[n + 1]
               /\ Has(Tail(w), "status", i, n + 1, hi - 1) <=> Has(w, "status", i, (n + 1) + 1, hi)
    BY <1>1, <1>2, <1>3
  <1>6. ASSUME NEW n \in (lo + 1)..hi
        PROVE  \E m \in lo..(hi - 1) : n = m + 1
    <2>1. n - 1 \in lo..(hi - 1) /\ n = (n - 1) + 1
      BY <1>2
    <2>2. QED BY <2>1
  <1>7. Has(Tail(w), "status", i, lo, hi - 1) <=> Has(w, "status", i, lo + 1, hi)
    BY <1>3
  <1>8. (\E n \in lo..(hi - 1) : /\ Tail(w)[n].kind = "status" /\ Tail(w)[n].id = i
                                /\ Tail(w)[n].column = s /\ ~Has(Tail(w), "status", i, n + 1, hi - 1))
          <=> \E n \in (lo + 1)..hi : /\ w[n].kind = "status" /\ w[n].id = i
                                      /\ w[n].column = s /\ ~Has(w, "status", i, n + 1, hi)
    <2>1. ASSUME NEW n \in lo..(hi - 1),
                 Tail(w)[n].kind = "status" /\ Tail(w)[n].id = i /\ Tail(w)[n].column = s,
                 ~Has(Tail(w), "status", i, n + 1, hi - 1)
          PROVE  \E m \in (lo + 1)..hi : /\ w[m].kind = "status" /\ w[m].id = i
                                         /\ w[m].column = s /\ ~Has(w, "status", i, m + 1, hi)
      <3>1. /\ n + 1 \in (lo + 1)..hi /\ Tail(w)[n] = w[n + 1]
            /\ Has(Tail(w), "status", i, n + 1, hi - 1) <=> Has(w, "status", i, (n + 1) + 1, hi)
        BY <1>5
      <3>2. QED BY <2>1, <3>1, Zenon
    <2>2. ASSUME NEW m \in (lo + 1)..hi,
                 w[m].kind = "status" /\ w[m].id = i /\ w[m].column = s,
                 ~Has(w, "status", i, m + 1, hi)
          PROVE  \E n \in lo..(hi - 1) :
                   /\ Tail(w)[n].kind = "status" /\ Tail(w)[n].id = i
                   /\ Tail(w)[n].column = s /\ ~Has(Tail(w), "status", i, n + 1, hi - 1)
      <3>1. PICK n \in lo..(hi - 1) : m = n + 1
        BY <1>6
      <3>2. /\ Tail(w)[n] = w[m]
            /\ Has(Tail(w), "status", i, n + 1, hi - 1) <=> Has(w, "status", i, m + 1, hi)
        BY <1>5, <3>1, Zenon
      <3>3. QED BY <2>2, <3>2, Zenon
    <2>3. QED BY <2>1, <2>2, Zenon
  <1>9. (\A n \in lo..(hi - 1) : Tail(w)[n].kind = "created" /\ Tail(w)[n].id = i => Tail(w)[n].column = s)
          <=> \A n \in (lo + 1)..hi : w[n].kind = "created" /\ w[n].id = i => w[n].column = s
    BY <1>5, <1>6
  <1>10. QED BY <1>4, <1>7, <1>8, <1>9 DEF Leads

\* What is appended does not change what was there.
LEMMA LeadsBefore ==
  ASSUME NEW w \in Seq(EventsSet), NEW e \in EventsSet, NEW i, NEW X, NEW s,
         NEW lo \in Nat \ {0}, NEW hi \in 0..Len(w)
  PROVE  Leads(Append(w, e), i, X, s, lo, hi) <=> Leads(w, i, X, s, lo, hi)
  <1>1. \A n \in 1..Len(w) : Append(w, e)[n] = w[n]
    BY AppendProperties
  <1>2. \A n \in lo..hi : n \in 1..Len(w)
    OBVIOUS
  <1>3. \A k : \A l \in Nat \ {0} : Has(Append(w, e), k, i, l, hi) <=> Has(w, k, i, l, hi)
    BY <1>1 DEF Has
  <1>4. \A n \in lo..hi : n + 1 \in Nat \ {0}
    OBVIOUS
  <1>5. QED BY <1>1, <1>2, <1>3, <1>4 DEF Leads, Gone

\* What is appended and is about another card makes no difference.
LEMMA LeadsAside ==
  ASSUME NEW w \in Seq(EventsSet), NEW e \in EventsSet, NEW i, e.id # i, NEW X, NEW s,
         NEW lo \in 1..(Len(w) + 1)
  PROVE  /\ Gone(Append(w, e), i, X, lo, Len(w) + 1) <=> Gone(w, i, X, lo, Len(w))
         /\ Leads(Append(w, e), i, X, s, lo, Len(w) + 1) <=> Leads(w, i, X, s, lo, Len(w))
  <1>1. \A n \in 1..Len(w) : Append(w, e)[n] = w[n]
    BY AppendProperties
  <1>2. Append(w, e)[Len(w) + 1] = e /\ Len(w) \in Nat
    BY AppendProperties
  <1>3. \A n \in lo..(Len(w) + 1) : (n \in 1..Len(w) /\ n \in lo..Len(w)) \/ n = Len(w) + 1
    BY <1>2
  <1>4. \A n \in lo..Len(w) : n \in 1..Len(w) /\ n \in lo..(Len(w) + 1)
    BY <1>2
  <1>5. ASSUME NEW k, NEW l \in 1..(Len(w) + 2)
        PROVE  Has(Append(w, e), k, i, l, Len(w) + 1) <=> Has(w, k, i, l, Len(w))
    BY <1>1, <1>2 DEF Has
  <1>6. \A n \in lo..(Len(w) + 1) : n + 1 \in 1..(Len(w) + 2)
    BY <1>2
  <1>7. Gone(Append(w, e), i, X, lo, Len(w) + 1) <=> Gone(w, i, X, lo, Len(w))
    BY <1>5 DEF Gone
  <1>8. QED BY <1>1, <1>2, <1>3, <1>4, <1>5, <1>6, <1>7 DEF Leads

\* Events of the card itself lead to what they say, from wherever.
LEMMA LeadsOn ==
  ASSUME NEW w \in Seq(EventsSet), NEW i, NEW X, NEW lo \in 1..(Len(w) + 1), NEW e \in EventsSet,
         e.id = i, "none" \notin X
  PROVE  /\ e.kind = "deleted" => Leads(Append(w, e), i, X, "none", lo, Len(w) + 1)
         /\ e.kind = "status" =>
              /\ Gone(Append(w, e), i, X, lo, Len(w) + 1) <=> Gone(w, i, X, lo, Len(w))
              /\ Leads(Append(w, e), i, X, IF Gone(w, i, X, lo, Len(w)) THEN "none" ELSE e.column,
                       lo, Len(w) + 1)
         /\ /\ e.kind = "created" /\ X \subseteq {e.column}
            /\ \A n \in 1..Len(w) : w[n].id # i
            => Leads(Append(w, e), i, X, e.column, lo, Len(w) + 1)
  <1> DEFINE v == Append(w, e)
  <1> DEFINE z == Len(w) + 1
  <1>1. /\ \A n \in 1..Len(w) : v[n] = w[n]
        /\ v[z] = e /\ Len(w) \in Nat /\ z \in lo..z /\ z \in Nat
    BY AppendProperties
  <1>2. \A n \in lo..z : n = z \/ n \in lo..Len(w)
    BY <1>1
  <1>3. \A n \in lo..Len(w) : n \in lo..z /\ n \in 1..Len(w)
    BY <1>1
  <1>4. e.kind # "deleted" => e.column \in Columns
    BY DEF EventsSet
  <1>5. \A k : ~Has(v, k, i, z + 1, z)
    BY <1>1 DEF Has
  <1> HIDE DEF v
  <1>6. ASSUME NEW k PROVE Has(v, k, i, lo, z) <=> Has(w, k, i, lo, Len(w)) \/ e.kind = k
    BY <1>1, <1>2, <1>3 DEF Has
  <1> HIDE DEF z
  <1>7. ASSUME e.kind = "deleted" PROVE Leads(v, i, X, "none", lo, z)
    BY <1>6, <1>7 DEF Leads, Gone
  <1>8. ASSUME e.kind = "status"
        PROVE  /\ Gone(v, i, X, lo, z) <=> Gone(w, i, X, lo, Len(w))
               /\ Leads(v, i, X, IF Gone(w, i, X, lo, Len(w)) THEN "none" ELSE e.column, lo, z)
    <2>1. Gone(v, i, X, lo, z) <=> Gone(w, i, X, lo, Len(w))
      BY <1>6, <1>8 DEF Gone
    <2>2. QED BY ClientAssumption, <1>1, <1>4, <1>5, <1>8, <2>1 DEF Leads
  <1>9. ASSUME e.kind = "created", X \subseteq {e.column}, \A n \in 1..Len(w) : w[n].id # i
        PROVE  Leads(v, i, X, e.column, lo, z)
    <2>1. \A k : ~Has(w, k, i, lo, Len(w))
      BY <1>3, <1>9 DEF Has
    <2>2. ~Gone(v, i, X, lo, z) /\ ~Has(v, "status", i, lo, z) /\ e.column # "none"
      BY ClientAssumption, <1>4, <1>6, <1>9, <2>1 DEF Gone
    <2>3. \A n \in lo..z : v[n].kind = "created" /\ v[n].id = i => v[n].column = e.column
      BY <1>1, <1>2, <1>3, <1>9
    <2>4. QED BY <1>9, <2>2, <2>3 DEF Leads
  <1>10. QED BY <1>7, <1>8, <1>9 DEF v, z

\* What an event makes of the columns its card is in.
Turned(e, X) ==
  CASE e.kind = "created" -> X \cup {e.column}
    [] e.kind = "status"  -> IF X = {} THEN {} ELSE {e.column}
    [] e.kind = "deleted" -> {}

\* What an event does to a copy of the board, card by card.
LEMMA ApplyTurns ==
  ASSUME NEW e \in EventsSet, NEW v \in Views
  PROVE  /\ Apply(e, v) \in Views
         /\ \A i \in Cards :
              ColumnsOf(i, Apply(e, v)) = IF i = e.id THEN Turned(e, ColumnsOf(i, v)) ELSE ColumnsOf(i, v)
         /\ \A r \in Apply(e, v) : r[1] = e.id \/ r \in v
         /\ e.kind # "created" => \A r \in Apply(e, v) : \E q \in v : q[1] = r[1]
  <1>1. e.kind \in {"created", "status", "deleted"} /\ e.id \in Cards
        /\ (e.kind # "deleted" => e.column \in Columns)
    BY DEF EventsSet
  <1>2. \A r \in v : r \in Cards \X Columns /\ r = <<r[1], r[2]>>
    BY DEF Views
  <1>3. CASE e.kind = "created"
    <2>1. Apply(e, v) = v \cup {<<e.id, e.column>>}
      BY <1>3 DEF Apply
    <2>2. Apply(e, v) \in Views
      BY <1>1, <1>3, <2>1 DEF Views
    <2>3. ASSUME NEW i \in Cards
          PROVE  ColumnsOf(i, Apply(e, v)) = IF i = e.id THEN Turned(e, ColumnsOf(i, v)) ELSE ColumnsOf(i, v)
      BY <1>1, <1>3, <2>1 DEF ColumnsOf, Turned
    <2>4. \A r \in Apply(e, v) : r[1] = e.id \/ r \in v
      BY <2>1
    <2>5. QED BY <1>3, <2>2, <2>3, <2>4, Zenon
  <1>4. CASE e.kind = "status"
    <2>1. Apply(e, v) = {IF r[1] = e.id THEN <<e.id, e.column>> ELSE r : r \in v}
      BY <1>4 DEF Apply
    <2>2. Apply(e, v) \in Views
      BY <1>1, <1>2, <1>4, <2>1 DEF Views
    <2>3. ASSUME NEW i \in Cards, NEW c \in Columns
          PROVE  <<i, c>> \in Apply(e, v) <=>
                   IF i = e.id THEN c = e.column /\ ColumnsOf(i, v) # {} ELSE <<i, c>> \in v
      <3>1. CASE i # e.id
        BY <1>2, <2>1, <3>1
      <3>2. CASE i = e.id
        <4>1. ASSUME <<i, c>> \in Apply(e, v) PROVE c = e.column /\ ColumnsOf(i, v) # {}
          <5>1. PICK r \in v : <<i, c>> = IF r[1] = e.id THEN <<e.id, e.column>> ELSE r
            BY <2>1, <4>1
          <5>2. r[1] = e.id /\ c = e.column
            BY <3>2, <5>1
          <5>3. r[2] \in Columns /\ <<i, r[2]>> \in v
            BY <1>2, <3>2, <5>2
          <5>4. QED BY <5>2, <5>3 DEF ColumnsOf
        <4>2. ASSUME c = e.column, ColumnsOf(i, v) # {} PROVE <<i, c>> \in Apply(e, v)
          <5>1. PICK d \in Columns : <<i, d>> \in v
            BY <4>2 DEF ColumnsOf
          <5>2. <<i, d>>[1] = e.id
            BY <3>2
          <5>3. QED BY <2>1, <3>2, <4>2, <5>1, <5>2
        <4>3. QED BY <3>2, <4>1, <4>2
      <3>3. QED BY <3>1, <3>2
    <2>4. ASSUME NEW i \in Cards
          PROVE  ColumnsOf(i, Apply(e, v)) = IF i = e.id THEN Turned(e, ColumnsOf(i, v)) ELSE ColumnsOf(i, v)
      <3>1. Turned(e, ColumnsOf(i, v)) = IF ColumnsOf(i, v) = {} THEN {} ELSE {e.column}
        BY <1>4 DEF Turned
      <3>2. ColumnsOf(i, Apply(e, v)) = {c \in Columns : <<i, c>> \in Apply(e, v)}
            /\ ColumnsOf(i, v) = {c \in Columns : <<i, c>> \in v}
        BY DEF ColumnsOf
      <3>3. CASE i # e.id
        BY <2>3, <3>2, <3>3
      <3>4. CASE i = e.id
        BY <1>1, <1>4, <2>3, <3>1, <3>2, <3>4
      <3>5. QED BY <3>3, <3>4
    <2>5. ASSUME NEW r \in Apply(e, v) PROVE (r[1] = e.id \/ r \in v) /\ \E q \in v : q[1] = r[1]
      BY <2>1
    <2>6. QED BY <2>2, <2>4, <2>5
  <1>5. CASE e.kind = "deleted"
    <2>1. Apply(e, v) = {r \in v : r[1] # e.id}
      BY <1>5 DEF Apply
    <2>2. Turned(e, ColumnsOf(e.id, v)) = {}
      BY <1>5 DEF Turned
    <2>3. ASSUME NEW i \in Cards
          PROVE  ColumnsOf(i, Apply(e, v)) = IF i = e.id THEN Turned(e, ColumnsOf(i, v)) ELSE ColumnsOf(i, v)
      BY <2>1, <2>2 DEF ColumnsOf
    <2>4. QED BY <2>1, <2>3 DEF Views
  <1>6. QED BY <1>1, <1>3, <1>4, <1>5

\* A card is created before anything else happens to it, and an event is either the
\* first or one of the others.
LEMMA FirstAndRest ==
  ASSUME NEW w \in Seq(EventsSet), CreatedFirst(w), NEW i \in Cards,
         NEW lo \in 1..Len(w), NEW hi \in lo..Len(w)
  PROVE  /\ \A k : Has(w, k, i, lo, hi) <=> (w[lo].kind = k /\ w[lo].id = i) \/ Has(w, k, i, lo + 1, hi)
         /\ w[lo].id = i => ~Has(w, "created", i, lo + 1, hi)
         /\ \A n \in lo..hi : n = lo \/ n \in (lo + 1)..hi
         /\ \A n \in (lo + 1)..hi : n \in lo..hi /\ n # lo
  <1>1. /\ lo \in lo..hi /\ lo \in Nat /\ hi \in Nat
        /\ \A n \in lo..hi : n = lo \/ n \in (lo + 1)..hi
        /\ \A n \in (lo + 1)..hi : n \in lo..hi /\ n # lo /\ lo < n /\ n \in 1..Len(w)
    OBVIOUS
  <1>2. w[lo].id = i => ~Has(w, "created", i, lo + 1, hi)
    BY <1>1 DEF CreatedFirst, Has
  <1>3. \A k : Has(w, k, i, lo, hi) <=> (w[lo].kind = k /\ w[lo].id = i) \/ Has(w, k, i, lo + 1, hi)
    BY <1>1 DEF Has
  <1>4. QED BY <1>1, <1>2, <1>3

\* The first of the events is dispatched.
LEMMA LeadsApplied ==
  ASSUME NEW w \in Seq(EventsSet), CreatedFirst(w), NEW i \in Cards, NEW X, "none" \notin X, NEW s,
         NEW lo \in 1..Len(w), NEW hi \in lo..Len(w)
  PROVE  LET Y == IF w[lo].id = i THEN Turned(w[lo], X) ELSE X
         IN /\ Gone(w, i, X, lo, hi) <=> Gone(w, i, Y, lo + 1, hi)
            /\ Leads(w, i, X, s, lo, hi) => Leads(w, i, Y, s, lo + 1, hi)
  <1> DEFINE e == w[lo]
  <1> DEFINE Y == IF e.id = i THEN Turned(e, X) ELSE X
  <1>1. e.kind \in {"created", "status", "deleted"} /\ (e.kind # "deleted" => e.column # "none")
    BY ClientAssumption, EventTypes
  <1>2. /\ \A k : Has(w, k, i, lo, hi) <=> (e.kind = k /\ e.id = i) \/ Has(w, k, i, lo + 1, hi)
        /\ e.id = i => ~Has(w, "created", i, lo + 1, hi)
        /\ \A n \in lo..hi : n = lo \/ n \in (lo + 1)..hi
        /\ \A n \in (lo + 1)..hi : n \in lo..hi /\ n # lo
    BY FirstAndRest
  <1> HIDE DEF e
  <1>3. Gone(w, i, X, lo, hi) <=> Gone(w, i, Y, lo + 1, hi)
    BY <1>1, <1>2 DEF Gone, Turned
  <1>4. ASSUME Leads(w, i, X, s, lo, hi), s # "none" PROVE Leads(w, i, Y, s, lo + 1, hi)
    <2>1. ~Gone(w, i, X, lo, hi) /\ ~Gone(w, i, Y, lo + 1, hi)
      BY <1>3, <1>4 DEF Leads
    <2>2. CASE \E n \in lo..hi : /\ w[n].kind = "status" /\ w[n].id = i /\ w[n].column = s
                                /\ ~Has(w, "status", i, n + 1, hi)
      <3>1. PICK n \in lo..hi : /\ w[n].kind = "status" /\ w[n].id = i /\ w[n].column = s
                               /\ ~Has(w, "status", i, n + 1, hi)
        BY <2>2
      <3>2. CASE n = lo
        <4>1. e.kind = "status" /\ e.id = i /\ e.column = s /\ ~Has(w, "status", i, lo + 1, hi)
          BY <3>1, <3>2 DEF e
        <4>2. Y \subseteq {s}
          BY <4>1 DEF Turned
        <4>3. \A m \in (lo + 1)..hi : ~(w[m].kind = "created" /\ w[m].id = i)
          BY <1>2, <4>1 DEF Has
        <4>4. QED BY <1>4, <2>1, <4>1, <4>2, <4>3 DEF Leads
      <3>3. CASE n \in (lo + 1)..hi
        BY <1>4, <2>1, <3>1, <3>3 DEF Leads
      <3>4. QED BY <1>2, <3>2, <3>3
    <2>3. CASE /\ ~Has(w, "status", i, lo, hi) /\ X \subseteq {s}
               /\ \A n \in lo..hi : w[n].kind = "created" /\ w[n].id = i => w[n].column = s
      <3>1. ~Has(w, "status", i, lo + 1, hi)
        BY <1>2, <2>3
      <3>2. \A n \in (lo + 1)..hi : w[n].kind = "created" /\ w[n].id = i => w[n].column = s
        BY <1>2, <2>3
      <3>3. ~(e.kind = "deleted" /\ e.id = i) /\ ~(e.kind = "status" /\ e.id = i)
        BY <1>2, <2>1, <2>3 DEF Gone
      <3>4. e.kind = "created" /\ e.id = i => e.column = s
        BY <2>3 DEF e
      <3>5. Y \subseteq {s}
        BY <1>1, <2>3, <3>3, <3>4 DEF Turned
      <3>6. QED BY <1>4, <2>1, <3>1, <3>2, <3>5 DEF Leads
    <2>4. QED BY <1>4, <2>2, <2>3 DEF Leads
  <1>5. ASSUME Leads(w, i, X, s, lo, hi), s = "none" PROVE Leads(w, i, Y, s, lo + 1, hi)
    BY <1>3, <1>5 DEF Leads
  <1>6. QED BY <1>3, <1>4, <1>5 DEF e

\* The first of the events is dispatched, although the rows have it already: those
\* have been read after the first k events, of which the first is one.
LEMMA LeadsHeard ==
  ASSUME NEW w \in Seq(EventsSet), CreatedFirst(w), NEW i \in Cards, NEW t \in Status, NEW s,
         NEW k \in 1..Len(w), NEW hi \in k..Len(w), Leads(w, i, Just(t), t, 1, k),
         Leads(w, i, Just(t), s, 1, hi)
  PROVE  Leads(w, i, Just(t), s, 2, hi)
  <1> DEFINE e == w[1]
  <1>0. w # << >> /\ 1 \in 1..Len(w) /\ k \in 1..Len(w) /\ hi \in 1..Len(w) /\ 1 + 1 = 2
        /\ k \in Nat /\ hi \in Nat /\ k <= hi
    OBVIOUS
  <1>1. e.kind \in {"created", "status", "deleted"} /\ (e.kind # "deleted" => e.column # "none")
    BY ClientAssumption, <1>0, EventTypes
  <1>2. /\ \A q : Has(w, q, i, 1, hi) <=> (e.kind = q /\ e.id = i) \/ Has(w, q, i, 2, hi)
        /\ e.id = i => ~Has(w, "created", i, 2, hi)
        /\ \A n \in 1..hi : n = 1 \/ n \in 2..hi
        /\ \A n \in 2..hi : n \in 1..hi
    BY <1>0, FirstAndRest
  <1>3. /\ \A q : Has(w, q, i, 1, k) <=> (e.kind = q /\ e.id = i) \/ Has(w, q, i, 2, k)
        /\ \A n \in 1..k : n \in 1..hi /\ (n = 1 \/ n \in 2..k)
        /\ \A n \in 2..k : n \in 2..hi
    BY <1>0, FirstAndRest
  <1>4. \A q : Has(w, q, i, 2, k) => Has(w, q, i, 2, hi)
    BY <1>3 DEF Has
  <1> HIDE DEF e
  <1>5. CASE e.id # i
    BY <1>2, <1>5 DEF Leads, Gone, e
  <1>6. CASE e.id = i /\ e.kind = "deleted"
    \* The rows were without the card, and it is not created again.
    <2>1. Has(w, "deleted", i, 1, k) /\ Has(w, "deleted", i, 1, hi)
      BY <1>2, <1>3, <1>6
    <2>2. t = "none" /\ s = "none"
      BY <2>1 DEF Leads, Gone
    <2>3. QED BY <1>2, <1>6, <2>2 DEF Leads, Gone, Just
  <1>7. CASE e.id = i /\ e.kind = "created"
    <2>1. s # "none" => t # "none"
      <3>1. SUFFICES ASSUME s # "none", t = "none" PROVE FALSE
        OBVIOUS
      <3>2. Gone(w, i, Just(t), 1, k) /\ ~Gone(w, i, Just(t), 1, hi)
        BY <3>1 DEF Leads
      <3>3. QED BY <1>2, <1>3, <1>4, <1>7, <3>2 DEF Gone
    <2>2. s = "none" => Gone(w, i, Just(t), 2, hi)
      BY <1>2, <1>7 DEF Leads, Gone
    <2>3. s # "none" => ~Gone(w, i, Just(t), 2, hi)
      BY <1>2, <1>7, <2>1 DEF Leads, Gone, Just
    <2>4. QED BY <1>2, <1>7, <2>2, <2>3 DEF Leads, e
  <1>8. CASE e.id = i /\ e.kind = "status"
    <2>1. Gone(w, i, Just(t), 2, hi) <=> Gone(w, i, Just(t), 1, hi)
      BY <1>2, <1>8 DEF Gone
    <2>2. s = "none" <=> Gone(w, i, Just(t), 2, hi)
      BY <2>1 DEF Leads
    <2>3. SUFFICES ASSUME s # "none" PROVE Leads(w, i, Just(t), s, 2, hi)
      BY <2>2 DEF Leads
    <2>4. PICK n \in 1..hi : /\ w[n].kind = "status" /\ w[n].id = i /\ w[n].column = s
                            /\ ~Has(w, "status", i, n + 1, hi)
      BY <1>2, <1>8, <2>3 DEF Leads
    <2>5. CASE n \in 2..hi
      BY <2>2, <2>3, <2>4, <2>5 DEF Leads
    <2>6. CASE n = 1
      <3>1. e.column = s /\ ~Has(w, "status", i, 2, hi)
        BY <2>4, <2>6, <1>0 DEF e
      \* What was read shows the last change of status, which is the first event.
      <3>2. t # "none"
        <4>1. ~Gone(w, i, Just(t), 1, hi)
          BY <2>3 DEF Leads
        <4>2. ~Gone(w, i, Just(t), 1, k)
          BY <1>2, <1>3, <1>4, <1>8, <4>1 DEF Gone
        <4>3. QED BY <4>2 DEF Leads
      <3>3. PICK m \in 1..k : /\ w[m].kind = "status" /\ w[m].id = i /\ w[m].column = t
                             /\ ~Has(w, "status", i, m + 1, k)
        BY <1>3, <1>8, <3>2 DEF Leads
      <3>4. m = 1
        BY <1>3, <3>1, <3>3 DEF Has
      <3>5. t = s
        BY <3>1, <3>3, <3>4 DEF e
      <3>6. \A q \in 2..hi : ~(w[q].kind = "created" /\ w[q].id = i)
        BY <1>2, <1>8 DEF Has
      <3>7. QED BY <2>2, <2>3, <3>1, <3>5, <3>6 DEF Leads, Just
    <2>7. QED BY <1>2, <2>5, <2>6
  <1>9. QED BY <1>1, <1>5, <1>6, <1>7, <1>8

\* When nothing is on its way any more, the copy is where it was led.
LEMMA LeadsThere ==
  ASSUME NEW w, NEW i, NEW X, NEW s, NEW n \in Nat
  PROVE  Leads(w, i, X, s, n + 1, n) <=> X = Just(s)
  <1>1. \A k : ~Has(w, k, i, n + 1, n)
    BY DEF Has
  <1>2. ~\E m \in (n + 1)..n : TRUE
    OBVIOUS
  <1>3. QED BY <1>1, <1>2 DEF Leads, Gone, Just

\* A copy that has the card in a column, perhaps among others, may as well have it there alone.
LEMMA LeadsFrom ==
  ASSUME NEW w, NEW i, NEW X, NEW s, NEW lo, NEW hi, Leads(w, i, X, s, lo, hi), NEW c \in X
  PROVE  Leads(w, i, {c}, s, lo, hi)
  <1>1. Gone(w, i, X, lo, hi) <=> Gone(w, i, {c}, lo, hi)
    BY DEF Gone
  <1>2. QED BY <1>1 DEF Leads

\* The copies that dispatching the first n events goes through.
Run(g, n) ==
  /\ g[0] = view
  /\ \A m \in 1..n : g[m] = Apply(wire[m], g[m - 1])

\* There is one.
LEMMA RunsExist == \A n \in Nat : \E g : Run(g, n)
  <1> DEFINE Without == {n \in Nat : ~\E g : Run(g, n)}
  <1>1. SUFFICES ASSUME Without # {} PROVE FALSE
    OBVIOUS
  <1>2. PICK n \in Without : \A m \in Without : n <= m
    BY <1>1, LeastExists
  <1>3. CASE n = 0
    <2> DEFINE g == [m \in {0} |-> view]
    <2>1. g[0] = view /\ ~\E m \in 1..0 : TRUE
      OBVIOUS
    <2>2. Run(g, 0)
      BY <2>1 DEF Run
    <2>3. QED BY <1>2, <1>3, <2>2
  <1>4. CASE n # 0
    <2>1. n \in Nat /\ n - 1 \in Nat /\ ~(n <= n - 1)
      BY <1>2, <1>4
    <2>2. PICK h : Run(h, n - 1)
      BY <1>2, <2>1
    <2> DEFINE g == [m \in 0..n |-> IF m = n THEN Apply(wire[n], h[n - 1]) ELSE h[m]]
    <2>3. \A m \in 0..n : g[m] = IF m = n THEN Apply(wire[n], h[n - 1]) ELSE h[m]
      OBVIOUS
    <2> HIDE DEF g
    <2>4. 0 \in 0..n /\ n \in 0..n /\ n - 1 \in 0..n /\ n # n - 1
      BY <2>1
    <2>5. \A m \in 1..n : m \in 0..n /\ m - 1 \in 0..n /\ m - 1 # n /\ (m = n \/ m \in 1..(n - 1))
      BY <2>1
    <2>6. g[0] = view
      BY <1>4, <2>2, <2>3, <2>4 DEF Run
    <2>7. ASSUME NEW m \in 1..n PROVE g[m] = Apply(wire[m], g[m - 1])
      <3>1. g[m - 1] = h[m - 1] /\ m \in 0..n
        BY <2>3, <2>5
      <3>2. CASE m = n
        BY <2>3, <2>4, <3>1, <3>2
      <3>3. CASE m # n
        <4>1. g[m] = h[m]
          BY <2>3, <3>1, <3>3
        <4>2. QED BY <2>2, <2>5, <3>1, <3>3, <4>1 DEF Run
      <3>4. QED BY <3>2, <3>3
    <2>8. QED BY <1>2, <2>6, <2>7 DEF Run
  <1>5. QED BY <1>3, <1>4

\* And any two agree where both go.
LEMMA RunsAgree ==
  ASSUME NEW g, NEW h, NEW n \in Nat, NEW k \in Nat, Run(g, n), Run(h, k)
  PROVE  \A m \in Nat : m <= n /\ m <= k => g[m] = h[m]
  <1> DEFINE Apart == {m \in Nat : m <= n /\ m <= k /\ g[m] # h[m]}
  <1>1. SUFFICES ASSUME Apart # {} PROVE FALSE
    OBVIOUS
  <1>2. PICK m \in Apart : \A l \in Apart : m <= l
    BY <1>1, LeastExists
  <1>3. m # 0
    BY <1>2 DEF Run
  <1>4. m \in 1..n /\ m \in 1..k /\ m - 1 \in Nat /\ m - 1 <= n /\ m - 1 <= k /\ ~(m <= m - 1)
    BY <1>2, <1>3
  <1>5. g[m - 1] = h[m - 1]
    BY <1>2, <1>4
  <1>6. QED BY <1>2, <1>4, <1>5 DEF Run

\* So After, which TLC computes, is the run it describes.
LEMMA AfterRuns == After[0] = view /\ \A n \in Nat \ {0} : After[n] = Apply(wire[n], After[n - 1])
  <1> DEFINE F == [n \in Nat |-> (CHOOSE g : Run(g, n))[n]]
  <1> DEFINE G(f) == [n \in Nat |-> IF n = 0 THEN view ELSE Apply(wire[n], f[n - 1])]
  <1>1. \A n \in Nat : Run(CHOOSE g : Run(g, n), n)
    BY RunsExist
  <1>2. F[0] = view
    BY <1>1 DEF Run
  <1>3. ASSUME NEW n \in Nat, n # 0 PROVE F[n] = Apply(wire[n], F[n - 1])
    <2>1. n - 1 \in Nat /\ n - 1 <= n /\ n - 1 <= n - 1 /\ n \in 1..n
      BY <1>3
    <2>2. PICK g : g = CHOOSE k : Run(k, n)
      OBVIOUS
    <2>3. PICK h : h = CHOOSE k : Run(k, n - 1)
      OBVIOUS
    <2>4. Run(g, n) /\ Run(h, n - 1) /\ F[n] = g[n] /\ F[n - 1] = h[n - 1]
      BY <1>1, <2>1, <2>2, <2>3
    <2>5. g[n - 1] = h[n - 1]
      BY <2>1, <2>4, RunsAgree
    <2>6. g[n] = Apply(wire[n], g[n - 1])
      BY <2>1, <2>4 DEF Run
    <2>7. QED BY <2>4, <2>5, <2>6
  <1>4. F = G(F)
    <2>1. \A n \in Nat : G(F)[n] = IF n = 0 THEN view ELSE Apply(wire[n], F[n - 1])
      OBVIOUS
    <2>2. \A n \in Nat : F[n] = G(F)[n]
      BY <1>2, <1>3, <2>1
    <2>3. QED BY <2>2
  <1> HIDE DEF F
  <1>5. After = CHOOSE f : f = G(f)
    BY DEF After
  <1>6. After = G(After)
    BY <1>4, <1>5
  <1>7. QED BY <1>6

-----------------------------------------------------------------------------

\* What the columns of a card are.
LEMMA ColumnsTypes ==
  /\ \A i, v : "none" \notin ColumnsOf(i, v) /\ ColumnsOf(i, v) \subseteq Columns
  /\ \A s : "none" \notin Just(s)
  /\ \A s : s # "none" => Just(s) = {s}
  /\ \A i, v : ColumnsOf(i, v) # {} => \E r \in v : r[1] = i
  <1>1. \A i, v : "none" \notin ColumnsOf(i, v) /\ ColumnsOf(i, v) \subseteq Columns
    BY ClientAssumption DEF ColumnsOf
  <1>2. \A i, v : ColumnsOf(i, v) # {} => \E r \in v : r[1] = i
    BY DEF ColumnsOf
  <1>3. QED BY <1>1, <1>2 DEF Just

\* The server changes a row and broadcasts the change, if anybody is connected.
Speaks(e) ==
  /\ server' = [server EXCEPT ![e.id] =
       CASE e.kind = "created" -> e.column
         [] e.kind = "status"  -> IF server[e.id] = "none" THEN "none" ELSE e.column
         [] e.kind = "deleted" -> "none"]
  /\ wire' = IF connected THEN Append(wire, e) ELSE wire
  /\ known' = known \cup {e.id} /\ (e.id \in known <=> e.kind # "created")
  /\ UNCHANGED <<connected, hidden, view, fetch, history>>

\* A fetch lists cards.
LEMMA ListedCards == \A i \in Listed : i \in Cards
  BY DEF Listed

\* The new event leads on to the new row.
LEMMA SpeaksLeads ==
  ASSUME ClientTypeOK, CardsAreKnown, NEW e \in EventsSet, Speaks(e), connected,
         NEW j \in Cards, NEW X, "none" \notin X, NEW lo \in 1..(Len(wire) + 1)
  PROVE  /\ Len(wire') = Len(wire) + 1
         /\ j # e.id =>
              /\ Leads(wire, j, X, server[j], lo, Len(wire)) => Leads(wire', j, X, server'[j], lo, Len(wire'))
              /\ Gone(wire', j, X, lo, Len(wire')) <=> Gone(wire, j, X, lo, Len(wire))
         /\ j = e.id =>
              /\ e.kind = "deleted" => Leads(wire', j, X, server'[j], lo, Len(wire'))
              /\ e.kind = "status" /\ (server[j] = "none" <=> Gone(wire, j, X, lo, Len(wire)))
                   => Leads(wire', j, X, server'[j], lo, Len(wire'))
              /\ e.kind = "created" /\ X \subseteq {e.column} => Leads(wire', j, X, server'[j], lo, Len(wire'))
  <1>1. /\ wire \in Seq(EventsSet) /\ wire' = Append(wire, e) /\ Len(wire') = Len(wire) + 1
        /\ server \in [Cards -> Status] /\ e.id \in Cards
        /\ e.kind \in {"created", "status", "deleted"}
    BY AppendProperties DEF ClientTypeOK, Speaks, EventsSet
  <1>2. CASE j # e.id
    <2>1. server'[j] = server[j]
      BY <1>1, <1>2 DEF Speaks
    <2>2. /\ Gone(Append(wire, e), j, X, lo, Len(wire) + 1) <=> Gone(wire, j, X, lo, Len(wire))
          /\ Leads(Append(wire, e), j, X, server[j], lo, Len(wire) + 1)
               <=> Leads(wire, j, X, server[j], lo, Len(wire))
      BY <1>1, <1>2, LeadsAside
    <2>3. QED BY <1>1, <1>2, <2>1, <2>2, Zenon
  <1>3. CASE j = e.id
    <2>1. server'[j] = CASE e.kind = "created" -> e.column
                         [] e.kind = "status"  -> IF server[j] = "none" THEN "none" ELSE e.column
                         [] e.kind = "deleted" -> "none"
      BY <1>1, <1>3 DEF Speaks
    <2>2. e.kind = "created" => \A n \in 1..Len(wire) : wire[n].id # j
      BY <1>3 DEF Speaks, CardsAreKnown
    <2>3. /\ e.kind = "deleted" => Leads(Append(wire, e), j, X, "none", lo, Len(wire) + 1)
          /\ e.kind = "status" =>
               Leads(Append(wire, e), j, X, IF Gone(wire, j, X, lo, Len(wire)) THEN "none" ELSE e.column,
                     lo, Len(wire) + 1)
          /\ e.kind = "created" /\ X \subseteq {e.column} =>
               Leads(Append(wire, e), j, X, e.column, lo, Len(wire) + 1)
      BY <1>1, <1>3, <2>2, LeadsOn
    <2>4. e.kind = "status" /\ (server[j] = "none" <=> Gone(wire, j, X, lo, Len(wire)))
            => (IF Gone(wire, j, X, lo, Len(wire)) THEN "none" ELSE e.column) = server'[j]
      BY <2>1
    <2>5. e.kind = "deleted" => server'[j] = "none"
      BY <2>1
    <2>6. e.kind = "created" => server'[j] = e.column
      BY <2>1
    <2>7. QED BY <1>1, <1>3, <2>3, <2>4, <2>5, <2>6
  <1>4. QED BY <1>1, <1>2, <1>3

\* Such a change keeps what is sound of the wire and of fetches.
LEMMA SpeaksKeeps ==
  ASSUME ClientInv, NEW e \in EventsSet, Speaks(e)
  PROVE  /\ wire' \in Seq(EventsSet) /\ server' \in [Cards -> Status] /\ known' \subseteq Cards
         /\ CreatedFirst(wire)' /\ WireIsSound' /\ ReadsAreSound'
         /\ drag' = NoDrag \/ (drag # NoDrag /\ drag'.id = drag.id) => CardsAreKnown'
  <1>t. /\ ClientTypeOK /\ CardsAreKnown /\ CreatedFirst(wire) /\ WireIsSound /\ ReadsAreSound
        /\ wire \in Seq(EventsSet) /\ server \in [Cards -> Status] /\ known \subseteq Cards
        /\ stale \in Nat /\ Len(wire) \in Nat
    BY DEF ClientInv, ClientTypeOK
  <1>e. /\ e.id \in Cards /\ e.kind \in {"created", "status", "deleted"}
        /\ e.kind # "deleted" => e.column \in Columns
    BY DEF EventsSet
  <1>s. server'[e.id] = (CASE e.kind = "created" -> e.column
                          [] e.kind = "status"  -> IF server[e.id] = "none" THEN "none" ELSE e.column
                          [] e.kind = "deleted" -> "none")
        /\ \A j \in Cards : j # e.id => server'[j] = server[j]
    BY <1>t, <1>e DEF Speaks
  <1>w. /\ connected => /\ wire' = Append(wire, e) /\ Len(wire') = Len(wire) + 1
                        /\ wire'[Len(wire) + 1] = e
                        /\ \A n \in 1..Len(wire) : wire'[n] = wire[n]
        /\ ~connected => wire' = wire
    BY <1>t, AppendProperties DEF Speaks
  <1>1. wire' \in Seq(EventsSet) /\ server' \in [Cards -> Status] /\ known' \subseteq Cards
    <2>1. wire' \in Seq(EventsSet)
      BY <1>t, <1>w, AppendProperties
    <2>2. server' \in [Cards -> Status]
      BY <1>t, <1>e DEF Speaks, Status
    <2>3. QED BY <1>t, <1>e, <2>1, <2>2 DEF Speaks
  <1>2. CreatedFirst(wire)'
    <2>1. CASE ~connected
      BY <1>t, <1>w, <2>1 DEF CreatedFirst
    <2>2. CASE connected
      <3>1. \A n \in 1..(Len(wire) + 1) : n = Len(wire) + 1 \/ n \in 1..Len(wire)
        BY <1>t
      <3>2. e.kind = "created" => \A n \in 1..Len(wire) : wire[n].id # e.id
        BY <1>t DEF Speaks, CardsAreKnown
      <3>3. \A m, n \in 1..(Len(wire) + 1) : m < n => m \in 1..Len(wire)
        BY <1>t
      <3>4. QED BY <1>t, <1>w, <2>2, <3>1, <3>2, <3>3 DEF CreatedFirst
    <2>3. QED BY <2>1, <2>2
  <1>3. WireIsSound'
    <2>1. CASE ~connected
      <3>1. wire = << >> /\ wire' = << >> /\ stale = 0 /\ stale' = 0 /\ Len(wire) = 0 /\ ~connected'
        BY <1>t, <1>w, <2>1 DEF WireIsSound, Speaks, history
      <3>2. \A i \in Cards : Leads(wire', i, Just(server'[i]), server'[i], 0 + 1, 0)
        BY LeadsThere
      <3>3. QED BY <3>1, <3>2 DEF WireIsSound
    <2>2. CASE connected
      <3>1. stale' = stale /\ connected' /\ stale <= Len(wire) /\ stale + 1 \in 1..(Len(wire) + 1)
        BY <1>t, <2>2 DEF WireIsSound, Speaks, history
      <3>2. ASSUME NEW i \in Cards
            PROVE  Leads(wire', i, Just(server'[i]), server'[i], stale + 1, Len(wire'))
        <4>1. Leads(wire, i, Just(server[i]), server[i], stale + 1, Len(wire))
          BY <1>t DEF WireIsSound
        <4>2. CASE i # e.id
          BY <1>t, <1>s, <2>2, <3>1, <4>1, <4>2, ColumnsTypes, SpeaksLeads
        <4>3. CASE i = e.id /\ e.kind = "deleted"
          BY <1>t, <2>2, <3>1, <4>3, ColumnsTypes, SpeaksLeads
        <4>4. CASE i = e.id /\ e.kind = "created"
          <5>1. Just(server'[i]) \subseteq {e.column}
            BY <1>s, <4>4 DEF Just
          <5>2. QED BY <1>t, <2>2, <3>1, <4>4, <5>1, ColumnsTypes, SpeaksLeads
        <4>5. CASE i = e.id /\ e.kind = "status"
          <5>1. Just(server'[i]) = {} <=> Just(server[i]) = {}
            BY ClientAssumption, <1>s, <1>e, <4>5 DEF Just
          <5>2. server[i] = "none" <=> Gone(wire, i, Just(server'[i]), stale + 1, Len(wire))
            BY <4>1, <5>1 DEF Leads, Gone
          <5>3. QED BY <1>t, <2>2, <3>1, <4>5, <5>2, ColumnsTypes, SpeaksLeads
        <4>6. QED BY <1>e, <4>2, <4>3, <4>4, <4>5
      <3>3. Len(wire') = Len(wire) + 1
        BY <1>w, <2>2
      <3>4. QED BY <1>t, <3>1, <3>2, <3>3 DEF WireIsSound
    <2>3. QED BY <2>1, <2>2
  <1>4. ReadsAreSound'
    <2>1. SUFFICES ASSUME NEW f \in Fetches, fetch[f].state = "read", sound[f] # Unsound
                   PROVE  /\ connected' /\ sound[f] <= Len(wire')
                          /\ \A i \in Listed :
                               /\ Leads(wire', i, ColumnsOf(i, fetch[f].rows), server'[i], 1, Len(wire'))
                               /\ \E s \in Status : /\ ColumnsOf(i, fetch[f].rows) = Just(s)
                                                    /\ Leads(wire', i, Just(s), s, 1, sound[f])
      BY DEF ReadsAreSound, Speaks, history
    <2>2. /\ connected /\ sound[f] <= Len(wire) /\ sound[f] \in 0..Len(wire) /\ 1 \in 1..(Len(wire) + 1)
          /\ \A i \in Listed :
               /\ Leads(wire, i, ColumnsOf(i, fetch[f].rows), server[i], 1, Len(wire))
               /\ \E s \in Status : /\ ColumnsOf(i, fetch[f].rows) = Just(s)
                                    /\ Leads(wire, i, Just(s), s, 1, sound[f])
      BY <1>t, <2>1 DEF ReadsAreSound, ClientTypeOK
    <2>3. connected' /\ sound[f] <= Len(wire')
      BY <1>t, <1>w, <2>2 DEF Speaks
    <2>4. ASSUME NEW i \in Listed
          PROVE  Leads(wire', i, ColumnsOf(i, fetch[f].rows), server'[i], 1, Len(wire'))
      <3> DEFINE X == ColumnsOf(i, fetch[f].rows)
      <3>1. Leads(wire, i, X, server[i], 1, Len(wire)) /\ "none" \notin X
        BY <2>2, ListedCards, ColumnsTypes
      <3>2. server[i] = "none" <=> Gone(wire, i, X, 1, Len(wire))
        BY <3>1 DEF Leads
      <3>3. i = e.id /\ e.kind = "created" => X \subseteq {e.column}
        <4>1. SUFFICES ASSUME i = e.id, e.kind = "created", X # {} PROVE FALSE
          OBVIOUS
        <4>2. PICK r \in fetch[f].rows : r[1] = i
          BY <4>1, ListedCards, ColumnsTypes
        <4>3. i \in known
          BY <1>t, <4>2 DEF CardsAreKnown
        <4>4. QED BY <1>t, <4>1, <4>3 DEF Speaks
      <3> HIDE DEF X
      <3>4. QED BY <1>t, <1>e, <2>2, <3>1, <3>2, <3>3, ListedCards, SpeaksLeads DEF X
    <2>5. ASSUME NEW i \in Listed
          PROVE  \E s \in Status : /\ ColumnsOf(i, fetch[f].rows) = Just(s)
                                  /\ Leads(wire', i, Just(s), s, 1, sound[f])
      <3>1. PICK s \in Status : /\ ColumnsOf(i, fetch[f].rows) = Just(s)
                               /\ Leads(wire, i, Just(s), s, 1, sound[f])
        BY <2>2
      <3>2. CASE connected
        <4>1. Leads(Append(wire, e), i, Just(s), s, 1, sound[f]) <=> Leads(wire, i, Just(s), s, 1, sound[f])
          BY <1>t, <2>2, ListedCards, LeadsBefore
        <4>2. QED BY <1>w, <3>1, <3>2, <4>1
      <3>3. QED BY <2>2, <3>1, <3>2
    <2>6. QED BY <2>3, <2>4, <2>5
  <1>5. ASSUME drag' = NoDrag \/ (drag # NoDrag /\ drag'.id = drag.id) PROVE CardsAreKnown'
    <2>1. \A i \in Cards : server'[i] # "none" => i \in known'
      BY <1>t, <1>s DEF CardsAreKnown, Speaks
    <2>2. \A n \in 1..Len(wire') : wire'[n].id \in known'
      <3>1. \A n \in 1..(Len(wire) + 1) : n = Len(wire) + 1 \/ n \in 1..Len(wire)
        BY <1>t
      <3>2. QED BY <1>t, <1>w, <3>1 DEF CardsAreKnown, Speaks
    <2>3. QED BY <1>t, <1>5, <2>1, <2>2 DEF CardsAreKnown, Speaks
  <1>6. QED BY <1>1, <1>2, <1>3, <1>4, <1>5

\* A change by the server while no card is moved keeps all.
LEMMA ChangeKeeps ==
  ASSUME ClientInv, NEW e \in EventsSet, Speaks(e), drag' = drag, drops' = drops,
         changes' \in 0..MaxChanges
  PROVE  ClientInv'
  <1>t. ClientTypeOK /\ CardsAreKnown /\ CopyIsSound /\ e.kind \in {"created", "status", "deleted"}
    BY DEF ClientInv, EventsSet
  <1>1. /\ wire' \in Seq(EventsSet) /\ server' \in [Cards -> Status] /\ known' \subseteq Cards
        /\ CreatedFirst(wire)' /\ WireIsSound' /\ ReadsAreSound'
        /\ CardsAreKnown'
    BY SpeaksKeeps
  <1>2. ClientTypeOK'
    BY <1>t, <1>1 DEF ClientTypeOK, Speaks, history
  <1>3. CopyIsSound'
    <2>1. SUFFICES ASSUME clean PROVE CopyIsSound'
      BY DEF CopyIsSound, Speaks, history
    <2>2. /\ connected /\ connected' /\ clean' /\ view' = view
          /\ Len(wire) \in Nat /\ 1 \in 1..(Len(wire) + 1)
      BY <1>t, <2>1 DEF CopyIsSound, Speaks, history, ClientTypeOK
    <2>3. ASSUME NEW i \in Cards, NEW X, "none" \notin X, i = e.id /\ e.kind = "created" => X = {},
                 server[i] = "none" <=> Gone(wire, i, X, 1, Len(wire))
          PROVE  server'[i] = "none" <=> Gone(wire', i, X, 1, Len(wire'))
      <3>1. CASE i = e.id
        <4>1. Leads(wire', i, X, server'[i], 1, Len(wire'))
          BY <1>t, <2>2, <2>3, <3>1, SpeaksLeads
        <4>2. QED BY <4>1 DEF Leads
      <3>2. CASE i # e.id
        <4>1. Gone(wire', i, X, 1, Len(wire')) <=> Gone(wire, i, X, 1, Len(wire))
          BY <1>t, <2>2, <2>3, <3>2, SpeaksLeads
        <4>2. server'[i] = server[i]
          BY <1>t, <3>2 DEF Speaks, ClientTypeOK
        <4>3. QED BY <2>3, <4>1, <4>2
      <3>3. QED BY <3>1, <3>2
    <2>4. ASSUME NEW i \in Cards, NEW X, "none" \notin X, i = e.id /\ e.kind = "created" => X = {},
                 Leads(wire, i, X, server[i], 1, Len(wire))
          PROVE  Leads(wire', i, X, server'[i], 1, Len(wire'))
      <3>1. server[i] = "none" <=> Gone(wire, i, X, 1, Len(wire))
        BY <2>4 DEF Leads
      <3>2. QED BY <1>t, <2>2, <2>4, <3>1, SpeaksLeads
    <2>5. \A i \in Cards : /\ "none" \notin ColumnsOf(i, view)
                           /\ i = e.id /\ e.kind = "created" => ColumnsOf(i, view) = {}
      BY <1>t, ColumnsTypes DEF CardsAreKnown, Speaks
    <2>6. \A i \in Listed : drag = NoDrag \/ drag.id # i \/ drag.state \in {"held", "landed"} =>
            Leads(wire', i, ColumnsOf(i, view), server'[i], 1, Len(wire'))
      BY <1>t, <2>1, <2>4, <2>5, ListedCards DEF CopyIsSound
    <2>7. ASSUME drag # NoDrag, drag.id \in Listed
          PROVE  /\ drag.state = "sent" =>
                      (server'[drag.id] = "none" <=> Gone(wire', drag.id, ColumnsOf(drag.id, view), 1, Len(wire')))
                 /\ ~drag.touched /\ drag.state = "held" => <<drag.id, drag.from>> \in view
                 /\ ~drag.touched /\ drag.state # "held" =>
                      /\ ColumnsOf(drag.id, view) # {}
                      /\ Leads(wire', drag.id, {drag.from}, server'[drag.id], 1, Len(wire'))
      <3>1. drag.id \in Cards /\ drag.from \in Columns /\ "none" \notin {drag.from}
        BY ClientAssumption, <1>t, <2>7 DEF ClientTypeOK, Drags
      <3>2. /\ drag.state = "sent" =>
                 (server[drag.id] = "none" <=> Gone(wire, drag.id, ColumnsOf(drag.id, view), 1, Len(wire)))
            /\ ~drag.touched /\ drag.state = "held" => <<drag.id, drag.from>> \in view
            /\ ~drag.touched /\ drag.state # "held" =>
                 /\ ColumnsOf(drag.id, view) # {}
                 /\ Leads(wire, drag.id, {drag.from}, server[drag.id], 1, Len(wire))
        BY <1>t, <2>1, <2>7 DEF CopyIsSound
      <3>3. drag.id = e.id /\ e.kind = "created" => FALSE
        BY <1>t, <2>7 DEF CardsAreKnown, Speaks
      <3>4. QED BY <2>3, <2>4, <2>5, <3>1, <3>2, <3>3
    <2>8. QED BY <2>2, <2>6, <2>7 DEF CopyIsSound
  <1>4. QED BY <1>1, <1>2, <1>3 DEF ClientInv

\* The drop of a card lands.
LEMMA LandsKeeps ==
  ASSUME ClientInv, DropLands
  PROVE  ClientInv'
  <1> DEFINE e == [kind |-> "status", id |-> drag.id, column |-> drag.to]
  <1>t. /\ ClientTypeOK /\ CardsAreKnown /\ CopyIsSound /\ drag # NoDrag /\ drag.state = "sent"
        /\ server \in [Cards -> Status]
    BY DEF ClientInv, DropLands, ClientTypeOK
  <1>d. /\ drag \in Drags
        /\ drag.to \in Columns /\ drag.id \in known
    BY <1>t DEF ClientTypeOK, CardsAreKnown
  <1>f. drag.id \in Cards /\ drag.from \in Columns
    BY <1>d DEF Drags
  <1>e. e \in EventsSet /\ e.kind = "status" /\ e.id = drag.id /\ e.column = drag.to
    BY <1>d, <1>f DEF EventsSet
  <1>s. Speaks(e)
    <2>1. server' = [server EXCEPT ![e.id] = IF server[e.id] = "none" THEN "none" ELSE e.column]
      BY <1>t, <1>d, <1>e DEF DropLands
    <2>2. wire' = IF connected THEN Append(wire, e) ELSE wire
      BY DEF DropLands, Broadcast1
    <2>3. known' = known \cup {e.id} /\ (e.id \in known <=> e.kind # "created")
      BY <1>d, <1>e DEF DropLands
    <2> HIDE DEF e
    <2>4. QED BY <1>e, <2>1, <2>2, <2>3 DEF Speaks, DropLands
  <1> HIDE DEF e
  <1>g. /\ drag' = [drag EXCEPT !.state = "landed"] /\ drag' # NoDrag
        /\ drag'.id = drag.id /\ drag'.from = drag.from /\ drag'.touched = drag.touched
        /\ drag'.state = "landed"
        /\ drag' \in Drags
    BY <1>d DEF DropLands, NoDrag, Drags
  <1>1. /\ wire' \in Seq(EventsSet) /\ server' \in [Cards -> Status] /\ known' \subseteq Cards
        /\ CreatedFirst(wire)' /\ WireIsSound' /\ ReadsAreSound' /\ CardsAreKnown'
    BY <1>t, <1>e, <1>s, <1>g, SpeaksKeeps
  <1>2. ClientTypeOK'
    BY <1>t, <1>1, <1>g DEF ClientTypeOK, DropLands, history
  <1>3. CopyIsSound'
    <2>1. SUFFICES ASSUME clean PROVE CopyIsSound'
      BY DEF CopyIsSound, DropLands, history
    <2>2. /\ connected /\ connected' /\ clean' /\ view' = view
          /\ Len(wire) \in Nat /\ 1 \in 1..(Len(wire) + 1)
      BY <1>t, <2>1 DEF CopyIsSound, DropLands, history, ClientTypeOK
    <2>3. ASSUME NEW i \in Listed PROVE Leads(wire', i, ColumnsOf(i, view), server'[i], 1, Len(wire'))
      <3>1. CASE i = drag.id
        <4>1. server[i] = "none" <=> Gone(wire, i, ColumnsOf(i, view), 1, Len(wire))
          BY <1>t, <2>1, <3>1 DEF CopyIsSound
        <4>2. QED BY <1>t, <1>e, <1>s, <2>2, <3>1, <4>1, ListedCards, ColumnsTypes, SpeaksLeads
      <3>2. CASE i # drag.id
        <4>1. Leads(wire, i, ColumnsOf(i, view), server[i], 1, Len(wire))
          BY <1>t, <2>1, <3>2 DEF CopyIsSound
        <4>2. QED BY <1>t, <1>e, <1>s, <2>2, <3>2, <4>1, ListedCards, ColumnsTypes, SpeaksLeads
      <3>3. QED BY <3>1, <3>2
    <2>4. ASSUME drag.id \in Listed, ~drag.touched
          PROVE  /\ ColumnsOf(drag.id, view) # {}
                 /\ Leads(wire', drag.id, {drag.from}, server'[drag.id], 1, Len(wire'))
      <3>1. /\ ColumnsOf(drag.id, view) # {}
            /\ Leads(wire, drag.id, {drag.from}, server[drag.id], 1, Len(wire))
        BY <1>t, <2>1, <2>4 DEF CopyIsSound
      <3>2. server[drag.id] = "none" <=> Gone(wire, drag.id, {drag.from}, 1, Len(wire))
        BY <3>1 DEF Leads
      <3>3. "none" \notin {drag.from} /\ drag.id \in Cards
        BY ClientAssumption, <1>f
      <3>4. QED BY <1>t, <1>e, <1>s, <2>2, <3>1, <3>2, <3>3, SpeaksLeads
    <2>5. QED BY <1>g, <2>2, <2>3, <2>4 DEF CopyIsSound
  <1>4. QED BY <1>1, <1>2, <1>3 DEF ClientInv

\* Others write rows, with and without an event.
LEMMA TasksKeep ==
  ASSUME ClientInv, NEW i \in Cards, NEW c \in Columns,
         TaskCreated(i, c) \/ TaskMoves(i, c) \/ TaskDeleted(i)
  PROVE  ClientInv'
  <1>t. ClientTypeOK /\ CardsAreKnown /\ server \in [Cards -> Status] /\ known \subseteq Cards
        /\ (server[i] # "none" => i \in known) /\ (i \notin known => server[i] = "none")
    BY DEF ClientInv, ClientTypeOK, CardsAreKnown
  <1>1. \E k \in {"created", "status"} : [kind |-> k, id |-> i, column |-> c] \in EventsSet
    BY DEF EventsSet
  <1>2. /\ [kind |-> "created", id |-> i, column |-> c] \in EventsSet
        /\ [kind |-> "status", id |-> i, column |-> c] \in EventsSet
        /\ [kind |-> "deleted", id |-> i, column |-> "none"] \in EventsSet
    BY DEF EventsSet
  <1>3. drag' = drag /\ drops' = drops /\ changes' \in 0..MaxChanges
    BY ClientAssumption, <1>t DEF TaskCreated, TaskMoves, TaskDeleted, Change, ClientTypeOK
  <1>4. CASE TaskCreated(i, c)
    <2>1. Speaks([kind |-> "created", id |-> i, column |-> c])
      BY <1>t, <1>4 DEF TaskCreated, Change, Broadcast1, Speaks
    <2>2. QED BY <1>2, <1>3, <2>1, ChangeKeeps
  <1>5. CASE TaskMoves(i, c)
    <2>1. Speaks([kind |-> "status", id |-> i, column |-> c])
      BY <1>t, <1>5 DEF TaskMoves, Change, Broadcast1, Speaks
    <2>2. QED BY <1>2, <1>3, <2>1, ChangeKeeps
  <1>6. CASE TaskDeleted(i)
    <2>1. Speaks([kind |-> "deleted", id |-> i, column |-> "none"])
      BY <1>t, <1>6 DEF TaskDeleted, Change, Broadcast1, Speaks
    <2>2. QED BY <1>2, <1>3, <2>1, ChangeKeeps
  <1>7. QED BY <1>4, <1>5, <1>6

\* What is written and never announced.
LEMMA SilentKeeps ==
  ASSUME ClientInv, NEW i \in Cards, NEW c \in Columns, SilentChange(i, c)
  PROVE  ClientInv'
  <1>t. ClientTypeOK /\ CardsAreKnown /\ CreatedFirst(wire) /\ WireIsSound /\ Len(wire) \in Nat
    BY DEF ClientInv, ClientTypeOK
  <1>1. ClientTypeOK'
    <2>1. clean' \in BOOLEAN
      BY DEF SilentChange
    <2>2. stale' \in Nat /\ sound' \in [Fetches -> Nat] /\ wire' = wire /\ known' = known \cup {i}
      BY <1>t DEF SilentChange, Unsound
    <2>3. /\ server' \in [Cards -> Status] /\ changes' \in 0..MaxChanges
          /\ UNCHANGED <<connected, hidden, view, fetch, drag, drops>>
      BY ClientAssumption, <1>t DEF SilentChange, Change, ClientTypeOK, Status
    <2>4. QED BY <1>t, <2>1, <2>2, <2>3 DEF ClientTypeOK
  <1>2. CardsAreKnown' /\ CreatedFirst(wire)'
    BY <1>t DEF CardsAreKnown, CreatedFirst, SilentChange, Change, ClientTypeOK
  <1>3. WireIsSound'
    <2>1. stale' = Len(wire) /\ wire' = wire /\ connected' = connected
      BY DEF SilentChange, Change
    <2>2. \A j \in Cards : Leads(wire, j, Just(server'[j]), server'[j], Len(wire) + 1, Len(wire))
      BY <1>t, LeadsThere
    <2>3. QED BY <1>t, <2>1, <2>2 DEF WireIsSound
  <1>4. ReadsAreSound'
    BY DEF ReadsAreSound, SilentChange, Change
  <1>5. CopyIsSound'
    BY DEF CopyIsSound, SilentChange
  <1>6. QED BY <1>1, <1>2, <1>3, <1>4, <1>5 DEF ClientInv

-----------------------------------------------------------------------------

\* The stream drops and comes back.
LEMMA StreamKeeps ==
  ASSUME ClientInv, Connect \/ Disconnect
  PROVE  ClientInv'
  <1>t. ClientTypeOK /\ CardsAreKnown /\ CreatedFirst(wire) /\ WireIsSound /\ ReadsAreSound /\ CopyIsSound
    BY DEF ClientInv
  <1>1. wire' = << >> /\ Len(wire') = 0 /\ << >> \in Seq(EventsSet)
    BY DEF Connect, Disconnect
  <1>2. stale' = 0
    BY <1>t DEF Connect, Disconnect, WireIsSound, ClientTypeOK, history
  <1>3. ClientTypeOK'
    <2>1. CASE Connect
      BY <1>t, <1>1, <2>1 DEF ClientTypeOK, Connect, history
    <2>2. CASE Disconnect
      <3>1. clean' \in BOOLEAN /\ connected' \in BOOLEAN
        BY <2>2 DEF Disconnect
      <3>2. /\ sound' \in [Fetches -> Nat] /\ drops' \in 0..MaxDrops
            /\ UNCHANGED <<server, known, hidden, view, fetch, drag, changes>>
        BY ClientAssumption, <1>t, <2>2 DEF ClientTypeOK, Disconnect, Unsound
      <3>3. QED BY <1>t, <1>1, <1>2, <3>1, <3>2 DEF ClientTypeOK
    <2>3. QED BY <2>1, <2>2
  <1>4. CardsAreKnown' /\ CreatedFirst(wire)'
    BY <1>t, <1>1 DEF CardsAreKnown, CreatedFirst, Connect, Disconnect
  <1>5. WireIsSound'
    <2>1. \A j \in Cards : Leads(wire', j, Just(server[j]), server[j], 0 + 1, 0)
      BY LeadsThere
    <2>2. server' = server
      BY DEF Connect, Disconnect
    <2>3. QED BY <1>1, <1>2, <2>1, <2>2 DEF WireIsSound
  <1>6. ReadsAreSound'
    BY <1>t DEF ReadsAreSound, Connect, Disconnect, history
  <1>7. CopyIsSound'
    <2>1. ~clean'
      BY <1>t DEF CopyIsSound, Connect, Disconnect, history
    <2>2. QED BY <2>1 DEF CopyIsSound
  <1>8. QED BY <1>3, <1>4, <1>5, <1>6, <1>7 DEF ClientInv

\* Asking for tasks says nothing of them yet.
LEMMA RequestKeeps ==
  ASSUME ClientInv, NEW f \in Fetches, Ask(f)
  PROVE  /\ fetch' \in [Fetches -> [state : {"idle", "asked", "read"}, rows : Views]]
         /\ \A g \in Fetches : fetch'[g].rows = fetch[g].rows /\ (fetch'[g].state = "read" => fetch[g].state = "read")
  <1>1. fetch \in [Fetches -> [state : {"idle", "asked", "read"}, rows : Views]]
    BY DEF ClientInv, ClientTypeOK
  <1>2. fetch' = [fetch EXCEPT ![f] = [fetch[f] EXCEPT !.state = "asked"]]
    BY <1>1 DEF Ask
  <1> DEFINE request == [fetch[f] EXCEPT !.state = "asked"]
  <1>3. /\ request \in [state : {"idle", "asked", "read"}, rows : Views]
        /\ request.state = "asked" /\ request.rows = fetch[f].rows
    BY <1>1
  <1> HIDE DEF request
  <1>4. fetch' = [fetch EXCEPT ![f] = request]
    BY <1>2 DEF request
  <1>5. QED BY <1>1, <1>3, <1>4

\* Reading keeps all, since what is read is what the server has.
LEMMA AskKeeps ==
  ASSUME ClientInv, NEW f \in Fetches, Poll(f) \/ Refresh(f) \/ FetchReads(f)
  PROVE  ClientInv'
  <1>t. /\ ClientTypeOK /\ CardsAreKnown /\ CreatedFirst(wire) /\ WireIsSound /\ ReadsAreSound /\ CopyIsSound
        /\ Len(wire) \in Nat /\ server \in [Cards -> Status]
    BY DEF ClientInv, ClientTypeOK
  <1>1. UNCHANGED <<server, known, connected, hidden, wire, view, drag, changes, drops, stale, clean>>
    BY DEF Poll, Refresh, FetchReads, streamVars, history
  <1>2. /\ RowsOf(server) \in Views /\ \A r \in RowsOf(server) : r[1] \in known
        /\ \A i \in Cards : ColumnsOf(i, RowsOf(server)) = Just(server[i])
    <2>1. \A i \in Cards : server[i] = "none" \/ server[i] \in Columns
      BY <1>t DEF Status
    <2>2. RowsOf(server) \in Views /\ \A r \in RowsOf(server) : r[1] \in known
      <3>1. ASSUME NEW r \in RowsOf(server) PROVE r \in Cards \X Columns /\ r[1] \in known
        <4>1. PICK i \in Cards : server[i] # "none" /\ r = <<i, server[i]>>
          BY DEF RowsOf
        <4>2. QED BY <1>t, <2>1, <4>1 DEF CardsAreKnown
      <3>2. QED BY <3>1 DEF Views
    <2>3. ASSUME NEW i \in Cards, NEW c PROVE <<i, c>> \in RowsOf(server) <=> c = server[i] /\ c # "none"
      BY DEF RowsOf
    <2>4. ASSUME NEW i \in Cards PROVE ColumnsOf(i, RowsOf(server)) = Just(server[i])
      BY <2>1, <2>3 DEF ColumnsOf, Just
    <2>5. QED BY <2>2, <2>4
  <1>3. ClientTypeOK' /\ CardsAreKnown' /\ ReadsAreSound'
    <2>1. CASE Poll(f) \/ Refresh(f)
      <3>1. /\ fetch' \in [Fetches -> [state : {"idle", "asked", "read"}, rows : Views]]
            /\ \A g \in Fetches : fetch'[g].rows = fetch[g].rows /\ (fetch'[g].state = "read" => fetch[g].state = "read")
            /\ sound' = sound
        BY <2>1, RequestKeeps DEF Poll, Refresh, history
      <3>2. QED BY <1>t, <1>1, <3>1 DEF ClientTypeOK, CardsAreKnown, ReadsAreSound
    <2>2. CASE FetchReads(f)
      <3>1. PICK S \in SUBSET Left :
              fetch' = [fetch EXCEPT ![f] =
                          [state |-> "read", rows |-> {r \in RowsOf(server) : r[1] \notin S}]]
        BY <2>2 DEF FetchReads
      <3> DEFINE shown == {r \in RowsOf(server) : r[1] \notin S}
      <3>2. /\ shown \in Views /\ \A r \in shown : r[1] \in known
            /\ \A i \in Listed : i \in Cards /\ ColumnsOf(i, shown) = Just(server[i])
        <4>1. shown \in Views /\ \A r \in shown : r[1] \in known
          BY <1>2 DEF Views
        <4>2. ASSUME NEW i \in Listed
              PROVE  i \in Cards /\ ColumnsOf(i, shown) = ColumnsOf(i, RowsOf(server))
          <5>1. i \in Cards /\ i \notin S
            BY DEF Listed
          <5>2. \A c : <<i, c>> \in shown <=> <<i, c>> \in RowsOf(server)
            BY <5>1
          <5> HIDE DEF shown
          <5>3. QED BY <5>1, <5>2 DEF ColumnsOf
        <4>3. QED BY <1>2, <4>1, <4>2
      <3> HIDE DEF shown
      <3>3. /\ fetch' \in [Fetches -> [state : {"idle", "asked", "read"}, rows : Views]]
            /\ fetch'[f].rows = shown
            /\ \A g \in Fetches \ {f} : fetch'[g] = fetch[g]
        <4>1. fetch' = [fetch EXCEPT ![f] = [state |-> "read", rows |-> shown]]
          BY <3>1 DEF shown
        <4>2. QED BY <1>t, <3>2, <4>1 DEF ClientTypeOK
      <3>4. /\ sound' \in [Fetches -> Nat]
            /\ sound'[f] = IF connected /\ stale = 0 THEN Len(wire) ELSE Unsound
            /\ \A g \in Fetches \ {f} : sound'[g] = sound[g]
        BY <1>t, <2>2 DEF FetchReads, ClientTypeOK, Unsound
      <3>5. ClientTypeOK'
        BY <1>t, <1>1, <3>3, <3>4 DEF ClientTypeOK
      <3>6. CardsAreKnown'
        BY <1>t, <1>1, <3>2, <3>3 DEF CardsAreKnown
      <3>7. ASSUME sound'[f] # Unsound
            PROVE  /\ connected /\ sound'[f] <= Len(wire)
                   /\ \A i \in Listed :
                        /\ Leads(wire, i, ColumnsOf(i, shown), server[i], 1, Len(wire))
                        /\ \E s \in Status : /\ ColumnsOf(i, shown) = Just(s)
                                             /\ Leads(wire, i, Just(s), s, 1, sound'[f])
        <4>1. connected /\ stale = 0 /\ sound'[f] = Len(wire) /\ stale + 1 = 1
          BY <3>4, <3>7
        <4>2. \A i \in Cards : Leads(wire, i, Just(server[i]), server[i], 1, Len(wire)) /\ server[i] \in Status
          BY <1>t, <4>1 DEF WireIsSound
        <4>3. QED BY <1>t, <3>2, <4>1, <4>2
      <3>8. ReadsAreSound'
        BY <1>t, <1>1, <3>3, <3>4, <3>7 DEF ReadsAreSound
      <3>9. QED BY <3>5, <3>6, <3>8
    <2>3. QED BY <2>1, <2>2
  <1>4. CreatedFirst(wire)' /\ WireIsSound' /\ CopyIsSound'
    BY <1>t, <1>1 DEF CreatedFirst, WireIsSound, CopyIsSound
  <1>5. QED BY <1>3, <1>4 DEF ClientInv

\* The tab is hidden, or shown again, which may begin a fetch.
LEMMA TabKeeps ==
  ASSUME ClientInv, Hide \/ \E f \in Fetches : Show(f)
  PROVE  ClientInv'
  <1>t. /\ ClientTypeOK /\ CardsAreKnown /\ CreatedFirst(wire) /\ WireIsSound /\ ReadsAreSound /\ CopyIsSound
        /\ fetch \in [Fetches -> [state : {"idle", "asked", "read"}, rows : Views]]
    BY DEF ClientInv, ClientTypeOK
  <1>1. /\ UNCHANGED <<server, known, connected, wire, view, drag, changes, drops, stale, sound, clean>>
        /\ hidden' \in BOOLEAN
    BY DEF Hide, Show, history
  <1>2. /\ fetch' \in [Fetches -> [state : {"idle", "asked", "read"}, rows : Views]]
        /\ \A g \in Fetches : fetch'[g].rows = fetch[g].rows /\ (fetch'[g].state = "read" => fetch[g].state = "read")
    <2>1. CASE UNCHANGED fetch
      BY <1>t, <2>1
    <2>2. ASSUME NEW f \in Fetches, Ask(f)
          PROVE  /\ fetch' \in [Fetches -> [state : {"idle", "asked", "read"}, rows : Views]]
                 /\ \A g \in Fetches :
                      /\ fetch'[g].rows = fetch[g].rows
                      /\ fetch'[g].state = "read" => fetch[g].state = "read"
      BY <2>2, RequestKeeps
    <2>3. QED BY <2>1, <2>2 DEF Hide, Show
  <1>3. ClientTypeOK'
    BY <1>t, <1>1, <1>2 DEF ClientTypeOK
  <1>4. CardsAreKnown' /\ ReadsAreSound'
    BY <1>t, <1>1, <1>2 DEF CardsAreKnown, ReadsAreSound
  <1>5. CreatedFirst(wire)' /\ WireIsSound' /\ CopyIsSound'
    BY <1>t, <1>1 DEF CreatedFirst, WireIsSound, CopyIsSound
  <1>6. QED BY <1>3, <1>4, <1>5 DEF ClientInv

\* Setting keeps all, since what was read leads where the server is.
LEMMA SetsKeep ==
  ASSUME ClientInv, NEW f \in Fetches, FetchSets(f)
  PROVE  ClientInv'
  <1>t. /\ ClientTypeOK /\ CardsAreKnown /\ CreatedFirst(wire) /\ WireIsSound /\ ReadsAreSound
        /\ fetch \in [Fetches -> [state : {"idle", "asked", "read"}, rows : Views]]
    BY DEF ClientInv, ClientTypeOK
  <1>1. UNCHANGED <<server, known, connected, hidden, wire, changes, drops, stale>>
    BY DEF FetchSets, streamVars
  <1>2. /\ fetch' \in [Fetches -> [state : {"idle", "asked", "read"}, rows : Views]]
        /\ fetch'[f].state = "idle" /\ fetch'[f].rows = {}
        /\ \A g \in Fetches \ {f} : fetch'[g] = fetch[g]
    BY <1>t DEF FetchSets, NoFetch, Views
  <1>3. /\ sound' \in [Fetches -> Nat] /\ \A g \in Fetches \ {f} : sound'[g] = sound[g]
    BY <1>t DEF FetchSets, ClientTypeOK, Unsound
  <1>4. /\ drag = NoDrag => drag' = NoDrag
        /\ drag # NoDrag => /\ drag' # NoDrag /\ drag'.touched /\ drag'.id = drag.id /\ drag'.state = drag.state
                            /\ drag'.to = drag.to
                            /\ drag' \in Drags
    <2>1. CASE drag = NoDrag
      BY <2>1 DEF FetchSets
    <2>2. CASE drag # NoDrag
      <3>1. /\ drag \in Drags
            /\ drag' = [drag EXCEPT !.touched = TRUE]
        BY <1>t, <2>2 DEF FetchSets, ClientTypeOK
      <3>2. QED BY <2>2, <3>1 DEF NoDrag, Drags
    <2>3. QED BY <2>1, <2>2
  <1>5. view' = fetch[f].rows /\ view' \in Views
    BY <1>t DEF FetchSets
  <1>6. clean' \in BOOLEAN /\ (clean' => connected /\ fetch[f].state = "read" /\ sound[f] # Unsound)
    BY DEF FetchSets
  <1>7. ClientTypeOK'
    BY <1>t, <1>1, <1>2, <1>3, <1>4, <1>5, <1>6 DEF ClientTypeOK
  <1>8. CardsAreKnown'
    BY <1>t, <1>1, <1>2, <1>4, <1>5 DEF CardsAreKnown
  <1>9. CreatedFirst(wire)' /\ WireIsSound' /\ ReadsAreSound'
    BY <1>t, <1>1, <1>2, <1>3 DEF CreatedFirst, WireIsSound, ReadsAreSound
  <1>10. CopyIsSound'
    <2>1. SUFFICES ASSUME clean' PROVE CopyIsSound'
      BY DEF CopyIsSound
    <2>2. connected /\ \A i \in Listed : Leads(wire, i, ColumnsOf(i, view'), server[i], 1, Len(wire))
      BY <1>t, <1>5, <1>6, <2>1 DEF ReadsAreSound
        <2>3. drag # NoDrag /\ drag.id \in Listed => (server[drag.id] = "none" <=> Gone(wire, drag.id, ColumnsOf(drag.id, view'), 1, Len(wire)))
      BY <2>2 DEF Leads
    <2>4. QED BY <1>1, <1>4, <2>2, <2>3 DEF CopyIsSound
  <1>11. QED BY <1>7, <1>8, <1>9, <1>10 DEF ClientInv

-----------------------------------------------------------------------------

\* What the first event leads to once it is dispatched, or passed over by rows that
\* have it already.
LEMMA DispatchLeads ==
  ASSUME NEW w \in Seq(EventsSet), w # << >>, CreatedFirst(w), NEW i \in Cards
  PROVE  /\ Len(w) \in Nat \ {0} /\ Len(Tail(w)) = Len(w) - 1
         /\ \A n \in 1..(Len(w) - 1) : n + 1 \in 1..Len(w) /\ Tail(w)[n] = w[n + 1]
         /\ \A X, s : "none" \notin X =>
              LET Y == IF w[1].id = i THEN Turned(w[1], X) ELSE X
              IN /\ Gone(w, i, X, 1, Len(w)) <=> Gone(Tail(w), i, Y, 1, Len(w) - 1)
                 /\ Leads(w, i, X, s, 1, Len(w)) => Leads(Tail(w), i, Y, s, 1, Len(w) - 1)
         /\ \A t \in Status : \A s : \A k \in 1..Len(w) : \A hi \in k..Len(w) :
              Leads(w, i, Just(t), t, 1, k) /\ Leads(w, i, Just(t), s, 1, hi)
                => Leads(Tail(w), i, Just(t), s, 1, hi - 1)
         /\ \A X, s : \A lo \in 1..Len(w) :
              Leads(w, i, X, s, lo + 1, Len(w)) => Leads(Tail(w), i, X, s, lo, Len(w) - 1)
  <1>1. /\ Len(w) \in Nat \ {0} /\ Len(Tail(w)) = Len(w) - 1
        /\ \A n \in 1..(Len(w) - 1) : Tail(w)[n] = w[n + 1]
    BY HeadTailProperties, EmptySeq
  <1>2. /\ 1 \in 1..Len(w) /\ Len(w) \in 1..Len(w) /\ Len(w) \in 0..Len(w) /\ 1 + 1 = 2
        /\ \A n \in 1..(Len(w) - 1) : n + 1 \in 1..Len(w)
        /\ \A n \in 1..Len(w) : n \in 0..Len(w) /\ 1 <= n + 1 /\ n <= Len(w) + 1
        /\ \A k \in 1..Len(w) : \A hi \in k..Len(w) : hi \in 1..Len(w)
    BY <1>1
  <1>3. ASSUME NEW X, NEW s, "none" \notin X
        PROVE  LET Y == IF w[1].id = i THEN Turned(w[1], X) ELSE X
               IN /\ Gone(w, i, X, 1, Len(w)) <=> Gone(Tail(w), i, Y, 1, Len(w) - 1)
                  /\ Leads(w, i, X, s, 1, Len(w)) => Leads(Tail(w), i, Y, s, 1, Len(w) - 1)
    <2> DEFINE Y == IF w[1].id = i THEN Turned(w[1], X) ELSE X
    <2>1. /\ Gone(w, i, X, 1, Len(w)) <=> Gone(w, i, Y, 2, Len(w))
          /\ Leads(w, i, X, s, 1, Len(w)) => Leads(w, i, Y, s, 2, Len(w))
      BY <1>2, <1>3, LeadsApplied
    <2> HIDE DEF Y
    <2>2. /\ Gone(Tail(w), i, Y, 1, Len(w) - 1) <=> Gone(w, i, Y, 2, Len(w))
          /\ Leads(Tail(w), i, Y, s, 1, Len(w) - 1) <=> Leads(w, i, Y, s, 2, Len(w))
      BY <1>2, LeadsShifted
    <2>3. QED BY <2>1, <2>2 DEF Y
  <1>4. ASSUME NEW t \in Status, NEW s, NEW k \in 1..Len(w), NEW hi \in k..Len(w),
               Leads(w, i, Just(t), t, 1, k), Leads(w, i, Just(t), s, 1, hi)
        PROVE  Leads(Tail(w), i, Just(t), s, 1, hi - 1)
    <2>1. Leads(w, i, Just(t), s, 2, hi)
      BY <1>4, LeadsHeard
    <2>2. hi \in 0..Len(w) /\ 1 <= hi + 1
      BY <1>2
    <2>3. QED BY <1>2, <2>1, <2>2, LeadsShifted
  <1>5. ASSUME NEW X, NEW s, NEW lo \in 1..Len(w), Leads(w, i, X, s, lo + 1, Len(w))
        PROVE  Leads(Tail(w), i, X, s, lo, Len(w) - 1)
    <2>1. lo <= Len(w) + 1
      BY <1>1
    <2>2. QED BY <1>2, <1>5, <2>1, LeadsShifted
  <1>6. QED BY <1>1, <1>2, <1>3, <1>4, <1>5

\* The client hears the event that has arrived first.
LEMMA DispatchKeeps == ASSUME ClientInv, Dispatch PROVE ClientInv'
  <1> DEFINE e == wire[1]
  <1>t. /\ ClientTypeOK /\ CardsAreKnown /\ CreatedFirst(wire) /\ WireIsSound /\ ReadsAreSound /\ CopyIsSound
        /\ wire \in Seq(EventsSet) /\ wire # << >> /\ connected /\ view \in Views /\ stale \in Nat
    BY DEF ClientInv, ClientTypeOK, Dispatch
  <1>u. UNCHANGED <<server, known, connected, hidden, fetch, changes, drops, clean>> /\ wire' = Tail(wire)
    BY DEF Dispatch
  <1>w. /\ Len(wire) \in Nat \ {0} /\ Len(wire') = Len(wire) - 1 /\ wire' \in Seq(EventsSet)
        /\ \A n \in 1..(Len(wire) - 1) : n + 1 \in 1..Len(wire) /\ wire'[n] = wire[n + 1]
        /\ Head(wire) = e /\ e \in EventsSet
    <2>1. Len(wire) \in Nat \ {0} /\ Tail(wire) \in Seq(EventsSet) /\ Len(Tail(wire)) = Len(wire) - 1
      BY <1>t, HeadTailProperties, EmptySeq
    <2>2. \A n \in 1..(Len(wire) - 1) : Tail(wire)[n] = wire[n + 1]
      BY <1>t, HeadTailProperties
    <2>3. \A n \in 1..(Len(wire) - 1) : n + 1 \in 1..Len(wire)
      BY <2>1
    <2>4. Head(wire) = e
      BY <1>t
    <2>5. 1 \in 1..Len(wire)
      BY <2>1
    <2>6. e \in EventsSet
      BY <1>t, <2>5, EventTypes
    <2>7. QED BY <1>u, <2>1, <2>2, <2>3, <2>4, <2>6
  <1>e. /\ e.id \in Cards /\ e.id \in known
    <2>1. 1 \in 1..Len(wire)
      BY <1>w
    <2>2. QED BY <1>t, <2>1, EventTypes DEF CardsAreKnown
  <1>v. /\ view' = Apply(e, view) /\ view' \in Views
        /\ \A i \in Cards :
             ColumnsOf(i, view') = IF e.id = i THEN Turned(e, ColumnsOf(i, view)) ELSE ColumnsOf(i, view)
        /\ \A r \in view' : r[1] = e.id \/ r \in view
    <2>1. view' = Apply(e, view)
      BY <1>w DEF Dispatch
    <2>2. QED BY <1>t, <1>w, <2>1, ApplyTurns
  <1>s. /\ stale' = IF stale > 0 THEN stale - 1 ELSE 0
        /\ sound' = [f \in Fetches |-> IF fetch[f].state # "read" \/ sound[f] = Unsound THEN sound[f]
                                      ELSE IF sound[f] > 0 THEN sound[f] - 1 ELSE Unsound]
    BY DEF Dispatch
  <1>d. /\ drag = NoDrag => drag' = NoDrag
        /\ drag # NoDrag => /\ drag' # NoDrag /\ drag'.id = drag.id /\ drag'.state = drag.state
                            /\ drag'.to = drag.to /\ drag'.from = drag.from /\ drag.id \in Cards
                            /\ drag' \in Drags
                            /\ ~drag'.touched => ~drag.touched /\ drag.id # e.id
    <2>1. CASE drag = NoDrag
      BY <2>1 DEF Dispatch
    <2>2. CASE drag # NoDrag
      <3>1. /\ drag \in Drags
            /\ drag' = IF drag.id = e.id THEN [drag EXCEPT !.touched = TRUE] ELSE drag
        BY <1>t, <1>w, <2>2 DEF Dispatch, ClientTypeOK, Touch
      <3>2. QED BY <2>2, <3>1 DEF NoDrag, Drags
    <2>3. QED BY <2>1, <2>2
  <1> HIDE DEF e
  <1>l. \A i \in Cards :
         /\ \A X, s : "none" \notin X =>
              LET Y == IF e.id = i THEN Turned(e, X) ELSE X
              IN /\ Gone(wire, i, X, 1, Len(wire)) <=> Gone(wire', i, Y, 1, Len(wire'))
                 /\ Leads(wire, i, X, s, 1, Len(wire)) => Leads(wire', i, Y, s, 1, Len(wire'))
         /\ \A t \in Status : \A s : \A k \in 1..Len(wire) : \A hi \in k..Len(wire) :
              Leads(wire, i, Just(t), t, 1, k) /\ Leads(wire, i, Just(t), s, 1, hi)
                => Leads(wire', i, Just(t), s, 1, hi - 1)
         /\ \A X, s : \A lo \in 1..Len(wire) :
              Leads(wire, i, X, s, lo + 1, Len(wire)) => Leads(wire', i, X, s, lo, Len(wire'))
    <2>1. /\ wire \in Seq(EventsSet) /\ wire # << >> /\ CreatedFirst(wire)
          /\ Tail(wire) = wire' /\ Len(wire) - 1 = Len(wire')
      BY <1>t, <1>u, <1>w
    <2>2. \A i \in Cards :
            /\ \A X, s : "none" \notin X =>
                 LET Y == IF wire[1].id = i THEN Turned(wire[1], X) ELSE X
                 IN /\ Gone(wire, i, X, 1, Len(wire)) <=> Gone(Tail(wire), i, Y, 1, Len(wire) - 1)
                    /\ Leads(wire, i, X, s, 1, Len(wire)) => Leads(Tail(wire), i, Y, s, 1, Len(wire) - 1)
            /\ \A t \in Status : \A s : \A k \in 1..Len(wire) : \A hi \in k..Len(wire) :
                 Leads(wire, i, Just(t), t, 1, k) /\ Leads(wire, i, Just(t), s, 1, hi)
                   => Leads(Tail(wire), i, Just(t), s, 1, hi - 1)
            /\ \A X, s : \A lo \in 1..Len(wire) :
                 Leads(wire, i, X, s, lo + 1, Len(wire)) => Leads(Tail(wire), i, X, s, lo, Len(wire) - 1)
      BY <2>1, DispatchLeads, Zenon
    <2>3. QED BY <2>1, <2>2, Zenon DEF e
  <1>1. ClientTypeOK'
    <2>1. stale' \in Nat
      BY <1>t, <1>s
    <2>2. sound' \in [Fetches -> Nat]
      <3>1. \A n \in Nat : n > 0 => n - 1 \in Nat
        OBVIOUS
      <3>2. \A f \in Fetches : sound[f] \in Nat
        BY <1>t DEF ClientTypeOK
      <3>3. QED BY <1>s, <3>1, <3>2 DEF Unsound
    <2>3. drag' \in Drags \cup {NoDrag} /\ (drag' # NoDrag /\ drag'.state = "sent" => drag'.to \in Columns)
      <3>1. drag # NoDrag /\ drag.state = "sent" => drag.to \in Columns
        BY <1>t DEF ClientTypeOK
      <3>2. QED BY <1>d, <3>1
    <2>4. QED BY <1>t, <1>u, <1>w, <1>v, <2>1, <2>2, <2>3 DEF ClientTypeOK
  <1>2. CardsAreKnown'
    <2>1. \A n \in 1..Len(wire') : wire'[n].id \in known
      BY <1>t, <1>w DEF CardsAreKnown
    <2>2. \A r \in view' : r[1] \in known
      BY <1>t, <1>e, <1>v DEF CardsAreKnown
    <2>3. drag' # NoDrag => drag'.id \in known
      BY <1>t, <1>d DEF CardsAreKnown
    <2>4. QED BY <1>t, <1>u, <2>1, <2>2, <2>3 DEF CardsAreKnown
  <1>3. CreatedFirst(wire)'
    <2>1. SUFFICES ASSUME NEW m \in 1..Len(wire'), NEW n \in 1..Len(wire'), m < n,
                          wire'[n].kind = "created"
                   PROVE  wire'[m].id # wire'[n].id
      BY DEF CreatedFirst
    <2>2. m \in 1..(Len(wire) - 1) /\ n \in 1..(Len(wire) - 1) /\ m + 1 < n + 1
      BY <1>w, <2>1
    <2>3. /\ m + 1 \in 1..Len(wire) /\ wire'[m] = wire[m + 1]
          /\ n + 1 \in 1..Len(wire) /\ wire'[n] = wire[n + 1]
      BY <1>w, <2>2
    <2>4. \A k, l \in 1..Len(wire) : k < l /\ wire[l].kind = "created" => wire[k].id # wire[l].id
      BY <1>t DEF CreatedFirst
    <2>5. wire[m + 1].id # wire[n + 1].id
      BY <2>1, <2>2, <2>3, <2>4
    <2>6. QED BY <2>3, <2>5
  <1>4. WireIsSound'
    <2>1. stale' <= Len(wire') /\ stale' \in Nat
      BY <1>t, <1>w, <1>s DEF WireIsSound
    <2>2. ASSUME NEW i \in Cards PROVE Leads(wire', i, Just(server[i]), server[i], stale' + 1, Len(wire'))
      <3>1. Leads(wire, i, Just(server[i]), server[i], stale + 1, Len(wire)) /\ server[i] \in Status
        BY <1>t DEF WireIsSound, ClientTypeOK
      <3>2. CASE stale > 0
        <4>1. stale \in 1..Len(wire) /\ stale' + 1 = stale
          BY <1>t, <1>w, <1>s, <3>2 DEF WireIsSound
        <4>2. QED BY <1>l, <3>1, <4>1
      <3>3. CASE stale = 0
        <4>1. Len(wire) \in 1..Len(wire) /\ Len(wire) \in Len(wire)..Len(wire) /\ stale + 1 = 1 /\ stale' + 1 = 1
          BY <1>w, <1>s, <3>3
        <4>2. Leads(wire, i, Just(server[i]), server[i], 1, Len(wire))
          BY <3>1, <4>1
        <4>3. Leads(wire', i, Just(server[i]), server[i], 1, Len(wire) - 1)
          BY <1>l, <3>1, <4>1, <4>2
        <4>4. QED BY <1>w, <4>1, <4>3
      <3>4. QED BY <1>t, <3>2, <3>3
    <2>3. QED BY <1>t, <1>u, <2>1, <2>2 DEF WireIsSound
  <1>5. ReadsAreSound'
    <2>1. SUFFICES ASSUME NEW f \in Fetches, fetch[f].state = "read", sound'[f] # Unsound
                   PROVE  /\ connected /\ sound'[f] <= Len(wire')
                          /\ \A i \in Listed :
                               /\ Leads(wire', i, ColumnsOf(i, fetch[f].rows), server[i], 1, Len(wire'))
                               /\ \E s \in Status : /\ ColumnsOf(i, fetch[f].rows) = Just(s)
                                                    /\ Leads(wire', i, Just(s), s, 1, sound'[f])
      BY <1>u DEF ReadsAreSound
    <2>2. sound[f] # Unsound /\ sound[f] > 0 /\ sound'[f] = sound[f] - 1 /\ sound[f] \in Nat
      BY <1>t, <1>s, <2>1 DEF ClientTypeOK
    <2>3. connected /\ sound[f] <= Len(wire)
      BY <1>t, <2>1, <2>2 DEF ReadsAreSound
    <2>4. sound[f] \in 1..Len(wire) /\ Len(wire) \in sound[f]..Len(wire) /\ sound[f] \in sound[f]..sound[f]
          /\ sound[f] \in sound[f]..Len(wire) /\ sound'[f] <= Len(wire')
      BY <1>w, <2>2, <2>3
    <2>5. ASSUME NEW i \in Listed
          PROVE  /\ Leads(wire', i, ColumnsOf(i, fetch[f].rows), server[i], 1, Len(wire'))
                 /\ \E s \in Status : /\ ColumnsOf(i, fetch[f].rows) = Just(s)
                                      /\ Leads(wire', i, Just(s), s, 1, sound'[f])
      <3>1. Leads(wire, i, ColumnsOf(i, fetch[f].rows), server[i], 1, Len(wire))
        BY <1>t, <2>1, <2>2 DEF ReadsAreSound
      <3>2. PICK s \in Status : /\ ColumnsOf(i, fetch[f].rows) = Just(s)
                               /\ Leads(wire, i, Just(s), s, 1, sound[f])
        BY <1>t, <2>1, <2>2 DEF ReadsAreSound
      <3>3. Leads(wire', i, Just(s), server[i], 1, Len(wire) - 1)
        BY <1>l, <2>4, <3>1, <3>2, ListedCards
      <3>4. Leads(wire', i, Just(s), s, 1, sound[f] - 1)
        BY <1>l, <2>4, <3>2, ListedCards
      <3>5. QED BY <1>w, <2>2, <3>2, <3>3, <3>4
    <2>6. QED BY <2>3, <2>4, <2>5
  <1>6. CopyIsSound'
    <2>1. SUFFICES ASSUME clean PROVE CopyIsSound'
      BY <1>u DEF CopyIsSound
    <2>2. \A i \in Listed : drag = NoDrag \/ drag.id # i \/ drag.state \in {"held", "landed"} =>
            Leads(wire', i, ColumnsOf(i, view'), server[i], 1, Len(wire'))
      <3>1. SUFFICES ASSUME NEW i \in Listed, drag = NoDrag \/ drag.id # i \/ drag.state \in {"held", "landed"}
                     PROVE  Leads(wire', i, ColumnsOf(i, view'), server[i], 1, Len(wire'))
        OBVIOUS
      <3>2. Leads(wire, i, ColumnsOf(i, view), server[i], 1, Len(wire))
        BY <1>t, <2>1, <3>1 DEF CopyIsSound
      <3>3. PICK X : X = ColumnsOf(i, view)
        OBVIOUS
      <3>4. /\ "none" \notin X /\ Leads(wire, i, X, server[i], 1, Len(wire))
            /\ ColumnsOf(i, view') = IF e.id = i THEN Turned(e, X) ELSE X
        BY <1>v, <3>2, <3>3, ListedCards, ColumnsTypes
      <3>5. Leads(wire', i, IF e.id = i THEN Turned(e, X) ELSE X, server[i], 1, Len(wire'))
        BY <1>l, <3>4, ListedCards
      <3>6. QED BY <3>4, <3>5
    <2>3. ASSUME drag # NoDrag, drag.id \in Listed, drag.state = "sent"
          PROVE  server[drag.id] = "none" <=> Gone(wire', drag.id, ColumnsOf(drag.id, view'), 1, Len(wire'))
      <3>1. server[drag.id] = "none" <=> Gone(wire, drag.id, ColumnsOf(drag.id, view), 1, Len(wire))
        BY <1>t, <2>1, <2>3 DEF CopyIsSound
      <3>2. PICK X : X = ColumnsOf(drag.id, view)
        OBVIOUS
      <3>3. /\ "none" \notin X /\ drag.id \in Cards
            /\ ColumnsOf(drag.id, view') = IF e.id = drag.id THEN Turned(e, X) ELSE X
        BY <1>v, <1>d, <2>3, <3>2, ColumnsTypes
      <3>4. Gone(wire, drag.id, X, 1, Len(wire))
              <=> Gone(wire', drag.id, IF e.id = drag.id THEN Turned(e, X) ELSE X, 1, Len(wire'))
        BY <1>l, <3>3
      <3>5. QED BY <3>1, <3>2, <3>3, <3>4
    <2>4. ASSUME drag # NoDrag, drag.id \in Listed, ~drag'.touched
          PROVE  /\ ColumnsOf(drag.id, view') = ColumnsOf(drag.id, view)
                 /\ drag.state = "held" => <<drag.id, drag.from>> \in view'
                 /\ drag.state # "held" =>
                      /\ ColumnsOf(drag.id, view') # {}
                      /\ Leads(wire', drag.id, {drag.from}, server[drag.id], 1, Len(wire'))
      <3>1. ~drag.touched /\ drag.id # e.id /\ drag.id \in Cards /\ drag'.from \in Columns /\ drag.from \in Columns
        BY <1>d, <2>4 DEF Drags
      <3>2. ColumnsOf(drag.id, view') = ColumnsOf(drag.id, view)
        BY <1>v, <3>1
      <3>3. \A c \in Columns : <<drag.id, c>> \in view' <=> <<drag.id, c>> \in view
        BY <3>2 DEF ColumnsOf
      <3>4. /\ drag.state = "held" => <<drag.id, drag.from>> \in view
            /\ drag.state # "held" =>
                 /\ ColumnsOf(drag.id, view) # {}
                 /\ Leads(wire, drag.id, {drag.from}, server[drag.id], 1, Len(wire))
        BY <1>t, <2>1, <2>4, <3>1 DEF CopyIsSound
      <3>5. "none" \notin {drag.from}
        BY ClientAssumption, <3>1
      <3>6. \A X : "none" \notin X /\ Leads(wire, drag.id, X, server[drag.id], 1, Len(wire))
                    => Leads(wire', drag.id, X, server[drag.id], 1, Len(wire'))
        BY <1>l, <3>1
      <3>7. QED BY <3>1, <3>2, <3>3, <3>4, <3>5, <3>6
    <2>5. ASSUME drag # NoDrag, drag.id \in Listed
          PROVE  /\ drag'.state = "sent" =>
                      (server[drag'.id] = "none"
                         <=> Gone(wire', drag'.id, ColumnsOf(drag'.id, view'), 1, Len(wire')))
                 /\ ~drag'.touched /\ drag'.state = "held" => <<drag'.id, drag'.from>> \in view'
                 /\ ~drag'.touched /\ drag'.state # "held" =>
                      /\ ColumnsOf(drag'.id, view') # {}
                      /\ Leads(wire', drag'.id, {drag'.from}, server[drag'.id], 1, Len(wire'))
      BY <1>d, <2>3, <2>4, <2>5
    <2>6. connected' /\ server' = server
      BY <1>t, <1>u
    <2>7. drag' = NoDrag \/ (drag # NoDrag /\ drag'.id = drag.id /\ drag'.state = drag.state)
      BY <1>d
    <2>8. QED BY <1>d, <2>2, <2>5, <2>6, <2>7 DEF CopyIsSound
  <1>7. QED BY <1>1, <1>2, <1>3, <1>4, <1>5, <1>6 DEF ClientInv

-----------------------------------------------------------------------------

\* Moving a card in the copy touches neither the server nor fetches.
LEMMA MovesKeep ==
  ASSUME ClientInv, UNCHANGED <<server, known, connected, hidden, wire, fetch, drops, stale, sound>>,
         view' \in Views, \A r \in view' : r[1] \in known,
         drag' \in Drags \cup {NoDrag}, drag' # NoDrag => drag'.id \in known,
         drag' # NoDrag /\ drag'.state = "sent" => drag'.to \in Columns,
         changes' \in 0..MaxChanges, clean' \in BOOLEAN, CopyIsSound'
  PROVE  ClientInv'
  <1>t. ClientTypeOK /\ CardsAreKnown /\ CreatedFirst(wire) /\ WireIsSound /\ ReadsAreSound
    BY DEF ClientInv
  <1>1. ClientTypeOK'
    BY <1>t DEF ClientTypeOK
  <1>2. CardsAreKnown'
    BY <1>t DEF CardsAreKnown
  <1>3. CreatedFirst(wire)' /\ WireIsSound' /\ ReadsAreSound'
    BY <1>t DEF CreatedFirst, WireIsSound, ReadsAreSound
  <1>4. QED BY <1>1, <1>2, <1>3 DEF ClientInv

\* A card is picked up.
LEMMA DragStartKeeps ==
  ASSUME ClientInv, NEW i \in Cards, NEW from \in Columns, DragStart(i, from)
  PROVE  ClientInv'
  <1>t. ClientTypeOK /\ CardsAreKnown /\ CopyIsSound
    BY DEF ClientInv
  <1>u. UNCHANGED <<server, known, connected, hidden, wire, view, fetch, drops, stale, sound, clean>>
    BY DEF DragStart, streamVars, history
  <1>1. PICK touched \in BOOLEAN : touched = FALSE
    OBVIOUS
  <1>2. /\ drag = NoDrag /\ <<i, from>> \in view /\ changes' \in 0..MaxChanges
        /\ drag' = [state |-> "held", id |-> i, from |-> from, to |-> "none", touched |-> touched]
    <2>1. drag' = [state |-> "held", id |-> i, from |-> from, to |-> "none", touched |-> touched]
      BY <1>1, Zenon DEF DragStart
    <2>2. drag = NoDrag /\ <<i, from>> \in view /\ changes < MaxChanges /\ changes' = changes + 1
      BY Zenon DEF DragStart
    <2>3. QED BY ClientAssumption, <1>t, <2>1, <2>2 DEF ClientTypeOK
  <1>3. drag' \in Drags /\ drag'.id = i /\ drag'.from = from /\ drag'.state = "held"
    BY <1>2 DEF Drags, Status
  <1>4. i \in known
    <2>1. <<i, from>>[1] = i
      OBVIOUS
    <2>2. QED BY <1>t, <1>2, <2>1 DEF CardsAreKnown
  <1>5. CopyIsSound'
    <2>1. SUFFICES ASSUME clean PROVE CopyIsSound'
      BY <1>u DEF CopyIsSound
    <2>2. connected /\ \A j \in Listed : Leads(wire, j, ColumnsOf(j, view), server[j], 1, Len(wire))
      BY <1>t, <1>2, <2>1 DEF CopyIsSound
    <2>3. QED BY <1>u, <1>2, <1>3, <2>2 DEF CopyIsSound
  <1>6. view \in Views /\ clean \in BOOLEAN /\ \A r \in view : r[1] \in known
    BY <1>t DEF ClientTypeOK, CardsAreKnown
  <1>7. QED BY <1>u, <1>2, <1>3, <1>4, <1>5, <1>6, MovesKeep

\* What the copy is like when a card has been put into a column.
LEMMA PutKeeps ==
  ASSUME ClientInv, NEW i \in Cards, NEW c \in Columns,
         NEW v, v = Apply([kind |-> "status", id |-> i, column |-> c], view)
  PROVE  /\ v \in Views /\ \A r \in v : r[1] \in known
         /\ \A j \in Cards : ColumnsOf(j, v) = IF j = i /\ ColumnsOf(j, view) # {} THEN {c} ELSE ColumnsOf(j, view)
  <1> DEFINE e == [kind |-> "status", id |-> i, column |-> c]
  <1>1. /\ view \in Views /\ \A r \in view : r[1] \in known
    BY DEF ClientInv, ClientTypeOK, CardsAreKnown
  <1>2. e \in EventsSet /\ e.kind = "status" /\ e.id = i /\ e.column = c
    BY DEF EventsSet
  <1>3. v = Apply(e, view)
    OBVIOUS
  <1> HIDE DEF e
  <1>4. /\ v \in Views
        /\ \A j \in Cards :
             ColumnsOf(j, v) = IF j = e.id THEN Turned(e, ColumnsOf(j, view)) ELSE ColumnsOf(j, view)
        /\ \A r \in v : \E q \in view : q[1] = r[1]
    <2>1. \A f \in EventsSet, w \in Views :
            /\ Apply(f, w) \in Views
            /\ \A j \in Cards :
                 ColumnsOf(j, Apply(f, w)) = IF j = f.id THEN Turned(f, ColumnsOf(j, w)) ELSE ColumnsOf(j, w)
            /\ f.kind # "created" => \A r \in Apply(f, w) : \E q \in w : q[1] = r[1]
      BY ApplyTurns
    <2>2. view \in Views /\ e \in EventsSet /\ e.kind # "created"
      BY <1>1, <1>2
    <2>3. /\ Apply(e, view) \in Views
          /\ \A j \in Cards :
               ColumnsOf(j, Apply(e, view)) = IF j = e.id THEN Turned(e, ColumnsOf(j, view)) ELSE ColumnsOf(j, view)
          /\ \A r \in Apply(e, view) : \E q \in view : q[1] = r[1]
      BY <2>1, <2>2
    <2>4. QED BY <1>3, <2>3, Zenon
  <1>5. \A X : Turned(e, X) = IF X = {} THEN {} ELSE {c}
    BY <1>2 DEF Turned
  <1>6. ASSUME NEW j \in Cards
        PROVE  ColumnsOf(j, v) = IF j = i /\ ColumnsOf(j, view) # {} THEN {c} ELSE ColumnsOf(j, view)
    BY <1>2, <1>4, <1>5
  <1>7. QED BY <1>1, <1>4, <1>6

\* A card is put down, in the copy first.
LEMMA DropKeeps ==
  ASSUME ClientInv, NEW to \in Columns, Drop(to)
  PROVE  ClientInv'
  <1>t. ClientTypeOK /\ CardsAreKnown /\ CopyIsSound
    BY DEF ClientInv
  <1>u. UNCHANGED <<server, known, connected, hidden, wire, fetch, changes, drops, stale, sound, clean>>
    BY DEF Drop, streamVars, history
  <1>d. /\ drag # NoDrag /\ drag \in Drags /\ drag.state = "held" /\ drag.id \in Cards /\ drag.id \in known
        /\ drag.from \in Columns
    BY <1>t DEF Drop, ClientTypeOK, Drags, CardsAreKnown
  <1>1. /\ drag' \in Drags /\ drag' # NoDrag /\ drag'.state = "sent" /\ drag'.to = to
        /\ drag'.id = drag.id /\ drag'.from = drag.from /\ drag'.touched = drag.touched
    BY <1>d DEF Drop, Drags, NoDrag, Status
  <1>2. /\ view' \in Views /\ \A r \in view' : r[1] \in known
        /\ \A j \in Cards :
             ColumnsOf(j, view') = IF j = drag.id /\ ColumnsOf(j, view) # {} THEN {to} ELSE ColumnsOf(j, view)
    BY <1>d, PutKeeps DEF Drop
  <1>3. CopyIsSound'
    <2>1. SUFFICES ASSUME clean PROVE CopyIsSound'
      BY <1>u DEF CopyIsSound
    <2>2. connected /\ \A j \in Listed : Leads(wire, j, ColumnsOf(j, view), server[j], 1, Len(wire))
      BY <1>t, <1>d, <2>1 DEF CopyIsSound
    <2>3. \A j \in Listed : j # drag.id => Leads(wire, j, ColumnsOf(j, view'), server[j], 1, Len(wire))
      BY <1>2, <2>2, ListedCards
    <2>4. drag.id \in Listed => (server[drag.id] = "none" <=> Gone(wire, drag.id, ColumnsOf(drag.id, view'), 1, Len(wire)))
      <3>1. ColumnsOf(drag.id, view') = {} <=> ColumnsOf(drag.id, view) = {}
        BY <1>d, <1>2
      <3>2. QED BY <1>d, <2>2, <3>1 DEF Leads, Gone
    <2>5. ASSUME drag.id \in Listed, ~drag.touched
          PROVE  /\ ColumnsOf(drag.id, view') # {}
                 /\ Leads(wire, drag.id, {drag.from}, server[drag.id], 1, Len(wire))
      <3>1. drag.from \in ColumnsOf(drag.id, view)
        BY <1>t, <1>d, <2>1, <2>5 DEF CopyIsSound, ColumnsOf
      <3>2. QED BY <1>d, <1>2, <2>2, <2>5, <3>1, LeadsFrom
    <2>6. QED BY <1>u, <1>1, <2>2, <2>3, <2>4, <2>5 DEF CopyIsSound
  <1>4. changes \in 0..MaxChanges /\ clean \in BOOLEAN
    BY <1>t DEF ClientTypeOK
  <1>5. QED BY <1>u, <1>d, <1>1, <1>2, <1>3, <1>4, MovesKeep

\* The server will refuse, or has: the card waits for going back.
LEMMA RefusedKeeps ==
  ASSUME ClientInv, DropNotApproved \/ DropRefused
  PROVE  ClientInv'
  <1>t. ClientTypeOK /\ CardsAreKnown /\ CopyIsSound /\ view \in Views /\ changes \in 0..MaxChanges
        /\ clean \in BOOLEAN /\ \A r \in view : r[1] \in known
    BY DEF ClientInv, ClientTypeOK, CardsAreKnown
  <1>u. UNCHANGED <<server, known, connected, hidden, wire, view, fetch, changes, drops, stale, sound, clean>>
    BY DEF DropNotApproved, DropRefused, streamVars, history
  <1>d. /\ drag # NoDrag /\ drag \in Drags /\ drag.state \in {"held", "sent"}
        /\ drag.id \in Cards /\ drag.id \in known /\ drag.from \in Columns
        /\ drag' = [drag EXCEPT !.state = "refused"]
    BY <1>t DEF DropNotApproved, DropRefused, ClientTypeOK, Drags, CardsAreKnown
  <1>1. /\ drag' \in Drags /\ drag' # NoDrag /\ drag'.state = "refused"
        /\ drag'.id = drag.id /\ drag'.from = drag.from /\ drag'.touched = drag.touched
    BY <1>d DEF Drags, NoDrag
  <1>2. CopyIsSound'
    <2>1. SUFFICES ASSUME clean PROVE CopyIsSound'
      BY <1>u DEF CopyIsSound
    <2>2. connected /\ \A j \in Listed : j # drag.id => Leads(wire, j, ColumnsOf(j, view), server[j], 1, Len(wire))
      BY <1>t, <2>1 DEF CopyIsSound
    <2>3. ASSUME drag.id \in Listed, ~drag.touched
          PROVE  /\ ColumnsOf(drag.id, view) # {}
                 /\ Leads(wire, drag.id, {drag.from}, server[drag.id], 1, Len(wire))
      <3>1. CASE drag.state = "held"
        <4>1. drag.from \in ColumnsOf(drag.id, view)
          BY <1>t, <1>d, <2>1, <2>3, <3>1 DEF CopyIsSound, ColumnsOf
        <4>2. Leads(wire, drag.id, ColumnsOf(drag.id, view), server[drag.id], 1, Len(wire))
          BY <1>t, <1>d, <2>1, <2>3, <3>1 DEF CopyIsSound
        <4>3. QED BY <4>1, <4>2, LeadsFrom
      <3>2. CASE drag.state = "sent"
        BY <1>t, <1>d, <2>1, <2>3, <3>2 DEF CopyIsSound
      <3>3. QED BY <1>d, <3>1, <3>2
    <2>4. QED BY <1>u, <1>1, <2>2, <2>3 DEF CopyIsSound
  <1>3. QED BY <1>t, <1>u, <1>d, <1>1, <1>2, MovesKeep

\* The card stays where it is, or goes back.
LEMMA EndsKeep ==
  ASSUME ClientInv, DropDone \/ DropReverts
  PROVE  ClientInv'
  <1>t. ClientTypeOK /\ CardsAreKnown /\ CopyIsSound /\ view \in Views /\ changes \in 0..MaxChanges
        /\ clean \in BOOLEAN /\ \A r \in view : r[1] \in known
    BY DEF ClientInv, ClientTypeOK, CardsAreKnown
  <1>u. UNCHANGED <<server, known, connected, hidden, wire, fetch, changes, drops, stale, sound>> /\ drag' = NoDrag
    BY DEF DropDone, DropReverts, streamVars, history
  <1>d. drag # NoDrag /\ drag \in Drags /\ drag.id \in Cards /\ drag.from \in Columns
    BY <1>t DEF DropDone, DropReverts, ClientTypeOK, Drags
  <1>1. CASE DropDone
    <2>1. view' = view /\ clean' = clean /\ drag.state \in {"held", "landed"}
      BY <1>1 DEF DropDone, history
    <2>2. CopyIsSound'
      BY <1>t, <1>u, <2>1 DEF CopyIsSound
    <2>3. QED BY <1>t, <1>u, <2>1, <2>2, MovesKeep
  <1>2. CASE DropReverts
    <2>1. /\ view' \in Views /\ \A r \in view' : r[1] \in known
          /\ \A j \in Cards :
               ColumnsOf(j, view') = IF j = drag.id /\ ColumnsOf(j, view) # {} THEN {drag.from} ELSE ColumnsOf(j, view)
      BY <1>d, <1>2, PutKeeps DEF DropReverts
    <2>2. clean' \in BOOLEAN /\ (clean' <=> clean /\ ~drag.touched) /\ drag.state # "held"
      BY <1>2 DEF DropReverts
    <2>3. CopyIsSound'
      <3>1. SUFFICES ASSUME clean, ~drag.touched PROVE CopyIsSound'
        BY <2>2 DEF CopyIsSound
      <3>2. connected /\ \A j \in Listed : j # drag.id => Leads(wire, j, ColumnsOf(j, view), server[j], 1, Len(wire))
        BY <1>t, <3>1 DEF CopyIsSound
      <3>3. drag.id \in Listed =>
              /\ ColumnsOf(drag.id, view) # {}
              /\ Leads(wire, drag.id, {drag.from}, server[drag.id], 1, Len(wire))
        BY <1>t, <1>d, <2>2, <3>1 DEF CopyIsSound
      <3>4. \A j \in Listed : Leads(wire, j, ColumnsOf(j, view'), server[j], 1, Len(wire))
        BY <2>1, <3>2, <3>3, ListedCards
      <3>5. QED BY <1>u, <3>2, <3>4 DEF CopyIsSound
    <2>4. QED BY <1>t, <1>u, <2>1, <2>2, <2>3, MovesKeep
  <1>3. QED BY <1>1, <1>2

\* At first there are no cards.
LEMMA ClientStart == ClientInit => ClientInv
  <1> SUFFICES ASSUME ClientInit PROVE ClientInv
    OBVIOUS
  <1>1. /\ server = [i \in Cards |-> "none"] /\ known = {} /\ wire = << >> /\ view = {}
        /\ fetch = [f \in Fetches |-> NoFetch] /\ drag = NoDrag /\ changes = 0 /\ drops = 0
        /\ stale = 0 /\ sound = [f \in Fetches |-> Unsound]
    BY DEF ClientInit
  <1>2. connected \in BOOLEAN /\ hidden \in BOOLEAN /\ clean \in BOOLEAN /\ ~clean
    BY DEF ClientInit
  <1>3. << >> \in Seq(EventsSet) /\ Len(<< >>) = 0 /\ {} \in Views
    BY DEF Views
  <1>4. /\ server \in [Cards -> Status]
        /\ fetch \in [Fetches -> [state : {"idle", "asked", "read"}, rows : Views]]
        /\ sound \in [Fetches -> Nat]
    BY <1>1, <1>3 DEF Status, NoFetch, Unsound
  <1>5. ClientTypeOK
    BY ClientAssumption, <1>1, <1>2, <1>3, <1>4 DEF ClientTypeOK
  <1>6. \A f \in Fetches : fetch[f].rows = {} /\ fetch[f].state # "read"
    BY <1>1 DEF NoFetch
  <1>7. CardsAreKnown /\ CreatedFirst(wire)
    BY <1>1, <1>3, <1>6 DEF CardsAreKnown, CreatedFirst
  <1>8. \A i \in Cards : Leads(wire, i, Just(server[i]), server[i], 0 + 1, 0)
    BY LeadsThere
  <1>9. WireIsSound
    BY <1>1, <1>3, <1>8 DEF WireIsSound
  <1>10. ReadsAreSound /\ CopyIsSound
    BY <1>2, <1>6 DEF ReadsAreSound, CopyIsSound
  <1>11. QED BY <1>5, <1>7, <1>9, <1>10 DEF ClientInv

\* Every step of the tab, of the stream and of the others keeps the invariant.
LEMMA ClientStep == ClientInv /\ [ClientNext]_clientVars => ClientInv'
  <1> SUFFICES ASSUME ClientInv, [ClientNext]_clientVars PROVE ClientInv'
    OBVIOUS
  <1>1. CASE UNCHANGED clientVars
    BY <1>1 DEF clientVars, streamVars, history, ClientInv, ClientTypeOK, CardsAreKnown, CreatedFirst,
                WireIsSound, ReadsAreSound, CopyIsSound
  <1>2. ASSUME NEW i \in Cards, NEW c \in Columns,
               TaskCreated(i, c) \/ TaskMoves(i, c) \/ SilentChange(i, c) \/ DragStart(i, c) \/ Drop(c)
        PROVE  ClientInv'
    BY <1>2, TasksKeep, SilentKeeps, DragStartKeeps, DropKeeps
  <1>3. ASSUME NEW i \in Cards, TaskDeleted(i) PROVE ClientInv'
    <2>1. CASE Columns = {}
      \* Without columns there are no rows.
      BY <1>3, <2>1 DEF ClientInv, ClientTypeOK, Status, TaskDeleted
    <2>2. CASE Columns # {}
      BY <1>3, <2>2, TasksKeep
    <2>3. QED BY <2>1, <2>2
  <1>4. ASSUME NEW f \in Fetches, Poll(f) \/ Refresh(f) \/ Show(f) \/ FetchReads(f) \/ FetchSets(f) PROVE ClientInv'
    BY <1>4, AskKeeps, TabKeeps, SetsKeep
  <1>5. CASE Connect \/ Disconnect \/ Dispatch \/ Hide
    BY <1>5, StreamKeeps, DispatchKeeps, TabKeeps
  <1>6. CASE DropNotApproved \/ DropLands \/ DropRefused \/ DropDone \/ DropReverts
    BY <1>6, RefusedKeeps, LandsKeeps, EndsKeep
  <1>7. QED BY <1>1, <1>2, <1>3, <1>4, <1>5, <1>6 DEF ClientNext

\* While the stream is up and nothing was lost, the events on their way bring
\* the copy to what the server has.
THEOREM CopiesCatchUp == ClientSpec => []EventsCatchUp
  <1>1. ASSUME ClientInv PROVE EventsCatchUp
    <2>1. SUFFICES ASSUME connected, clean, NEW i \in Listed,
                          drag = NoDrag \/ drag.id # i \/ drag.state = "held"
                   PROVE  {r \in After[Len(wire)] : r[1] = i} = {r \in RowsOf(server) : r[1] = i}
      BY DEF EventsCatchUp
    <2>t. /\ wire \in Seq(EventsSet) /\ view \in Views /\ CreatedFirst(wire) /\ Len(wire) \in Nat
          /\ server \in [Cards -> Status]
          /\ Leads(wire, i, ColumnsOf(i, view), server[i], 1, Len(wire)) /\ i \in Cards
      BY <1>1, <2>1, ListedCards DEF ClientInv, ClientTypeOK, CopyIsSound
    <2> DEFINE Good(n) == /\ After[n] \in Views
                         /\ Leads(wire, i, ColumnsOf(i, After[n]), server[i], n + 1, Len(wire))
    <2>2. \A n \in 0..Len(wire) : Good(n)
      <3> DEFINE Bad == {n \in 0..Len(wire) : ~Good(n)}
      <3>1. SUFFICES ASSUME Bad # {} PROVE FALSE
        OBVIOUS
      <3>2. PICK n \in Bad : \A m \in Bad : n <= m
        <4>1. Bad \in SUBSET Nat
          BY <2>t
        <4> HIDE DEF Bad
        <4>2. QED BY <3>1, <4>1, LeastExists
      <3>3. n \in 0..Len(wire) /\ ~Good(n)
        BY <3>2
      <3>4. n # 0
        BY <2>t, <3>3, AfterRuns
      <3>5. /\ n - 1 \in 0..Len(wire) /\ ~(n <= n - 1) /\ n \in 1..Len(wire) /\ n \in Nat \ {0}
            /\ (n - 1) + 1 = n /\ Len(wire) \in n..Len(wire)
        BY <2>t, <3>3, <3>4
      <3>6. Good(n - 1)
        BY <3>2, <3>5
      <3>7. After[n] = Apply(wire[n], After[n - 1])
        BY <3>5, AfterRuns
      <3>8. wire[n] \in EventsSet
        BY <2>t, <3>5, EventTypes
      <3>9. /\ After[n] \in Views
            /\ ColumnsOf(i, After[n]) = IF wire[n].id = i THEN Turned(wire[n], ColumnsOf(i, After[n - 1]))
                                        ELSE ColumnsOf(i, After[n - 1])
        BY <2>t, <3>6, <3>7, <3>8, ApplyTurns
      <3>10. Leads(wire, i, ColumnsOf(i, After[n - 1]), server[i], n, Len(wire))
        BY <3>5, <3>6
      <3>11. Leads(wire, i, ColumnsOf(i, After[n]), server[i], n + 1, Len(wire))
        BY <2>t, <3>5, <3>9, <3>10, ColumnsTypes, LeadsApplied
      <3>12. QED BY <3>3, <3>9, <3>11
    <2>3. Good(Len(wire))
      BY <2>t, <2>2
    <2>4. ColumnsOf(i, After[Len(wire)]) = Just(server[i])
      BY <2>t, <2>3, LeadsThere
    <2>5. \A r \in After[Len(wire)] : r \in Cards \X Columns
      BY <2>3 DEF Views
    <2> HIDE DEF Good
    <2>6. ASSUME NEW r PROVE r \in After[Len(wire)] /\ r[1] = i <=> r \in RowsOf(server) /\ r[1] = i
      <3>1. ASSUME r \in After[Len(wire)], r[1] = i PROVE r \in RowsOf(server)
        <4>1. r = <<i, r[2]>> /\ r[2] \in Columns
          BY <2>5, <3>1
        <4>2. r[2] \in ColumnsOf(i, After[Len(wire)])
          BY <3>1, <4>1 DEF ColumnsOf
        <4>3. server[i] # "none" /\ r[2] = server[i]
          BY <2>4, <4>2 DEF Just
        <4>4. QED BY <2>t, <4>1, <4>3 DEF RowsOf
      <3>2. ASSUME r \in RowsOf(server), r[1] = i PROVE r \in After[Len(wire)]
        <4>1. PICK j \in Cards : server[j] # "none" /\ r = <<j, server[j]>>
          BY <3>2 DEF RowsOf
        <4>2. server[i] # "none" /\ r = <<i, server[i]>>
          BY <3>2, <4>1
        <4>3. server[i] \in ColumnsOf(i, After[Len(wire)])
          BY <2>4, <4>2 DEF Just
        <4>4. QED BY <4>2, <4>3 DEF ColumnsOf
      <3>3. QED BY <3>1, <3>2
    <2>7. QED BY <2>6
  <1>2. QED BY <1>1, ClientStart, ClientStep, PTL DEF ClientSpec

-----------------------------------------------------------------------------
(* Scheduler: lemmas *)

USE SchedulerAssumption, LimiterAssumption, NotificationsAssumption

\* Intervals are numbers of minutes.
LEMMA IntervalType == \A j \in JobIds : Interval(j) \in Nat \ {0}
  BY DEF Interval

\* What there is when tick k is about to look for the next task: the other ticks
\* are as SchedulerInv has them, and so are the marks run and the times next.
Between(k, next, run) ==
  /\ next \in [JobIds -> Nat] /\ run \in [JobIds -> BOOLEAN]
  /\ tickOf \in [Ticks -> [time : Nat, awaits : 0..Jobs]]
  /\ started \in [JobIds -> SUBSET Nat]
  /\ RunsAreSpaced
  /\ \A l, m \in Ticks \ {k} : l # m /\ tickOf[l].awaits # 0 => tickOf[l].awaits # tickOf[m].awaits
  /\ \A j \in JobIds : run[j] <=> \E l \in Ticks \ {k} : tickOf[l].awaits = j
  /\ \A l \in Ticks \ {k} : tickOf[l].awaits # 0 =>
       /\ tickOf[l].time \in started[tickOf[l].awaits]
       /\ \A s \in started[tickOf[l].awaits] : s <= tickOf[l].time
  /\ \A j \in JobIds : ~run[j] => \A s \in started[j] : s + Interval(j) <= next[j]

\* If no further task is due, the tick ends with the invariant.
LEMMA ProceedEnds ==
  ASSUME NEW k \in Ticks, NEW next, NEW run, Between(k, next, run),
         minute' \in 0..MaxMinute, enabled' \subseteq JobIds, nextRun' = next,
         tickOf' = [tickOf EXCEPT ![k] = NoTick], running' = run, started' = started
  PROVE  SchedulerInv'
  <1>1. tickOf' \in [Ticks -> [time : Nat, awaits : 0..Jobs]]
    BY DEF Between, NoTick
  <1>2. /\ \A l \in Ticks \ {k} : tickOf'[l] = tickOf[l]
        /\ tickOf'[k].awaits = 0
    BY DEF Between, NoTick
  <1>3. SchedulerTypeOK'
    BY <1>1 DEF Between, SchedulerTypeOK
  <1>4. OneTickPerTask'
    BY <1>2 DEF Between, OneTickPerTask
  <1>5. RunsAreSpaced'
    BY DEF Between, RunsAreSpaced
  <1>6. \A j \in JobIds : running'[j] <=> \E l \in Ticks : tickOf'[l].awaits = j
    <2> SUFFICES ASSUME NEW j \in JobIds
                 PROVE  running'[j] <=> \E l \in Ticks : tickOf'[l].awaits = j
      OBVIOUS
    <2>1. j # 0
      BY DEF JobIds
    <2>2. running'[j] <=> \E l \in Ticks \ {k} : tickOf[l].awaits = j
      BY DEF Between
    <2>3. QED BY <1>2, <2>1, <2>2
  <1>7. \A l \in Ticks : tickOf'[l].awaits # 0 =>
          /\ tickOf'[l].time \in started'[tickOf'[l].awaits]
          /\ \A s \in started'[tickOf'[l].awaits] : s <= tickOf'[l].time
    BY <1>2 DEF Between
  <1>8. \A j \in JobIds : ~running'[j] => \A s \in started'[j] : s + Interval(j) <= nextRun'[j]
    BY DEF Between
  <1>9. QED BY <1>3, <1>4, <1>5, <1>6, <1>7, <1>8 DEF SchedulerInv

\* If task i is due, the tick begins it with the invariant.
LEMMA ProceedBegins ==
  ASSUME NEW k \in Ticks, NEW next, NEW run, Between(k, next, run),
         NEW t \in Nat, NEW i \in JobIds, Due(i, t, next, run),
         minute' \in 0..MaxMinute, enabled' \subseteq JobIds, nextRun' = next,
         tickOf' = [tickOf EXCEPT ![k] = [time |-> t, awaits |-> i]],
         running' = [run EXCEPT ![i] = TRUE],
         started' = [started EXCEPT ![i] = @ \cup {t}]
  PROVE  SchedulerInv'
  <1>0. i \in 1..Jobs /\ i # 0
    BY DEF JobIds
  <1>1. tickOf' \in [Ticks -> [time : Nat, awaits : 0..Jobs]]
    BY <1>0 DEF Between
  <1>2. /\ \A l \in Ticks \ {k} : tickOf'[l] = tickOf[l]
        /\ tickOf'[k].awaits = i /\ tickOf'[k].time = t
    BY DEF Between
  <1>3. /\ started' \in [JobIds -> SUBSET Nat]
        /\ started'[i] = started[i] \cup {t}
        /\ \A j \in JobIds \ {i} : started'[j] = started[j]
    BY DEF Between
  <1>4. /\ running' \in [JobIds -> BOOLEAN] /\ running'[i]
        /\ \A j \in JobIds \ {i} : running'[j] = run[j]
    BY DEF Between
  <1>5. SchedulerTypeOK'
    BY <1>1, <1>3, <1>4 DEF Between, SchedulerTypeOK
  <1>6. /\ ~run[i] /\ t >= next[i] /\ next[i] \in Nat
        /\ \A s \in started[i] : s \in Nat /\ s + Interval(i) <= next[i]
    BY DEF Due, Between
  <1>7. \A s \in started[i] : s + Interval(i) <= t /\ s <= t
    BY <1>6, IntervalType
  <1>8. \A l \in Ticks \ {k} : tickOf[l].awaits # i
    BY <1>6 DEF Between
  <1>9. OneTickPerTask'
    <2> SUFFICES ASSUME NEW l \in Ticks, NEW m \in Ticks, l # m, tickOf'[l].awaits # 0
                 PROVE  tickOf'[l].awaits # tickOf'[m].awaits
      BY DEF OneTickPerTask
    <2>1. CASE l = k \/ m = k
      BY <1>2, <1>8, <2>1
    <2>2. CASE l # k /\ m # k
      BY <1>2, <2>2 DEF Between
    <2>3. QED BY <2>1, <2>2
  <1>10. RunsAreSpaced'
    <2> SUFFICES ASSUME NEW j \in JobIds, NEW s \in started'[j], NEW u \in started'[j], s < u
                 PROVE  u - s >= Interval(j)
      BY DEF RunsAreSpaced
    <2>1. CASE s \in started[j] /\ u \in started[j]
      BY <2>1 DEF Between, RunsAreSpaced
    <2>2. CASE j = i /\ s \in started[i] /\ u = t
      <3>1. s + Interval(i) <= t /\ s \in Nat /\ Interval(i) \in Nat
        BY <2>2, <1>6, <1>7, IntervalType
      <3>2. QED BY <2>2, <3>1
    <2>3. CASE j = i /\ s = t
      <3>1. u = t \/ (u \in Nat /\ u <= t)
        BY <2>3, <1>3, <1>6, <1>7
      <3>2. QED BY <2>3, <3>1
    <2>4. QED BY <1>3, <2>1, <2>2, <2>3
  <1>11. \A j \in JobIds : running'[j] <=> \E l \in Ticks : tickOf'[l].awaits = j
    <2> SUFFICES ASSUME NEW j \in JobIds
                 PROVE  running'[j] <=> \E l \in Ticks : tickOf'[l].awaits = j
      OBVIOUS
    <2>1. CASE j = i
      BY <1>2, <1>4, <2>1
    <2>2. CASE j # i
      <3>1. running'[j] <=> \E l \in Ticks \ {k} : tickOf[l].awaits = j
        BY <1>4, <2>2 DEF Between
      <3>2. QED BY <1>2, <2>2, <3>1
    <2>3. QED BY <2>1, <2>2
  <1>12. \A l \in Ticks : tickOf'[l].awaits # 0 =>
           /\ tickOf'[l].time \in started'[tickOf'[l].awaits]
           /\ \A s \in started'[tickOf'[l].awaits] : s <= tickOf'[l].time
    <2> SUFFICES ASSUME NEW l \in Ticks, tickOf'[l].awaits # 0
                 PROVE  /\ tickOf'[l].time \in started'[tickOf'[l].awaits]
                        /\ \A s \in started'[tickOf'[l].awaits] : s <= tickOf'[l].time
      OBVIOUS
    <2>1. CASE l = k
      BY <1>2, <1>3, <1>7, <2>1
    <2>2. CASE l # k
      <3>1. tickOf'[l] = tickOf[l] /\ tickOf[l].awaits # i /\ tickOf[l].awaits # 0
        BY <1>2, <1>8, <2>2
      <3>2. tickOf[l].awaits \in JobIds
        BY <3>1 DEF Between, JobIds
      <3>3. started'[tickOf[l].awaits] = started[tickOf[l].awaits]
        BY <1>3, <3>1, <3>2
      <3>4. QED BY <2>2, <3>1, <3>3 DEF Between
    <2>3. QED BY <2>1, <2>2
  <1>13. \A j \in JobIds : ~running'[j] => \A s \in started'[j] : s + Interval(j) <= nextRun'[j]
    BY <1>3, <1>4 DEF Between
  <1>14. QED BY <1>5, <1>9, <1>10, <1>11, <1>12, <1>13 DEF SchedulerInv

\* Either way, the tick leaves the invariant.
LEMMA ProceedKeeps ==
  ASSUME NEW k \in Ticks, NEW j \in Nat \ {0}, NEW t \in Nat, NEW next, NEW run,
         Between(k, next, run), Proceed(k, j, t, next, run), nextRun' = next,
         minute' \in 0..MaxMinute, enabled' \subseteq JobIds
  PROVE  SchedulerInv'
  <1>1. CASE /\ tickOf' = [tickOf EXCEPT ![k] = NoTick]
             /\ running' = run /\ started' = started
    BY <1>1, ProceedEnds
  <1>2. ASSUME NEW i \in j..Jobs, Due(i, t, next, run),
               tickOf' = [tickOf EXCEPT ![k] = [time |-> t, awaits |-> i]],
               running' = [run EXCEPT ![i] = TRUE],
               started' = [started EXCEPT ![i] = @ \cup {t}]
        PROVE  SchedulerInv'
    <2>1. i \in JobIds
      BY DEF JobIds
    <2>2. QED BY <1>2, <2>1, ProceedBegins
  <1>3. QED BY <1>1, <1>2 DEF Proceed

-----------------------------------------------------------------------------
(* Scheduler: invariant *)

\* It holds at first.
LEMMA SchedulerStart == SchedulerInit => SchedulerInv
  <1> SUFFICES ASSUME SchedulerInit PROVE SchedulerInv
    OBVIOUS
  <1>1. SchedulerTypeOK
    BY IntervalType DEF SchedulerInit, SchedulerTypeOK, NoTick
  <1>2. /\ \A k \in Ticks : tickOf[k].awaits = 0
        /\ \A j \in JobIds : started[j] = {} /\ running[j] = FALSE /\ j # 0
    BY DEF SchedulerInit, NoTick, JobIds
  <1>3. QED BY <1>1, <1>2 DEF SchedulerInv, OneTickPerTask, RunsAreSpaced

\* A new tick looks through all tasks.
LEMMA TickKeeps ==
  ASSUME SchedulerInv, NEW k \in Ticks, TickBegins(k)
  PROVE  SchedulerInv'
  <1>1. /\ tickOf[k] = NoTick /\ minute' = minute + 1 /\ minute < MaxMinute
        /\ Proceed(k, 1, minute', nextRun, running)
        /\ nextRun' = nextRun /\ enabled' = enabled
    BY DEF TickBegins
  <1>2. minute' \in 0..MaxMinute /\ minute' \in Nat /\ enabled' \subseteq JobIds
    BY <1>1 DEF SchedulerInv, SchedulerTypeOK
  <1>3. Between(k, nextRun, running)
    <2>1. \A j \in JobIds : running[j] <=> \E l \in Ticks \ {k} : tickOf[l].awaits = j
      BY <1>1 DEF SchedulerInv, NoTick, JobIds
    <2>2. QED BY <2>1 DEF SchedulerInv, SchedulerTypeOK, OneTickPerTask, Between
  <1>4. QED BY <1>1, <1>2, <1>3, ProceedKeeps

\* When a task has ended, its tick looks through those after it.
LEMMA RunKeeps ==
  ASSUME SchedulerInv, NEW k \in Ticks, RunEnds(k)
  PROVE  SchedulerInv'
  <1> DEFINE t == tickOf[k].time
             j == tickOf[k].awaits
             next == [nextRun EXCEPT ![j] = t + Interval(j)]
             run == [running EXCEPT ![j] = FALSE]
  <1>1. /\ j # 0 /\ nextRun' = next
        /\ Proceed(k, j + 1, t, next, run)
        /\ minute' = minute /\ enabled' = enabled
    BY DEF RunEnds
  <1>2. t \in Nat /\ j \in JobIds /\ j + 1 \in Nat \ {0}
    BY <1>1 DEF SchedulerInv, SchedulerTypeOK, JobIds
  <1>3. /\ started \in [JobIds -> SUBSET Nat]
        /\ \A s \in started[j] : s <= t
        /\ \A l \in Ticks \ {k} : tickOf[l].awaits # j
    BY <1>1 DEF SchedulerInv, SchedulerTypeOK, OneTickPerTask
  <1>4. /\ next \in [JobIds -> Nat] /\ next[j] = t + Interval(j)
        /\ \A i \in JobIds \ {j} : next[i] = nextRun[i]
    BY <1>2, IntervalType DEF SchedulerInv, SchedulerTypeOK
  <1>5. /\ run \in [JobIds -> BOOLEAN] /\ run[j] = FALSE
        /\ \A i \in JobIds \ {j} : run[i] = running[i]
    BY <1>2 DEF SchedulerInv, SchedulerTypeOK
  <1> HIDE DEF next, run
  <1>6. \A i \in JobIds : run[i] <=> \E l \in Ticks \ {k} : tickOf[l].awaits = i
    <2> SUFFICES ASSUME NEW i \in JobIds
                 PROVE  run[i] <=> \E l \in Ticks \ {k} : tickOf[l].awaits = i
      OBVIOUS
    <2>1. CASE i = j
      BY <1>3, <1>5, <2>1
    <2>2. CASE i # j
      <3>1. running[i] <=> \E l \in Ticks : tickOf[l].awaits = i
        BY DEF SchedulerInv
      <3>2. QED BY <1>5, <2>2, <3>1
    <2>3. QED BY <2>1, <2>2
  <1>7. \A i \in JobIds : ~run[i] => \A s \in started[i] : s + Interval(i) <= next[i]
    <2> SUFFICES ASSUME NEW i \in JobIds, ~run[i], NEW s \in started[i]
                 PROVE  s + Interval(i) <= next[i]
      OBVIOUS
    <2>0. s \in Nat /\ Interval(i) \in Nat
      BY <1>3, IntervalType
    <2>1. CASE i = j
      BY <1>2, <1>3, <1>4, <2>0, <2>1
    <2>2. CASE i # j
      BY <1>4, <1>5, <2>2 DEF SchedulerInv
    <2>3. QED BY <2>1, <2>2
  <1>8. Between(k, next, run)
    BY <1>4, <1>5, <1>6, <1>7 DEF SchedulerInv, SchedulerTypeOK, OneTickPerTask, Between
  <1>9. minute' \in 0..MaxMinute /\ enabled' \subseteq JobIds
    BY <1>1 DEF SchedulerInv, SchedulerTypeOK
  <1>10. QED BY <1>1, <1>2, <1>8, <1>9, ProceedKeeps

\* Every step keeps the invariant.
LEMMA SchedulerStep == SchedulerInv /\ [SchedulerNext]_schedulerVars => SchedulerInv'
  <1> SUFFICES ASSUME SchedulerInv, [SchedulerNext]_schedulerVars PROVE SchedulerInv'
    OBVIOUS
  <1>1. CASE \E k \in Ticks : TickBegins(k)
    BY <1>1, TickKeeps
  <1>2. CASE \E k \in Ticks : RunEnds(k)
    BY <1>2, RunKeeps
  <1>3. CASE \E j \in JobIds : SettingChanges(j)
    BY <1>3 DEF SettingChanges, SchedulerInv, SchedulerTypeOK, OneTickPerTask, RunsAreSpaced
  <1>4. CASE UNCHANGED schedulerVars
    BY <1>4 DEF schedulerVars, SchedulerInv, SchedulerTypeOK, OneTickPerTask, RunsAreSpaced
  <1>5. QED BY <1>1, <1>2, <1>3, <1>4 DEF SchedulerNext

-----------------------------------------------------------------------------
(* Scheduler: theorems *)

\* The inductive invariant: a task is marked as running exactly while a tick
\* awaits it, and it is not due before its interval is over.
THEOREM MarksAreRight == SchedulerSpec => []SchedulerInv
  <1>1. SchedulerInit => SchedulerInv
    BY SchedulerStart
  <1>2. SchedulerInv /\ [SchedulerNext]_schedulerVars => SchedulerInv'
    BY SchedulerStep
  <1>3. QED BY <1>1, <1>2, PTL DEF SchedulerSpec

\* Ticks that overtake each other never run one task at the same time.
THEOREM NoTaskTwice == SchedulerSpec => []OneTickPerTask
  <1>1. SchedulerInv => OneTickPerTask
    BY DEF SchedulerInv
  <1>2. QED BY <1>1, MarksAreRight, PTL

\* Nor do they run it more often than its interval says, by the times they go by.
THEOREM NoTaskTooSoon == SchedulerSpec => []RunsAreSpaced
  <1>1. SchedulerInv => RunsAreSpaced
    BY DEF SchedulerInv
  <1>2. QED BY <1>1, MarksAreRight, PTL

-----------------------------------------------------------------------------
(* The rate limiter *)

\* A part of a finite set has a size, and no greater one.
LEMMA PartSize ==
  ASSUME NEW S, IsFiniteSet(S), NEW T \in SUBSET S
  PROVE  /\ IsFiniteSet(T) /\ Cardinality(T) \in Nat /\ Cardinality(S) \in Nat
         /\ Cardinality(T) <= Cardinality(S)
  BY FS_Subset, FS_CardinalityType

\* One element more makes a set larger by one at most.
LEMMA OneMoreSize ==
  ASSUME NEW S, IsFiniteSet(S), NEW x, NEW T \in SUBSET (S \cup {x})
  PROVE  /\ IsFiniteSet(T) /\ Cardinality(T) \in Nat /\ Cardinality(S) \in Nat
         /\ Cardinality(T) <= Cardinality(S) + 1
  <1>0. /\ IsFiniteSet(S \cup {x}) /\ Cardinality(S) \in Nat
        /\ Cardinality(S \cup {x}) = IF x \in S THEN Cardinality(S) ELSE Cardinality(S) + 1
    BY FS_AddElement, FS_CardinalityType
  <1>1. IsFiniteSet(S \cup {x}) /\ Cardinality(S \cup {x}) <= Cardinality(S) + 1
    BY <1>0
  <1>2. Cardinality(T) <= Cardinality(S \cup {x}) /\ IsFiniteSet(T)
    BY <1>1, FS_Subset
  <1>3. Cardinality(T) \in Nat /\ Cardinality(S) \in Nat /\ Cardinality(S \cup {x}) \in Nat
    BY <1>1, <1>2, FS_CardinalityType
  <1>4. QED BY <1>1, <1>2, <1>3

\* Two sets have together at most what they have apart.
LEMMA UnionSize ==
  ASSUME NEW S, IsFiniteSet(S), NEW T, IsFiniteSet(T), NEW U \in SUBSET (S \cup T)
  PROVE  /\ Cardinality(U) \in Nat /\ Cardinality(S) \in Nat /\ Cardinality(T) \in Nat
         /\ Cardinality(U) <= Cardinality(S) + Cardinality(T)
  <1>1. /\ IsFiniteSet(S \cup T)
        /\ Cardinality(S \cup T) = Cardinality(S) + Cardinality(T) - Cardinality(S \cap T)
    BY FS_Union
  <1>2. IsFiniteSet(S \cap T) /\ IsFiniteSet(U) /\ Cardinality(U) <= Cardinality(S \cup T)
    BY <1>1, FS_Intersection, FS_Subset
  <1>3. /\ Cardinality(U) \in Nat /\ Cardinality(S) \in Nat /\ Cardinality(T) \in Nat
        /\ Cardinality(S \cap T) \in Nat /\ Cardinality(S \cup T) \in Nat
    BY <1>1, <1>2, FS_CardinalityType
  <1>4. QED BY <1>1, <1>2, <1>3

\* What is counted has a time.
LEMMA LimiterTypes ==
  ASSUME LimiterTypeOK, NEW c \in Clients
  PROVE  /\ now \in Nat /\ tick \in Nat /\ entry[c].count \in Nat /\ entry[c].resetAt \in Nat
         /\ entry[c] \in [count : Nat, resetAt : Nat]
         /\ admitted[c] \in SUBSET (Nat \X Nat)
         /\ \A r \in admitted[c] : r[1] \in Nat
  BY DEF LimiterTypeOK

\* When a window is over, the request that opened it is past every stretch that
\* reaches up to now.
LEMMA OverIsQuiet ==
  ASSUME LimiterTypeOK, NEW c \in Clients, QuotaKept(c), entry[c] = NoEntry \/ Expired(c)
  PROVE  Cardinality(Recent(c)) < Quota /\ \A r \in admitted[c] : r[1] < now
  <1>1. CASE entry[c] = NoEntry
    BY <1>1 DEF QuotaKept
  <1>2. CASE entry[c] # NoEntry /\ Expired(c)
    <2>1. /\ Opened(c) \in 0..now /\ IsFiniteSet(admitted[c])
          /\ \A r \in admitted[c] : r[1] <= entry[c].resetAt
          /\ Cardinality(OfWindow(c)) <= Quota
          /\ now > entry[c].resetAt /\ entry[c].resetAt = Opened(c) + Window
      BY <1>2, LimiterTypes DEF QuotaKept, Expired, Opened
    <2>2. PICK first \in admitted[c] : first[1] = Opened(c)
      BY <1>2 DEF QuotaKept
    <2>3. first \in OfWindow(c) /\ Recent(c) \subseteq OfWindow(c) \ {first}
      BY <2>1, <2>2, LimiterTypes DEF OfWindow, Recent
    <2>4. IsFiniteSet(OfWindow(c)) /\ Cardinality(OfWindow(c)) \in Nat
      BY <2>1, PartSize DEF OfWindow
    <2>5. IsFiniteSet(OfWindow(c) \ {first}) /\ Cardinality(OfWindow(c) \ {first}) = Cardinality(OfWindow(c)) - 1
      BY <2>3, <2>4, FS_RemoveElement
    <2>6. Cardinality(Recent(c)) <= Cardinality(OfWindow(c)) - 1 /\ Cardinality(Recent(c)) \in Nat
      BY <2>3, <2>5, PartSize
    <2>7. Cardinality(Recent(c)) < Quota
      BY <2>1, <2>4, <2>6
    <2>8. \A r \in admitted[c] : r[1] < now
      BY <2>1, LimiterTypes
    <2>9. QED BY <2>7, <2>8
  <1>3. QED BY <1>1, <1>2

\* A request that opens a window.
LEMMA OpeningKeeps ==
  ASSUME LimiterInv, NEW c \in Clients, entry[c] = NoEntry \/ Expired(c), now' = now,
         entry'[c] = [count |-> 1, resetAt |-> now + Window],
         admitted'[c] = admitted[c] \cup {<<now, tick>>}
  PROVE  /\ QuotaKept(c)'
         /\ \A from \in 1..now : Cardinality(Stretch(c, from)') <= 2 * Quota - 1
  <1> DEFINE new == <<now, tick>>
  <1>t. LimiterTypeOK /\ QuotaKept(c) /\ IsFiniteSet(admitted[c]) /\ new[1] = now /\ now \in Nat
    BY LimiterTypes DEF LimiterInv, QuotaKept
  <1>1. Cardinality(Recent(c)) < Quota /\ \A r \in admitted[c] : r[1] < now
    BY <1>t, OverIsQuiet
  <1>2. entry'[c] # NoEntry /\ entry'[c].count = 1 /\ entry'[c].resetAt = now + Window
          /\ Opened(c)' = now
    BY <1>t DEF Opened, NoEntry
  <1> HIDE DEF new
  <1>3. admitted'[c] = admitted[c] \cup {new}
    BY DEF new
  <1>4. OfWindow(c)' \subseteq {} \cup {new}
    BY <1>t, <1>1, <1>2, <1>3, LimiterTypes DEF OfWindow
  <1>5. Cardinality(OfWindow(c)') <= 1 /\ Cardinality(OfWindow(c)') \in Nat
    <2>1. /\ Cardinality(OfWindow(c)') <= Cardinality({}) + 1
          /\ Cardinality(OfWindow(c)') \in Nat
      BY <1>4, OneMoreSize, FS_EmptySet
    <2>2. QED BY <2>1, FS_EmptySet
  <1>6. BeforeWindow(c)' \subseteq Recent(c)
    BY <1>t, <1>1, <1>2, <1>3, LimiterTypes DEF BeforeWindow, Recent
  <1>7. IsFiniteSet(Recent(c)) /\ Cardinality(Recent(c)) \in Nat
    BY <1>t, PartSize DEF Recent
  <1>8. Cardinality(BeforeWindow(c)') < Quota
    BY <1>1, <1>6, <1>7, PartSize
  <1>9. IsFiniteSet(admitted'[c])
    BY <1>t, <1>3, FS_AddElement
  <1>10. /\ \E r \in admitted'[c] : r[1] = now
         /\ \A r \in admitted'[c] : r[1] <= now /\ r[1] <= now + Window
    BY <1>t, <1>1, <1>3, LimiterTypes
  <1>11. QuotaKept(c)'
    <2>1. /\ (Opened(c) \in 0..now)' /\ (entry[c].count > 0)'
          /\ (\E r \in admitted[c] : r[1] = Opened(c))'
          /\ (\A r \in admitted[c] : r[1] <= now /\ r[1] <= entry[c].resetAt)'
      BY <1>t, <1>2, <1>10
    <2>2. (Cardinality(OfWindow(c)) <= entry[c].count /\ Cardinality(OfWindow(c)) <= Quota)'
      BY <1>2, <1>5
    <2>3. QED BY <1>2, <1>8, <1>9, <2>1, <2>2 DEF QuotaKept
  <1>12. ASSUME NEW from \in 1..now PROVE Cardinality(Stretch(c, from)') <= 2 * Quota - 1
    <2>1. CASE new \in Stretch(c, from)'
      <3>1. now <= from + Window
        BY <1>t, <2>1 DEF Stretch
      <3>2. Stretch(c, from)' \subseteq Recent(c) \cup {new}
        BY <1>t, <1>3, <3>1, LimiterTypes DEF Stretch, Recent
      <3>3. Cardinality(Stretch(c, from)') <= Cardinality(Recent(c)) + 1 /\ Cardinality(Stretch(c, from)') \in Nat
        BY <1>7, <3>2, OneMoreSize
      <3>4. QED BY <1>1, <1>7, <3>3
    <2>2. CASE new \notin Stretch(c, from)'
      <3>1. Stretch(c, from)' \subseteq Stretch(c, from)
        BY <1>3, <2>2 DEF Stretch
      <3>2. IsFiniteSet(Stretch(c, from)) /\ Cardinality(Stretch(c, from)) <= 2 * Quota - 1
        BY <1>t, PartSize DEF Stretch, LimiterInv, BurstsAreBounded
      <3>3. QED BY <3>1, <3>2, PartSize
    <2>3. QED BY <2>1, <2>2
  <1>13. QED BY <1>11, <1>12

\* A request that is let through in a window that is open.
LEMMA AdmittingKeeps ==
  ASSUME LimiterInv, NEW c \in Clients, entry[c] # NoEntry, ~Expired(c), now' = now,
         entry[c].count + 1 <= Quota,
         entry'[c] = [entry[c] EXCEPT !.count = @ + 1],
         admitted'[c] = admitted[c] \cup {<<now, tick>>}
  PROVE  /\ QuotaKept(c)'
         /\ \A from \in 1..now : Cardinality(Stretch(c, from)') <= 2 * Quota - 1
  <1> DEFINE new == <<now, tick>>
  <1>t. /\ LimiterTypeOK /\ QuotaKept(c) /\ IsFiniteSet(admitted[c]) /\ new[1] = now /\ now \in Nat
        /\ entry[c].count \in Nat
    BY LimiterTypes DEF LimiterInv, QuotaKept
  <1>1. /\ entry'[c].count = entry[c].count + 1 /\ entry'[c].resetAt = entry[c].resetAt
        /\ entry'[c] # NoEntry /\ Opened(c)' = Opened(c)
    BY <1>t, LimiterTypes DEF Opened, NoEntry
  <1> HIDE DEF new
  <1>2. admitted'[c] = admitted[c] \cup {new}
    BY DEF new
  <1>3. /\ Opened(c) \in 0..now /\ now <= entry[c].resetAt /\ entry[c].resetAt = Opened(c) + Window
        /\ \E r \in admitted[c] : r[1] = Opened(c)
        /\ \A r \in admitted[c] : r[1] <= now /\ r[1] <= entry[c].resetAt
        /\ Cardinality(OfWindow(c)) <= entry[c].count /\ Cardinality(BeforeWindow(c)) < Quota
    BY <1>t, LimiterTypes DEF QuotaKept, Expired, Opened
  <1>4. /\ IsFiniteSet(OfWindow(c)) /\ IsFiniteSet(BeforeWindow(c))
        /\ Cardinality(OfWindow(c)) \in Nat /\ Cardinality(BeforeWindow(c)) \in Nat
    BY <1>t, PartSize DEF OfWindow, BeforeWindow
  <1>5. OfWindow(c)' \subseteq OfWindow(c) \cup {new}
    BY <1>1, <1>2 DEF OfWindow
  <1>6. /\ Cardinality(OfWindow(c)') <= entry[c].count + 1 /\ Cardinality(OfWindow(c)') \in Nat
        /\ IsFiniteSet(OfWindow(c)')
    <2>1. /\ Cardinality(OfWindow(c)') <= Cardinality(OfWindow(c)) + 1
          /\ Cardinality(OfWindow(c)') \in Nat /\ IsFiniteSet(OfWindow(c)')
      BY <1>4, <1>5, OneMoreSize
    <2>2. QED BY <1>t, <1>3, <1>4, <2>1
  <1>7. BeforeWindow(c)' \subseteq BeforeWindow(c)
    BY <1>t, <1>1, <1>2, <1>3 DEF BeforeWindow
  <1>8. Cardinality(BeforeWindow(c)') < Quota /\ IsFiniteSet(BeforeWindow(c)')
        /\ Cardinality(BeforeWindow(c)') \in Nat
    BY <1>3, <1>4, <1>7, PartSize
  <1>9. IsFiniteSet(admitted'[c])
    BY <1>t, <1>2, FS_AddElement
  <1>10. /\ \E r \in admitted'[c] : r[1] = Opened(c)
         /\ \A r \in admitted'[c] : r[1] <= now /\ r[1] <= entry[c].resetAt
    BY <1>t, <1>2, <1>3
  <1>11. QuotaKept(c)'
    BY <1>t, <1>1, <1>3, <1>6, <1>8, <1>9, <1>10 DEF QuotaKept
  <1>12. ASSUME NEW from \in 1..now PROVE Cardinality(Stretch(c, from)') <= 2 * Quota - 1
    <2>1. CASE new \in Stretch(c, from)'
      <3>1. now <= from + Window
        BY <1>t, <2>1 DEF Stretch
      <3>2. Stretch(c, from)' \subseteq OfWindow(c)' \cup BeforeWindow(c)'
        BY <1>t, <1>1, <1>2, <1>3, <3>1, LimiterTypes DEF Stretch, OfWindow, BeforeWindow
      <3>3. /\ Cardinality(Stretch(c, from)') <= Cardinality(OfWindow(c)') + Cardinality(BeforeWindow(c)')
            /\ Cardinality(Stretch(c, from)') \in Nat
        BY <1>6, <1>8, <3>2, UnionSize
      <3>4. QED BY <1>t, <1>6, <1>8, <3>3
    <2>2. CASE new \notin Stretch(c, from)'
      <3>1. Stretch(c, from)' \subseteq Stretch(c, from)
        BY <1>2, <2>2 DEF Stretch
      <3>2. IsFiniteSet(Stretch(c, from)) /\ Cardinality(Stretch(c, from)) <= 2 * Quota - 1
        BY <1>t, PartSize DEF Stretch, LimiterInv, BurstsAreBounded
      <3>3. QED BY <3>1, <3>2, PartSize
    <2>3. QED BY <2>1, <2>2
  <1>13. QED BY <1>11, <1>12

\* A request that is refused still counts.
LEMMA RefusingKeeps ==
  ASSUME LimiterInv, NEW c \in Clients, entry[c] # NoEntry, now' = now,
         entry'[c] = [entry[c] EXCEPT !.count = @ + 1], admitted'[c] = admitted[c]
  PROVE  QuotaKept(c)'
  <1>t. /\ LimiterTypeOK /\ QuotaKept(c) /\ entry[c].count \in Nat
    BY LimiterTypes DEF LimiterInv
  <1>1. /\ entry'[c].count = entry[c].count + 1 /\ entry'[c].resetAt = entry[c].resetAt
        /\ entry'[c] # NoEntry /\ Opened(c)' = Opened(c)
    BY <1>t, LimiterTypes DEF Opened, NoEntry
  <1>2. OfWindow(c)' = OfWindow(c) /\ BeforeWindow(c)' = BeforeWindow(c)
    BY <1>1 DEF OfWindow, BeforeWindow
  <1>3. Cardinality(OfWindow(c)) \in Nat
    BY <1>t, PartSize DEF QuotaKept, OfWindow
  <1>4. QED BY <1>t, <1>1, <1>2, <1>3 DEF QuotaKept

\* Every step keeps the invariant.
LEMMA LimiterStep == LimiterInv /\ [LimiterNext]_limiterVars => LimiterInv'
  <1> SUFFICES ASSUME LimiterInv, [LimiterNext]_limiterVars PROVE LimiterInv'
    OBVIOUS
  <1>t. LimiterTypeOK /\ BurstsAreBounded /\ \A c \in Clients : QuotaKept(c)
    BY DEF LimiterInv
  <1>1. ASSUME NEW c \in Clients, CheckRateLimit(c) PROVE LimiterInv'
    <2> DEFINE others == Clients \ {c}
               new == <<now, tick>>
    <2>1. /\ now' = now /\ tick' = tick + 1
          /\ \/ /\ entry[c] = NoEntry \/ Expired(c)
                /\ entry' = [entry EXCEPT ![c] = [count |-> 1, resetAt |-> now + Window]]
                /\ admitted' = [admitted EXCEPT ![c] = @ \cup {new}]
             \/ /\ entry[c] # NoEntry /\ ~Expired(c) /\ entry[c].count + 1 <= Quota
                /\ entry' = [entry EXCEPT ![c] = [entry[c] EXCEPT !.count = @ + 1]]
                /\ admitted' = [admitted EXCEPT ![c] = @ \cup {new}]
             \/ /\ entry[c] # NoEntry
                /\ entry' = [entry EXCEPT ![c] = [entry[c] EXCEPT !.count = @ + 1]]
                /\ admitted' = admitted
      <3>1. entry[c].count \in Nat /\ Quota \in Nat
              /\ [entry EXCEPT ![c].count = @ + 1] = [entry EXCEPT ![c] = [entry[c] EXCEPT !.count = @ + 1]]
        BY <1>t, LimiterTypes DEF LimiterTypeOK
      <3>2. ~(entry[c].count + 1 > Quota) => entry[c].count + 1 <= Quota
        BY <3>1
      <3>3. QED BY <1>1, <3>1, <3>2 DEF CheckRateLimit, Admit
    <2>2. new \in Nat \X Nat /\ now \in Nat /\ tick \in Nat
      BY <1>t, LimiterTypes
    <2>3. /\ [count |-> 1, resetAt |-> now + Window] \in [count : Nat, resetAt : Nat]
          /\ [entry[c] EXCEPT !.count = @ + 1] \in [count : Nat, resetAt : Nat]
      BY <1>t, <2>2, LimiterTypes
    <2> HIDE DEF new
    <2>4. LimiterTypeOK'
      <3>1. admitted' \in [Clients -> SUBSET (Nat \X Nat)]
        <4>1. admitted \in [Clients -> SUBSET (Nat \X Nat)] /\ admitted[c] \cup {new} \in SUBSET (Nat \X Nat)
          BY <1>t, <2>2, LimiterTypes DEF LimiterTypeOK
        <4>2. QED BY <2>1, <4>1
      <3>2. entry' \in [Clients -> [count : Nat, resetAt : Nat]]
        BY <1>t, <2>1, <2>3 DEF LimiterTypeOK
      <3>3. now' \in Nat /\ tick' \in Nat
        BY <2>1, <2>2
      <3>4. QED BY <3>1, <3>2, <3>3 DEF LimiterTypeOK
    <2>5. \A d \in others : entry'[d] = entry[d] /\ admitted'[d] = admitted[d]
      BY <1>t, <2>1 DEF LimiterTypeOK
    <2>6. \A d \in others :
            QuotaKept(d)' /\ \A from \in 1..now : Cardinality(Stretch(d, from)') <= 2 * Quota - 1
      BY <1>t, <2>1, <2>5
         DEF QuotaKept, Opened, OfWindow, BeforeWindow, Recent, Stretch, BurstsAreBounded
    <2>7. QuotaKept(c)' /\ \A from \in 1..now : Cardinality(Stretch(c, from)') <= 2 * Quota - 1
      <3>1. CASE /\ entry[c] = NoEntry \/ Expired(c)
                 /\ entry'[c] = [count |-> 1, resetAt |-> now + Window]
                 /\ admitted'[c] = admitted[c] \cup {new}
        BY <2>1, <3>1, OpeningKeeps DEF new
      <3>2. CASE /\ entry[c] # NoEntry /\ ~Expired(c) /\ entry[c].count + 1 <= Quota
                 /\ entry'[c] = [entry[c] EXCEPT !.count = @ + 1]
                 /\ admitted'[c] = admitted[c] \cup {new}
        BY <2>1, <3>2, AdmittingKeeps DEF new
      <3>3. CASE /\ entry[c] # NoEntry
                 /\ entry'[c] = [entry[c] EXCEPT !.count = @ + 1]
                 /\ admitted'[c] = admitted[c]
        <4>1. \A from \in 1..now : Cardinality(Stretch(c, from)') <= 2 * Quota - 1
          BY <1>t, <3>3 DEF Stretch, BurstsAreBounded
        <4>2. QED BY <2>1, <3>3, <4>1, RefusingKeeps
      <3>4. QED BY <1>t, <2>1, <3>1, <3>2, <3>3 DEF LimiterTypeOK
    <2>8. BurstsAreBounded'
      BY <2>1, <2>6, <2>7 DEF BurstsAreBounded
    <2>9. QED BY <2>4, <2>6, <2>7, <2>8 DEF LimiterInv
  <1>2. CASE Cleanup
    <2>1. /\ entry' = [c \in Clients |-> IF Expired(c) THEN NoEntry ELSE entry[c]]
          /\ UNCHANGED <<now, admitted, tick>>
      BY <1>2 DEF Cleanup
    <2>2. LimiterTypeOK'
      BY <1>t, <2>1 DEF LimiterTypeOK, NoEntry
    <2>3. BurstsAreBounded'
      BY <1>t, <2>1 DEF BurstsAreBounded, Stretch
    <2>4. ASSUME NEW c \in Clients PROVE QuotaKept(c)'
      <3>1. CASE Expired(c)
        <4>1. Cardinality(Recent(c)) < Quota /\ \A r \in admitted[c] : r[1] < now
          BY <1>t, <3>1, OverIsQuiet
        <4>2. entry'[c] = NoEntry /\ Recent(c)' = Recent(c) /\ IsFiniteSet(admitted[c])
          BY <1>t, <2>1, <3>1 DEF Recent, QuotaKept
        <4>3. QED BY <2>1, <4>1, <4>2 DEF QuotaKept
      <3>2. CASE ~Expired(c)
        <4>1. entry'[c] = entry[c] /\ UNCHANGED <<now, admitted>>
          BY <2>1, <3>2
        <4>2. QED BY <1>t, <4>1 DEF QuotaKept, Opened, OfWindow, BeforeWindow, Recent
      <3>3. QED BY <3>1, <3>2
    <2>5. QED BY <2>2, <2>3, <2>4 DEF LimiterInv
  <1>3. CASE TimePasses
    <2>1. now' = now + 1 /\ tick' = 0 /\ UNCHANGED <<entry, admitted>> /\ now \in Nat
      BY <1>t, <1>3 DEF TimePasses, LimiterTypeOK
    <2>2. LimiterTypeOK'
      BY <1>t, <2>1 DEF LimiterTypeOK
    <2>3. ASSUME NEW c \in Clients PROVE QuotaKept(c)' /\ \A r \in admitted[c] : r[1] <= now
      <3>1. CASE entry[c] = NoEntry
        <4>1. /\ Cardinality(Recent(c)) < Quota /\ \A r \in admitted[c] : r[1] < now
              /\ IsFiniteSet(admitted[c])
          BY <1>t, <3>1 DEF QuotaKept
        <4>2. Recent(c)' \subseteq Recent(c)
          BY <1>t, <2>1, LimiterTypes DEF Recent
        <4>3. IsFiniteSet(Recent(c))
          BY <4>1, PartSize DEF Recent
        <4>4. Cardinality(Recent(c)') < Quota
          BY <4>1, <4>2, <4>3, PartSize
        <4>5. \A r \in admitted[c] : r[1] < now + 1 /\ r[1] <= now
          BY <1>t, <2>1, <4>1, LimiterTypes
        <4>6. QED BY <2>1, <3>1, <4>1, <4>4, <4>5 DEF QuotaKept
      <3>2. CASE entry[c] # NoEntry
        <4>1. /\ IsFiniteSet(admitted[c])
              /\ Opened(c) \in 0..now /\ entry[c].count > 0
              /\ \E r \in admitted[c] : r[1] = Opened(c)
              /\ \A r \in admitted[c] : r[1] <= now /\ r[1] <= entry[c].resetAt
              /\ Cardinality(OfWindow(c)) <= entry[c].count /\ Cardinality(OfWindow(c)) <= Quota
              /\ Cardinality(BeforeWindow(c)) < Quota
          BY <1>t, <3>2 DEF QuotaKept
        <4>2. \A r \in admitted[c] : r[1] <= now + 1
          BY <1>t, <2>1, <4>1, LimiterTypes
        <4>3. Opened(c)' = Opened(c) /\ Opened(c) \in 0..(now + 1)
          BY <2>1, <4>1 DEF Opened
        <4>4. OfWindow(c)' = OfWindow(c) /\ BeforeWindow(c)' = BeforeWindow(c)
          BY <2>1, <4>3 DEF OfWindow, BeforeWindow
        <4>5. QED BY <2>1, <3>2, <4>1, <4>2, <4>3, <4>4 DEF QuotaKept
      <3>3. QED BY <3>1, <3>2
    <2>4. ASSUME NEW c \in Clients, NEW from \in 1..now' PROVE Cardinality(Stretch(c, from)') <= 2 * Quota - 1
      <3>1. CASE from \in 1..now
        <4>1. Stretch(c, from)' = Stretch(c, from)
          BY <2>1 DEF Stretch
        <4>2. QED BY <1>t, <3>1, <4>1 DEF BurstsAreBounded
      <3>2. CASE from = now + 1
        <4>1. Stretch(c, from)' = {}
          BY <1>t, <2>1, <2>3, <3>2, LimiterTypes DEF Stretch
        <4>2. QED BY <4>1, FS_EmptySet
      <3>3. QED BY <2>1, <3>1, <3>2
    <2>5. BurstsAreBounded'
      BY <2>4 DEF BurstsAreBounded
    <2>6. QED BY <2>2, <2>3, <2>5 DEF LimiterInv
  <1>4. CASE UNCHANGED limiterVars
    <2>1. UNCHANGED <<now, entry, admitted, tick>>
      BY <1>4 DEF limiterVars
    <2>2. QED
      BY <1>t, <2>1 DEF LimiterInv, LimiterTypeOK, BurstsAreBounded, QuotaKept, Opened, OfWindow,
                        BeforeWindow, Recent, Stretch
  <1>5. QED BY <1>1, <1>2, <1>3, <1>4 DEF LimiterNext

\* At first nothing has been let through.
LEMMA LimiterStart == LimiterInit => LimiterInv
  <1> SUFFICES ASSUME LimiterInit PROVE LimiterInv
    OBVIOUS
  <1>1. /\ now = 1 /\ tick = 0 /\ \A c \in Clients : entry[c] = NoEntry /\ admitted[c] = {}
    BY DEF LimiterInit
  <1>2. LimiterTypeOK
    BY DEF LimiterInit, LimiterTypeOK, NoEntry
  <1>3. \A c \in Clients : Recent(c) = {} /\ \A from \in 1..now : Stretch(c, from) = {}
    BY <1>1 DEF Recent, Stretch
  <1>4. IsFiniteSet({}) /\ Cardinality({}) = 0 /\ 0 < Quota /\ 0 <= 2 * Quota - 1
    BY FS_EmptySet
  <1>5. BurstsAreBounded
    BY <1>3, <1>4 DEF BurstsAreBounded
  <1>6. \A c \in Clients : QuotaKept(c)
    BY <1>1, <1>3, <1>4 DEF QuotaKept
  <1>7. QED BY <1>2, <1>5, <1>6 DEF LimiterInv

\* However requests and clean-ups are spread over the windows, no stretch of a
\* window's length sees more than twice the quota, less one, let through.
THEOREM BurstsStayBounded == LimiterSpec => []BurstsAreBounded
  <1>1. LimiterInv => BurstsAreBounded
    BY DEF LimiterInv
  <1>2. QED BY <1>1, LimiterStart, LimiterStep, PTL DEF LimiterSpec

-----------------------------------------------------------------------------
(* Notifications *)

\* The row a round sends next is one of the round's.
LEMMA OldestIsIn ==
  ASSUME NEW S \in SUBSET NoteIds, S # {}
  PROVE  Oldest(S) \in S
  <1>1. \E n \in S : \A m \in S : n <= m
    BY LeastExists DEF NoteIds
  <1>2. QED BY <1>1 DEF Oldest

\* There are at most as many rounds with a row as there are rounds.
LEMMA HolderFacts ==
  ASSUME NEW n
  PROVE  /\ IsFiniteSet(HoldersOf(n)) /\ Cardinality(HoldersOf(n)) \in Nat
         /\ Cardinality(Rounds) \in Nat
         /\ Cardinality(HoldersOf(n)) <= Cardinality(Rounds)
  BY FS_Subset, FS_CardinalityType DEF HoldersOf

\* The sends that end together are counted once each: no more than there are
\* rounds with the row.
LEMMA SentFacts ==
  ASSUME NotificationsTypeOK, NEW n \in NoteIds, NEW B \in SUBSET Rounds, \A b \in B : round[b] # {}
  PROVE  /\ SentAgain(n, B) \in Nat
         /\ n \notin heard => SentAgain(n, B) = again[n]
         /\ n \in heard => SentAgain(n, B) <= again[n] + Cardinality(HoldersOf(n))
         /\ (\A b \in B : n # Oldest(round[b])) => SentAgain(n, B) = again[n]
         /\ \A b \in B : B = {b} => SentAgain(n, B) <= again[n] + 1
  <1> DEFINE sending == {b \in B : n = Oldest(round[b])}
  <1>1. sending \subseteq HoldersOf(n)
    BY OldestIsIn DEF HoldersOf, NotificationsTypeOK
  <1>2. IsFiniteSet(sending) /\ Cardinality(sending) <= Cardinality(HoldersOf(n))
    BY <1>1, HolderFacts, FS_Subset
  <1>3. Cardinality(sending) \in Nat /\ again[n] \in Nat
    BY <1>2, FS_CardinalityType DEF NotificationsTypeOK
  <1>4. SentAgain(n, B) = IF n \in heard THEN again[n] + Cardinality(sending) ELSE again[n]
    BY DEF SentAgain
  <1>5. ASSUME \A b \in B : n # Oldest(round[b]) PROVE Cardinality(sending) = 0
    <2>1. sending = {}
      BY <1>5
    <2>2. QED BY <2>1, FS_EmptySet
  <1>6. ASSUME NEW b \in B, B = {b} PROVE Cardinality(sending) <= 1
    <2>1. sending \subseteq {b}
      BY <1>6
    <2>2. IsFiniteSet({b}) /\ Cardinality({b}) = 1
      BY FS_Singleton
    <2>3. Cardinality(sending) <= Cardinality({b})
      BY <2>1, <2>2, FS_Subset
    <2>4. QED BY <2>2, <2>3
  <1> HIDE DEF sending
  <1>7. n \in heard => SentAgain(n, B) <= again[n] + Cardinality(HoldersOf(n))
    BY <1>2, <1>3, <1>4, HolderFacts
  <1>8. \A b \in B : B = {b} => SentAgain(n, B) <= again[n] + 1
    BY <1>3, <1>4, <1>6
  <1>9. QED BY <1>3, <1>4, <1>5, <1>7, <1>8

\* The end of a send takes a row out of its round, and an acceptance marks it.
LEMMA SendKeeps ==
  ASSUME RepeatsInv, NEW b \in Rounds, NEW ok \in BOOLEAN, SendEnds(b, ok)
  PROVE  RepeatsInv'
  <1>t. NotificationsTypeOK /\ HeardIsMarked
    BY DEF RepeatsInv
  <1>0. Oldest(round[b]) \in NoteIds /\ Oldest(round[b]) \in round[b] /\ round[b] # {}
    BY <1>t, OldestIsIn DEF SendEnds, NotificationsTypeOK
  <1>1. PICK n \in NoteIds : n \in round[b] /\ n = Oldest(round[b])
    BY <1>0
  <1>2. /\ round' = [round EXCEPT ![b] = @ \ {n}]
        /\ delivered' = IF ok THEN delivered \cup ({n} \cap notes) ELSE delivered
        /\ heard' = IF ok THEN heard \cup {n} ELSE heard
        /\ again' = [m \in NoteIds |-> SentAgain(m, {b})]
        /\ UNCHANGED <<noteTo, notes, keyless>>
    BY <1>1 DEF SendEnds
  <1>3. \A m \in NoteIds : /\ SentAgain(m, {b}) \in Nat
                           /\ m \notin heard => SentAgain(m, {b}) = again[m]
                           /\ m # n => SentAgain(m, {b}) = again[m]
                           /\ SentAgain(m, {b}) <= again[m] + 1
    BY <1>t, <1>0, <1>1, SentFacts
  <1>4. /\ round' \in [Rounds -> SUBSET NoteIds] /\ again' \in [NoteIds -> Nat]
        /\ \A m \in NoteIds : again'[m] = SentAgain(m, {b})
    BY <1>t, <1>1, <1>2, <1>3 DEF NotificationsTypeOK
  <1>5. NotificationsTypeOK'
    BY <1>t, <1>1, <1>2, <1>4 DEF NotificationsTypeOK
  <1>6. HeardIsMarked'
    BY <1>t, <1>2 DEF HeardIsMarked
  <1>7. /\ \A m \in NoteIds \ {n} : HoldersOf(m)' = HoldersOf(m)
        /\ HoldersOf(n)' = HoldersOf(n) \ {b} /\ b \in HoldersOf(n)
    BY <1>t, <1>1, <1>2 DEF HoldersOf, NotificationsTypeOK
  <1>8. Cardinality(HoldersOf(n) \ {b}) = Cardinality(HoldersOf(n)) - 1
    BY <1>7, HolderFacts, FS_RemoveElement
  <1>9. ASSUME NEW m \in NoteIds
        PROVE  /\ m \notin heard' => again'[m] = 0
               /\ m \in heard' => again'[m] + Cardinality(HoldersOf(m)') < Cardinality(Rounds)
               /\ noteTo[m] = "none" => m \notin notes /\ m \notin heard' /\ HoldersOf(m)' = {}
    <2>1. /\ again[m] \in Nat /\ Cardinality(HoldersOf(m)) \in Nat /\ Cardinality(Rounds) \in Nat
          /\ Cardinality(HoldersOf(m)) <= Cardinality(Rounds)
          /\ m \notin heard => again[m] = 0
          /\ m \in heard => again[m] + Cardinality(HoldersOf(m)) < Cardinality(Rounds)
          /\ noteTo[m] = "none" => m \notin notes /\ m \notin heard /\ HoldersOf(m) = {}
      BY <1>t, HolderFacts DEF RepeatsInv, NotificationsTypeOK
    <2>2. CASE m = n
      <3>1. /\ HoldersOf(m)' = HoldersOf(n) \ {b}
            /\ Cardinality(HoldersOf(m)') = Cardinality(HoldersOf(m)) - 1
        BY <1>7, <1>8, <2>2
      <3>2. /\ again'[m] \in Nat /\ again'[m] <= again[m] + 1
            /\ m \notin heard => again'[m] = again[m]
        BY <1>3, <1>4
      <3>3. noteTo[m] # "none"
        BY <1>7, <2>1, <2>2
      <3>4. m \notin heard' => m \notin heard
        BY <1>2
      <3>5. QED BY <2>1, <3>1, <3>2, <3>3, <3>4
    <2>3. CASE m # n
      <3>1. /\ again'[m] = again[m] /\ HoldersOf(m)' = HoldersOf(m)
            /\ m \in heard' <=> m \in heard
        BY <1>2, <1>3, <1>4, <1>7, <2>3
      <3>2. QED BY <2>1, <3>1
    <2>4. QED BY <2>2, <2>3
  <1>10. \A m \in heard' : m \in NoteIds
    BY <1>5 DEF NotificationsTypeOK
  <1>11. QED BY <1>2, <1>5, <1>6, <1>9, <1>10 DEF RepeatsInv

\* A round that begins has rows that are there and that nobody heard of yet.
LEMMA BeginKeeps ==
  ASSUME RepeatsInv, NEW b \in Rounds, NEW S \in SUBSET Recipients, RoundBegins(b, S)
  PROVE  RepeatsInv'
  <1> DEFINE rest == {n \in Batch(S) : noteTo[n] \notin keyless}
  <1>t. NotificationsTypeOK /\ HeardIsMarked
    BY DEF RepeatsInv
  <1>1. /\ round' = [round EXCEPT ![b] = rest]
        /\ UNCHANGED <<noteTo, notes, delivered, keyless, heard, again>>
    BY DEF RoundBegins, historyOfNotes
  <1>2. \A n \in rest : n \in notes \ delivered /\ n \in NoteIds
    BY <1>t DEF Batch, Undelivered, NotificationsTypeOK
  <1> HIDE DEF rest
  <1>3. NotificationsTypeOK'
    BY <1>t, <1>1, <1>2 DEF NotificationsTypeOK
  <1>4. HeardIsMarked'
    BY <1>t, <1>1 DEF HeardIsMarked
  <1>5. ASSUME NEW n \in NoteIds
        PROVE  /\ n \in heard => again[n] + Cardinality(HoldersOf(n)') < Cardinality(Rounds)
               /\ noteTo[n] = "none" => HoldersOf(n)' = {}
    <2>1. CASE n \in rest
      BY <1>t, <1>2, <2>1 DEF RepeatsInv, HeardIsMarked
    <2>2. CASE n \notin rest
      <3>1. HoldersOf(n)' \subseteq HoldersOf(n)
        BY <1>t, <1>1, <2>2 DEF HoldersOf, NotificationsTypeOK
      <3>2. Cardinality(HoldersOf(n)') <= Cardinality(HoldersOf(n)) /\ IsFiniteSet(HoldersOf(n)')
        BY <3>1, HolderFacts, FS_Subset
      <3>3. Cardinality(HoldersOf(n)') \in Nat
        BY <3>2, FS_CardinalityType
      <3>4. again[n] \in Nat
        BY <1>t DEF NotificationsTypeOK
      <3>5. n \in heard => again[n] + Cardinality(HoldersOf(n)) < Cardinality(Rounds)
        BY DEF RepeatsInv
      <3>6. QED BY <3>1, <3>2, <3>3, <3>4, <3>5, HolderFacts DEF RepeatsInv
    <2>3. QED BY <2>1, <2>2
  <1>6. \A n \in heard : n \in NoteIds
    BY <1>t DEF NotificationsTypeOK
  <1>7. QED BY <1>1, <1>3, <1>4, <1>5, <1>6 DEF RepeatsInv

\* Steps that neither send nor hear.
LEMMA OthersKeep ==
  ASSUME RepeatsInv, NotificationsTypeOK', heard' = heard, again' = again,
         \A b \in Rounds : round'[b] \subseteq round[b],
         \A n \in notes' :
           (n \in notes /\ (n \in delivered => n \in delivered')) \/ noteTo[n] = "none",
         \A n \in NoteIds : noteTo'[n] = "none" => noteTo[n] = "none" /\ n \notin notes'
  PROVE  RepeatsInv'
  <1>t. NotificationsTypeOK /\ HeardIsMarked
    BY DEF RepeatsInv
  <1>0. \A n \in heard : n \in NoteIds /\ noteTo[n] # "none"
    BY <1>t DEF RepeatsInv, NotificationsTypeOK
  <1>1. HeardIsMarked'
    BY <1>t, <1>0 DEF HeardIsMarked
  <1>2. ASSUME NEW n \in NoteIds
        PROVE  /\ n \in heard => again[n] + Cardinality(HoldersOf(n)') < Cardinality(Rounds)
               /\ noteTo'[n] = "none" => n \notin heard /\ HoldersOf(n)' = {}
    <2>1. HoldersOf(n)' \subseteq HoldersOf(n)
      BY DEF HoldersOf
    <2>2. Cardinality(HoldersOf(n)') <= Cardinality(HoldersOf(n)) /\ IsFiniteSet(HoldersOf(n)')
      BY <2>1, HolderFacts, FS_Subset
    <2>3. Cardinality(HoldersOf(n)') \in Nat
      BY <2>2, FS_CardinalityType
    <2>4. again[n] \in Nat
      BY <1>t DEF NotificationsTypeOK
    <2>5. n \in heard => again[n] + Cardinality(HoldersOf(n)) < Cardinality(Rounds)
      BY DEF RepeatsInv
    <2>6. QED BY <2>1, <2>2, <2>3, <2>4, <2>5, HolderFacts DEF RepeatsInv
  <1>3. QED BY <1>0, <1>1, <1>2 DEF RepeatsInv

\* A server that stops may have sent once more for each of its rounds.
LEMMA LostKeeps ==
  ASSUME RepeatsInv, RoundsLost
  PROVE  RepeatsInv'
  <1> DEFINE B == {b \in Rounds : round[b] # {}}
  <1>t. NotificationsTypeOK /\ HeardIsMarked
    BY DEF RepeatsInv
  <1>1. /\ round' = [b \in Rounds |-> {}]
        /\ again' = [n \in NoteIds |-> SentAgain(n, B)]
        /\ UNCHANGED <<noteTo, notes, delivered, keyless, heard>>
    BY DEF RoundsLost
  <1>2. \A n \in NoteIds : /\ SentAgain(n, B) \in Nat
                           /\ n \notin heard => SentAgain(n, B) = again[n]
                           /\ n \in heard => SentAgain(n, B) <= again[n] + Cardinality(HoldersOf(n))
    BY <1>t, SentFacts
  <1> HIDE DEF B
  <1>3. NotificationsTypeOK'
    <2>1. round' \in [Rounds -> SUBSET NoteIds] /\ again' \in [NoteIds -> Nat]
      BY <1>1, <1>2
    <2>2. QED BY <1>t, <1>1, <2>1 DEF NotificationsTypeOK
  <1>4. HeardIsMarked'
    BY <1>t, <1>1 DEF HeardIsMarked
  <1>5. \A n \in NoteIds : HoldersOf(n)' = {}
    BY <1>1 DEF HoldersOf
  <1>6. ASSUME NEW n \in NoteIds, n \in heard
        PROVE  again'[n] + Cardinality(HoldersOf(n)') < Cardinality(Rounds)
    <2>1. Cardinality(HoldersOf(n)') = 0
      BY <1>5, FS_EmptySet
    <2>2. again'[n] \in Nat /\ again'[n] <= again[n] + Cardinality(HoldersOf(n))
      BY <1>1, <1>2, <1>6
    <2>3. again[n] + Cardinality(HoldersOf(n)) < Cardinality(Rounds) /\ again[n] \in Nat
      BY <1>6, <1>t DEF RepeatsInv, NotificationsTypeOK
    <2>4. QED BY <2>1, <2>2, <2>3, HolderFacts
  <1>7. \A n \in heard : n \in NoteIds
    BY <1>t DEF NotificationsTypeOK
  <1>8. QED BY <1>1, <1>2, <1>3, <1>4, <1>5, <1>6, <1>7 DEF RepeatsInv

\* Every step keeps the invariant.
LEMMA RepeatsStep == RepeatsInv /\ [NotificationsNext]_notifyVars => RepeatsInv'
  <1> SUFFICES ASSUME RepeatsInv, [NotificationsNext]_notifyVars PROVE RepeatsInv'
    OBVIOUS
  <1>t. NotificationsTypeOK
    BY DEF RepeatsInv
  <1>1. ASSUME NEW n \in NoteIds, NEW a \in Recipients, Notify(n, a) PROVE RepeatsInv'
    <2>1. /\ noteTo[n] = "none" /\ noteTo' = [noteTo EXCEPT ![n] = a] /\ notes' = notes \cup {n}
          /\ UNCHANGED <<delivered, keyless, round, heard, again>>
      BY <1>1 DEF Notify, historyOfNotes
    <2>2. NotificationsTypeOK'
      BY <1>t, <2>1 DEF NotificationsTypeOK
    <2>3. \A m \in NoteIds : noteTo'[m] = "none" => noteTo[m] = "none" /\ m \notin notes'
      BY <1>t, <2>1 DEF RepeatsInv, NotificationsTypeOK
    <2>4. QED BY <2>1, <2>2, <2>3, OthersKeep
  <1>2. CASE \E b \in Rounds : RoundBegins(b, Recipients) \/ \E ok \in BOOLEAN : SendEnds(b, ok)
    BY <1>2, BeginKeeps, SendKeeps
  <1>3. CASE \E b \in Rounds \ {Daemon}, a \in Recipients : RoundBegins(b, {a})
    BY <1>3, BeginKeeps
  <1>4. ASSUME NEW a \in Recipients, MarkDelivered(a) \/ KeyIsSet(a) PROVE RepeatsInv'
    <2>1. /\ delivered \subseteq delivered' /\ delivered' \subseteq notes /\ keyless' \subseteq keyless
          /\ UNCHANGED <<noteTo, notes, round, heard, again>>
      BY <1>t, <1>4 DEF MarkDelivered, KeyIsSet, Undelivered, historyOfNotes, NotificationsTypeOK
    <2>2. NotificationsTypeOK'
      BY <1>t, <2>1 DEF NotificationsTypeOK
    <2>3. QED BY <2>1, <2>2, OthersKeep DEF RepeatsInv
  <1>5. ASSUME NEW n \in NoteIds, DeleteNote(n) PROVE RepeatsInv'
    <2>1. /\ notes' = notes \ {n} /\ delivered' = delivered \ {n}
          /\ UNCHANGED <<noteTo, keyless, round, heard, again>>
      BY <1>5 DEF DeleteNote, historyOfNotes
    <2>2. NotificationsTypeOK'
      BY <1>t, <2>1 DEF NotificationsTypeOK
    <2>3. QED BY <2>1, <2>2, OthersKeep DEF RepeatsInv
  <1>6. CASE RoundsLost
    BY <1>6, LostKeeps
  <1>7. CASE UNCHANGED notifyVars
    <2>1. UNCHANGED <<noteTo, notes, delivered, keyless, round, heard, again>>
      BY <1>7 DEF notifyVars, historyOfNotes
    <2>2. NotificationsTypeOK'
      BY <1>t, <2>1 DEF NotificationsTypeOK
    <2>3. QED BY <2>1, <2>2, OthersKeep DEF RepeatsInv
  <1>8. QED BY <1>1, <1>2, <1>3, <1>4, <1>5, <1>6, <1>7 DEF NotificationsNext

\* At first nothing has been sent.
LEMMA RepeatsStart == NotificationsInit => RepeatsInv
  <1> SUFFICES ASSUME NotificationsInit PROVE RepeatsInv
    OBVIOUS
  <1>1. NotificationsTypeOK /\ HeardIsMarked
    BY DEF NotificationsInit, NotificationsTypeOK, HeardIsMarked
  <1>2. \A n \in NoteIds : HoldersOf(n) = {} /\ again[n] = 0 /\ notes = {} /\ heard = {}
    BY DEF NotificationsInit, HoldersOf
  <1>3. heard = {}
    BY DEF NotificationsInit
  <1>4. QED BY <1>1, <1>2, <1>3 DEF RepeatsInv

\* Once an acceptance of a row was heard of, the row is marked, no round takes it
\* up anew, and fewer sends of it may still reach the gateway than there are
\* rounds at a time, whatever fails, times out or is lost.
THEOREM RepeatsStayBounded == NotificationsSpec => [](RepeatsAreBounded /\ HeardIsMarked)
  <1>1. RepeatsInv => RepeatsAreBounded /\ HeardIsMarked
    <2> SUFFICES ASSUME RepeatsInv, NEW n \in NoteIds PROVE again[n] < Cardinality(Rounds)
      BY DEF RepeatsInv, RepeatsAreBounded
    <2>1. CASE n \in heard
      <3>1. again[n] \in Nat /\ again[n] + Cardinality(HoldersOf(n)) < Cardinality(Rounds)
        BY <2>1 DEF RepeatsInv, NotificationsTypeOK
      <3>2. QED BY <3>1, HolderFacts
    <2>2. CASE n \notin heard
      <3>1. again[n] = 0
        BY <2>2 DEF RepeatsInv
      <3>2. Cardinality(Rounds) # 0 /\ Cardinality(Rounds) \in Nat
        BY NotificationsAssumption, HolderFacts, FS_EmptySet
      <3>3. QED BY <3>1, <3>2
    <2>3. QED BY <2>1, <2>2
  <1>2. QED BY RepeatsStart, RepeatsStep, <1>1, PTL DEF NotificationsSpec

-----------------------------------------------------------------------------
(* Skills *)

\* What becomes of a row has the type of rows.
LEMMA RowTypes ==
  ASSUME SkillsTypeOK
  PROVE  /\ \A w \in Savers : saver[w] # NoSaver =>
              /\ saver[w].skill \in Skills
              /\ RowAfter(saver[w].kind, skillRow[saver[w].skill], saver[w].text)
                   \in SkillRows \cup {NoSkill}
         /\ \A s \in Skills : Followed(s) \in SkillRows \cup {NoSkill}
  <1>1. ASSUME NEW row \in SkillRows \cup {NoSkill}, NEW c \in Contents
        PROVE  [row EXCEPT !.hash = c] \in SkillRows /\ [NoSkill EXCEPT !.hash = c] \in SkillRows
    <2> DEFINE Kept == [hash : Contents \cup {"none"}, checked : Contents \cup {"unchecked"}, slug : BOOLEAN]
    <2>0. NoSkill \in Kept
      BY DEF NoSkill
    <2>1. row \in Kept /\ NoSkill \in Kept
      BY <2>0, SMT DEF SkillRows
    <2>2. ASSUME NEW r \in Kept PROVE [r EXCEPT !.hash = c] \in SkillRows
      BY DEF SkillRows
    <2>3. QED BY <2>1, <2>2
  <1>2. ASSUME NEW row \in SkillRows, NEW c \in Contents
        PROVE  /\ [row EXCEPT !.checked = c] \in SkillRows
               /\ [hash |-> c, checked |-> c, slug |-> TRUE] \in SkillRows
    BY DEF SkillRows
  <1>3. ASSUME NEW w \in Savers, saver[w] # NoSaver
        PROVE  /\ saver[w].skill \in Skills
               /\ RowAfter(saver[w].kind, skillRow[saver[w].skill], saver[w].text)
                    \in SkillRows \cup {NoSkill}
    <2> DEFINE row == skillRow[saver[w].skill]
    <2>1. saver[w] \in SaverRows
      BY <1>3 DEF SkillsTypeOK
    <2>2. saver[w].skill \in Skills /\ row \in SkillRows \cup {NoSkill}
      BY <2>1 DEF SaverRows, SkillsTypeOK
    <2>3. CASE saver[w].kind = "delete"
      BY <2>2, <2>3 DEF RowAfter
    <2>4. CASE saver[w].kind \in {"save", "install", "check"} /\ saver[w].text \in Contents
      <3> HIDE DEF row
      <3>1. \A k \in {"save", "install", "check"}, c \in Contents :
              RowAfter(k, row, c) \in SkillRows \cup {NoSkill}
        BY <1>1, <1>2, <2>2 DEF RowAfter
      <3>2. QED BY <3>1, <2>2, <2>4 DEF row
    <2>5. QED BY <2>1, <2>3, <2>4 DEF SaverRows
  <1>4. ASSUME NEW s \in Skills PROVE Followed(s) \in SkillRows \cup {NoSkill}
    <2>1. skillRow[s] \in SkillRows \cup {NoSkill} /\ skillFile[s] \in Contents \cup {"none"}
      BY DEF SkillsTypeOK
    <2>2. QED BY <2>1, <1>1 DEF Followed
  <1>5. QED BY <1>3, <1>4

\* At first nothing is installed and no row is written.
LEMMA SkillsStart == SkillsInit => SkillsTypeOK
  BY SkillAssumption DEF SkillsInit, SkillsTypeOK

\* Writers, scans and syncs keep the types.
LEMMA SkillsStep == SkillsTypeOK /\ [SkillsNext]_skillVars => SkillsTypeOK'
  <1> SUFFICES ASSUME SkillsTypeOK, [SkillsNext]_skillVars PROVE SkillsTypeOK'
    OBVIOUS
  <1> USE SkillAssumption
  <1>1. ASSUME NEW s \in Skills, NEW c \in Contents \cup {"none"}, FileEdited(s, c) PROVE SkillsTypeOK'
    BY <1>1 DEF FileEdited, Edit, SkillsTypeOK
  <1>2. ASSUME NEW w \in Savers, NEW s \in Skills, NEW c \in Contents,
               WriteFile(w, s, "save", c) \/ WriteFile(w, s, "install", c)
        PROVE  SkillsTypeOK'
    BY <1>2 DEF WriteFile, Edit, SkillsTypeOK, SaverRows
  <1>3. ASSUME NEW w \in Savers, NEW s \in Skills, WriteFile(w, s, "delete", "none") PROVE SkillsTypeOK'
    BY <1>3 DEF WriteFile, Edit, SkillsTypeOK, SaverRows
  <1>4. ASSUME NEW w \in Savers, NEW s \in Skills, ReadFile(w, s) PROVE SkillsTypeOK'
    BY <1>4 DEF ReadFile, SkillsTypeOK, SaverRows
  <1>5. ASSUME NEW w \in Savers, WriteRow(w) \/ RowNotWritten(w) PROVE SkillsTypeOK'
    <2>1. RowAfter(saver[w].kind, skillRow[saver[w].skill], saver[w].text) \in SkillRows \cup {NoSkill}
      BY <1>5, RowTypes DEF WriteRow, RowNotWritten
    <2>2. skillRow' \in [Skills -> SkillRows \cup {NoSkill}]
      BY <1>5, <2>1 DEF WriteRow, RowNotWritten, SkillsTypeOK
    <2>3. QED BY <1>5, <2>2 DEF WriteRow, RowNotWritten, SkillsTypeOK
  <1>6. CASE SyncSkills
    BY <1>6, RowTypes DEF SyncSkills, SkillsTypeOK
  <1>7. CASE UNCHANGED skillVars
    BY <1>7 DEF skillVars, SkillsTypeOK
  <1>8. QED BY <1>1, <1>2, <1>3, <1>4, <1>5, <1>6, <1>7 DEF SkillsNext

-----------------------------------------------------------------------------
(* Agents *)

\* A row gets a status, and what refers to rows is as it was.
LEMMA SetKeeps ==
  ASSUME RegistryTypeOK, NEW a \in Agents, NEW up \in BOOLEAN, NEW age \in Ages \cup {Never},
         Set(a, up, age), UNCHANGED <<local, link, removing, onDisk, session>>,
         creating' \subseteq Agents, reports' \in 0..MaxReports
  PROVE  RegistryTypeOK'
  <1>1. /\ registered' = registered \cup {a} /\ awake' \subseteq awake \cup {a}
        /\ lastSeen' \in [Agents -> Ages \cup {Never}]
    BY DEF Set, RegistryTypeOK
  <1>2. QED BY <1>1 DEF RegistryTypeOK

\* At first there are no agents.
LEMMA RegistryStart == RegistryInit => RegistryTypeOK
  BY RegistryAssumption DEF RegistryInit, RegistryTypeOK, NoLink, Never

\* So do heartbeats, creations, deletions and checks.
LEMMA RegistryStep == RegistryTypeOK /\ [RegistryNext]_registryVars => RegistryTypeOK'
  <1> SUFFICES ASSUME RegistryTypeOK, [RegistryNext]_registryVars PROVE RegistryTypeOK'
    OBVIOUS
  <1> USE RegistryAssumption
  <1>r. Reported => reports' \in 0..MaxReports
    BY DEF Reported, RegistryTypeOK
  <1>t. /\ 0 \in Ages \cup {Never} /\ Never \in Ages \cup {Never}
        /\ reports \in 0..MaxReports /\ creating \subseteq Agents
        /\ \A a \in Agents : lastSeen[a] \in Ages \cup {Never}
    BY DEF Ages, RegistryTypeOK
  <1>1. ASSUME NEW a \in Agents, NEW up \in BOOLEAN, CreateEnds(a, up) PROVE RegistryTypeOK'
    <2>1. CASE Set(a, up, Never)
      BY <1>1, <1>t, <2>1, SetKeeps DEF CreateEnds
    <2>2. CASE UNCHANGED <<registered, awake, lastSeen>>
      BY <1>1, <2>2 DEF CreateEnds, RegistryTypeOK
    <2>3. QED BY <1>1, <2>1, <2>2 DEF CreateEnds
  <1>2. ASSUME NEW a \in Agents, NEW up \in BOOLEAN, PutStatus(a, up) PROVE RegistryTypeOK'
    BY <1>2, <1>r, <1>t, SetKeeps DEF PutStatus
  <1>3. ASSUME NEW a \in Agents, Register(a) \/ Heartbeat(a) PROVE RegistryTypeOK'
    <2>1. PICK up \in BOOLEAN : Set(a, up, 0)
      BY <1>3 DEF Register, Heartbeat
    <2>2. QED BY <1>3, <1>r, <1>t, <2>1, SetKeeps DEF Register, Heartbeat
  <1>4. ASSUME NEW a \in Agents, CreateBegins(a) \/ DeleteBegins(a) PROVE RegistryTypeOK'
    BY <1>4, <1>r DEF CreateBegins, DeleteBegins, RegistryTypeOK
  <1>5. ASSUME NEW a \in Agents, DeleteEnds(a) PROVE RegistryTypeOK'
    <2>1. CASE UNCHANGED <<registered, awake, local, lastSeen, link>>
      BY <1>5, <2>1 DEF DeleteEnds, RegistryTypeOK
    <2>2. CASE /\ registered' = registered \ {a} /\ awake' = awake \ {a} /\ local' = local \ {a}
               /\ lastSeen' = [lastSeen EXCEPT ![a] = Never]
               /\ link' = [c \in Links |-> IF link[c].agent = a THEN NoLink ELSE link[c]]
      <3>1. \A c \in Links : link'[c] = IF link[c].agent = a THEN NoLink ELSE link[c]
        BY <2>2
      <3>2. NoLink \in [agent : Agents \cup {"none"}, up : BOOLEAN] /\ ~NoLink.up
        BY DEF NoLink
      <3>3. link' \in [Links -> [agent : Agents \cup {"none"}, up : BOOLEAN]]
        BY <2>2, <3>2 DEF RegistryTypeOK
      <3>4. \A c \in Links : link'[c] = NoLink \/ link'[c].agent \in registered'
        BY <2>2, <3>1 DEF RegistryTypeOK
      <3>5. \A c, d \in Links : link'[c].up /\ link'[d] = link'[c] => c = d
        BY <3>1, <3>2 DEF RegistryTypeOK
      <3>6. QED BY <1>5, <2>2, <3>3, <3>4, <3>5 DEF DeleteEnds, RegistryTypeOK
    <2>3. QED BY <1>5, <2>1, <2>2 DEF DeleteEnds
  <1>6. ASSUME NEW a \in Agents, SessionActs(a) \/ FilesChange(a) PROVE RegistryTypeOK'
    BY <1>6, <1>r, <1>t DEF SessionActs, FilesChange, RegistryTypeOK
  <1>7. ASSUME NEW a \in Agents, NEW c \in Links, ConnectTool(a, c) PROVE RegistryTypeOK'
    <2>1. /\ registered' = registered \cup {a} /\ awake' \subseteq awake \cup {a}
          /\ lastSeen' \in [Agents -> Ages \cup {Never}]
      BY <1>7, <1>t DEF ConnectTool, Set, RegistryTypeOK
    <2>2. PICK new \in [agent : {a}, up : BOOLEAN] : new = [agent |-> a, up |-> TRUE]
      OBVIOUS
    <2>3. /\ link' \in [Links -> [agent : Agents \cup {"none"}, up : BOOLEAN]]
          /\ \A d \in Links : link'[d] =
               IF d = c THEN new
               ELSE IF link[d].agent = a THEN [link[d] EXCEPT !.up = FALSE] ELSE link[d]
      BY <1>7, <2>2 DEF ConnectTool, RegistryTypeOK
    <2>4. ASSUME NEW d \in Links
          PROVE  /\ link'[d].agent = a \/ link'[d] = link[d]
                 /\ link'[d].up /\ d # c => link'[d] = link[d] /\ link[d].agent # a
      <3>1. link[d] \in [agent : Agents \cup {"none"}, up : BOOLEAN]
        BY DEF RegistryTypeOK
      <3>2. new.agent = a /\ [link[d] EXCEPT !.up = FALSE].agent = link[d].agent
            /\ ~[link[d] EXCEPT !.up = FALSE].up
        BY <2>2, <3>1
      <3>3. CASE d = c
        BY <2>3, <3>2, <3>3
      <3>4. CASE d # c /\ link[d].agent = a
        BY <2>3, <3>2, <3>4
      <3>5. CASE d # c /\ link[d].agent # a
        BY <2>3, <3>5
      <3>6. QED BY <3>3, <3>4, <3>5
    <2>6. \A d \in Links : link'[d] = NoLink \/ link'[d].agent \in registered'
      BY <2>1, <2>4 DEF RegistryTypeOK
    <2>7. link'[c].agent = a
      BY <2>2, <2>3
    <2>8. \A d, e \in Links : link'[d].up /\ link'[e] = link'[d] => d = e
      BY <2>4, <2>7 DEF RegistryTypeOK
    <2>9. QED BY <1>7, <1>r, <2>1, <2>3, <2>6, <2>8 DEF ConnectTool, RegistryTypeOK
  <1>8. ASSUME NEW c \in Links, DisconnectTool(c) PROVE RegistryTypeOK'
    <2>1. \A d \in Links : link[d] \in [agent : Agents \cup {"none"}, up : BOOLEAN]
      BY DEF RegistryTypeOK
    <2>2. \A d \in Links : link'[d] = IF d = c THEN [link[c] EXCEPT !.up = FALSE] ELSE link[d]
      BY <1>8, <2>1 DEF DisconnectTool, RegistryTypeOK
    <2>3. ASSUME NEW d \in Links
          PROVE  /\ link'[d] \in [agent : Agents \cup {"none"}, up : BOOLEAN]
                 /\ link'[d].agent = link[d].agent
                 /\ link'[d].up => link'[d] = link[d] /\ d # c
      BY <2>1, <2>2
    <2>4. link' \in [Links -> [agent : Agents \cup {"none"}, up : BOOLEAN]]
      BY <1>8, <2>3 DEF DisconnectTool, RegistryTypeOK
    <2>5. link[c].agent \in registered
      BY <1>8 DEF DisconnectTool, RegistryTypeOK
    <2>6. \A d \in Links : link'[d] = NoLink \/ link'[d].agent \in registered
      BY <2>2, <2>3, <2>5 DEF RegistryTypeOK
    <2>7. \A d, e \in Links : link'[d].up /\ link'[e] = link'[d] => d = e
      BY <2>3 DEF RegistryTypeOK
    <2>8. QED BY <1>8, <2>4, <2>6, <2>7 DEF DisconnectTool, RegistryTypeOK
  <1>9. CASE SyncStatuses
    BY <1>9 DEF SyncStatuses, RegistryTypeOK
  <1>10. CASE SyncLocalAgents \/ RunHeartbeatCheck
    BY <1>10 DEF SyncLocalAgents, RunHeartbeatCheck, RegistryTypeOK
  <1>11. CASE AgesGrow
    <2>1. \A age \in Ages \cup {Never} : Older(age) \in Ages \cup {Never}
      BY DEF Older, Ages, Never
    <2>2. QED BY <1>11, <2>1 DEF AgesGrow, RegistryTypeOK
  <1>12. CASE UNCHANGED registryVars
    BY <1>12 DEF registryVars, RegistryTypeOK
  <1>13. QED
    BY <1>1, <1>2, <1>3, <1>4, <1>5, <1>6, <1>7, <1>8, <1>9, <1>10, <1>11, <1>12
    DEF RegistryNext, Wake

-----------------------------------------------------------------------------
(* All components, side by side *)

\* What holds of each.
SideBySide ==
  /\ WebhooksInv /\ ClientInv /\ SchedulerInv /\ LimiterInv /\ RepeatsInv
  /\ SkillsTypeOK /\ RegistryTypeOK

\* A step is one of one component, and all the others stand still.
LEMMA SideBySideStep == SideBySide /\ [DeliveryNext]_deliveryVars => SideBySide'
  <1>1. ASSUME SideBySide, WebhooksNext \/ UNCHANGED webhookVars PROVE WebhooksInv'
    BY <1>1, WebhooksStep DEF SideBySide
  <1>2. ASSUME SideBySide, ClientNext \/ UNCHANGED clientVars PROVE ClientInv'
    BY <1>2, ClientStep DEF SideBySide
  <1>3. ASSUME SideBySide, SchedulerNext \/ UNCHANGED schedulerVars PROVE SchedulerInv'
    BY <1>3, SchedulerStep DEF SideBySide
  <1>4. ASSUME SideBySide, LimiterNext \/ UNCHANGED limiterVars PROVE LimiterInv'
    BY <1>4, LimiterStep DEF SideBySide
  <1>5. ASSUME SideBySide, NotificationsNext \/ UNCHANGED notifyVars PROVE RepeatsInv'
    BY <1>5, RepeatsStep DEF SideBySide
  <1>6. ASSUME SideBySide, SkillsNext \/ UNCHANGED skillVars PROVE SkillsTypeOK'
    BY <1>6, SkillsStep DEF SideBySide
  <1>7. ASSUME SideBySide, RegistryNext \/ UNCHANGED registryVars PROVE RegistryTypeOK'
    BY <1>7, RegistryStep DEF SideBySide
  <1>8. ASSUME DeliveryNext \/ UNCHANGED deliveryVars
        PROVE  /\ WebhooksNext \/ UNCHANGED webhookVars
               /\ ClientNext \/ UNCHANGED clientVars
               /\ SchedulerNext \/ UNCHANGED schedulerVars
               /\ LimiterNext \/ UNCHANGED limiterVars
               /\ NotificationsNext \/ UNCHANGED notifyVars
               /\ SkillsNext \/ UNCHANGED skillVars
               /\ RegistryNext \/ UNCHANGED registryVars
    BY <1>8, Zenon DEF DeliveryNext, Only, deliveryVars, NotWebhooks, NotClient, NotTicks,
                       NotLimiter, NotNotify, NotSkills, NotRegistry
  <1>9. QED BY <1>1, <1>2, <1>3, <1>4, <1>5, <1>6, <1>7, <1>8 DEF SideBySide

\* Every variable of the webhooks, the client, the scheduler, the limiter, the
\* notifications, the skills and the registry has its type, with what the types
\* state beyond it: a link that is up is an agent's only one.
THEOREM DeliveryTyped == DeliverySpec => []DeliveryTypeOK
  <1>1. DeliveryInit => SideBySide
    BY WebhooksStart, ClientStart, SchedulerStart, LimiterStart, RepeatsStart, SkillsStart,
       RegistryStart DEF DeliveryInit, SideBySide
  <1>2. SideBySide => DeliveryTypeOK
    BY DEF SideBySide, DeliveryTypeOK, WebhooksInv, ClientInv, SchedulerInv, LimiterInv, RepeatsInv
  <1>3. QED BY <1>1, <1>2, SideBySideStep, PTL DEF DeliverySpec
=============================================================================
