----------------------------- MODULE TaskLease -----------------------------
(***************************************************************************)
(* What the runs of the board promise: a task is leased to at most one     *)
(* run; only the run that leases it moves it; a lease starts from the      *)
(* column the run serves and ends in a column the run may deliver to.  The *)
(* promise is for every card that nobody else writes while it is leased or *)
(* queued for a lease.  Once somebody does, the card is broken and its     *)
(* lease promises nothing until it has ended.  Everything else - batches,  *)
(* verdict records, resolutions - is below this level.                     *)
(***************************************************************************)
CONSTANTS Tasks, Workers, Judges, Nobody

VARIABLES
  column,   \* column[t]: where the card is, "absent" before and after its life
  lease,    \* lease[w]: the task run w works on
  broken    \* the cards with whose lease somebody has interfered

Columns == {"absent", "inbox", "assigned", "in_progress", "review", "quality_review", "done"}
Runs    == Workers \cup Judges

From(w)  == IF w \in Workers THEN "assigned" ELSE "review"
Under(w) == IF w \in Workers THEN "in_progress" ELSE "quality_review"
To(w)    == IF w \in Workers THEN {"review", "assigned"} ELSE {"done", "in_progress", "review"}

\* The cards the runs S lease.
Leased(S) == {lease[w] : w \in S} \ {Nobody}

Init ==
  /\ column = [t \in Tasks |-> "absent"]
  /\ lease  = [w \in Runs |-> Nobody]
  /\ broken = {}

\* Others move cards; a leased one that they move is broken from then on.
Move ==
  /\ column' \in [Tasks -> Columns]
  /\ broken \subseteq broken' /\ broken' \subseteq Tasks
  /\ \A t \in Leased(Runs) \ broken' : column'[t] = column[t]
  /\ UNCHANGED lease

\* Run w gives its card back, if it has one, and takes another, if it likes: out
\* of the column it serves and from nobody, unless the card is broken.  What w
\* moves and another run leases is broken for that run.
Turn(w) ==
  \E outcome \in To(w), next \in Tasks \cup {Nobody} :
    /\ lease[w] # next
    /\ next \notin broken \cup {Nobody} => column[next] = From(w) /\ next \notin Leased(Runs)
    /\ lease' = [lease EXCEPT ![w] = next]
    /\ column' = [t \in Tasks |->
         IF column[t] = "absent" THEN "absent"
         ELSE IF t = lease[w] THEN outcome ELSE IF t = next THEN Under(w) ELSE column[t]]
    /\ broken' \subseteq Tasks
    /\ Leased(Runs \ {w}) \cap (broken \cup {lease[w], next}) \subseteq broken'
    /\ next \in broken => next \in broken'

\* A restart ends every lease and leaves the cards where they are.
Drop ==
  /\ lease' = [w \in Runs |-> Nobody]
  /\ broken' = {}
  /\ UNCHANGED column

Next == Move \/ (\E w \in Runs : Turn(w)) \/ Drop

Spec == Init /\ [][Next]_<<column, lease, broken>>

\* What the leases come to: an unbroken card is leased once, and is in the column
\* of work under way.
LeasesAreExclusive ==
  \A w \in Runs : lease[w] \notin broken \cup {Nobody} =>
    /\ column[lease[w]] = Under(w)
    /\ \A v \in Runs \ {w} : lease[v] # lease[w]
=============================================================================
