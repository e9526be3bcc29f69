----------------------------- MODULE TaskClient -----------------------------
(***************************************************************************)
(* A browser's copy of the task board.  The server broadcasts changes on a *)
(* stream of events; while the stream is down and the tab is to be seen    *)
(* the client polls, and it fetches tasks when it starts and whenever the  *)
(* user asks.  A fetch reads the rows at some time and replaces the copy   *)
(* later.  It lists the newest fifty tasks of the project that is chosen,  *)
(* while events tell of all.  Dragging a card changes the copy first and   *)
(* the server afterwards, and back again if the server refuses or the      *)
(* answer is lost.                                                         *)
(***************************************************************************)
EXTENDS Naturals, Sequences

CONSTANTS
  Cards,      \* ids of tasks
  Left,       \* tasks a fetch may leave out: of another project, or too old
  Columns,    \* statuses
  Fetches,    \* fetches that may overlap
  MaxChanges, \* bound: changes others make, and cards that are dragged
  MaxDrops    \* bound: how often the stream breaks

ASSUME ClientAssumption ==
  /\ MaxChanges \in Nat /\ MaxDrops \in Nat
  /\ Left \subseteq Cards /\ "none" \notin Columns

VARIABLES
  server,    \* server[i]: the status of row i, "none" without a row
  known,     \* history: rows that were created, since ids are not reused
  connected, \* sseConnected
  hidden,    \* is the tab hidden?
  wire,      \* events sent and not dispatched, in order
  view,      \* the client's tasks: pairs of id and status
  fetch,     \* fetch[f]: what became of fetch f
  drag,      \* the card being dragged or dropped
  changes, drops, \* bounds
  stale,     \* history: events of the wire that an unannounced change outdates
  sound,     \* history: sound[f]: how many events of the wire are in what f read
  clean      \* history: no event was lost or overtaken since the last fetch

history    == <<stale, sound, clean>>
streamVars == <<connected, hidden, wire>>
clientVars == <<server, known, streamVars, view, fetch, drag, changes, drops, history>>

Status    == Columns \cup {"none"}
Views     == SUBSET (Cards \X Columns)
EventsSet == [kind : {"created", "status"}, id : Cards, column : Columns]
               \cup [kind : {"deleted"}, id : Cards, column : {"none"}]
NoFetch   == [state |-> "idle", rows |-> {}]
NoDrag    == [state |-> "none"]
Drags     == [state : {"held", "sent", "landed", "refused"}, id : Cards,
              from : Columns, to : Status, touched : BOOLEAN]
Unsound   == 99

ClientTypeOK ==
  /\ server \in [Cards -> Status] /\ known \subseteq Cards
  /\ connected \in BOOLEAN /\ hidden \in BOOLEAN
  /\ wire \in Seq(EventsSet)
  /\ view \in Views
  /\ fetch \in [Fetches -> [state : {"idle", "asked", "read"}, rows : Views]]
  /\ drag \in Drags \cup {NoDrag}
  /\ drag # NoDrag /\ drag.state = "sent" => drag.to \in Columns
  /\ changes \in 0..MaxChanges /\ drops \in 0..MaxDrops
  /\ stale \in Nat /\ sound \in [Fetches -> Nat] /\ clean \in BOOLEAN

Listed    == Cards \ Left
RowsOf(s) == {<<i, s[i]>> : i \in {j \in Cards : s[j] # "none"}}

ClientInit ==
  /\ server = [i \in Cards |-> "none"] /\ known = {}
  /\ connected = FALSE /\ hidden = FALSE /\ wire = << >> /\ view = {}
  /\ fetch = [f \in Fetches |-> NoFetch]
  /\ drag = NoDrag
  /\ changes = 0 /\ drops = 0
  /\ stale = 0 /\ sound = [f \in Fetches |-> Unsound] /\ clean = FALSE

-----------------------------------------------------------------------------
(* The server *)

Broadcast1(k, i, c) ==
  wire' = IF connected THEN Append(wire, [kind |-> k, id |-> i, column |-> c]) ELSE wire

Change(i, c) ==
  /\ changes < MaxChanges
  /\ changes' = changes + 1
  /\ server' = [server EXCEPT ![i] = c]
  /\ UNCHANGED <<connected, hidden, view, fetch, drag, drops>>

TaskCreated(i, c) ==
  /\ i \notin known
  /\ known' = known \cup {i}
  /\ Change(i, c) /\ Broadcast1("created", i, c)
  /\ UNCHANGED history

TaskMoves(i, c) ==
  /\ server[i] \notin {"none", c}
  /\ Change(i, c) /\ Broadcast1("status", i, c)
  /\ UNCHANGED <<known, history>>

TaskDeleted(i) ==
  /\ server[i] # "none"
  /\ Change(i, "none") /\ Broadcast1("deleted", i, "none")
  /\ UNCHANGED <<known, history>>

\* Pulls from GitHub and recurring tasks write rows without an event.
SilentChange(i, c) ==
  /\ server[i] # c /\ (server[i] = "none" => i \notin known)
  /\ known' = known \cup {i}
  /\ Change(i, c)
  /\ stale' = Len(wire) /\ sound' = [f \in Fetches |-> Unsound] /\ clean' = FALSE
  /\ UNCHANGED wire

-----------------------------------------------------------------------------
(* The stream *)

Connect ==
  /\ ~connected
  /\ connected' = TRUE /\ wire' = << >>
  /\ UNCHANGED <<server, known, hidden, view, fetch, drag, changes, drops, history>>

\* The stream breaks, and what was on it is gone.  After twenty attempts in a
\* row the client does not connect any more.
Disconnect ==
  /\ connected /\ drops < MaxDrops
  /\ drops' = drops + 1
  /\ connected' = FALSE /\ wire' = << >>
  /\ stale' = 0 /\ sound' = [f \in Fetches |-> Unsound] /\ clean' = FALSE
  /\ UNCHANGED <<server, known, hidden, view, fetch, drag, changes>>

\* Mutant: an event about a task is a reason to put the task on the board.
ApplyInserting(e, v) ==
  CASE e.kind = "created" -> v \cup {<<e.id, e.column>>}
    [] e.kind = "status"  -> {r \in v : r[1] # e.id} \cup {<<e.id, e.column>>}
    [] e.kind = "deleted" -> {r \in v : r[1] # e.id}

\* What dispatch makes of the copy.  addTask looks for no copy of the task.
Apply(e, v) ==
  CASE e.kind = "created" -> v \cup {<<e.id, e.column>>}
    [] e.kind = "status"  -> {IF r[1] = e.id THEN <<e.id, e.column>> ELSE r : r \in v}
    [] e.kind = "deleted" -> {r \in v : r[1] # e.id}

Touch(ids) == IF drag # NoDrag /\ drag.id \in ids THEN [drag EXCEPT !.touched = TRUE] ELSE drag

Dispatch ==
  /\ connected /\ wire # << >>
  /\ view' = Apply(Head(wire), view)
  /\ wire' = Tail(wire)
  /\ stale' = IF stale > 0 THEN stale - 1 ELSE 0
  /\ drag' = IF drag = NoDrag THEN drag ELSE Touch({Head(wire).id})
  /\ sound' = [f \in Fetches |-> IF fetch[f].state # "read" \/ sound[f] = Unsound THEN sound[f]
                                 ELSE IF sound[f] > 0 THEN sound[f] - 1 ELSE Unsound]
  /\ UNCHANGED <<server, known, connected, hidden, fetch, changes, drops, clean>>

-----------------------------------------------------------------------------
(* Fetching *)

Ask(f) ==
  /\ fetch[f] = NoFetch
  /\ fetch' = [fetch EXCEPT ![f].state = "asked"]

\* Mutant: the poll is paused when the stream is down.
PollPaused(f) ==
  /\ connected /\ ~hidden /\ Ask(f)
  /\ UNCHANGED <<server, known, streamVars, view, drag, changes, drops, history>>

\* The interval, paused while the stream is up or the tab is hidden.
Poll(f) ==
  /\ ~connected /\ ~hidden /\ Ask(f)
  /\ UNCHANGED <<server, known, streamVars, view, drag, changes, drops, history>>

\* The first fetch of the panel, another project, or the user's wish.
Refresh(f) ==
  /\ connected \/ hidden
  /\ Ask(f)
  /\ UNCHANGED <<server, known, streamVars, view, drag, changes, drops, history>>

Hide ==
  /\ ~hidden /\ hidden' = TRUE
  /\ UNCHANGED <<server, known, connected, wire, view, fetch, drag, changes, drops, history>>

\* A tab that is to be seen again polls at once, unless the stream is up.
Show(f) ==
  /\ hidden /\ hidden' = FALSE
  /\ IF connected THEN UNCHANGED fetch ELSE Ask(f)
  /\ UNCHANGED <<server, known, connected, wire, view, drag, changes, drops, history>>

\* Which tasks of other projects or beyond the limit the answer leaves out
\* depends on the project chosen and on how many newer tasks there are.
FetchReads(f) ==
  /\ fetch[f].state = "asked"
  /\ \E S \in SUBSET Left :
       fetch' = [fetch EXCEPT ![f] =
                   [state |-> "read", rows |-> {r \in RowsOf(server) : r[1] \notin S}]]
  /\ sound' = [sound EXCEPT ![f] = IF connected /\ stale = 0 THEN Len(wire) ELSE Unsound]
  /\ UNCHANGED <<server, known, streamVars, view, drag, changes, drops, stale, clean>>

\* fetchData has awaited agents, projects and reviews too, and sets the tasks.
FetchSets(f) ==
  /\ fetch[f].state = "read"
  /\ view' = fetch[f].rows
  /\ fetch' = [fetch EXCEPT ![f] = NoFetch]
  /\ drag' = IF drag = NoDrag THEN drag ELSE [drag EXCEPT !.touched = TRUE]
  /\ clean' = (connected /\ sound[f] # Unsound)
  /\ sound' = [sound EXCEPT ![f] = Unsound]
  /\ UNCHANGED <<server, known, streamVars, changes, drops, stale>>

-----------------------------------------------------------------------------
(* Dragging a card *)

\* The task is remembered as it is when the drag begins.
DragStart(i, from) ==
  /\ drag = NoDrag /\ changes < MaxChanges
  /\ <<i, from>> \in view
  /\ changes' = changes + 1
  /\ drag' = [state |-> "held", id |-> i, from |-> from, to |-> "none", touched |-> FALSE]
  /\ UNCHANGED <<server, known, streamVars, view, fetch, drops, history>>

\* Before done the reviews are fetched, and without an approval of Aegis the
\* card goes back to where it was, which may be where it is no more.
Drop(to) ==
  /\ drag # NoDrag /\ drag.state = "held" /\ drag.from # to
  /\ view' = Apply([kind |-> "status", id |-> drag.id, column |-> to], view)
  /\ drag' = [drag EXCEPT !.state = "sent", !.to = to]
  /\ UNCHANGED <<server, known, streamVars, fetch, changes, drops, history>>

DropNotApproved ==
  /\ drag # NoDrag /\ drag.state = "held"
  /\ drag' = [drag EXCEPT !.state = "refused"]
  /\ UNCHANGED <<server, known, streamVars, view, fetch, changes, drops, history>>

\* The request writes the row, if there still is one, and broadcasts.
DropLands ==
  /\ drag # NoDrag /\ drag.state = "sent"
  /\ server' = [server EXCEPT ![drag.id] = IF @ = "none" THEN @ ELSE drag.to]
  /\ Broadcast1("status", drag.id, drag.to)
  /\ drag' = [drag EXCEPT !.state = "landed"]
  /\ UNCHANGED <<known, connected, hidden, view, fetch, changes, drops, history>>

\* A task that nobody has signed off cannot be dropped on done.
DropRefused ==
  /\ drag # NoDrag /\ drag.state = "sent"
  /\ drag' = [drag EXCEPT !.state = "refused"]
  /\ UNCHANGED <<server, known, streamVars, view, fetch, changes, drops, history>>

\* Done, or dropped where it was.
DropDone ==
  /\ drag # NoDrag /\ drag.state \in {"held", "landed"}
  /\ drag' = NoDrag
  /\ UNCHANGED <<server, known, streamVars, view, fetch, changes, drops, history>>

\* Refused, or the answer was lost: the card goes back to where it came from.
DropReverts ==
  /\ drag # NoDrag /\ drag.state \in {"landed", "refused"}
  /\ view' = Apply([kind |-> "status", id |-> drag.id, column |-> drag.from], view)
  /\ clean' = (clean /\ ~drag.touched)
  /\ drag' = NoDrag
  /\ UNCHANGED <<server, known, streamVars, fetch, changes, drops, stale, sound>>

ClientNext ==
  \/ \E i \in Cards, c \in Columns : TaskCreated(i, c) \/ TaskMoves(i, c) \/ SilentChange(i, c)
  \/ \E i \in Cards : TaskDeleted(i)
  \/ Connect \/ Disconnect \/ Dispatch \/ Hide
  \/ \E f \in Fetches : Poll(f) \/ Refresh(f) \/ Show(f) \/ FetchReads(f) \/ FetchSets(f)
  \/ \E i \in Cards, c \in Columns : DragStart(i, c) \/ Drop(c)
  \/ DropNotApproved \/ DropLands \/ DropRefused \/ DropDone \/ DropReverts

ClientSpec == ClientInit /\ [][ClientNext]_clientVars

-----------------------------------------------------------------------------
(* Properties *)

\* The copy once the events on their way have been dispatched.
After[n \in Nat] == IF n = 0 THEN view ELSE Apply(wire[n], After[n - 1])

\* While the stream is up and nothing was lost, the events on their way bring
\* the copy to what the server has, as to the tasks that no fetch leaves out:
\* whatever order events and the answers of overlapping fetches come in, and
\* whatever becomes of a card in the air.
EventsCatchUp ==
  connected /\ clean =>
    \A i \in Listed : drag = NoDrag \/ drag.id # i \/ drag.state = "held" =>
      {r \in After[Len(wire)] : r[1] = i} = {r \in RowsOf(server) : r[1] = i}

\* What the invariant says of events lo to hi of w, which are to be dispatched to a
\* copy that has card i in the columns X.  In the end the copy has the card not at all,
Has(w, k, i, lo, hi) == \E n \in lo..hi : w[n].kind = k /\ w[n].id = i
Gone(w, i, X, lo, hi) ==
  Has(w, "deleted", i, lo, hi) \/ (X = {} /\ ~Has(w, "created", i, lo, hi))

\* or in one column s: where the last event puts it, or where it has been already.
Leads(w, i, X, s, lo, hi) ==
  /\ s = "none" <=> Gone(w, i, X, lo, hi)
  /\ s # "none" =>
       \/ \E n \in lo..hi : /\ w[n].kind = "status" /\ w[n].id = i /\ w[n].column = s
                            /\ ~Has(w, "status", i, n + 1, hi)
       \/ /\ ~Has(w, "status", i, lo, hi) /\ X \subseteq {s}
          /\ \A n \in lo..hi : w[n].kind = "created" /\ w[n].id = i => w[n].column = s

ColumnsOf(i, v) == {c \in Columns : <<i, c>> \in v}
Just(s)         == IF s = "none" THEN {} ELSE {s}

\* A card is created once, and all that is known of cards came from their rows.
CardsAreKnown ==
  /\ \A i \in Cards : server[i] # "none" => i \in known
  /\ \A n \in 1..Len(wire) : wire[n].id \in known
  /\ \A r \in view : r[1] \in known
  /\ \A f \in Fetches : \A r \in fetch[f].rows : r[1] \in known
  /\ drag # NoDrag => drag.id \in known
CreatedFirst(w) ==
  \A m, n \in 1..Len(w) : m < n /\ w[n].kind = "created" => w[m].id # w[n].id

\* Events that no unannounced change outdates lead from the rows to the rows.
WireIsSound ==
  /\ ~connected => wire = << >>
  /\ stale <= Len(wire)
  /\ \A i \in Cards : Leads(wire, i, Just(server[i]), server[i], stale + 1, Len(wire))

\* So do those that a fetch had read already; all of them lead to the server's rows.
ReadsAreSound ==
  \A f \in Fetches : fetch[f].state = "read" /\ sound[f] # Unsound =>
    /\ connected /\ sound[f] <= Len(wire)
    /\ \A i \in Listed :
         /\ Leads(wire, i, ColumnsOf(i, fetch[f].rows), server[i], 1, Len(wire))
         /\ \E s \in Status : /\ ColumnsOf(i, fetch[f].rows) = Just(s)
                              /\ Leads(wire, i, Just(s), s, 1, sound[f])

\* The copy follows, except for a card whose drop the server has not seen yet: that one
\* follows once it is back where it came from, or once the drop lands.
CopyIsSound ==
  clean =>
    /\ connected
    /\ \A i \in Listed : drag = NoDrag \/ drag.id # i \/ drag.state \in {"held", "landed"} =>
         Leads(wire, i, ColumnsOf(i, view), server[i], 1, Len(wire))
    /\ drag # NoDrag /\ drag.id \in Listed =>
         /\ drag.state = "sent" =>
              (server[drag.id] = "none" <=> Gone(wire, drag.id, ColumnsOf(drag.id, view), 1, Len(wire)))
         /\ ~drag.touched /\ drag.state = "held" => <<drag.id, drag.from>> \in view
         /\ ~drag.touched /\ drag.state # "held" =>
              /\ ColumnsOf(drag.id, view) # {}
              /\ Leads(wire, drag.id, {drag.from}, server[drag.id], 1, Len(wire))

ClientInv ==
  ClientTypeOK /\ CardsAreKnown /\ CreatedFirst(wire) /\ WireIsSound /\ ReadsAreSound /\ CopyIsSound

\* While the stream is down the polls do: the copy is the board in the end, as to
\* the tasks that no fetch leaves out, or the stream comes back, or the tab is
\* hidden, and catches up when it is shown again.
PollsCatchUp ==
  <>[](connected \/ hidden \/
         {r \in view : r[1] \in Listed} = {r \in RowsOf(server) : r[1] \in Listed})
=============================================================================
