--------------------------- MODULE Notifications ---------------------------
(***************************************************************************)
(* Notifications: rows for a recipient, which a daemon delivers in rounds. *)
(* A round reads the oldest rows that are not delivered, at most Limit of  *)
(* them, passes over recipients without a session key and awaits the       *)
(* gateway for each of the others.  The gateway may take a message whose   *)
(* answer is an error, late, or lost with the server.  An agent may        *)
(* collect its rows itself.  People have notifications too, and no session.*)
(***************************************************************************)
EXTENDS Naturals, FiniteSets

CONSTANTS
  Recipients, \* names of agents and people
  Keyless,    \* those without a session key at first
  Limit,      \* rows in a round
  Rounds,     \* rounds that may overlap
  Daemon,     \* the round of the daemon; the others are asked for by hand
  MaxNotes    \* bound: notifications ever created

ASSUME NotificationsAssumption ==
  /\ "none" \notin Recipients /\ Keyless \subseteq Recipients
  /\ IsFiniteSet(Rounds) /\ Daemon \in Rounds
  /\ Limit \in Nat \ {0} /\ MaxNotes \in Nat

VARIABLES
  noteTo,    \* noteTo[n]: the recipient of row n, or "none" if it was not created
  notes,     \* rows of notifications; ids grow
  delivered, \* rows with delivered_at
  keyless,   \* recipients without a session key
  round,     \* round[b]: rows that round b has still to send, the oldest now
  heard,     \* history: rows for which an acceptance by the gateway was heard of
  again      \* history: again[n]: sends of n that have ended, in whatever way, after
             \* that; the gateway may have taken each of them

historyOfNotes == <<heard, again>>
notifyVars == <<noteTo, notes, delivered, keyless, round, historyOfNotes>>

NoteIds == 1..MaxNotes

NotificationsTypeOK ==
  /\ noteTo \in [NoteIds -> Recipients \cup {"none"}]
  /\ notes \subseteq NoteIds /\ delivered \subseteq notes
  /\ keyless \subseteq Recipients
  /\ round \in [Rounds -> SUBSET NoteIds]
  /\ heard \subseteq NoteIds /\ again \in [NoteIds -> Nat]

NotificationsInit ==
  /\ noteTo = [n \in NoteIds |-> "none"]
  /\ notes = {} /\ delivered = {}
  /\ keyless = Keyless
  /\ round = [b \in Rounds |-> {}]
  /\ heard = {} /\ again = [n \in NoteIds |-> 0]

Oldest(S) == CHOOSE n \in S : \A m \in S : n <= m

Notify(n, a) ==
  /\ noteTo[n] = "none" /\ \A m \in 1..(n - 1) : noteTo[m] # "none"
  /\ noteTo' = [noteTo EXCEPT ![n] = a]
  /\ notes' = notes \cup {n}
  /\ UNCHANGED <<delivered, keyless, round, historyOfNotes>>

Undelivered(S) == {n \in notes \ delivered : noteTo[n] \in S}

\* ORDER BY created_at LIMIT: the rows with fewer than Limit before them.
Batch(S) ==
  {n \in Undelivered(S) : Cardinality({m \in Undelivered(S) : m < n}) < Limit}

\* Mutant: the first recipient without a session ends the round.
RoundBreaks(b, S) ==
  /\ round[b] = {}
  /\ round' = [round EXCEPT ![b] =
       {n \in Batch(S) : \A m \in Batch(S) : m <= n => noteTo[m] \notin keyless}]
  /\ UNCHANGED <<noteTo, notes, delivered, keyless, historyOfNotes>>

\* Mutant: rows that are delivered are read as well.
RoundRepeats(b, S) ==
  /\ round[b] = {}
  /\ round' = [round EXCEPT ![b] = {n \in notes : noteTo[n] \in S \ keyless}]
  /\ UNCHANGED <<noteTo, notes, delivered, keyless, historyOfNotes>>

\* The rows of a round are read, with the session keys of the time.
RoundBegins(b, S) ==
  /\ round[b] = {}
  /\ round' = [round EXCEPT ![b] = {n \in Batch(S) : noteTo[n] \notin keyless}]
  /\ UNCHANGED <<noteTo, notes, delivered, keyless, historyOfNotes>>

\* The sends of n by the rounds B end, one each.
SentAgain(n, B) ==
  IF n \in heard THEN again[n] + Cardinality({b \in B : n = Oldest(round[b])}) ELSE again[n]

\* The gateway has answered.  After an error or a time-out, whether or not the
\* gateway has taken the message, the row stays as it is, and the round goes on.
SendEnds(b, ok) ==
  /\ round[b] # {}
  /\ LET n == Oldest(round[b])
     IN /\ round' = [round EXCEPT ![b] = @ \ {n}]
        /\ delivered' = IF ok THEN delivered \cup ({n} \cap notes) ELSE delivered
        /\ heard' = IF ok THEN heard \cup {n} ELSE heard
  /\ again' = [n \in NoteIds |-> SentAgain(n, {b})]
  /\ UNCHANGED <<noteTo, notes, keyless>>

\* action=mark-delivered: an agent collects what it has not got yet.
MarkDelivered(a) ==
  /\ Undelivered({a}) # {}
  /\ delivered' = delivered \cup Undelivered({a})
  /\ UNCHANGED <<noteTo, notes, keyless, round, historyOfNotes>>

DeleteNote(n) ==
  /\ n \in notes
  /\ notes' = notes \ {n} /\ delivered' = delivered \ {n}
  /\ UNCHANGED <<noteTo, keyless, round, historyOfNotes>>

KeyIsSet(a) ==
  /\ a \in keyless
  /\ keyless' = keyless \ {a}
  /\ UNCHANGED <<noteTo, notes, delivered, round, historyOfNotes>>

\* The server stops; the message of each round may have got to the gateway.
RoundsLost ==
  /\ \E b \in Rounds : round[b] # {}
  /\ round' = [b \in Rounds |-> {}]
  /\ again' = [n \in NoteIds |-> SentAgain(n, {b \in Rounds : round[b] # {}})]
  /\ UNCHANGED <<noteTo, notes, delivered, keyless, heard>>

\* Only rounds asked for by hand are for one agent.
NotificationsNext ==
  \/ \E n \in NoteIds, a \in Recipients : Notify(n, a)
  \/ \E b \in Rounds : RoundBegins(b, Recipients) \/ \E ok \in BOOLEAN : SendEnds(b, ok)
  \/ \E b \in Rounds \ {Daemon}, a \in Recipients : RoundBegins(b, {a})
  \/ \E a \in Recipients : MarkDelivered(a) \/ KeyIsSet(a)
  \/ \E n \in NoteIds : DeleteNote(n)
  \/ RoundsLost

\* The daemon begins a round every minute, and the gateway accepts what it is
\* sent again and again.
NotificationsFairness ==
  WF_notifyVars(RoundBegins(Daemon, Recipients)) /\ SF_notifyVars(SendEnds(Daemon, TRUE))

NotificationsSpec == NotificationsInit /\ [][NotificationsNext]_notifyVars /\ NotificationsFairness

-----------------------------------------------------------------------------
(* Properties *)

\* A row is marked only after the answer, so rounds that overlap repeat one
\* another.  But once an acceptance was heard of, what may still be sent of the
\* row are the sends of the other rounds that had read it by then, one each,
\* whether they fail, time out or are lost: no round takes it up anew.  Before
\* that nothing bounds the repeats: each error or time-out may hide an acceptance.
RepeatsAreBounded == \A n \in NoteIds : again[n] < Cardinality(Rounds)

\* A row that was heard of is marked, unless it was deleted: no round that begins
\* from then on sends it.
HeardIsMarked == heard \cap notes \subseteq delivered

\* The inductive invariant: only rows that were created are sent, and what has
\* been sent again and what may yet be are of the rounds but the one that heard.
HoldersOf(n) == {b \in Rounds : n \in round[b]}
RepeatsInv ==
  /\ NotificationsTypeOK /\ HeardIsMarked
  /\ \A n \in NoteIds : noteTo[n] = "none" =>
       n \notin notes /\ n \notin heard /\ HoldersOf(n) = {}
  /\ \A n \in NoteIds : n \notin heard => again[n] = 0
  /\ \A n \in heard : again[n] + Cardinality(HoldersOf(n)) < Cardinality(Rounds)

\* Rows that no round can deliver, and that every round reads again.
Stuck == {n \in notes \ delivered : noteTo[n] \in keyless}

\* What an agent with a session is to be told arrives in the end, or is deleted,
\* unless rows for recipients without one have filled up the rounds.
NotesArrive ==
  \A n \in NoteIds :
    n \in notes /\ noteTo[n] \notin keyless ~>
      n \notin notes \ delivered \/ Cardinality(Stuck) >= Limit
=============================================================================
