---------------------------- MODULE ConfigFiles ----------------------------
(***************************************************************************)
(* The JSON files that requests read, change and write back: the gateway's *)
(* configuration, the allowlists of exec approvals and the cron jobs.  A   *)
(* request awaits the read, and it awaits the write, which first empties   *)
(* the file and then fills it; other requests come in between.             *)
(*                                                                         *)
(* The three files share nothing, so a behaviour is about one of them.  A  *)
(* file is a value for each entry, 0 where there is none; the value stands *)
(* for the length of its text, too.                                        *)
(***************************************************************************)
EXTENDS Naturals, FiniteSets

CONSTANTS
  Files,    \* those behaviours are about
  Entries,  \* root keys of the configuration, agents, or names of jobs
  Roots,    \* the root keys that the configuration has
  Longest,  \* values are 1..Longest
  Hashed,   \* do clients send the hash of what they loaded: always, never, or both?
  Writers   \* requests that may overlap

ASSUME FilesAssumption ==
  /\ Files \subseteq {"config", "approvals", "cron"}
  /\ IsFiniteSet(Entries) /\ Roots \subseteq Entries
  /\ Longest \in Nat \ {0, 1} /\ Hashed \subseteq BOOLEAN

VARIABLES
  file,      \* the file this behaviour is about
  disk,      \* its text
  loaded,    \* the text a client has loaded and sends the hash of
  req,       \* req[w]: what request w is about to write
  ledger,    \* history: all edits applied one after the other, until disturbed
  disturbed  \* history: requests overlapped, or a restart cut one off

fileVars == <<file, disk, loaded, req, ledger, disturbed>>

Docs   == [Entries -> 0..Longest]
Empty  == [k \in Entries |-> 0]
Texts  == [doc : Docs, state : {"missing", "good", "bad"}]
NoRequest == [stage |-> "idle"]
FileRequests == [stage : {"read", "open"}, doc : Docs, base : Docs, hashed : BOOLEAN]

FilesTypeOK ==
  /\ file \in Files
  /\ disk \in Texts
  /\ loaded \in Docs /\ ledger \in Docs
  /\ req \in [Writers -> FileRequests \cup {NoRequest}]
  /\ disturbed \in BOOLEAN

FilesInit ==
  /\ file \in Files
  /\ LET doc == IF file = "config" THEN [k \in Entries |-> IF k \in Roots THEN 1 ELSE 0] ELSE Empty
     IN /\ disk = [doc |-> doc, state |-> IF file = "config" THEN "good" ELSE "missing"]
        /\ loaded = doc /\ ledger = doc
  /\ req = [w \in Writers |-> NoRequest]
  /\ disturbed = FALSE

Busy == \E w \in Writers : req[w] # NoRequest

-----------------------------------------------------------------------------
(* Reading *)

Load ==
  /\ disk.state # "bad" /\ loaded' = disk.doc
  /\ UNCHANGED <<file, disk, req, ledger, disturbed>>

\* The read has returned and the entry k gets value v; base is what was read,
\* which matters later if the request compared it with a hash.
Change(w, base, hashed, k, v) ==
  /\ req[w] = NoRequest
  /\ req' = [req EXCEPT ![w] =
       [stage |-> "read", doc |-> [base EXCEPT ![k] = v],
        base |-> IF hashed THEN base ELSE Empty, hashed |-> hashed]]
  /\ disturbed' = (disturbed \/ Busy)
  /\ ledger' = IF disturbed' THEN Empty ELSE [ledger EXCEPT ![k] = v]
  /\ UNCHANGED <<file, disk, loaded>>

\* PUT /api/gateway-config sets a value under a root the file has.
UpdateConfig(w, k, v, hashed) ==
  /\ file = "config" /\ disk.state = "good"
  /\ hashed => loaded = disk.doc
  /\ disk.doc[k] # 0
  /\ Change(w, disk.doc, hashed, k, v)

\* PUT /api/exec-approvals sets an agent's list, or with an empty one deletes
\* it.  A missing file is begun, whatever the hash.
SaveAllowlist(w, k, v, hashed) ==
  /\ file = "approvals" /\ disk.state # "bad"
  /\ hashed => loaded = disk.doc \/ disk.state = "missing"
  /\ Change(w, disk.doc, hashed, k, v)

\* Mutant: adding starts from an empty file.
AddJobAnew(w, k) ==
  /\ file = "cron"
  /\ Change(w, Empty, FALSE, k, 2)

\* Cron jobs are 1, disabled, or 2, enabled.
\* A file that is missing or cannot be read is begun anew.
AddJob(w, k) ==
  /\ file = "cron"
  /\ Change(w, IF disk.state = "good" THEN disk.doc ELSE Empty, FALSE, k, 2)

ToggleJob(w, k) ==
  /\ file = "cron" /\ disk.state = "good" /\ disk.doc[k] # 0
  /\ Change(w, disk.doc, FALSE, k, 3 - disk.doc[k])

RemoveJob(w, k) ==
  /\ file = "cron" /\ disk.state = "good" /\ disk.doc[k] # 0
  /\ Change(w, disk.doc, FALSE, k, 0)

CloneJob(w, k, l) ==
  /\ file = "cron" /\ disk.state = "good" /\ disk.doc[k] # 0 /\ disk.doc[l] = 0
  /\ Change(w, disk.doc, FALSE, l, disk.doc[k])

-----------------------------------------------------------------------------
(* Writing *)

\* writeFile opens the file, which empties it.
OpenFile(w) ==
  /\ req[w].stage = "read"
  /\ req' = [req EXCEPT ![w].stage = "open"]
  /\ disk' = [doc |-> Empty, state |-> "bad"]
  /\ UNCHANGED <<file, loaded, ledger, disturbed>>

Size(doc) == Cardinality({c \in Entries \X (1..Longest) : c[2] <= doc[c[1]]})

\* Its text replaces as much of what is there as it is long: the end of a longer
\* text, written by somebody else who had the file open, stays behind it.
WriteText(w) ==
  /\ req[w].stage = "open"
  /\ disk' = IF Size(disk.doc) > Size(req[w].doc) THEN [disk EXCEPT !.state = "bad"]
             ELSE [doc |-> req[w].doc, state |-> "good"]
  /\ req' = [req EXCEPT ![w] = NoRequest]
  /\ UNCHANGED <<file, loaded, ledger, disturbed>>

ServerStops ==
  /\ Busy
  /\ req' = [w \in Writers |-> NoRequest]
  /\ disturbed' = TRUE /\ ledger' = Empty
  /\ UNCHANGED <<file, disk, loaded>>

FilesNext ==
  \/ Load \/ ServerStops
  \/ \E w \in Writers, k \in Entries, v \in 0..Longest, hashed \in Hashed :
       \/ v # 0 /\ UpdateConfig(w, k, v, hashed)
       \/ SaveAllowlist(w, k, v, hashed)
  \/ \E w \in Writers, k \in Entries :
       AddJob(w, k) \/ ToggleJob(w, k) \/ RemoveJob(w, k) \/ \E l \in Entries : CloneJob(w, k, l)
  \/ \E w \in Writers : OpenFile(w) \/ WriteText(w)

FilesSpec == FilesInit /\ [][FilesNext]_fileVars

-----------------------------------------------------------------------------
(* Properties *)

\* Requests that do not overlap lose nothing of each other: the file is what
\* all edits make of it, whether an edit is of the whole file or of an entry,
\* unless a restart came between reading and the end of writing.
EditsAddUp == ~disturbed /\ ~Busy => disk.state # "bad" /\ disk.doc = ledger

\* Undisturbed, one request at a time is under way, what it is about to write
\* is what all edits make, and the file is empty while it writes.
OneEditAtATime ==
  ~disturbed =>
    /\ \A v, w \in Writers : req[v] # NoRequest /\ req[w] # NoRequest => v = w
    /\ \A w \in Writers : req[w] # NoRequest =>
         /\ req[w].doc = ledger
         /\ req[w].stage = "open" => disk = [doc |-> Empty, state |-> "bad"]

\* A job is disabled or enabled, in the file and in what is about to be written.
JobsAreOnOrOff ==
  file = "cron" => \A k \in Entries :
    disk.doc[k] <= 2 /\ \A w \in Writers : req[w] # NoRequest => req[w].doc[k] <= 2

\* The inductive invariant behind them: a file that is missing has no entry.
FilesInv ==
  /\ FilesTypeOK /\ EditsAddUp /\ OneEditAtATime /\ JobsAreOnOrOff
  /\ disk.state = "missing" => disk.doc = Empty

\* A request that sent the hash of what its client saw overwrites nothing else.
HashedEditsSeeWhatTheyReplace ==
  [][\A w \in Writers :
       req[w].stage = "read" /\ req[w].hashed /\ req'[w].stage = "open"
         /\ disk.state = "good" => disk.doc = req[w].base]_fileVars
=============================================================================
