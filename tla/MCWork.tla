------------------------------- MODULE MCWork -------------------------------
(***************************************************************************)
(* Components that share no state, in one instance: each behaviour is one  *)
(* of one of them, chosen at the start, while the others stand still.      *)
(***************************************************************************)
EXTENDS Ticketing, Pipelines, ConfigFiles, Accounts, TLC

CONSTANT Worlds
VARIABLE world

workVars == <<world, ticketingVars, pipelineVars, fileVars, accountVars>>

\* Nothing tells one date from another, nor one request of administrators.
Alike == Permutations(Days) \cup Permutations(Requests)

WorkInit ==
  /\ world \in Worlds
  /\ TicketingInit /\ PipelinesInit /\ FilesInit /\ AccountsInit
  /\ world # "files" => file = CHOOSE f \in Files : TRUE

\* Bound: one template at a time.
OneTemplate == \A t, u \in tasks : task[t].recurs /\ task[u].recurs => t = u

Only(w, next) == world = w /\ next /\ UNCHANGED world

WorkNext ==
  \/ Only("ticketing", TicketingNext /\ OneTemplate') /\ UNCHANGED <<pipelineVars, fileVars, accountVars>>
  \/ Only("pipelines", PipelinesNext) /\ UNCHANGED <<ticketingVars, fileVars, accountVars>>
  \/ Only("files", FilesNext) /\ UNCHANGED <<ticketingVars, pipelineVars, accountVars>>
  \/ Only("accounts", AccountsNext) /\ UNCHANGED <<ticketingVars, pipelineVars, fileVars>>

WorkSpec == WorkInit /\ [][WorkNext]_workVars

\* Every variable of every component has its type.
WorkTypeOK ==
  /\ TicketingTypeOK /\ PipelinesTypeOK /\ FilesTypeOK /\ AccountsTypeOK
=============================================================================
