----------------------------- MODULE SkillSync -----------------------------
(***************************************************************************)
(* Skills are files, and rows of a table that is made to follow the files: *)
(* requests write the file first and the row after it, a sync goes through *)
(* all files now and then.  Skills from a registry have a slug, and their  *)
(* rows outlive their files.                                               *)
(***************************************************************************)
EXTENDS Naturals

CONSTANTS
  Skills,   \* sources and names
  Contents, \* what SKILL.md may contain
  Savers,   \* requests that may overlap
  MaxEdits  \* bound: changes of files

ASSUME SkillAssumption == MaxEdits \in Nat

VARIABLES
  skillFile, \* skillFile[s]: the contents on disk, or "none"
  skillRow,  \* skillRow[s]: the row of table skills, or NoSkill
  saver,     \* saver[w]: a request between file and row
  edits      \* bound

skillVars == <<skillFile, skillRow, saver, edits>>

\* checked: the contents that security_status is about, or "unchecked".
NoSkill   == [hash |-> "none", checked |-> "unchecked", slug |-> FALSE]
SkillRows == [hash : Contents, checked : Contents \cup {"unchecked"}, slug : BOOLEAN]
NoSaver   == [kind |-> "idle"]
SaverRows == [kind : {"save", "install", "check"}, skill : Skills, text : Contents]
               \cup [kind : {"delete"}, skill : Skills, text : {"none"}]

SkillsTypeOK ==
  /\ skillFile \in [Skills -> Contents \cup {"none"}]
  /\ skillRow \in [Skills -> SkillRows \cup {NoSkill}]
  /\ saver \in [Savers -> SaverRows \cup {NoSaver}]
  /\ edits \in 0..MaxEdits

SkillsInit ==
  /\ skillFile = [s \in Skills |-> "none"]
  /\ skillRow = [s \in Skills |-> NoSkill]
  /\ saver = [w \in Savers |-> NoSaver]
  /\ edits = 0

Edit(s, c) ==
  /\ edits < MaxEdits /\ edits' = edits + 1
  /\ skillFile' = [skillFile EXCEPT ![s] = c]

\* Somebody edits the files.
FileEdited(s, c) ==
  /\ skillFile[s] # c
  /\ Edit(s, c)
  /\ UNCHANGED <<skillRow, saver>>

\* POST and PUT write the file, installing writes it, DELETE removes it.
WriteFile(w, s, kind, c) ==
  /\ saver[w] = NoSaver
  /\ Edit(s, c)
  /\ saver' = [saver EXCEPT ![w] = [kind |-> kind, skill |-> s, text |-> c]]
  /\ UNCHANGED skillRow

\* mode=check reads the file.
ReadFile(w, s) ==
  /\ saver[w] = NoSaver /\ skillFile[s] # "none"
  /\ saver' = [saver EXCEPT ![w] = [kind |-> "check", skill |-> s, text |-> skillFile[s]]]
  /\ UNCHANGED <<skillFile, skillRow, edits>>

\* What the request makes of the row.  A save keeps slug and verdict; a verdict
\* is written whatever the contents are by now.
RowAfter(kind, row, c) ==
  CASE kind = "save"    -> IF row = NoSkill THEN [NoSkill EXCEPT !.hash = c] ELSE [row EXCEPT !.hash = c]
    [] kind = "install" -> [hash |-> c, checked |-> c, slug |-> TRUE]
    [] kind = "delete"  -> NoSkill
    [] kind = "check"   -> IF row = NoSkill THEN NoSkill ELSE [row EXCEPT !.checked = c]

WriteRow(w) ==
  /\ saver[w] # NoSaver
  /\ skillRow' = [skillRow EXCEPT ![saver[w].skill] = RowAfter(saver[w].kind, @, saver[w].text)]
  /\ saver' = [saver EXCEPT ![w] = NoSaver]
  /\ UNCHANGED <<skillFile, edits>>

\* The server stops, or the row cannot be written, which is passed over.
RowNotWritten(w) ==
  /\ saver[w] # NoSaver
  /\ saver' = [saver EXCEPT ![w] = NoSaver]
  /\ UNCHANGED <<skillFile, skillRow, edits>>

\* Mutant: a row that is there is left alone.
FollowedOnce(s) ==
  CASE skillFile[s] = "none" -> IF skillRow[s].slug THEN skillRow[s] ELSE NoSkill
    [] skillRow[s] = NoSkill -> [NoSkill EXCEPT !.hash = skillFile[s]]
    [] OTHER                 -> skillRow[s]

\* Disk wins.
Followed(s) ==
  CASE skillFile[s] = "none" -> IF skillRow[s].slug THEN skillRow[s] ELSE NoSkill
    [] OTHER                 -> [skillRow[s] EXCEPT !.hash = skillFile[s]]

\* syncSkillsFromDisk: reading all files and writing all rows is one step.
SyncSkills ==
  /\ skillRow' = [s \in Skills |-> Followed(s)]
  /\ UNCHANGED <<skillFile, saver, edits>>

SkillsNext ==
  \/ \E s \in Skills, c \in Contents \cup {"none"} : FileEdited(s, c)
  \/ \E w \in Savers, s \in Skills, c \in Contents :
       WriteFile(w, s, "save", c) \/ WriteFile(w, s, "install", c)
  \/ \E w \in Savers, s \in Skills : WriteFile(w, s, "delete", "none") \/ ReadFile(w, s)
  \/ \E w \in Savers : WriteRow(w) \/ RowNotWritten(w)
  \/ SyncSkills

\* The scheduler runs the sync, and requests end.
SkillsFairness ==
  /\ WF_skillVars(SyncSkills)
  /\ \A w \in Savers : WF_skillVars(WriteRow(w) \/ RowNotWritten(w))

SkillsSpec == SkillsInit /\ [][SkillsNext]_skillVars /\ SkillsFairness

-----------------------------------------------------------------------------
(* Properties *)

InStep(s) ==
  IF skillFile[s] = "none" THEN skillRow[s] = NoSkill \/ skillRow[s].slug
  ELSE skillRow[s].hash = skillFile[s]

\* In the end the table follows the files, in whatever order requests that
\* overlap reach files and rows, and whichever of them stop halfway.
RowsFollowFiles == <>[](\A s \in Skills : InStep(s))
=============================================================================
