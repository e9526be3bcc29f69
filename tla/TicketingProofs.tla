--------------------------- MODULE TicketingProofs ---------------------------
(***************************************************************************)
(* What holds of Ticketing for any number of workspaces, projects, tasks   *)
(* and titles: a reference names one task.                                 *)
(***************************************************************************)
EXTENDS Ticketing, TLAPS

USE TicketingAssumption

-----------------------------------------------------------------------------
(* Lemmas about types *)

\* Rows that are there from the start, or as good as.
LEMMA FirstRows ==
  /\ FirstProject \in ProjectRows
  /\ NoTask \in TaskRows
  /\ 1 \in ProjectIds
  <1>1. (CHOOSE q \in Prefixes : TRUE) \in Prefixes
    OBVIOUS
  <1>2. (CHOOSE n \in Names : TRUE) \in Names
    OBVIOUS
  <1>3. 1 \in ProjectIds
    BY DEF ProjectIds
  <1>4. Plain(CHOOSE n \in Names : TRUE) \in Titles
    BY <1>2 DEF Plain, Titles
  <1>5. QED BY <1>1, <1>3, <1>4 DEF FirstProject, ProjectRows, NoTask, TaskRows

\* A title without a date, and one with today's.
LEMMA TitleTypes ==
  /\ \A n \in Names : Plain(n) \in Titles
  /\ TicketingTypeOK => \A title \in Titles : Dated(title) \in Titles
  BY DEF Plain, Titles, Dated, TicketingTypeOK

\* Ids that are in use are ids.
LEMMA IdTypes ==
  ASSUME TicketingTypeOK
  PROVE  /\ 1..lastProject \subseteq ProjectIds /\ projects \subseteq ProjectIds
         /\ tasks \subseteq TaskIds
  BY DEF TicketingTypeOK, ProjectIds, TaskIds

-----------------------------------------------------------------------------
(* Lemmas about numbers *)

\* Tasks that keep project and number, in projects that keep their counters,
\* keep what the invariant says of numbers.
LEMMA NumbersKept ==
  ASSUME TicketInv, lastProject <= lastProject',
         tasks' \ displaced' \subseteq tasks \ displaced,
         \A t \in tasks' \ displaced' : task'[t].project = task[t].project /\ task'[t].no = task[t].no,
         \A t \in tasks' : task'[t].project <= lastProject',
         \A p \in projects' :
           (p \in projects /\ project'[p].counter = project[p].counter) \/ p > lastProject
  PROVE  NumbersAreGiven' /\ NumbersDiffer' /\ ProjectsAreOld'
  <1>1. NumbersAreGiven'
    <2> SUFFICES ASSUME NEW t \in tasks' \ displaced', task'[t].project \in projects'
                 PROVE  task'[t].no <= project'[task'[t].project].counter
      BY DEF NumbersAreGiven
    <2>1. t \in tasks \ displaced /\ task'[t].project = task[t].project /\ task'[t].no = task[t].no
      OBVIOUS
    <2>2. task[t].project <= lastProject /\ task[t].project \in Nat /\ lastProject \in Nat
      BY <2>1, IdTypes DEF TicketInv, ProjectsAreOld, TicketingTypeOK, TaskRows, ProjectIds
    <2>3. task[t].project \in projects
      BY <2>1, <2>2
    <2>4. project'[task[t].project].counter = project[task[t].project].counter
      BY <2>1, <2>2
    <2>5. QED BY <2>1, <2>3, <2>4 DEF TicketInv, NumbersAreGiven
  <1>2. NumbersDiffer'
    BY DEF TicketInv, NumbersDiffer
  <1>3. ProjectsAreOld'
    BY DEF ProjectsAreOld
  <1>4. QED BY <1>1, <1>2, <1>3

\* A number that project p has given out last is on no task of it yet.
LEMMA NextNumberIsNew ==
  ASSUME TicketInv, NEW p \in projects
  PROVE  /\ project[p].counter \in Nat
         /\ \A t \in tasks \ displaced : task[t].project = p =>
              task[t].no \in Nat /\ task[t].no <= project[p].counter
  <1>1. project[p].counter \in Nat
    BY IdTypes DEF TicketInv, TicketingTypeOK, ProjectRows
  <1>2. \A t \in tasks : task[t].no \in Nat
    BY IdTypes DEF TicketInv, TicketingTypeOK, TaskRows
  <1>3. QED BY <1>1, <1>2 DEF TicketInv, NumbersAreGiven

\* Counting up changes nothing else of a project.
LEMMA BumpType ==
  ASSUME TicketingTypeOK, NEW p \in projects, Bump(p)
  PROVE  /\ project' \in [ProjectIds -> ProjectRows]
         /\ project'[p].counter = project[p].counter + 1
         /\ \A q \in ProjectIds \ {p} : project'[q] = project[q]
         /\ \A q \in ProjectIds : /\ project'[q].space = project[q].space
                                  /\ project'[q].slug = project[q].slug
                                  /\ project'[q].prefix = project[q].prefix
  <1> DEFINE row == [project[p] EXCEPT !.counter = @ + 1]
  <1>1. p \in ProjectIds /\ project[p] \in ProjectRows
    BY IdTypes DEF TicketingTypeOK
  <1>2. project' = [project EXCEPT ![p] = row]
    BY <1>1 DEF Bump, TicketingTypeOK, ProjectRows
  <1>3. /\ row \in ProjectRows /\ row.counter = project[p].counter + 1
        /\ row.space = project[p].space /\ row.slug = project[p].slug /\ row.prefix = project[p].prefix
    BY <1>1 DEF ProjectRows
  <1> HIDE DEF row
  <1>4. project \in [ProjectIds -> ProjectRows]
    BY DEF TicketingTypeOK
  <1>5. QED BY <1>1, <1>2, <1>3, <1>4

\* A new row leaves the others alone.
LEMMA InsertType ==
  ASSUME TicketingTypeOK, NEW s \in Spaces, NEW p \in 0..lastProject, NEW n \in Nat,
         NEW title \in Titles, NEW rec \in BOOLEAN, Insert(s, p, n, title, rec)
  PROVE  /\ lastTask' \in 0..MaxTasks /\ lastTask' \in TaskIds
         /\ lastTask' \notin tasks /\ tasks' = tasks \cup {lastTask'}
         /\ tasks' \subseteq 1..lastTask'
         /\ task' \in [TaskIds -> TaskRows]
         /\ task'[lastTask'].project = p /\ task'[lastTask'].no = n
         /\ task'[lastTask'].space = s /\ task'[lastTask'].title = title
         /\ \A t \in TaskIds \ {lastTask'} : task'[t] = task[t]
  <1> DEFINE row == [space |-> s, project |-> p, no |-> n, title |-> title, recurs |-> rec]
  <1>1. /\ lastTask < MaxTasks /\ lastTask' = lastTask + 1
        /\ tasks' = tasks \cup {lastTask'}
        /\ task' = [task EXCEPT ![lastTask'] = row]
    BY DEF Insert
  <1>2. /\ row \in TaskRows /\ row.project = p /\ row.no = n
        /\ row.space = s /\ row.title = title
    BY IdTypes DEF TaskRows
  <1>3. lastTask \in 0..MaxTasks /\ tasks \subseteq 1..lastTask /\ task \in [TaskIds -> TaskRows]
    BY DEF TicketingTypeOK
  <1> HIDE DEF row
  <1>4. lastTask' \in 0..MaxTasks /\ lastTask' \in TaskIds /\ lastTask' \notin tasks /\ tasks' \subseteq 1..lastTask'
    BY <1>1, <1>3 DEF TaskIds
  <1>5. QED BY <1>1, <1>2, <1>3, <1>4

\* A row that gets the next number of its project, or none, keeps the numbers.
LEMMA InsertKeeps ==
  ASSUME TicketInv, NEW s \in Spaces, NEW p \in 0..lastProject, NEW n \in Nat,
         NEW title \in Titles, NEW rec \in BOOLEAN, Insert(s, p, n, title, rec),
         projects' = projects, lastProject' = lastProject, displaced' = displaced,
         \/ p \in projects /\ Bump(p) /\ n = project[p].counter + 1
         \/ project' = project /\ n = 0
  PROVE  NumbersAreGiven' /\ NumbersDiffer' /\ ProjectsAreOld'
  <1>t. TicketingTypeOK
    BY DEF TicketInv
  <1> DEFINE new == lastTask'
  <1>1. /\ new \notin tasks /\ tasks' = tasks \cup {new} /\ new \in TaskIds
        /\ task'[new].project = p /\ task'[new].no = n
        /\ \A t \in tasks : task'[t] = task[t]
    BY <1>t, InsertType, IdTypes
  <1>2. \A t \in tasks : /\ task[t].no \in Nat /\ task[t].project \in ProjectIds \cup {0}
    BY <1>t, IdTypes DEF TicketingTypeOK, TaskRows
  <1>3. \A q \in projects : /\ project[q].counter \in Nat /\ project'[q].counter \in Nat
                            /\ project[q].counter <= project'[q].counter
    <2>1. \A q \in projects : q \in ProjectIds /\ project[q].counter \in Nat
      BY <1>t, IdTypes DEF TicketingTypeOK, ProjectRows
    <2>2. CASE p \in projects /\ Bump(p)
      BY <1>t, <2>1, <2>2, BumpType
    <2>3. CASE project' = project
      BY <2>1, <2>3
    <2>4. QED BY <2>2, <2>3
  <1>4. p \in projects => n <= project'[p].counter
    <2>1. CASE p \in projects /\ Bump(p) /\ n = project[p].counter + 1
      BY <1>t, <1>3, <2>1, BumpType
    <2>2. CASE n = 0
      BY <1>3, <2>2
    <2>3. QED BY <2>1, <2>2
  <1>5. n # 0 => \A t \in tasks \ displaced : task[t].project = p => task[t].no # n
    <2> SUFFICES ASSUME n # 0, NEW t \in tasks \ displaced, task[t].project = p PROVE task[t].no # n
      OBVIOUS
    <2>1. p \in projects /\ n = project[p].counter + 1
      OBVIOUS
    <2>2. project[p].counter \in Nat /\ task[t].no \in Nat /\ task[t].no <= project[p].counter
      BY <2>1, NextNumberIsNew
    <2>3. QED BY <2>1, <2>2
  <1> HIDE DEF new
  <1>6. NumbersAreGiven'
    <2> SUFFICES ASSUME NEW t \in tasks' \ displaced', task'[t].project \in projects'
                 PROVE  task'[t].no <= project'[task'[t].project].counter
      BY DEF NumbersAreGiven
    <2>1. CASE t = new
      BY <1>1, <1>4, <2>1
    <2>2. CASE t \in tasks
      <3>1. task'[t] = task[t] /\ task[t].no <= project[task[t].project].counter
        BY <1>1, <2>2 DEF TicketInv, NumbersAreGiven
      <3>2. QED BY <1>2, <1>3, <2>2, <3>1
    <2>3. QED BY <1>1, <2>1, <2>2
  <1>7. NumbersDiffer'
    <2> SUFFICES ASSUME NEW t \in tasks' \ displaced', NEW u \in tasks' \ displaced', t # u,
                        task'[t].project = task'[u].project, task'[t].no # 0
                 PROVE  task'[t].no # task'[u].no
      BY DEF NumbersDiffer
    <2>1. CASE t = new
      BY <1>1, <1>5, <2>1
    <2>2. CASE u = new
      BY <1>1, <1>5, <2>2
    <2>3. CASE t \in tasks /\ u \in tasks
      BY <1>1, <2>3 DEF TicketInv, NumbersDiffer
    <2>4. QED BY <1>1, <2>1, <2>2, <2>3
  <1>8. ProjectsAreOld'
    BY <1>1, <1>t DEF TicketInv, ProjectsAreOld
  <1>9. QED BY <1>6, <1>7, <1>8

-----------------------------------------------------------------------------
(* The invariant, action by action *)

\* Projects that keep workspace, slug and prefix stay apart.
LEMMA DifferKept ==
  ASSUME ProjectsDiffer, projects' \subseteq projects,
         \A p \in projects' : /\ project'[p].space = project[p].space
                              /\ project'[p].slug = project[p].slug
                              /\ project'[p].prefix = project[p].prefix
  PROVE  ProjectsDiffer'
  BY DEF ProjectsDiffer

\* It holds at first.
LEMMA TicketStart == TicketingInit => TicketInv
  <1> SUFFICES ASSUME TicketingInit PROVE TicketInv
    OBVIOUS
  <1>1. /\ project \in [ProjectIds -> ProjectRows] /\ task \in [TaskIds -> TaskRows]
        /\ lastProject \in ProjectIds
    BY FirstRows DEF TicketingInit
  <1>2. day \in Days
    BY DEF TicketingInit
  <1>3. projects \subseteq 1..lastProject /\ lastTask \in 0..MaxTasks
    BY DEF TicketingInit
  <1>4. TicketingTypeOK
    BY <1>1, <1>2, <1>3 DEF TicketingInit, TicketingTypeOK
  <1>5. ProjectsDiffer /\ NumbersAreGiven /\ NumbersDiffer /\ ProjectsAreOld
    BY DEF TicketingInit, ProjectsDiffer, NumbersAreGiven, NumbersDiffer, ProjectsAreOld
  <1>6. QED BY <1>4, <1>5 DEF TicketInv

\* Workspaces come without projects and go without tasks.
LEMMA WorkspacesKeep ==
  ASSUME TicketInv, NEW s \in Spaces, CreateWorkspace(s) \/ DeleteWorkspace(s)
  PROVE  TicketInv'
  <1>t. TicketingTypeOK /\ ProjectsDiffer /\ projects \subseteq ProjectIds
    BY IdTypes DEF TicketInv
  <1>1. CASE CreateWorkspace(s)
    <2>1. TicketingTypeOK'
      BY <1>t, <1>1 DEF CreateWorkspace, TicketingTypeOK, projectVars, taskVars, historyVars
    <2>2. ProjectsDiffer'
      BY <1>t, <1>1, DifferKept DEF CreateWorkspace, projectVars
    <2>3. NumbersAreGiven' /\ NumbersDiffer' /\ ProjectsAreOld'
      BY <1>1 DEF CreateWorkspace, projectVars, taskVars, historyVars, TicketInv,
                  NumbersAreGiven, NumbersDiffer, ProjectsAreOld
    <2>4. QED BY <2>1, <2>2, <2>3 DEF TicketInv
  <1>2. CASE DeleteWorkspace(s)
    <2> DEFINE moved == {p \in projects : project[p].space = s}
    <2>1. /\ s \in spaces \ {Default} /\ ~Clash(s)
          /\ spaces' = spaces \ {s} /\ formerSpaces' = formerSpaces \cup {s}
          /\ UNCHANGED <<projects, lastProject, tasks, task, lastTask, pulls, day,
                         displaced, untitled, orphaned>>
      BY <1>2 DEF DeleteWorkspace, taskVars, historyVars
    <2>2. /\ project' \in [ProjectIds -> ProjectRows]
          /\ \A p \in ProjectIds : /\ project'[p].slug = project[p].slug
                                   /\ project'[p].prefix = project[p].prefix
                                   /\ project'[p].counter = project[p].counter
                                   /\ p \in moved => project'[p].space = Default
                                   /\ p \notin moved => project'[p].space = project[p].space
      <3>1. project' = [p \in ProjectIds |->
              IF p \in moved THEN [project[p] EXCEPT !.space = Default] ELSE project[p]]
        BY <1>2 DEF DeleteWorkspace
      <3> HIDE DEF moved
      <3>2. \A p \in ProjectIds : [project[p] EXCEPT !.space = Default] \in ProjectRows
        BY <1>t DEF TicketingTypeOK, ProjectRows
      <3>3. \A p \in ProjectIds : project[p] \in ProjectRows
        BY <1>t DEF TicketingTypeOK
      <3>4. \A p \in ProjectIds : /\ project'[p] \in ProjectRows
                                  /\ project'[p].slug = project[p].slug
                                  /\ project'[p].prefix = project[p].prefix
                                  /\ project'[p].counter = project[p].counter
                                  /\ p \in moved => project'[p].space = Default
                                  /\ p \notin moved => project'[p].space = project[p].space
        BY <3>1, <3>2, <3>3 DEF ProjectRows
      <3>5. QED BY <3>1, <3>4
    <2>3. TicketingTypeOK'
      BY <1>t, <2>1, <2>2 DEF TicketingTypeOK
    <2>4. ProjectsDiffer'
      <3> SUFFICES ASSUME NEW p \in projects, NEW q \in projects, p # q,
                          project'[p].space = project'[q].space
                   PROVE  project'[p].slug # project'[q].slug /\ project'[p].prefix # project'[q].prefix
        BY <2>1 DEF ProjectsDiffer
      <3>1. CASE project[p].space = project[q].space
        BY <1>t, <2>2, <3>1 DEF ProjectsDiffer
      <3>2. CASE project[p].space = s /\ project[q].space = Default
        BY <1>t, <2>1, <2>2, <3>2 DEF Clash
      <3>3. CASE project[q].space = s /\ project[p].space = Default
        BY <1>t, <2>1, <2>2, <3>3 DEF Clash
      <3>4. QED BY <1>t, <2>2, <3>1, <3>2, <3>3
    <2>5. NumbersAreGiven' /\ NumbersDiffer' /\ ProjectsAreOld'
      BY <1>t, <2>1, <2>2 DEF TicketInv, NumbersAreGiven, NumbersDiffer, ProjectsAreOld
    <2>6. QED BY <2>3, <2>4, <2>5 DEF TicketInv
  <1>3. QED BY <1>1, <1>2

\* A new project differs from those of its workspace and has no tasks.
LEMMA CreateProjectKeeps ==
  ASSUME TicketInv, NEW s \in Spaces, NEW g \in Slugs, NEW q \in Prefixes, CreateProject(s, g, q)
  PROVE  TicketInv'
  <1> DEFINE new == lastProject'
             row == [space |-> s, slug |-> g, prefix |-> q, active |-> TRUE, counter |-> 0]
  <1>t. TicketingTypeOK /\ ProjectsDiffer /\ projects \subseteq ProjectIds
    BY IdTypes DEF TicketInv
  <1>1. /\ lastProject < MaxProjects /\ new = lastProject + 1
        /\ \A p \in projects : project[p].space = s => project[p].slug # g /\ project[p].prefix # q
        /\ projects' = projects \cup {new}
        /\ project' = [project EXCEPT ![new] = row]
        /\ UNCHANGED <<spaces, formerSpaces, tasks, task, lastTask, pulls, day,
                       displaced, untitled, orphaned>>
    BY DEF CreateProject, spaceVars, taskVars, historyVars
  <1>2. row \in ProjectRows /\ row.space = s /\ row.slug = g /\ row.prefix = q
    BY DEF ProjectRows
  <1>3. /\ new \in ProjectIds /\ new > lastProject /\ new \notin projects
        /\ lastProject \in Nat /\ projects' \subseteq 1..new /\ 1..lastProject \subseteq 1..new
    BY <1>t, <1>1 DEF TicketingTypeOK, ProjectIds
  <1> HIDE DEF new, row
  <1>4. /\ project' \in [ProjectIds -> ProjectRows]
        /\ project'[new] = row /\ \A p \in ProjectIds \ {new} : project'[p] = project[p]
    BY <1>t, <1>1, <1>2, <1>3 DEF TicketingTypeOK
  <1>5. TicketingTypeOK'
    <2>1. pulls' \subseteq [project : 1..lastProject', space : Spaces]
      BY <1>t, <1>1, <1>3 DEF TicketingTypeOK, new
    <2>2. lastProject' \in ProjectIds /\ projects' \subseteq 1..lastProject'
      BY <1>3 DEF new
    <2>3. QED BY <1>t, <1>1, <1>4, <2>1, <2>2 DEF TicketingTypeOK
  <1>6. ProjectsDiffer'
    <2> SUFFICES ASSUME NEW p \in projects', NEW r \in projects', p # r,
                        project'[p].space = project'[r].space
                 PROVE  project'[p].slug # project'[r].slug /\ project'[p].prefix # project'[r].prefix
      BY DEF ProjectsDiffer
    <2>1. CASE p = new
      BY <1>t, <1>1, <1>2, <1>3, <1>4, <2>1
    <2>2. CASE r = new
      BY <1>t, <1>1, <1>2, <1>3, <1>4, <2>2
    <2>3. CASE p # new /\ r # new
      BY <1>t, <1>1, <1>3, <1>4, <2>3 DEF ProjectsDiffer
    <2>4. QED BY <2>1, <2>2, <2>3
  <1>7. NumbersAreGiven' /\ NumbersDiffer' /\ ProjectsAreOld'
    <2>1. \A t \in tasks : task[t].project \in Nat /\ task[t].project <= lastProject
      BY <1>t, IdTypes DEF TicketInv, ProjectsAreOld, TicketingTypeOK, TaskRows, ProjectIds
    <2>2. \A t \in tasks' : task'[t].project <= lastProject'
      BY <1>1, <1>3, <2>1 DEF new
    <2>3. \A p \in projects' :
            (p \in projects /\ project'[p].counter = project[p].counter) \/ p > lastProject
      BY <1>t, <1>1, <1>3, <1>4
    <2>4. lastProject <= lastProject'
      BY <1>3 DEF new, ProjectIds
    <2>5. QED BY <1>1, <2>2, <2>3, <2>4, NumbersKept
  <1>8. QED BY <1>5, <1>6, <1>7 DEF TicketInv

\* A project keeps its place and its number when prefix or state change.
LEMMA EditProjectKeeps ==
  ASSUME TicketInv, NEW p \in projects, NEW q \in Prefixes, NEW act \in BOOLEAN,
         PatchProject(p, q, act) \/ ArchiveProject(p)
  PROVE  TicketInv'
  <1>t. /\ TicketingTypeOK /\ ProjectsDiffer /\ projects \subseteq ProjectIds
        /\ \A r \in ProjectIds : project[r] \in ProjectRows
    BY IdTypes DEF TicketInv, TicketingTypeOK
  <1>1. PICK x \in Prefixes, b \in BOOLEAN :
          /\ \A r \in projects \ {p} : project[r].space = project[p].space => project[r].prefix # x
          /\ project' = [project EXCEPT ![p] = [project[p] EXCEPT !.prefix = x, !.active = b]]
    <2>1. CASE PatchProject(p, q, act)
      <3>1. project' = [project EXCEPT ![p] = [project[p] EXCEPT !.prefix = q, !.active = act]]
        BY <1>t, <2>1 DEF PatchProject, ProjectRows, TicketingTypeOK
      <3>2. QED BY <2>1, <3>1 DEF PatchProject
    <2>2. CASE ArchiveProject(p)
      <3>1. project[p].prefix \in Prefixes /\ project[p] \in ProjectRows
        BY <1>t DEF ProjectRows
      <3>2. [project[p] EXCEPT !.active = FALSE] = [project[p] EXCEPT !.prefix = project[p].prefix, !.active = FALSE]
        BY <3>1 DEF ProjectRows
      <3>3. project' = [project EXCEPT ![p] = [project[p] EXCEPT !.prefix = project[p].prefix, !.active = FALSE]]
        BY <1>t, <2>2, <3>2 DEF ArchiveProject, TicketingTypeOK
      <3>4. \A r \in projects \ {p} :
              project[r].space = project[p].space => project[r].prefix # project[p].prefix
        BY <1>t DEF ProjectsDiffer
      <3>5. QED BY <3>1, <3>3, <3>4
    <2>3. QED BY <2>1, <2>2
  <1>2. UNCHANGED <<spaces, formerSpaces, projects, lastProject, tasks, task, lastTask, pulls, day,
                    displaced, untitled, orphaned>>
    BY DEF PatchProject, ArchiveProject, spaceVars, taskVars, historyVars
  <1> DEFINE row == [project[p] EXCEPT !.prefix = x, !.active = b]
  <1>3. /\ row \in ProjectRows /\ row.prefix = x /\ row.space = project[p].space
        /\ row.slug = project[p].slug /\ row.counter = project[p].counter
    BY <1>t DEF ProjectRows
  <1> HIDE DEF row
  <1>4. /\ project' \in [ProjectIds -> ProjectRows] /\ project'[p] = row
        /\ \A r \in ProjectIds \ {p} : project'[r] = project[r]
    BY <1>t, <1>1, <1>3 DEF TicketingTypeOK, row
  <1>5. TicketingTypeOK'
    BY <1>t, <1>2, <1>4 DEF TicketingTypeOK
  <1>6. ProjectsDiffer'
    <2> SUFFICES ASSUME NEW r \in projects, NEW u \in projects, r # u,
                        project'[r].space = project'[u].space
                 PROVE  project'[r].slug # project'[u].slug /\ project'[r].prefix # project'[u].prefix
      BY <1>2 DEF ProjectsDiffer
    <2>1. project[r].space = project[u].space /\ project'[r].slug = project[r].slug
            /\ project'[u].slug = project[u].slug /\ project[r].slug # project[u].slug
      BY <1>t, <1>3, <1>4 DEF ProjectsDiffer
    <2>2. CASE r = p
      BY <1>t, <1>1, <1>3, <1>4, <2>1, <2>2
    <2>3. CASE u = p
      BY <1>t, <1>1, <1>3, <1>4, <2>1, <2>3
    <2>4. CASE r # p /\ u # p
      BY <1>t, <1>4, <2>1, <2>4 DEF ProjectsDiffer
    <2>5. QED BY <2>1, <2>2, <2>3, <2>4
  <1>7. NumbersAreGiven' /\ NumbersDiffer' /\ ProjectsAreOld'
    <2>1. \A r \in projects : project'[r].counter = project[r].counter
      BY <1>t, <1>3, <1>4
    <2>2. QED BY <1>2, <2>1 DEF TicketInv, NumbersAreGiven, NumbersDiffer, ProjectsAreOld
  <1>8. QED BY <1>5, <1>6, <1>7 DEF TicketInv

\* The tasks of a project that is deleted are displaced.
LEMMA DeleteProjectKeeps ==
  ASSUME TicketInv, NEW p \in ProjectIds, DeleteProject(p)
  PROVE  TicketInv'
  <1>t. /\ TicketingTypeOK /\ ProjectsDiffer /\ projects \subseteq ProjectIds /\ tasks \subseteq TaskIds
        /\ \A t \in TaskIds : task[t] \in TaskRows
    BY IdTypes DEF TicketInv, TicketingTypeOK
  <1> DEFINE moved == {t \in tasks : task[t].space = project[p].space /\ task[t].project = p}
  <1>1. PICK f \in ProjectIds :
          /\ IsGeneralOf(f, project[p].space)
          /\ task' = [t \in TaskIds |-> IF t \in moved THEN [task[t] EXCEPT !.project = f] ELSE task[t]]
          /\ displaced' = displaced \cup moved
    BY DEF DeleteProject
  <1>2. /\ p \in projects /\ projects' = projects \ {p}
        /\ project' = [project EXCEPT ![p] = FirstProject]
        /\ UNCHANGED <<spaces, formerSpaces, lastProject, tasks, lastTask, pulls, day, untitled, orphaned>>
    BY DEF DeleteProject, spaceVars
  <1>3. moved \subseteq tasks /\ f \in projects /\ f <= lastProject
    BY <1>1, <1>t DEF IsGeneralOf, TicketingTypeOK
  <1> HIDE DEF moved
  <1>4. /\ task' \in [TaskIds -> TaskRows]
        /\ \A t \in TaskIds \ moved : task'[t] = task[t]
        /\ \A t \in moved : task'[t].project = f
    <2>1. \A t \in TaskIds : /\ [task[t] EXCEPT !.project = f] \in TaskRows
                             /\ [task[t] EXCEPT !.project = f].project = f
      BY <1>t DEF TaskRows
    <2>2. QED BY <1>1, <1>t, <1>3, <2>1
  <1>5. /\ project' \in [ProjectIds -> ProjectRows]
        /\ \A q \in projects' : q \in projects /\ project'[q] = project[q]
    BY <1>t, <1>2, FirstRows DEF TicketingTypeOK
  <1>6. TicketingTypeOK'
    BY <1>t, <1>1, <1>2, <1>3, <1>4, <1>5 DEF TicketingTypeOK
  <1>7. ProjectsDiffer'
    BY <1>t, <1>2, <1>5, DifferKept
  <1>8. NumbersAreGiven' /\ NumbersDiffer' /\ ProjectsAreOld'
    <2>1. tasks' \ displaced' \subseteq tasks \ displaced
      BY <1>1, <1>2
    <2>2. \A t \in tasks' \ displaced' : task'[t] = task[t]
      BY <1>t, <1>1, <1>2, <1>4
    <2>3. \A t \in tasks' : task'[t].project <= lastProject'
      BY <1>t, <1>2, <1>3, <1>4 DEF TicketInv, ProjectsAreOld
    <2>4. lastProject <= lastProject'
      BY <1>t, <1>2 DEF TicketingTypeOK, ProjectIds
    <2>5. QED BY <1>5, <2>1, <2>2, <2>3, <2>4, NumbersKept
  <1>9. QED BY <1>6, <1>7, <1>8 DEF TicketInv

\* A task posted gets the next number of its project.
LEMMA CreateTaskKeeps ==
  ASSUME TicketInv, NEW s \in Spaces, NEW asked \in ProjectIds, NEW n \in Names, NEW rec \in BOOLEAN,
         CreateTask(s, asked, n, rec)
  PROVE  TicketInv'
  <1>t. TicketingTypeOK /\ ProjectsDiffer /\ projects \subseteq ProjectIds
    BY IdTypes DEF TicketInv
  <1>1. PICK p \in projects : Bump(p) /\ Insert(s, p, project[p].counter + 1, Plain(n), rec)
    BY DEF CreateTask, Resolves, ActiveIn
  <1>2. UNCHANGED <<spaces, formerSpaces, projects, lastProject, pulls, day, displaced, untitled, orphaned>>
    BY DEF CreateTask, spaceVars, historyVars
  <1>3. p \in 1..lastProject /\ project[p].counter + 1 \in Nat /\ Plain(n) \in Titles
    BY <1>t, NextNumberIsNew, TitleTypes DEF TicketingTypeOK
  <1>4. TicketingTypeOK'
    BY <1>t, <1>1, <1>2, <1>3, InsertType, BumpType DEF TicketingTypeOK
  <1>5. ProjectsDiffer'
    BY <1>t, <1>1, <1>2, BumpType, DifferKept
  <1>6. NumbersAreGiven' /\ NumbersDiffer' /\ ProjectsAreOld'
    BY <1>1, <1>2, <1>3, InsertKeeps
  <1>7. QED BY <1>4, <1>5, <1>6 DEF TicketInv

\* A child of a template gets the next number, or none.
LEMMA SpawnKeeps ==
  ASSUME TicketInv, NEW t \in TaskIds, Spawn(t)
  PROVE  TicketInv'
  <1> DEFINE p == task[t].project
             found == p \in projects /\ project[p].space = task[t].space
             n == IF found THEN project[p].counter + 1 ELSE 0
             s == task[t].space
             title == Dated(task[t].title)
  <1>t. TicketingTypeOK /\ ProjectsDiffer /\ projects \subseteq ProjectIds /\ tasks \subseteq TaskIds
    BY IdTypes DEF TicketInv
  <1>1. /\ t \in tasks
        /\ IF found THEN Bump(p) ELSE project' = project
        /\ Insert(s, p, n, title, FALSE)
        /\ orphaned' = IF t \in orphaned THEN orphaned \cup {lastTask'} ELSE orphaned
        /\ UNCHANGED <<spaces, formerSpaces, projects, lastProject, pulls, day, displaced, untitled>>
    BY DEF Spawn, spaceVars
  <1>2. s \in Spaces /\ p \in 0..lastProject /\ title \in Titles
    <2>1. task[t] \in TaskRows
      BY <1>t, <1>1 DEF TicketingTypeOK
    <2>2. p \in ProjectIds \cup {0} /\ s \in Spaces /\ task[t].title \in Titles
      BY <2>1 DEF TaskRows
    <2>3. p <= lastProject /\ lastProject \in ProjectIds
      BY <1>1 DEF TicketInv, ProjectsAreOld, TicketingTypeOK
    <2>4. QED BY <1>t, <2>2, <2>3, TitleTypes DEF ProjectIds
  <1>3. /\ n \in Nat
        /\ \/ p \in projects /\ Bump(p) /\ n = project[p].counter + 1
           \/ project' = project /\ n = 0
    BY <1>1, NextNumberIsNew
  <1> HIDE DEF n, title, s, p, found
  <1>4. project' \in [ProjectIds -> ProjectRows] /\ ProjectsDiffer'
    <2>1. CASE p \in projects /\ Bump(p)
      BY <1>t, <1>1, <2>1, BumpType, DifferKept
    <2>2. CASE project' = project
      BY <1>t, <1>1, <2>2, DifferKept DEF TicketingTypeOK
    <2>3. QED BY <1>3, <2>1, <2>2
  <1>5. TicketingTypeOK'
    <2>1. /\ lastTask' \in 0..MaxTasks /\ tasks' = tasks \cup {lastTask'}
          /\ tasks' \subseteq 1..lastTask' /\ task' \in [TaskIds -> TaskRows]
      BY <1>t, <1>1, <1>2, <1>3, InsertType
    <2>2. displaced' \subseteq tasks' /\ untitled' \subseteq tasks' /\ orphaned' \subseteq tasks'
      BY <1>t, <1>1, <2>1 DEF TicketingTypeOK
    <2>3. QED BY <1>t, <1>1, <1>4, <2>1, <2>2 DEF TicketingTypeOK
  <1>6. NumbersAreGiven' /\ NumbersDiffer' /\ ProjectsAreOld'
    BY <1>1, <1>2, <1>3, InsertKeeps
  <1>7. QED BY <1>4, <1>5, <1>6 DEF TicketInv

\* A task that changes its project gets the next number of the new one.
LEMMA UpdateTaskKeeps ==
  ASSUME TicketInv, NEW t \in tasks, NEW p \in ProjectIds \cup {0}, NEW title \in Titles, NEW rec \in BOOLEAN,
         UpdateTask(t, p, title, rec)
  PROVE  TicketInv'
  <1>t. /\ TicketingTypeOK /\ ProjectsDiffer /\ projects \subseteq ProjectIds /\ tasks \subseteq TaskIds
        /\ task[t] \in TaskRows /\ task \in [TaskIds -> TaskRows]
    BY IdTypes DEF TicketInv, TicketingTypeOK
  <1>1. /\ untitled' = IF title = task[t].title THEN untitled ELSE untitled \cup {t}
        /\ UNCHANGED <<spaces, formerSpaces, projects, lastProject, tasks, lastTask, pulls, day>>
    BY DEF UpdateTask, spaceVars
  <1>2. CASE p = task[t].project
    <2> DEFINE row == [task[t] EXCEPT !.title = title, !.recurs = rec]
    <2>1. /\ UNCHANGED <<project, displaced, orphaned>>
          /\ task' = [task EXCEPT ![t].title = title, ![t].recurs = rec]
      BY <1>2 DEF UpdateTask
    <2>2. task' = [task EXCEPT ![t] = row]
      BY <1>t, <2>1 DEF TaskRows
    <2>3. row \in TaskRows /\ row.project = task[t].project /\ row.no = task[t].no
      BY <1>t DEF TaskRows
    <2> HIDE DEF row
    <2>4. /\ task' \in [TaskIds -> TaskRows]
          /\ \A u \in tasks : task'[u].project = task[u].project /\ task'[u].no = task[u].no
      BY <1>t, <2>2, <2>3
    <2>5. TicketingTypeOK'
      BY <1>t, <1>1, <2>1, <2>4 DEF TicketingTypeOK
    <2>6. ProjectsDiffer'
      BY <1>t, <1>1, <2>1, DifferKept
    <2>7. NumbersAreGiven' /\ NumbersDiffer' /\ ProjectsAreOld'
      <3>1. \A u \in tasks' : task'[u].project <= lastProject'
        BY <1>1, <2>4 DEF TicketInv, ProjectsAreOld
      <3>2. lastProject <= lastProject'
        BY <1>t, <1>1 DEF TicketingTypeOK, ProjectIds
      <3>3. QED BY <1>1, <2>1, <2>4, <3>1, <3>2, NumbersKept
    <2>8. QED BY <2>5, <2>6, <2>7 DEF TicketInv
  <1>3. CASE p # task[t].project
    <2> DEFINE n == project[p].counter + 1
               row == [task[t] EXCEPT !.project = p, !.no = n, !.title = title, !.recurs = rec]
    <2>1. /\ p \in projects /\ Bump(p)
          /\ task' = [task EXCEPT ![t].project = p, ![t].no = n, ![t].title = title, ![t].recurs = rec]
          /\ displaced' = displaced \ {t} /\ orphaned' = orphaned \ {t}
      BY <1>3 DEF UpdateTask, ActiveIn
    <2>2. p \in 1..lastProject /\ n \in Nat /\ p <= lastProject
      BY <1>t, <2>1, NextNumberIsNew DEF TicketingTypeOK
    <2>3. task' = [task EXCEPT ![t] = row]
      BY <1>t, <2>1 DEF TaskRows
    <2>4. row \in TaskRows /\ row.project = p /\ row.no = n
      BY <1>t, <2>2 DEF TaskRows
    <2> HIDE DEF row
    <2>5. /\ task' \in [TaskIds -> TaskRows] /\ task'[t].project = p /\ task'[t].no = n
          /\ \A u \in tasks \ {t} : task'[u] = task[u]
      BY <1>t, <2>3, <2>4
    <2>6. /\ project' \in [ProjectIds -> ProjectRows]
          /\ project'[p].counter = n
          /\ \A q \in projects \ {p} : project'[q] = project[q]
      BY <1>t, <2>1, BumpType
    <2>7. TicketingTypeOK'
      BY <1>t, <1>1, <2>1, <2>5, <2>6 DEF TicketingTypeOK
    <2>8. ProjectsDiffer'
      BY <1>t, <1>1, <2>1, BumpType, DifferKept
    <2>9. \A u \in tasks \ displaced : task[u].project = p =>
             /\ task[u].no \in Nat /\ task[u].no <= project[p].counter /\ project[p].counter \in Nat
      BY <2>1, NextNumberIsNew
    <2> HIDE DEF n
    <2>10. NumbersAreGiven'
      <3> SUFFICES ASSUME NEW u \in tasks' \ displaced', task'[u].project \in projects'
                   PROVE  task'[u].no <= project'[task'[u].project].counter
        BY DEF NumbersAreGiven
      <3>1. CASE u = t
        BY <2>2, <2>5, <2>6, <3>1
      <3>2. CASE u # t /\ task[u].project = p
        <4>1. task'[u] = task[u] /\ task[u].no \in Nat /\ task[u].no <= project[p].counter
                /\ project[p].counter \in Nat
          BY <1>1, <2>1, <2>5, <2>9, <3>2
        <4>2. QED BY <2>6, <3>2, <4>1 DEF n
      <3>3. CASE u # t /\ task[u].project # p
        <4>0. task'[u] = task[u] /\ u \in tasks \ displaced
          BY <1>1, <2>1, <2>5, <3>3
        <4>1. task'[u] = task[u] /\ u \in tasks \ displaced /\ task[u].project \in projects \ {p}
          BY <1>1, <2>1, <3>3, <4>0
        <4>2. project'[task[u].project] = project[task[u].project]
          BY <2>6, <4>1
        <4>3. task[u].no <= project[task[u].project].counter
          BY <4>1 DEF TicketInv, NumbersAreGiven
        <4>4. QED BY <4>1, <4>2, <4>3
      <3>4. QED BY <3>1, <3>2, <3>3
    <2>11. NumbersDiffer'
      <3>1. \A u \in tasks \ displaced : task[u].project = p => task[u].no # n
        BY <2>9 DEF n
      <3> SUFFICES ASSUME NEW u \in tasks' \ displaced', NEW v \in tasks' \ displaced', u # v,
                          task'[u].project = task'[v].project, task'[u].no # 0
                   PROVE  task'[u].no # task'[v].no
        BY DEF NumbersDiffer
      <3>2. CASE u = t
        BY <1>1, <2>1, <2>5, <3>1, <3>2
      <3>3. CASE v = t
        BY <1>1, <2>1, <2>5, <3>1, <3>3
      <3>4. CASE u # t /\ v # t
        <4>1. /\ u \in tasks \ displaced /\ v \in tasks \ displaced
              /\ task'[u] = task[u] /\ task'[v] = task[v]
          BY <1>1, <2>1, <2>5, <3>4
        <4>2. QED BY <4>1 DEF TicketInv, NumbersDiffer
      <3>5. QED BY <3>2, <3>3, <3>4
    <2>12. ProjectsAreOld'
      BY <1>1, <2>2, <2>5 DEF TicketInv, ProjectsAreOld
    <2>13. QED BY <2>7, <2>8, <2>10, <2>11, <2>12 DEF TicketInv
  <1>4. QED BY <1>2, <1>3

\* A task that goes takes its number with it.
LEMMA DeleteTaskKeeps ==
  ASSUME TicketInv, NEW t \in TaskIds, DeleteTask(t)
  PROVE  TicketInv'
  <1>t. TicketingTypeOK /\ ProjectsDiffer /\ tasks \subseteq TaskIds
    BY IdTypes DEF TicketInv
  <1>1. /\ t \in tasks /\ tasks' = tasks \ {t} /\ task' = [task EXCEPT ![t] = NoTask]
        /\ displaced' = displaced \ {t} /\ untitled' = untitled \ {t} /\ orphaned' = orphaned \ {t}
        /\ UNCHANGED <<spaces, formerSpaces, projects, project, lastProject, lastTask, pulls, day>>
    BY DEF DeleteTask, spaceVars, projectVars
  <1>2. task' \in [TaskIds -> TaskRows] /\ \A u \in tasks' : task'[u] = task[u]
    BY <1>t, <1>1, FirstRows DEF TicketingTypeOK
  <1>3. TicketingTypeOK'
    BY <1>t, <1>1, <1>2 DEF TicketingTypeOK
  <1>4. ProjectsDiffer'
    BY <1>t, <1>1, DifferKept
  <1>5. NumbersAreGiven' /\ NumbersDiffer' /\ ProjectsAreOld'
    <2>1. \A u \in tasks' : task'[u].project <= lastProject'
      BY <1>1, <1>2 DEF TicketInv, ProjectsAreOld
    <2>2. lastProject <= lastProject' /\ tasks' \ displaced' \subseteq tasks \ displaced
      BY <1>t, <1>1 DEF TicketingTypeOK, ProjectIds
    <2>3. QED BY <1>1, <1>2, <2>1, <2>2, NumbersKept
  <1>6. QED BY <1>3, <1>4, <1>5 DEF TicketInv

\* A pull inserts without a number, even into a project that is gone.
LEMMA PullKeeps ==
  ASSUME TicketInv, NEW r \in pulls, NEW n \in Names, PullInserts(r, n)
  PROVE  TicketInv'
  <1>t. TicketingTypeOK /\ ProjectsDiffer
    BY DEF TicketInv
  <1>1. /\ Insert(r.space, r.project, 0, Plain(n), FALSE)
        /\ untitled' = untitled \cup {lastTask'}
        /\ orphaned' = orphaned \/ orphaned' = orphaned \cup {lastTask'}
        /\ pulls' = pulls \ {r}
        /\ UNCHANGED <<spaces, formerSpaces, projects, project, lastProject, day, displaced>>
    BY DEF PullInserts, spaceVars, projectVars
  <1>2. r.space \in Spaces /\ r.project \in 0..lastProject /\ Plain(n) \in Titles
    <2>1. r.space \in Spaces /\ r.project \in 1..lastProject
      BY <1>t DEF TicketingTypeOK
    <2>2. 1..lastProject \subseteq 0..lastProject
      BY <1>t DEF TicketingTypeOK, ProjectIds
    <2>3. QED BY <2>1, <2>2, TitleTypes
  <1>3. TicketingTypeOK'
    <2>1. /\ lastTask' \in 0..MaxTasks /\ tasks' = tasks \cup {lastTask'}
          /\ tasks' \subseteq 1..lastTask' /\ task' \in [TaskIds -> TaskRows]
      BY <1>t, <1>1, <1>2, InsertType
    <2>2. displaced' \subseteq tasks' /\ untitled' \subseteq tasks' /\ orphaned' \subseteq tasks'
      BY <1>t, <1>1, <2>1 DEF TicketingTypeOK
    <2>3. QED BY <1>t, <1>1, <2>1, <2>2 DEF TicketingTypeOK
  <1>4. ProjectsDiffer'
    BY <1>t, <1>1, DifferKept
  <1>5. NumbersAreGiven' /\ NumbersDiffer' /\ ProjectsAreOld'
    BY <1>1, <1>2, InsertKeeps
  <1>6. QED BY <1>3, <1>4, <1>5 DEF TicketInv

\* An import inserts without a number and without a project.
LEMMA ImportKeeps ==
  ASSUME TicketInv, NEW s \in Spaces, NEW n \in Names, ImportTask(s, n)
  PROVE  TicketInv'
  <1>t. TicketingTypeOK /\ ProjectsDiffer /\ 0 \in 0..lastProject
    BY DEF TicketInv, TicketingTypeOK, ProjectIds
  <1>1. /\ Insert(s, 0, 0, Plain(n), FALSE)
        /\ untitled' = untitled \cup {lastTask'} /\ orphaned' = orphaned \cup {lastTask'}
        /\ UNCHANGED <<spaces, formerSpaces, projects, project, lastProject, pulls, day, displaced>>
    BY DEF ImportTask, spaceVars, projectVars
  <1>2. Plain(n) \in Titles
    BY TitleTypes
  <1>3. TicketingTypeOK'
    <2>1. /\ lastTask' \in 0..MaxTasks /\ tasks' = tasks \cup {lastTask'}
          /\ tasks' \subseteq 1..lastTask' /\ task' \in [TaskIds -> TaskRows]
      BY <1>t, <1>1, <1>2, InsertType
    <2>2. displaced' \subseteq tasks' /\ untitled' \subseteq tasks' /\ orphaned' \subseteq tasks'
      BY <1>t, <1>1, <2>1 DEF TicketingTypeOK
    <2>3. QED BY <1>t, <1>1, <2>1, <2>2 DEF TicketingTypeOK
  <1>4. ProjectsDiffer'
    BY <1>t, <1>1, DifferKept
  <1>5. NumbersAreGiven' /\ NumbersDiffer' /\ ProjectsAreOld'
    BY <1>t, <1>1, <1>2, InsertKeeps
  <1>6. QED BY <1>3, <1>4, <1>5 DEF TicketInv

\* Steps that touch neither projects nor tasks.
LEMMA RestKeeps ==
  ASSUME TicketInv,
         UNCHANGED <<spaces, formerSpaces, projects, project, lastProject, tasks, task, lastTask,
                     displaced, untitled, orphaned>>,
         day' \in Days, pulls' \subseteq [project : 1..lastProject, space : Spaces]
  PROVE  TicketInv'
  <1>1. TicketingTypeOK'
    BY DEF TicketInv, TicketingTypeOK
  <1>2. ProjectsDiffer' /\ NumbersAreGiven' /\ NumbersDiffer' /\ ProjectsAreOld'
    BY DEF TicketInv, ProjectsDiffer, NumbersAreGiven, NumbersDiffer, ProjectsAreOld
  <1>3. QED BY <1>1, <1>2 DEF TicketInv

\* Every step keeps the invariant.
LEMMA TicketStep == TicketInv /\ [TicketingNext]_ticketingVars => TicketInv'
  <1> SUFFICES ASSUME TicketInv, [TicketingNext]_ticketingVars PROVE TicketInv'
    OBVIOUS
  <1>t. TicketingTypeOK /\ projects \subseteq ProjectIds /\ projects \subseteq 1..lastProject
          /\ tasks \subseteq TaskIds /\ day \in Days
          /\ pulls \subseteq [project : 1..lastProject, space : Spaces]
    BY IdTypes DEF TicketInv, TicketingTypeOK
  <1>1. CASE \E s \in Spaces : CreateWorkspace(s) \/ DeleteWorkspace(s)
    BY <1>1, WorkspacesKeep
  <1>2. CASE \E s \in Spaces, g \in Slugs, q \in Prefixes : CreateProject(s, g, q)
    BY <1>2, CreateProjectKeeps
  <1>3. ASSUME NEW p \in ProjectIds, NEW q \in Prefixes, NEW act \in BOOLEAN,
               PatchProject(p, q, act) \/ ArchiveProject(p)
        PROVE  TicketInv'
    <2>1. p \in projects
      BY <1>3 DEF PatchProject, ArchiveProject
    <2>2. QED BY <1>3, <2>1, EditProjectKeeps
  <1>4. CASE \E p \in ProjectIds : DeleteProject(p)
    BY <1>4, DeleteProjectKeeps
  <1>5. ASSUME NEW p \in ProjectIds, PullStarts(p) PROVE TicketInv'
    <2>1. [project |-> p, space |-> project[p].space] \in [project : 1..lastProject, space : Spaces]
      BY <1>t, <1>5 DEF PullStarts, TicketingTypeOK, ProjectRows
    <2>2. QED BY <1>t, <1>5, <2>1, RestKeeps DEF PullStarts, spaceVars, projectVars, taskVars, historyVars
  <1>6. CASE \E s \in Spaces, asked \in ProjectIds, n \in Names, rec \in BOOLEAN :
               CreateTask(s, asked, n, rec)
    BY <1>6, CreateTaskKeeps
  <1>7. ASSUME NEW t \in tasks, NEW p \in ProjectIds \cup {0}, NEW rec \in BOOLEAN,
               NEW title \in {task[t].title} \cup {Plain(n) : n \in Names}, UpdateTask(t, p, title, rec)
        PROVE  TicketInv'
    <2>1. task[t].title \in Titles
      BY <1>t DEF TicketingTypeOK, TaskRows
    <2>2. title \in Titles
      BY <2>1, TitleTypes
    <2>3. QED BY <1>7, <2>2, UpdateTaskKeeps
  <1>8. CASE \E t \in TaskIds : DeleteTask(t) \/ Spawn(t)
    BY <1>8, DeleteTaskKeeps, SpawnKeeps
  <1>9. CASE \E r \in pulls : \E n \in Names : PullInserts(r, n)
    BY <1>9, PullKeeps
  <1>10. ASSUME NEW r \in pulls, PullFindsNothing(r) PROVE TicketInv'
    BY <1>t, <1>10, RestKeeps DEF PullFindsNothing, spaceVars, projectVars, taskVars, historyVars
  <1>11. CASE DayBreaks
    BY <1>t, <1>11, RestKeeps DEF DayBreaks, spaceVars, projectVars, taskVars, historyVars
  <1>12. CASE UNCHANGED ticketingVars
    BY <1>t, <1>12, RestKeeps DEF ticketingVars, spaceVars, projectVars, taskVars, historyVars
  <1>13. \A p \in ProjectIds : ArchiveProject(p) => TicketInv'
    <2>1. PICK q \in Prefixes : TRUE
      OBVIOUS
    <2>2. QED BY <1>3, <2>1
  <1>14. CASE \E s \in Spaces, n \in Names : ImportTask(s, n)
    BY <1>14, ImportKeeps
  <1>15. QED
    BY <1>1, <1>2, <1>3, <1>4, <1>5, <1>6, <1>7, <1>8, <1>9, <1>10, <1>11, <1>12, <1>13, <1>14 DEF TicketingNext

-----------------------------------------------------------------------------
(* What an edit leaves of the tasks *)

\* A PUT changes title and project of its task, never its workspace.
LEMMA UpdateTaskRows ==
  ASSUME TicketInv, NEW t \in tasks, NEW p \in ProjectIds \cup {0}, NEW title \in Titles, NEW rec \in BOOLEAN,
         UpdateTask(t, p, title, rec)
  PROVE  /\ tasks' = tasks
         /\ task'[t].title = title /\ task'[t].project = p /\ task'[t].space = task[t].space
         /\ \A u \in tasks \ {t} : task'[u] = task[u]
  <1>t. task[t] \in TaskRows /\ task \in [TaskIds -> TaskRows] /\ tasks \subseteq TaskIds
    BY IdTypes DEF TicketInv, TicketingTypeOK
  <1>1. tasks' = tasks
    BY DEF UpdateTask
  <1>2. CASE p = task[t].project
    <2> DEFINE row == [task[t] EXCEPT !.title = title, !.recurs = rec]
    <2>1. task' = [task EXCEPT ![t].title = title, ![t].recurs = rec]
      BY <1>2 DEF UpdateTask
    <2>2. task' = [task EXCEPT ![t] = row]
      BY <1>t, <2>1 DEF TaskRows
    <2>3. row.title = title /\ row.project = p /\ row.space = task[t].space
      BY <1>t, <1>2 DEF TaskRows
    <2> HIDE DEF row
    <2>4. QED BY <1>t, <1>1, <2>2, <2>3
  <1>3. CASE p # task[t].project
    <2> DEFINE n == project[p].counter + 1
               row == [task[t] EXCEPT !.project = p, !.no = n, !.title = title, !.recurs = rec]
    <2>1. task' = [task EXCEPT ![t].project = p, ![t].no = n, ![t].title = title, ![t].recurs = rec]
      BY <1>3 DEF UpdateTask
    <2>2. task' = [task EXCEPT ![t] = row]
      BY <1>t, <2>1 DEF TaskRows
    <2>3. row.title = title /\ row.project = p /\ row.space = task[t].space
      BY <1>t DEF TaskRows
    <2> HIDE DEF row, n
    <2>4. QED BY <1>t, <1>1, <2>2, <2>3
  <1>4. QED BY <1>2, <1>3

\* The deletion of a project gives its tasks another project of their workspace
\* and leaves the other tasks alone.
LEMMA DeleteProjectRows ==
  ASSUME TicketInv, NEW p \in ProjectIds, DeleteProject(p)
  PROVE  /\ tasks' = tasks
         /\ \A t \in tasks : task'[t].space = task[t].space /\ task'[t].title = task[t].title
         /\ \E f \in projects :
              /\ f # p /\ project[f].space = project[p].space
              /\ \A t \in tasks : task'[t].project =
                   IF task[t].space = project[p].space /\ task[t].project = p
                   THEN f ELSE task[t].project
  <1>t. tasks \subseteq TaskIds /\ \A t \in TaskIds : task[t] \in TaskRows
    BY IdTypes DEF TicketInv, TicketingTypeOK
  <1> DEFINE moved == {t \in tasks : task[t].space = project[p].space /\ task[t].project = p}
  <1>1. PICK f \in ProjectIds :
          /\ IsGeneralOf(f, project[p].space)
          /\ task' = [t \in TaskIds |-> IF t \in moved THEN [task[t] EXCEPT !.project = f] ELSE task[t]]
    BY DEF DeleteProject
  <1>2. tasks' = tasks /\ project[p].slug # General
    BY DEF DeleteProject
  <1>3. f \in projects /\ f # p /\ project[f].space = project[p].space
    BY <1>1, <1>2 DEF IsGeneralOf
  <1>4. \A t \in TaskIds : /\ [task[t] EXCEPT !.project = f].space = task[t].space
                           /\ [task[t] EXCEPT !.project = f].title = task[t].title
                           /\ [task[t] EXCEPT !.project = f].project = f
    BY <1>t DEF TaskRows
  <1> DEFINE isMoved(t) == task[t].space = project[p].space /\ task[t].project = p
  <1>5. \A t \in tasks : t \in moved <=> isMoved(t)
    OBVIOUS
  <1> HIDE DEF moved
  <1>6. \A t \in tasks : /\ task'[t].space = task[t].space /\ task'[t].title = task[t].title
                         /\ task'[t].project = IF t \in moved THEN f ELSE task[t].project
    BY <1>t, <1>1, <1>4
  <1>7. QED BY <1>2, <1>3, <1>5, <1>6

-----------------------------------------------------------------------------
(* Titles *)

\* Tasks that keep workspace and title stay apart.
LEMMA TitlesKept ==
  ASSUME TitlesAreUnique, tasks' \ untitled' \subseteq tasks \ untitled,
         \A t \in tasks' \ untitled' : task'[t].space = task[t].space /\ task'[t].title = task[t].title
  PROVE  TitlesAreUnique'
  BY DEF TitlesAreUnique

\* A new task is apart from the others when its title was looked for first.
LEMMA TitleInserted ==
  ASSUME TicketingTypeOK, TitlesAreUnique,
         NEW s \in Spaces, NEW p \in 0..lastProject, NEW n \in Nat,
         NEW title \in Titles, NEW rec \in BOOLEAN, Insert(s, p, n, title, rec),
         \/ untitled' = untitled /\ ~TitleTaken(s, title)
         \/ untitled' = untitled \cup {lastTask'}
  PROVE  TitlesAreUnique'
  <1> DEFINE new == lastTask'
  <1>1. /\ new \notin tasks /\ tasks' = tasks \cup {new}
        /\ task'[new].space = s /\ task'[new].title = title
        /\ \A t \in tasks : task'[t] = task[t]
    BY InsertType, IdTypes
  <1> HIDE DEF new
  <1>2. CASE untitled' = untitled \cup {new}
    BY <1>1, <1>2, TitlesKept
  <1>3. CASE untitled' = untitled /\ ~TitleTaken(s, title)
    <2>1. \A t \in tasks : ~(task[t].space = s /\ task[t].title = title)
      BY <1>3 DEF TitleTaken
    <2>2. QED BY <1>1, <1>3, <2>1 DEF TitlesAreUnique
  <1>4. QED BY <1>2, <1>3 DEF new

\* A child gets the workspace of its template, a title with today's date, and
\* the template's project.
LEMMA SpawnRow ==
  ASSUME TicketInv, NEW t \in TaskIds, Spawn(t)
  PROVE  /\ t \in tasks /\ ~TitleTaken(task[t].space, Dated(task[t].title))
         /\ task[t].space \in Spaces /\ task[t].project \in 0..lastProject
         /\ Dated(task[t].title) \in Titles /\ untitled' = untitled
         /\ \E n \in Nat : Insert(task[t].space, task[t].project, n, Dated(task[t].title), FALSE)
  <1> DEFINE p == task[t].project
             found == p \in projects /\ project[p].space = task[t].space
             n == IF found THEN project[p].counter + 1 ELSE 0
  <1>t. TicketingTypeOK /\ projects \subseteq ProjectIds /\ tasks \subseteq TaskIds
    BY IdTypes DEF TicketInv
  <1>1. /\ t \in tasks /\ ~TitleTaken(task[t].space, Dated(task[t].title)) /\ untitled' = untitled
        /\ Insert(task[t].space, p, n, Dated(task[t].title), FALSE)
    BY DEF Spawn
  <1>2. task[t] \in TaskRows
    BY <1>t, <1>1 DEF TicketingTypeOK
  <1>3. task[t].project \in ProjectIds \cup {0} /\ task[t].space \in Spaces /\ task[t].title \in Titles
    BY <1>2 DEF TaskRows
  <1>4. task[t].project <= lastProject /\ lastProject \in ProjectIds
    BY <1>1 DEF TicketInv, ProjectsAreOld, TicketingTypeOK
  <1>5. n \in Nat
    BY NextNumberIsNew
  <1>6. /\ task[t].project \in 0..lastProject /\ Dated(task[t].title) \in Titles
    BY <1>t, <1>3, <1>4, TitleTypes DEF ProjectIds
  <1>7. \E x \in Nat : Insert(task[t].space, p, x, Dated(task[t].title), FALSE)
    <2> HIDE DEF n, p
    <2>1. QED BY <1>1, <1>5
  <1>8. QED BY <1>1, <1>3, <1>6, <1>7

\* Every step keeps titles apart.
LEMMA TitlesStep == TicketInv /\ TitlesAreUnique /\ [TicketingNext]_ticketingVars => TitlesAreUnique'
  <1> SUFFICES ASSUME TicketInv, TitlesAreUnique, [TicketingNext]_ticketingVars PROVE TitlesAreUnique'
    OBVIOUS
  <1>t. /\ TicketingTypeOK /\ projects \subseteq ProjectIds /\ projects \subseteq 1..lastProject
        /\ tasks \subseteq TaskIds
    BY IdTypes DEF TicketInv, TicketingTypeOK
  <1> DEFINE Rest == UNCHANGED <<tasks, task, untitled>>
  <1>0. CASE Rest
    BY <1>0, TitlesKept
  <1>1. ASSUME NEW s \in Spaces, CreateWorkspace(s) \/ DeleteWorkspace(s) PROVE Rest
    BY <1>1 DEF CreateWorkspace, DeleteWorkspace, taskVars, historyVars
  <1>2. ASSUME NEW s \in Spaces, NEW g \in Slugs, NEW q \in Prefixes, CreateProject(s, g, q) PROVE Rest
    BY <1>2 DEF CreateProject, taskVars, historyVars
  <1>3. ASSUME NEW p \in ProjectIds, NEW q \in Prefixes, NEW act \in BOOLEAN, PatchProject(p, q, act)
        PROVE  Rest
    BY <1>3 DEF PatchProject, taskVars, historyVars
  <1>4. ASSUME NEW p \in ProjectIds, ArchiveProject(p) \/ PullStarts(p) PROVE Rest
    BY <1>4 DEF ArchiveProject, PullStarts, taskVars, historyVars
  <1>5. ASSUME NEW p \in ProjectIds, DeleteProject(p) PROVE TitlesAreUnique'
    <2>1. untitled' = untitled
      BY <1>5 DEF DeleteProject
    <2>2. QED BY <1>5, <2>1, DeleteProjectRows, TitlesKept
  <1>6. ASSUME NEW s \in Spaces, NEW asked \in ProjectIds, NEW n \in Names, NEW rec \in BOOLEAN,
               CreateTask(s, asked, n, rec)
        PROVE  TitlesAreUnique'
    <2>1. PICK p \in projects : Insert(s, p, project[p].counter + 1, Plain(n), rec)
      BY <1>6 DEF CreateTask, Resolves, ActiveIn
    <2>2. untitled' = untitled /\ ~TitleTaken(s, Plain(n))
      BY <1>6 DEF CreateTask, historyVars
    <2>3. p \in 1..lastProject /\ project[p].counter + 1 \in Nat /\ Plain(n) \in Titles
      BY <1>t, NextNumberIsNew, TitleTypes
    <2>4. QED BY <1>t, <2>1, <2>2, <2>3, TitleInserted
  <1>7. ASSUME NEW t \in tasks, NEW p \in ProjectIds \cup {0}, NEW rec \in BOOLEAN,
               NEW title \in {task[t].title} \cup {Plain(n) : n \in Names}, UpdateTask(t, p, title, rec)
        PROVE  TitlesAreUnique'
    <2>1. task[t].title \in Titles
      BY <1>t DEF TicketingTypeOK, TaskRows
    <2>2. title \in Titles
      BY <2>1, TitleTypes
    <2>3. untitled' = IF title = task[t].title THEN untitled ELSE untitled \cup {t}
      BY <1>7 DEF UpdateTask
    <2>4. /\ tasks' = tasks /\ task'[t].title = title /\ task'[t].space = task[t].space
          /\ \A u \in tasks \ {t} : task'[u] = task[u]
      BY <1>7, <2>2, UpdateTaskRows
    <2>5. QED BY <2>3, <2>4, TitlesKept
  <1>8. ASSUME NEW t \in TaskIds, DeleteTask(t) PROVE TitlesAreUnique'
    <2>1. /\ tasks' = tasks \ {t} /\ untitled' = untitled \ {t}
          /\ \A u \in tasks \ {t} : task'[u] = task[u]
      BY <1>t, <1>8 DEF DeleteTask, TicketingTypeOK
    <2>2. QED BY <2>1, TitlesKept
  <1>9. ASSUME NEW t \in TaskIds, Spawn(t) PROVE TitlesAreUnique'
    BY <1>t, <1>9, SpawnRow, TitleInserted
  <1>10. ASSUME NEW r \in pulls, NEW n \in Names, PullInserts(r, n) PROVE TitlesAreUnique'
    <2>1. Insert(r.space, r.project, 0, Plain(n), FALSE) /\ untitled' = untitled \cup {lastTask'}
      BY <1>10 DEF PullInserts
    <2>2. r.space \in Spaces /\ r.project \in 0..lastProject /\ Plain(n) \in Titles
      <3>1. r.space \in Spaces /\ r.project \in 1..lastProject
        BY <1>t DEF TicketingTypeOK
      <3>2. 1..lastProject \subseteq 0..lastProject
        BY <1>t DEF TicketingTypeOK, ProjectIds
      <3>3. QED BY <3>1, <3>2, TitleTypes
    <2>3. QED BY <1>t, <2>1, <2>2, TitleInserted
  <1>11. ASSUME NEW r \in pulls, PullFindsNothing(r) PROVE Rest
    BY <1>11 DEF PullFindsNothing, taskVars, historyVars
  <1>12. CASE DayBreaks \/ UNCHANGED ticketingVars
    BY <1>0, <1>12 DEF DayBreaks, ticketingVars, taskVars, historyVars
  <1>13. ASSUME NEW s \in Spaces, NEW n \in Names, ImportTask(s, n) PROVE TitlesAreUnique'
    <2>1. Insert(s, 0, 0, Plain(n), FALSE) /\ untitled' = untitled \cup {lastTask'}
      BY <1>13 DEF ImportTask
    <2>2. 0 \in 0..lastProject /\ Plain(n) \in Titles
      BY <1>t, TitleTypes DEF TicketingTypeOK, ProjectIds
    <2>3. QED BY <1>t, <2>1, <2>2, TitleInserted
  <1> HIDE DEF Rest
  <1>14. QED
    BY <1>0, <1>1, <1>2, <1>3, <1>4, <1>5, <1>6, <1>7, <1>8, <1>9, <1>10, <1>11, <1>12, <1>13 DEF TicketingNext

-----------------------------------------------------------------------------
(* Homes *)

\* A new task is at home, or an orphan, when its project is of its workspace or
\* it is known to be an orphan.
LEMMA HomeInserted ==
  ASSUME TicketingTypeOK, TasksHaveAProject, SpacesAreKnown,
         NEW s \in Spaces, NEW p \in 0..lastProject, NEW n \in Nat,
         NEW title \in Titles, NEW rec \in BOOLEAN, Insert(s, p, n, title, rec),
         UNCHANGED <<spaces, formerSpaces, projects>>, pulls' \subseteq pulls,
         \A q \in projects : project'[q].space = project[q].space,
         orphaned' = orphaned \/ orphaned' = orphaned \cup {lastTask'},
         s \in spaces \cup formerSpaces,
         lastTask' \in orphaned' \/ (s \in spaces => p \in projects /\ project[p].space = s)
  PROVE  TasksHaveAProject' /\ SpacesAreKnown'
  <1> DEFINE new == lastTask'
  <1>1. /\ new \notin tasks /\ tasks' = tasks \cup {new}
        /\ task'[new].space = s /\ task'[new].project = p
        /\ \A t \in tasks : task'[t] = task[t]
    BY InsertType, IdTypes
  <1> HIDE DEF new
  <1>2. TasksHaveAProject'
    <2> SUFFICES ASSUME NEW t \in tasks' \ orphaned', task'[t].space \in spaces'
                 PROVE  task'[t].project \in projects' /\ project'[task'[t].project].space = task'[t].space
      BY DEF TasksHaveAProject
    <2>1. CASE t = new
      BY <1>1, <2>1 DEF new
    <2>2. CASE t \in tasks
      <3>1. task'[t] = task[t] /\ t \in tasks \ orphaned
        BY <1>1, <2>2 DEF new
      <3>2. QED BY <3>1 DEF TasksHaveAProject
    <2>3. QED BY <1>1, <2>1, <2>2
  <1>3. SpacesAreKnown'
    BY <1>1 DEF SpacesAreKnown
  <1>4. QED BY <1>2, <1>3

\* A task of a workspace that goes does not look for its project any more, and
\* the projects that go with it go to the default workspace.
LEMMA WorkspacesKeepHomes ==
  ASSUME TicketInv, HomeInv, NEW s \in Spaces, CreateWorkspace(s) \/ DeleteWorkspace(s)
  PROVE  TasksHaveAProject' /\ SpacesAreKnown'
  <1>t. TicketingTypeOK /\ projects \subseteq ProjectIds
    BY IdTypes DEF HomeInv
  <1>1. CASE CreateWorkspace(s)
    <2>1. /\ s \notin spaces \cup formerSpaces /\ spaces' = spaces \cup {s}
          /\ UNCHANGED <<formerSpaces, projects, project, tasks, task, pulls, orphaned>>
      BY <1>1 DEF CreateWorkspace, projectVars, taskVars, historyVars
    <2>2. QED BY <2>1 DEF HomeInv, TasksHaveAProject, SpacesAreKnown
  <1>2. CASE DeleteWorkspace(s)
    <2> DEFINE isMoved(p) == p \in projects /\ project[p].space = s
    <2>1. /\ s # Default /\ spaces' = spaces \ {s} /\ formerSpaces' = formerSpaces \cup {s}
          /\ UNCHANGED <<projects, tasks, task, pulls, orphaned>>
          /\ project' = [p \in ProjectIds |->
               IF isMoved(p) THEN [project[p] EXCEPT !.space = Default] ELSE project[p]]
      BY <1>2 DEF DeleteWorkspace, taskVars, historyVars
    <2>2. Default \in spaces'
      BY <1>t, <2>1 DEF TicketingTypeOK
    <2>3. \A p \in projects : [project[p] EXCEPT !.space = Default].space = Default
      BY <1>t DEF TicketingTypeOK, ProjectRows
    <2>4. \A p \in projects : project'[p].space = IF project[p].space = s THEN Default ELSE project[p].space
      BY <1>t, <2>1, <2>3
    <2>5. SpacesAreKnown'
      BY <2>1, <2>2, <2>4 DEF HomeInv, SpacesAreKnown
    <2>6. TasksHaveAProject'
      BY <2>1, <2>4 DEF HomeInv, TasksHaveAProject
    <2>7. QED BY <2>5, <2>6
  <1>3. QED BY <1>1, <1>2

\* A project that comes or changes takes no task's home away.
LEMMA ProjectsKeepHomes ==
  ASSUME TicketInv, HomeInv, projects \subseteq projects',
         UNCHANGED <<spaces, formerSpaces, tasks, task, orphaned>>,
         \A p \in projects : project'[p].space = project[p].space,
         \A p \in projects' \ projects : project'[p].space \in spaces,
         \A r \in pulls' : r.space \in spaces \cup formerSpaces
  PROVE  TasksHaveAProject' /\ SpacesAreKnown'
  <1>1. TasksHaveAProject'
    BY DEF HomeInv, TasksHaveAProject
  <1>2. SpacesAreKnown'
    BY DEF HomeInv, SpacesAreKnown
  <1>3. QED BY <1>1, <1>2

\* The tasks of a project that is deleted find 'general' of their workspace.
LEMMA DeleteProjectKeepsHomes ==
  ASSUME TicketInv, HomeInv, NEW p \in ProjectIds, DeleteProject(p)
  PROVE  TasksHaveAProject' /\ SpacesAreKnown'
  <1>t. TicketingTypeOK /\ projects \subseteq ProjectIds
    BY IdTypes DEF HomeInv
  <1>1. /\ p \in projects /\ projects' = projects \ {p}
        /\ project' = [project EXCEPT ![p] = FirstProject]
        /\ UNCHANGED <<spaces, formerSpaces, pulls, orphaned>>
    BY DEF DeleteProject, spaceVars
  <1>2. \A q \in projects \ {p} : project'[q] = project[q]
    BY <1>t, <1>1 DEF TicketingTypeOK
  <1>3. PICK f \in projects :
          /\ f # p /\ project[f].space = project[p].space
          /\ \A t \in tasks : task'[t].project =
               IF task[t].space = project[p].space /\ task[t].project = p
               THEN f ELSE task[t].project
    BY DeleteProjectRows
  <1>4. tasks' = tasks /\ \A t \in tasks : task'[t].space = task[t].space
    BY DeleteProjectRows
  <1>5. TasksHaveAProject'
    <2> SUFFICES ASSUME NEW t \in tasks \ orphaned, task[t].space \in spaces
                 PROVE  /\ task'[t].project \in projects \ {p}
                        /\ project[task'[t].project].space = task[t].space
      BY <1>1, <1>2, <1>4 DEF TasksHaveAProject
    <2>1. task[t].project \in projects /\ project[task[t].project].space = task[t].space
      BY DEF HomeInv, TasksHaveAProject
    <2>2. QED BY <1>3, <2>1
  <1>6. SpacesAreKnown'
    BY <1>1, <1>2, <1>4 DEF HomeInv, SpacesAreKnown
  <1>7. QED BY <1>5, <1>6

\* Every step keeps homes.
LEMMA HomeStep ==
  TicketInv /\ HomeInv /\ [TicketingNext]_ticketingVars => TasksHaveAProject' /\ SpacesAreKnown'
  <1> SUFFICES ASSUME TicketInv, HomeInv, [TicketingNext]_ticketingVars
               PROVE  TasksHaveAProject' /\ SpacesAreKnown'
    OBVIOUS
  <1>t. /\ TicketingTypeOK /\ projects \subseteq ProjectIds /\ projects \subseteq 1..lastProject
        /\ tasks \subseteq TaskIds
    BY IdTypes DEF TicketInv, TicketingTypeOK
  <1>i. TasksHaveAProject /\ SpacesAreKnown
    BY DEF HomeInv
  <1> DEFINE Kept == TasksHaveAProject' /\ SpacesAreKnown'
             Same == UNCHANGED <<spaces, formerSpaces, projects, project, tasks, task, orphaned>>
  <1>0. ASSUME Same, \A r \in pulls' : r.space \in spaces \cup formerSpaces PROVE Kept
    BY <1>0, ProjectsKeepHomes
  <1>1. CASE \E s \in Spaces : CreateWorkspace(s) \/ DeleteWorkspace(s)
    BY <1>1, WorkspacesKeepHomes
  <1>2. ASSUME NEW s \in Spaces, NEW g \in Slugs, NEW q \in Prefixes, CreateProject(s, g, q)
        PROVE  Kept
    <2> DEFINE row == [space |-> s, slug |-> g, prefix |-> q, active |-> TRUE, counter |-> 0]
    <2>1. /\ s \in spaces /\ lastProject < MaxProjects /\ lastProject' = lastProject + 1
          /\ projects' = projects \cup {lastProject'}
          /\ project' = [project EXCEPT ![lastProject'] = row]
          /\ UNCHANGED <<spaces, formerSpaces, tasks, task, pulls, orphaned>>
      BY <1>2 DEF CreateProject, spaceVars, taskVars, historyVars
    <2>2. row.space = s
      OBVIOUS
    <2>3. lastProject' \in ProjectIds /\ lastProject' \notin projects
      BY <1>t, <2>1 DEF TicketingTypeOK, ProjectIds
    <2> HIDE DEF row
    <2>4. project'[lastProject'] = row /\ \A p \in projects : project'[p] = project[p]
      BY <1>t, <2>1, <2>3 DEF TicketingTypeOK
    <2>5. \A r \in pulls' : r.space \in spaces \cup formerSpaces
      BY <1>i, <2>1 DEF SpacesAreKnown
    <2>6. projects \subseteq projects' /\ \A p \in projects' \ projects : project'[p].space \in spaces
      BY <2>1, <2>2, <2>4
    <2>7. QED BY <2>1, <2>4, <2>5, <2>6, ProjectsKeepHomes
  <1>3. ASSUME NEW p \in ProjectIds,
               ArchiveProject(p) \/ \E q \in Prefixes, act \in BOOLEAN : PatchProject(p, q, act)
        PROVE  Kept
    <2>1. UNCHANGED <<spaces, formerSpaces, projects, tasks, task, pulls, orphaned>>
      BY <1>3 DEF ArchiveProject, PatchProject, spaceVars, taskVars, historyVars
    <2>2. \A r \in projects : project'[r].space = project[r].space
      <3>1. \A r \in ProjectIds : project[r] \in ProjectRows
        BY <1>t DEF TicketingTypeOK
      <3>2. CASE ArchiveProject(p)
        BY <1>t, <3>1, <3>2 DEF ArchiveProject, ProjectRows, TicketingTypeOK
      <3>3. ASSUME NEW q \in Prefixes, NEW act \in BOOLEAN, PatchProject(p, q, act)
            PROVE  \A r \in projects : project'[r].space = project[r].space
        BY <1>t, <3>1, <3>3 DEF PatchProject, ProjectRows, TicketingTypeOK
      <3>4. QED BY <1>3, <3>2, <3>3
    <2>3. \A r \in pulls' : r.space \in spaces \cup formerSpaces
      BY <1>i, <2>1 DEF SpacesAreKnown
    <2>4. QED BY <2>1, <2>2, <2>3, ProjectsKeepHomes
  <1>4. CASE \E p \in ProjectIds : DeleteProject(p)
    BY <1>4, DeleteProjectKeepsHomes
  <1>5. ASSUME NEW p \in ProjectIds, PullStarts(p) PROVE Kept
    <2>1. Same /\ pulls' = {[project |-> p, space |-> project[p].space]} /\ project[p].space \in spaces
      BY <1>i, <1>5 DEF PullStarts, SpacesAreKnown, spaceVars, projectVars, taskVars, historyVars
    <2>2. QED BY <1>0, <2>1
  <1>6. ASSUME NEW s \in Spaces, NEW asked \in ProjectIds, NEW n \in Names, NEW rec \in BOOLEAN,
               CreateTask(s, asked, n, rec)
        PROVE  Kept
    <2>1. PICK p \in projects : /\ project[p].space = s
                                /\ Bump(p) /\ Insert(s, p, project[p].counter + 1, Plain(n), rec)
      BY <1>6 DEF CreateTask, Resolves, ActiveIn
    <2>2. UNCHANGED <<spaces, formerSpaces, projects, pulls, orphaned>>
      BY <1>6 DEF CreateTask, spaceVars, historyVars
    <2>3. p \in 1..lastProject /\ project[p].counter + 1 \in Nat /\ Plain(n) \in Titles
      BY <1>t, NextNumberIsNew, TitleTypes
    <2>4. \A q \in projects : project'[q].space = project[q].space
      BY <1>t, <2>1, BumpType
    <2>5. s \in spaces
      BY <1>i, <2>1 DEF SpacesAreKnown
    <2>6. QED BY <1>t, <1>i, <2>1, <2>2, <2>3, <2>4, <2>5, HomeInserted
  <1>7. ASSUME NEW t \in tasks, NEW p \in ProjectIds \cup {0}, NEW rec \in BOOLEAN,
               NEW title \in {task[t].title} \cup {Plain(n) : n \in Names}, UpdateTask(t, p, title, rec)
        PROVE  Kept
    <2>1. task[t].title \in Titles
      BY <1>t DEF TicketingTypeOK, TaskRows
    <2>2. title \in Titles
      BY <2>1, TitleTypes
    <2>3. /\ tasks' = tasks /\ task'[t].project = p /\ task'[t].space = task[t].space
          /\ \A u \in tasks \ {t} : task'[u] = task[u]
      BY <1>7, <2>2, UpdateTaskRows
    <2>4. UNCHANGED <<spaces, formerSpaces, projects, pulls>>
      BY <1>7 DEF UpdateTask, spaceVars
    <2>5. \/ p = task[t].project /\ project' = project /\ orphaned' = orphaned
          \/ /\ p \in projects /\ project[p].space = task[t].space
             /\ Bump(p) /\ orphaned' = orphaned \ {t}
      BY <1>7 DEF UpdateTask, ActiveIn
    <2>6. \A q \in projects : project'[q].space = project[q].space
      BY <1>t, <2>5, BumpType
    <2>7. TasksHaveAProject'
      <3> SUFFICES ASSUME NEW u \in tasks \ orphaned', task'[u].space \in spaces
                   PROVE  /\ task'[u].project \in projects
                          /\ project[task'[u].project].space = task'[u].space
        BY <2>3, <2>4, <2>6 DEF TasksHaveAProject
      <3>1. CASE u = t
        BY <1>i, <2>3, <2>5, <3>1 DEF TasksHaveAProject
      <3>2. CASE u # t
        BY <1>i, <2>3, <2>5, <3>2 DEF TasksHaveAProject
      <3>3. QED BY <3>1, <3>2
    <2>8. SpacesAreKnown'
      <3>1. \A u \in tasks : task'[u].space = task[u].space
        BY <2>3
      <3>2. QED BY <1>i, <2>3, <2>4, <2>6, <3>1 DEF SpacesAreKnown
    <2>9. QED BY <2>7, <2>8
  <1>8. ASSUME NEW t \in TaskIds, DeleteTask(t) PROVE Kept
    <2>1. /\ tasks' = tasks \ {t} /\ orphaned' = orphaned \ {t}
          /\ UNCHANGED <<spaces, formerSpaces, projects, project, pulls>>
          /\ \A u \in tasks \ {t} : task'[u] = task[u]
      BY <1>t, <1>8 DEF DeleteTask, TicketingTypeOK, spaceVars, projectVars
    <2>2. QED BY <1>i, <2>1 DEF TasksHaveAProject, SpacesAreKnown
  <1>9. ASSUME NEW t \in TaskIds, Spawn(t) PROVE Kept
    <2> DEFINE s == task[t].space
               p == task[t].project
    <2>1. /\ t \in tasks /\ s \in Spaces /\ p \in 0..lastProject
          /\ Dated(task[t].title) \in Titles
      BY <1>9, SpawnRow
    <2>2. PICK n \in Nat : Insert(s, p, n, Dated(task[t].title), FALSE)
      BY <1>9, SpawnRow
    <2>3. /\ UNCHANGED <<spaces, formerSpaces, projects, pulls>>
          /\ orphaned' = IF t \in orphaned THEN orphaned \cup {lastTask'} ELSE orphaned
          /\ (p \in projects /\ Bump(p)) \/ project' = project
      BY <1>9 DEF Spawn, spaceVars
    <2>4. \A q \in projects : project'[q].space = project[q].space
      BY <1>t, <2>3, BumpType
    <2>5. s \in spaces \cup formerSpaces
      BY <1>i, <2>1 DEF SpacesAreKnown
    <2>6. t \in orphaned \/ (s \in spaces => p \in projects /\ project[p].space = s)
      BY <1>i, <2>1 DEF TasksHaveAProject
    <2> HIDE DEF s, p
    <2>7. QED BY <1>t, <1>i, <2>1, <2>2, <2>3, <2>4, <2>5, <2>6, HomeInserted
  <1>10. ASSUME NEW r \in pulls, NEW n \in Names, PullInserts(r, n) PROVE Kept
    <2>1. /\ Insert(r.space, r.project, 0, Plain(n), FALSE)
          /\ orphaned' = IF r.project \in projects /\ project[r.project].space = r.space
                         THEN orphaned ELSE orphaned \cup {lastTask'}
          /\ pulls' = pulls \ {r}
          /\ UNCHANGED <<spaces, formerSpaces, projects, project>>
      BY <1>10 DEF PullInserts, spaceVars, projectVars
    <2>2. /\ r.space \in Spaces /\ r.project \in 0..lastProject /\ Plain(n) \in Titles
          /\ r.space \in spaces \cup formerSpaces
      <3>1. r.space \in Spaces /\ r.project \in 1..lastProject
        BY <1>t DEF TicketingTypeOK
      <3>2. 1..lastProject \subseteq 0..lastProject
        BY <1>t DEF TicketingTypeOK, ProjectIds
      <3>3. QED BY <1>i, <3>1, <3>2, TitleTypes DEF SpacesAreKnown
    <2>3. QED BY <1>t, <1>i, <2>1, <2>2, HomeInserted
  <1>11. ASSUME NEW r \in pulls, PullFindsNothing(r) PROVE Kept
    <2>1. Same /\ pulls' \subseteq pulls
      BY <1>11 DEF PullFindsNothing, spaceVars, projectVars, taskVars, historyVars
    <2>2. QED BY <1>0, <1>i, <2>1 DEF SpacesAreKnown
  <1>12. CASE DayBreaks \/ UNCHANGED ticketingVars
    <2>1. Same /\ pulls' = pulls
      BY <1>12 DEF DayBreaks, ticketingVars, spaceVars, projectVars, taskVars, historyVars
    <2>2. QED BY <1>0, <1>i, <2>1 DEF SpacesAreKnown
  <1>13. ASSUME NEW s \in Spaces, NEW n \in Names, ImportTask(s, n) PROVE Kept
    <2>1. /\ Insert(s, 0, 0, Plain(n), FALSE) /\ s = Default
          /\ orphaned' = orphaned \cup {lastTask'}
          /\ UNCHANGED <<spaces, formerSpaces, projects, project, pulls>>
      BY <1>13 DEF ImportTask, spaceVars, projectVars
    <2>2. 0 \in 0..lastProject /\ Plain(n) \in Titles /\ s \in spaces
      BY <1>t, <2>1, TitleTypes DEF TicketingTypeOK, ProjectIds
    <2>3. QED BY <1>t, <1>i, <2>1, <2>2, HomeInserted
  <1>14. QED
    BY <1>1, <1>2, <1>3, <1>4, <1>5, <1>6, <1>7, <1>8, <1>9, <1>10, <1>11, <1>12, <1>13 DEF TicketingNext

-----------------------------------------------------------------------------
(* Theorems *)

\* The inductive invariant, which contains the types.
THEOREM TicketInvariant == TicketingSpec => []TicketInv
  <1>1. TicketingInit => TicketInv
    BY TicketStart
  <1>2. TicketInv /\ [TicketingNext]_ticketingVars => TicketInv'
    BY TicketStep
  <1>3. QED BY <1>1, <1>2, PTL DEF TicketingSpec

\* Two tasks of a workspace never show the same reference, except for tasks the
\* deletion of their project has displaced.
THEOREM ReferenceNamesOneTask == TicketingSpec => []TicketNamesOneTask
  <1>1. TicketInv => TicketNamesOneTask
    <2> SUFFICES ASSUME TicketInv, NEW t \in Referenced, NEW u \in Referenced, t # u,
                        task[t].no = task[u].no,
                        project[task[t].project].prefix = project[task[u].project].prefix,
                        project[task[t].project].space = project[task[u].project].space
                 PROVE  FALSE
      BY DEF TicketNamesOneTask
    <2>1. task[t].project = task[u].project
      BY DEF Referenced, TicketInv, ProjectsDiffer
    <2>2. QED BY <2>1 DEF Referenced, TicketInv, NumbersDiffer
  <1>2. QED BY <1>1, TicketInvariant, PTL

\* Two tasks of a workspace have the same title only if somebody renamed one of
\* them or it came from GitHub.
THEOREM TitlesStayUnique == TicketingSpec => []TitlesAreUnique
  <1>1. TicketingInit => TitlesAreUnique
    BY DEF TicketingInit, TitlesAreUnique
  <1>2. TicketInv /\ TitlesAreUnique /\ [TicketingNext]_ticketingVars => TitlesAreUnique'
    BY TitlesStep
  <1>3. QED BY <1>1, <1>2, TicketInvariant, PTL DEF TicketingSpec

\* A task of a workspace belongs to a project of that workspace, through moves
\* and deletions of either, except for tasks that GitHub brought without a
\* project or into one that had gone, and their children.
THEOREM TasksKeepAProject == TicketingSpec => []TasksHaveAProject
  <1>1. TicketingInit => TasksHaveAProject /\ SpacesAreKnown
    BY FirstRows DEF TicketingInit, TasksHaveAProject, SpacesAreKnown, FirstProject
  <1>2. TicketInv => TicketingTypeOK
    BY DEF TicketInv
  <1>3. TicketInv /\ TasksHaveAProject /\ SpacesAreKnown /\ [TicketingNext]_ticketingVars
          => TasksHaveAProject' /\ SpacesAreKnown'
    BY <1>2, HomeStep DEF HomeInv
  <1>4. QED BY <1>1, <1>3, TicketInvariant, PTL DEF TicketingSpec
=============================================================================
