----------------------------- MODULE Ticketing -----------------------------
(***************************************************************************)
(* Workspaces, projects and the tickets of tasks: a project counts the     *)
(* tickets it has given out, a task carries the number it got, and the two *)
(* are shown as one reference, <prefix>-<number>.  Tasks come from         *)
(* operators, from recurring templates and from GitHub.                    *)
(*                                                                         *)
(* A request is one step: its handler does not await between reading and   *)
(* writing rows.  Only pulls and imports from GitHub await the issues, a   *)
(* pull with its project in hand, an import with its workspace.            *)
(* Rows have AUTOINCREMENT keys, so an id is never given twice.            *)
(***************************************************************************)
EXTENDS Naturals

CONSTANTS
  Spaces, Default, \* ids of workspaces, and the one whose slug is 'default'
  Slugs, General,  \* slugs of projects, and 'general'
  Prefixes,        \* ticket prefixes
  Names, Days,     \* titles, and dates that may be appended to them
  MaxProjects, MaxTasks, \* bounds: rows ever inserted
  MaxTickets       \* bound: numbers a project gives out

ASSUME TicketingAssumption ==
  /\ Default \in Spaces /\ General \in Slugs /\ Prefixes # {}
  /\ Names # {} /\ Days # {} /\ 0 \notin Days
  /\ MaxProjects \in Nat \ {0} /\ MaxTasks \in Nat /\ MaxTickets \in Nat

VARIABLES
  spaces,      \* rows of workspaces
  formerSpaces,\* workspaces that were deleted
  projects,    \* rows of projects
  project,     \* project[p]: the row of p
  lastProject, \* the highest project id so far
  tasks,       \* rows of tasks
  task,        \* task[t]: the row of t
  lastTask,    \* the highest task id so far
  pulls,       \* pulls from GitHub that await the issues
  day,         \* the day of the month, as formatDateSuffix prints it
  displaced,   \* history: tasks that came to 'general' when their project was deleted
  untitled,    \* history: tasks whose title nobody compared with the others
  orphaned     \* history: tasks that GitHub brought without a project, or into one
               \* that was gone by then, and their children

spaceVars     == <<spaces, formerSpaces>>
projectVars   == <<projects, project, lastProject>>
taskVars      == <<tasks, task, lastTask>>
historyVars   == <<displaced, untitled, orphaned>>
ticketingVars == <<spaceVars, projectVars, taskVars, pulls, day, historyVars>>

ProjectIds == 1..MaxProjects
TaskIds    == 1..MaxTasks
Titles     == [name : Names, date : Days \cup {0}]
\* 0 stands for no date.
Plain(n)   == [name |-> n, date |-> 0]

\* A task that was pulled has no number, one that was imported no project
\* either; 0 stands for NULL.
ProjectRows == [space : Spaces, slug : Slugs, prefix : Prefixes, active : BOOLEAN, counter : Nat]
TaskRows    == [space : Spaces, project : ProjectIds \cup {0}, no : Nat, title : Titles, recurs : BOOLEAN]

TicketingTypeOK ==
  /\ spaces \subseteq Spaces /\ formerSpaces \subseteq Spaces \ spaces
  /\ Default \in spaces
  /\ projects \subseteq 1..lastProject /\ lastProject \in ProjectIds
  /\ project \in [ProjectIds -> ProjectRows]
  /\ tasks \subseteq 1..lastTask /\ lastTask \in 0..MaxTasks
  /\ task \in [TaskIds -> TaskRows]
  /\ pulls \subseteq [project : 1..lastProject, space : Spaces]
  /\ day \in Days
  /\ displaced \subseteq tasks /\ untitled \subseteq tasks /\ orphaned \subseteq tasks

\* The migrations leave one workspace with its default project.
FirstProject    == [space |-> Default, slug |-> General,
                    prefix |-> CHOOSE q \in Prefixes : TRUE, active |-> TRUE, counter |-> 0]
NoTask          == [space |-> Default, project |-> 1, no |-> 0,
                    title |-> Plain(CHOOSE n \in Names : TRUE), recurs |-> FALSE]

TicketingInit ==
  /\ spaces = {Default} /\ formerSpaces = {}
  /\ projects = {1} /\ lastProject = 1
  /\ project = [p \in ProjectIds |-> FirstProject]
  /\ tasks = {} /\ lastTask = 0
  /\ task = [t \in TaskIds |-> NoTask]
  /\ pulls = {}
  /\ day \in Days
  /\ displaced = {} /\ untitled = {} /\ orphaned = {}

-----------------------------------------------------------------------------
(* Workspaces *)

CreateWorkspace(s) ==
  /\ s \notin spaces \cup formerSpaces
  /\ spaces' = spaces \cup {s}
  /\ UNCHANGED <<formerSpaces, projectVars, taskVars, pulls, day, historyVars>>

\* Would the projects of s break UNIQUE(workspace_id, slug) or
\* UNIQUE(workspace_id, ticket_prefix) in the default workspace?
Clash(s) ==
  \E p, q \in projects :
    /\ project[p].space = s /\ project[q].space = Default
    /\ project[p].slug = project[q].slug \/ project[p].prefix = project[q].prefix

\* Projects move to the default workspace, tasks do not.  A clash fails the
\* transaction.
DeleteWorkspace(s) ==
  /\ s \in spaces \ {Default}
  /\ ~Clash(s)
  /\ spaces' = spaces \ {s} /\ formerSpaces' = formerSpaces \cup {s}
  /\ project' = [p \in ProjectIds |->
       IF p \in projects /\ project[p].space = s
       THEN [project[p] EXCEPT !.space = Default] ELSE project[p]]
  /\ UNCHANGED <<projects, lastProject, taskVars, pulls, day, historyVars>>

-----------------------------------------------------------------------------
(* Projects.  Their handlers check that the caller's workspace still exists. *)

CreateProject(s, g, q) ==
  /\ s \in spaces /\ lastProject < MaxProjects
  /\ \A p \in projects : project[p].space = s => project[p].slug # g /\ project[p].prefix # q
  /\ lastProject' = lastProject + 1
  /\ projects' = projects \cup {lastProject'}
  /\ project' = [project EXCEPT ![lastProject'] =
       [space |-> s, slug |-> g, prefix |-> q, active |-> TRUE, counter |-> 0]]
  /\ UNCHANGED <<spaceVars, taskVars, pulls, day, historyVars>>

\* A PATCH of 'general' fails: it reads the body twice.
PatchProject(p, q, act) ==
  /\ p \in projects /\ project[p].space \in spaces
  /\ project[p].slug # General
  /\ \A r \in projects \ {p} : project[r].space = project[p].space => project[r].prefix # q
  /\ project' = [project EXCEPT ![p].prefix = q, ![p].active = act]
  /\ UNCHANGED <<spaceVars, projects, lastProject, taskVars, pulls, day, historyVars>>

ArchiveProject(p) ==
  /\ p \in projects /\ project[p].space \in spaces
  /\ project[p].slug # General
  /\ project' = [project EXCEPT ![p].active = FALSE]
  /\ UNCHANGED <<spaceVars, projects, lastProject, taskVars, pulls, day, historyVars>>

IsGeneralOf(f, s) == f \in projects /\ project[f].space = s /\ project[f].slug = General

\* Mutant: the tasks are left to the project that goes away.
DeleteProjectOnly(p) ==
  /\ p \in projects /\ project[p].space \in spaces
  /\ project[p].slug # General
  /\ projects' = projects \ {p}
  /\ UNCHANGED <<spaceVars, project, lastProject, taskVars, pulls, day, historyVars>>

\* mode=delete: the tasks of this workspace go to its 'general', with the
\* number they have.
DeleteProject(p) ==
  /\ p \in projects /\ project[p].space \in spaces
  /\ project[p].slug # General
  /\ \E f \in ProjectIds :
       LET moved == {t \in tasks : task[t].space = project[p].space /\ task[t].project = p}
       IN /\ IsGeneralOf(f, project[p].space)
          /\ task' = [t \in TaskIds |->
               IF t \in moved THEN [task[t] EXCEPT !.project = f] ELSE task[t]]
          /\ displaced' = displaced \cup moved
  /\ projects' = projects \ {p}
  /\ project' = [project EXCEPT ![p] = FirstProject]
  /\ UNCHANGED <<spaceVars, lastProject, tasks, lastTask, pulls, day, untitled, orphaned>>

-----------------------------------------------------------------------------
(* Tasks *)

ActiveIn(s) == {p \in projects : project[p].space = s /\ project[p].active}

\* Without a project of the workspace that is active, 'general' is taken, or
\* else the oldest.
Resolves(p, s, asked) ==
  /\ p \in ActiveIn(s)
  /\ \/ p = asked
     \/ asked \notin ActiveIn(s) /\ project[p].slug = General
     \/ /\ asked \notin ActiveIn(s)
        /\ \A r \in ActiveIn(s) : project[r].slug # General /\ p <= r

TitleTaken(s, title) == \E t \in tasks : task[t].space = s /\ task[t].title = title

\* A row of tasks that gets number n of project p.
Insert(s, p, n, title, rec) ==
  /\ lastTask < MaxTasks
  /\ lastTask' = lastTask + 1
  /\ tasks' = tasks \cup {lastTask'}
  /\ task' = [task EXCEPT ![lastTask'] =
       [space |-> s, project |-> p, no |-> n, title |-> title, recurs |-> rec]]

Bump(p) ==
  /\ project[p].counter < MaxTickets
  /\ project' = [project EXCEPT ![p].counter = @ + 1]

\* POST /api/tasks.  A session may still name a workspace that was deleted.
CreateTask(s, asked, n, rec) ==
  /\ ~TitleTaken(s, Plain(n))
  /\ \E p \in ProjectIds :
       /\ Resolves(p, s, asked)
       /\ Bump(p)
       /\ Insert(s, p, project[p].counter + 1, Plain(n), rec)
  /\ UNCHANGED <<spaceVars, projects, lastProject, pulls, day, historyVars>>

\* Mutant: the number is kept, as mode=delete keeps it.
UpdateTaskKeepsNumber(t, p, title, rec) ==
  /\ t \in tasks
  /\ p \in ActiveIn(task[t].space) \cup {task[t].project}
  /\ rec => title.date = 0
  /\ task' = [task EXCEPT ![t].project = p, ![t].title = title, ![t].recurs = rec]
  /\ untitled' = IF title = task[t].title THEN untitled ELSE untitled \cup {t}
  /\ UNCHANGED <<spaceVars, projectVars, tasks, lastTask, pulls, day, displaced, orphaned>>

\* PUT /api/tasks/[id].  The schema's default for metadata applies to every
\* PUT, so a template recurs only if the request says so again.  A pull that
\* writes an issue over its task changes the title in the same way.  Bound: only
\* tasks without a date in their title are made to recur.
UpdateTask(t, p, title, rec) ==
  /\ t \in tasks
  /\ p \in ActiveIn(task[t].space) \cup {task[t].project}
  /\ rec => title.date = 0
  /\ untitled' = IF title = task[t].title THEN untitled ELSE untitled \cup {t}
  /\ IF p = task[t].project
     THEN /\ task' = [task EXCEPT ![t].title = title, ![t].recurs = rec]
          /\ UNCHANGED <<project, displaced, orphaned>>
     ELSE /\ Bump(p)
          /\ task' = [task EXCEPT ![t].project = p, ![t].no = project[p].counter + 1,
                                  ![t].title = title, ![t].recurs = rec]
          /\ displaced' = displaced \ {t} /\ orphaned' = orphaned \ {t}
  /\ UNCHANGED <<spaceVars, projects, lastProject, tasks, lastTask, pulls, day>>

DeleteTask(t) ==
  /\ t \in tasks
  /\ tasks' = tasks \ {t}
  /\ task' = [task EXCEPT ![t] = NoTask]
  /\ displaced' = displaced \ {t} /\ untitled' = untitled \ {t} /\ orphaned' = orphaned \ {t}
  /\ UNCHANGED <<spaceVars, projectVars, lastTask, pulls, day>>

Dated(title) == [title EXCEPT !.date = day]

\* Mutant: no look at the children there are.
SpawnAgain(t) ==
  /\ t \in tasks /\ task[t].recurs
  /\ LET p == task[t].project IN
       /\ p \in projects /\ project[p].space = task[t].space
       /\ Bump(p)
       /\ Insert(task[t].space, p, project[p].counter + 1, Dated(task[t].title), FALSE)
  /\ UNCHANGED <<spaceVars, projects, lastProject, pulls, day, historyVars>>

\* The cron expression of template t is due.  A template whose project is in
\* another workspace, or gone, or that has none, gives its child no number.
Spawn(t) ==
  /\ t \in tasks /\ task[t].recurs
  /\ ~TitleTaken(task[t].space, Dated(task[t].title))
  /\ LET p == task[t].project
         found == p \in projects /\ project[p].space = task[t].space
     IN /\ IF found THEN Bump(p) ELSE UNCHANGED project
        /\ Insert(task[t].space, p, IF found THEN project[p].counter + 1 ELSE 0,
                  Dated(task[t].title), FALSE)
        /\ orphaned' = IF t \in orphaned THEN orphaned \cup {lastTask'} ELSE orphaned
  /\ UNCHANGED <<spaceVars, projects, lastProject, pulls, day, displaced, untitled>>

DayBreaks ==
  /\ day' \in Days \ {day}
  /\ UNCHANGED <<spaceVars, projectVars, taskVars, pulls, historyVars>>

-----------------------------------------------------------------------------
(* The import and the pull from GitHub *)

\* POST /api/github with action sync: an issue is inserted in the caller's
\* workspace, without a project and with whatever title it has.  A pull does
\* not find the row, nor an import that of a pull: the issue may come twice.
\* Bound: imports are into the default workspace, come while no pull awaits, and
\* leave room for another task.
ImportTask(s, n) ==
  /\ s = Default /\ pulls = {} /\ lastTask + 1 < MaxTasks
  /\ Insert(s, 0, 0, Plain(n), FALSE)
  /\ untitled' = untitled \cup {lastTask'} /\ orphaned' = orphaned \cup {lastTask'}
  /\ UNCHANGED <<spaceVars, projectVars, pulls, day, displaced>>

\* A pull reads its project before it awaits the issues.  Bounds: one at a time,
\* and only while there is room for a task.
PullStarts(p) ==
  /\ p \in projects /\ pulls = {} /\ lastTask < MaxTasks
  /\ pulls' = {[project |-> p, space |-> project[p].space]}
  /\ UNCHANGED <<spaceVars, projectVars, taskVars, day, historyVars>>

\* An issue that has no task yet, with whatever title it has.
PullInserts(r, n) ==
  /\ r \in pulls
  /\ Insert(r.space, r.project, 0, Plain(n), FALSE)
  /\ untitled' = untitled \cup {lastTask'}
  /\ orphaned' = IF r.project \in projects /\ project[r.project].space = r.space
                 THEN orphaned ELSE orphaned \cup {lastTask'}
  /\ pulls' = pulls \ {r}
  /\ UNCHANGED <<spaceVars, projectVars, day, displaced>>

PullFindsNothing(r) ==
  /\ r \in pulls
  /\ pulls' = pulls \ {r}
  /\ UNCHANGED <<spaceVars, projectVars, taskVars, day, historyVars>>

TicketingNext ==
  \/ \E s \in Spaces : CreateWorkspace(s) \/ DeleteWorkspace(s)
  \/ \E s \in Spaces, g \in Slugs, q \in Prefixes : CreateProject(s, g, q)
  \/ \E p \in ProjectIds, q \in Prefixes, act \in BOOLEAN : PatchProject(p, q, act)
  \/ \E p \in ProjectIds : ArchiveProject(p) \/ DeleteProject(p) \/ PullStarts(p)
  \/ \E s \in Spaces, asked \in ProjectIds, n \in Names, rec \in BOOLEAN : CreateTask(s, asked, n, rec)
  \/ \E s \in Spaces, n \in Names : ImportTask(s, n)
  \/ \E t \in tasks, p \in ProjectIds \cup {0}, rec \in BOOLEAN :
       \E title \in {task[t].title} \cup {Plain(n) : n \in Names} : UpdateTask(t, p, title, rec)
  \/ \E t \in TaskIds : DeleteTask(t) \/ Spawn(t)
  \/ \E r \in pulls : PullFindsNothing(r) \/ \E n \in Names : PullInserts(r, n)
  \/ DayBreaks

TicketingSpec == TicketingInit /\ [][TicketingNext]_ticketingVars

-----------------------------------------------------------------------------
(* Properties *)

\* What a reader sees: two tasks of a workspace never show the same reference,
\* whichever projects were created, renamed, archived, deleted or moved with
\* their workspace, and however the tasks got where they are; except for tasks
\* the deletion of their project has displaced.
Referenced == {t \in tasks \ displaced : task[t].no # 0 /\ task[t].project \in projects}
TicketNamesOneTask ==
  \A t, u \in Referenced :
    /\ t # u /\ task[t].no = task[u].no
    => \/ project[task[t].project].prefix # project[task[u].project].prefix
       \/ project[task[t].project].space # project[task[u].project].space

\* Prefixes and slugs tell the projects of a workspace apart.
ProjectsDiffer ==
  \A p, q \in projects : p # q /\ project[p].space = project[q].space
    => project[p].slug # project[q].slug /\ project[p].prefix # project[q].prefix

\* A number on a task is one its project has given out, ...
NumbersAreGiven ==
  \A t \in tasks \ displaced :
    task[t].project \in projects => task[t].no <= project[task[t].project].counter

\* ... and given out once.
NumbersDiffer ==
  \A t, u \in tasks \ displaced :
    t # u /\ task[t].project = task[u].project /\ task[t].no # 0 => task[t].no # task[u].no

\* No task is of a project to come.
ProjectsAreOld == \A t \in tasks : task[t].project <= lastProject

\* The inductive invariant.
TicketInv ==
  TicketingTypeOK /\ ProjectsDiffer /\ NumbersAreGiven /\ NumbersDiffer /\ ProjectsAreOld

\* A task of a workspace belongs to a project of that workspace, through moves
\* and deletions of either, so that the board finds the reference it shows.
\* Left out are tasks whose workspace was deleted, and those that GitHub brought,
\* by an import without a project or by a pull into one that had gone, with
\* their children, until an operator gives them a project.
TasksHaveAProject ==
  \A t \in tasks \ orphaned :
    task[t].space \in spaces =>
      task[t].project \in projects /\ project[task[t].project].space = task[t].space

\* Projects are of workspaces that exist, tasks and pulls may be left over from
\* one that existed.
SpacesAreKnown ==
  /\ \A p \in projects : project[p].space \in spaces
  /\ \A t \in tasks : task[t].space \in spaces \cup formerSpaces
  /\ \A r \in pulls : r.space \in spaces \cup formerSpaces

\* The inductive invariant behind it.
HomeInv == TicketingTypeOK /\ TasksHaveAProject /\ SpacesAreKnown

\* Two tasks of a workspace have the same title only if somebody renamed one of
\* them or it came from GitHub: not because a template is due again, and not
\* because a task is posted while a template spawns its child.
TitlesAreUnique ==
  \A t, u \in tasks \ untitled :
    t # u /\ task[t].space = task[u].space => task[t].title # task[u].title
=============================================================================
