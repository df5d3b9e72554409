----------------------------- MODULE Persistence -----------------------------
(***************************************************************************)
(* The PostgreSQL tables "projects" and "tasks" and the statements that    *)
(* ProjectsRepository and TasksRepository run on them.  A repository call  *)
(* that takes one SQL statement is one atomic state function here.         *)
(* TypeORM's save() of an entity that carries an id is two: it loads the   *)
(* row by id, and later flushes the columns in which the entity differs    *)
(* from what it loaded -- or inserts the entity when it loaded nothing.    *)
(***************************************************************************)
EXTENDS Naturals, FiniteSets

CONSTANTS
  Users,        \* ids of the registered users
  Projects,     \* the uuids a project may be given
  Tasks,        \* the uuids a task may be given
  ProjectCols,  \* the columns a client may set on a project
  TaskCols,     \* the columns a client may set on a task
  Vals,         \* the values a column holds, besides Null
  Null,
  Absent        \* no row, no entry, or a field left out of a request

ASSUME StatusIsAColumn == "status" \in TaskCols

\* The columns that are NOT NULL, and the fields that a create must give.
NotNull == {"name", "title", "status", "priority"}
Mandatory == {"name", "title"}

Given == Vals \cup {Null}

\* No NOT NULL column is null.
Storable(cols) == \A c \in DOMAIN cols \cap NotNull : cols[c] # Null

ProjectData == {cols \in [ProjectCols -> Given] : Storable(cols)}
TaskData == {cols \in [TaskCols -> Given] : Storable(cols)}
ProjectRows == [owner : Users, cols : ProjectData]
TaskRows == [project : Projects, cols : TaskData]

\* Entities in memory: @IsOptional lets null through for any optional field.
ProjectEntities == [owner : Users, cols : [ProjectCols -> Given]]
TaskEntities == [project : Projects, cols : [TaskCols -> Given]]

\* What a create DTO carries, its defaults filled in, and an update DTO.
Complete(cols) == \A c \in DOMAIN cols \cap Mandatory : cols[c] # Null
NewProjects == {cols \in [ProjectCols -> Given] : Complete(cols)}
NewTasks == {cols \in [TaskCols -> Given] : Complete(cols)}
ProjectChanges == [ProjectCols -> Given \cup {Absent}]
TaskChanges == [TaskCols -> Given \cup {Absent}]

\* A project joined with its tasks.
Details == [cols : ProjectData, tasks : [Tasks -> TaskData \cup {Absent}]]

ASSUME AbsentIsNoValue ==
  /\ Absent \notin Users \cup Projects \cup Tasks \cup Given
  /\ Absent \notin ProjectEntities \cup TaskEntities \cup TaskData \cup Details
  /\ Absent \notin ProjectRows \cup TaskRows \cup NewProjects \cup NewTasks
  /\ Absent \notin ProjectChanges \cup TaskChanges
  /\ Null \notin Vals

VARIABLES
  projects,  \* the row of each project id, or Absent
  tasks,     \* the row of each task id, or Absent
  creator,   \* who was given a project id; Absent while the uuid is unused
  home       \* the project a task id was created in; Absent while unused

dbVars == <<projects, tasks, creator, home>>

-----------------------------------------------------------------------------
\* Queries.

\* Mutant: the query leaves the owner out.
BugFindByIdOnly(p, u) == projects[p]

FindByIdAndOwner(p, u) ==
  IF projects[p] # Absent /\ projects[p].owner = u THEN projects[p] ELSE Absent

\* Mutant: the query leaves the parent project out.
BugFindTaskByIdOnly(t, p) == tasks[t]

FindByIdAndProject(t, p) ==
  IF tasks[t] # Absent /\ tasks[t].project = p THEN tasks[t] ELSE Absent

TasksOf(p) == {t \in Tasks : FindByIdAndProject(t, p) # Absent}

\* The left join of a project with its tasks, as the response mapper shapes
\* it: the owner is left out.
FindDetailByIdAndOwner(p, u) ==
  IF FindByIdAndOwner(p, u) = Absent THEN Absent
  ELSE [cols  |-> projects[p].cols,
        tasks |-> [t \in Tasks |-> IF t \in TasksOf(p) THEN tasks[t].cols
                                                       ELSE Absent]]

ProjectsOf(u) == {p \in Projects : FindByIdAndOwner(p, u) # Absent}

-----------------------------------------------------------------------------
\* Entities in memory.

\* The fields of an update DTO that are given, assigned to an entity.
Assign(row, change) ==
  [row EXCEPT !.cols = [c \in DOMAIN row.cols |->
     IF change[c] = Absent THEN row.cols[c] ELSE change[c]]]

\* The columns save() writes: those in which the entity differs from the row
\* it has just loaded, whoever made the difference.
Dirty(entity, fresh) ==
  {c \in DOMAIN entity.cols : entity.cols[c] # fresh.cols[c]}

Overlay(current, entity, columns) ==
  [current EXCEPT !.cols = [c \in DOMAIN current.cols |->
     IF c \in columns THEN entity.cols[c] ELSE current.cols[c]]]

\* Nothing differs: save() returns without a statement.
NothingToSave(entity, fresh) == fresh # Absent /\ Dirty(entity, fresh) = {}

\* The row after save() has flushed the entity.  An UPDATE of a row that is
\* gone matches nothing and is no error; an INSERT of a row that save() did
\* not find puts it back under its old id.
Flushed(current, entity, fresh) ==
  IF fresh = Absent THEN entity
  ELSE IF current = Absent THEN Absent
  ELSE Overlay(current, entity, Dirty(entity, fresh))

-----------------------------------------------------------------------------
\* Statements that change rows, each with the constraint that can reject it.

UnusedProjects == {p \in Projects : creator[p] = Absent}
UnusedTasks == {t \in Tasks : home[t] = Absent}

InsertProjectRow(p, u, cols) ==
  /\ projects' = [projects EXCEPT ![p] = [owner |-> u, cols |-> cols]]
  /\ creator' = [creator EXCEPT ![p] = u]
  /\ UNCHANGED <<tasks, home>>

\* Mutant: the foreign key is missing.
BugNoForeignKey(p) == TRUE

\* FK_tasks_project_id_projects_id
ParentExists(p) == projects[p] # Absent

InsertTaskRow(t, p, cols) ==
  /\ tasks' = [tasks EXCEPT ![t] = [project |-> p, cols |-> cols]]
  /\ home' = [home EXCEPT ![t] = p]
  /\ UNCHANGED <<projects, creator>>

\* An INSERT is rejected if the id exists again, and a row that is written,
\* not one that is gone, if it would have a null in a NOT NULL column.
RowStorable(row) == row # Absent => Storable(row.cols)

ProjectFlushAccepted(p, entity, fresh) ==
  /\ fresh = Absent => projects[p] = Absent
  /\ RowStorable(Flushed(projects[p], entity, fresh))

FlushProjectRow(p, entity, fresh) ==
  /\ projects' = [projects EXCEPT ![p] = Flushed(projects[p], entity, fresh)]
  /\ UNCHANGED <<tasks, creator, home>>

TaskFlushAccepted(t, entity, fresh) ==
  /\ fresh = Absent => tasks[t] = Absent /\ ParentExists(entity.project)
  /\ RowStorable(Flushed(tasks[t], entity, fresh))

FlushTaskRow(t, entity, fresh) ==
  /\ tasks' = [tasks EXCEPT ![t] = Flushed(tasks[t], entity, fresh)]
  /\ UNCHANGED <<projects, creator, home>>

\* Mutant: the foreign key does not cascade (and does not restrict).
BugNoCascade(p) ==
  /\ projects' = [projects EXCEPT ![p] = Absent]
  /\ UNCHANGED <<tasks, creator, home>>

\* ON DELETE CASCADE: the tasks go with their project.
DeleteProjectRow(p) ==
  /\ projects' = [projects EXCEPT ![p] = Absent]
  /\ tasks' = [t \in Tasks |-> IF t \in TasksOf(p) THEN Absent ELSE tasks[t]]
  /\ UNCHANGED <<creator, home>>

DeleteTaskRow(t) ==
  /\ tasks' = [tasks EXCEPT ![t] = Absent]
  /\ UNCHANGED <<projects, creator, home>>

InitDb ==
  /\ projects = [p \in Projects |-> Absent]
  /\ tasks = [t \in Tasks |-> Absent]
  /\ creator = [p \in Projects |-> Absent]
  /\ home = [t \in Tasks |-> Absent]
=============================================================================
