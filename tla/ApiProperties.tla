----------------------------- MODULE ApiProperties -----------------------------
(***************************************************************************)
(* What is claimed of ProjectTaskApi.  The first part holds under every    *)
(* interleaving and every failure; the second holds while requests do not  *)
(* overlap, and the runs show which of it concurrent requests break.       *)
(***************************************************************************)
EXTENDS ProjectTaskApi

Codes == {0, 200, 201, 204, 404, 500}
Events == [type : {"TASK_CREATED", "TASK_STATUS_CHANGED"},
           user : Users, project : Projects, task : Tasks]

\* The operations whose handler passes through a label.
OpsAt(label) ==
  CASE label = "insert" -> {"createProject", "createTask"}
    [] label = "query" -> {"listProjects", "listTasks"}
    [] label \in {"cacheGet", "findDetail", "cacheSet"} -> {"getDetail"}
    [] label = "requireTask" -> {"getTask", "updateTask", "deleteTask"}
    [] label \in {"load", "save"} -> {"updateProject", "updateTask"}
    [] label = "remove" -> {"deleteProject", "deleteTask"}
    [] label = "invalidate" -> {"updateProject", "deleteProject",
                                "createTask", "updateTask", "deleteTask"}
    [] label = "publish" -> {"createTask", "updateTask"}
    [] label = "requireOwnedProject" ->
         AllOps \ {"createProject", "listProjects", "getDetail"}
    [] OTHER -> AllOps

DbTypeOK ==
  /\ projects \in [Projects -> ProjectRows \cup {Absent}]
  /\ tasks \in [Tasks -> TaskRows \cup {Absent}]
  /\ creator \in [Projects -> Users \cup {Absent}]
  /\ home \in [Tasks -> Projects \cup {Absent}]

RedisTypeOK ==
  /\ cache \in [Users -> [Projects -> Details \cup {Absent}]]
  /\ cacheUp \in [Instances -> BOOLEAN]
  /\ queueUp \in [Instances -> BOOLEAN]
  /\ events \subseteq Events

Entities == ProjectEntities \cup TaskEntities \cup Details \cup {Absent}

ReqTypeOK ==
  /\ pc \in [Reqs -> Labels]
  /\ call \in [Reqs -> Calls \cup {Absent}]
  /\ local \in [Reqs -> [entity : Entities, fresh : Entities,
                         prev : Given \cup {Absent}]]
  /\ reply \in [Reqs -> [code : Codes, ids : SUBSET (Projects \cup Tasks)]]

HistoryTypeOK ==
  /\ suspect \subseteq Projects
  /\ marks \in [Reqs -> SUBSET {"raced", "late", "moved", "told"}]
  /\ buried \subseteq Projects \cup Tasks

\* What a handler about to save holds: an entity of the kind its operation
\* works on, with the owner (the parent) it was looked up by.
HoldsProject(r) ==
  /\ call[r].op = "updateProject"
  /\ local[r].entity \in ProjectEntities
  /\ local[r].entity.owner = call[r].user

HoldsTask(r) ==
  /\ call[r].op = "updateTask"
  /\ local[r].entity \in TaskEntities
  /\ local[r].entity.project = call[r].proj

\* A handler waits only for a call that the code of its operation makes,
\* holding what that code holds.
HandlerOK(r) ==
  /\ call[r] \in Calls
  /\ call[r].op \in OpsAt(pc[r])
  /\ pc[r] \in {"load", "save"} => HoldsProject(r) \/ HoldsTask(r)
  /\ pc[r] = "cacheSet" => local[r].entity \in Details
  /\ pc[r] \in {"invalidate", "publish"} /\ call[r].op = "createTask" =>
       call[r].task \in Tasks

HandlersOK == \A r \in Reqs : pc[r] # "idle" => HandlerOK(r)

\* Every variable has its type, and every handler is where its operation may
\* be (the awaits of projects.service.ts and tasks.service.ts).
TypeOK ==
  /\ DbTypeOK
  /\ RedisTypeOK
  /\ ReqTypeOK
  /\ HistoryTypeOK
  /\ HandlersOK

-----------------------------------------------------------------------------
\* Under every interleaving and every failure.

\* A task row always has its project's row: neither the delete of a project
\* while a task of it is being created or saved, nor save() putting a task
\* back, leaves an orphan (FK_tasks_project_id_projects_id, ON DELETE CASCADE).
NoOrphanTasks ==
  \A t \in Tasks : tasks[t] # Absent => projects[tasks[t].project] # Absent

\* Rows never change hands: a project row is its creator's, a task row is in
\* the project it was created in, also after save() has put a deleted row back.
RowsKeepTheirOrigin ==
  /\ \A p \in Projects : projects[p] # Absent => projects[p].owner = creator[p]
  /\ \A t \in Tasks : tasks[t] # Absent => tasks[t].project = home[t]

\* The cache key of user u and project p only ever holds u's own project and
\* tasks created in it.
CacheIsolation ==
  \A u \in Users, p \in Projects : cache[u][p] # Absent =>
    /\ creator[p] = u
    /\ \A t \in TasksIn(cache[u][p]) : home[t] = p

Success == {200, 201, 204}

\* The project (the task) a request names, if it names one, is the caller's
\* (is in that project).
OwnProject(c) == c.proj # Absent => creator[c.proj] = c.user
OwnTask(c) == c.task # Absent => home[c.task] = c.proj

OwnId(x, u) ==
  \/ x \in Projects /\ creator[x] = u
  \/ x \in Tasks /\ home[x] \in Projects /\ creator[home[x]] = u

\* A request that succeeds named a project of the caller's and, if it named a
\* task, a task of that project.
SuccessIsOwn(r) ==
  reply[r].code \in Success => OwnProject(call[r]) /\ OwnTask(call[r])

\* A response body shows no other user's project or task, whether it comes
\* from the database or from the cache.
BodyIsOwn(r) == \A x \in reply[r].ids : OwnId(x, call[r].user)

\* Ownership, which every query of the services is scoped by.
OwnerIsolation ==
  /\ RowsKeepTheirOrigin
  /\ CacheIsolation
  /\ \A r \in Reqs : SuccessIsOwn(r) /\ BodyIsOwn(r)

\* The inductive form of OwnerIsolation.  The check a handler made at its
\* start stays true to its end, although rows come and go in between, because
\* the owner of an id and the project of a task id never change; and what a
\* handler holds for the cache was read from the caller's own project.
PastOwnerCheck == {"requireTask", "load", "save", "insert", "remove", "query",
                   "cacheSet", "invalidate", "publish"}
PastTaskCheck == {"load", "save", "remove", "invalidate", "publish"}

TasksCreatedIn(doc, p) == \A t \in TasksIn(doc) : home[t] = p

ChecksStillHold(r) ==
  /\ pc[r] \in PastOwnerCheck => OwnProject(call[r])
  /\ pc[r] \in PastTaskCheck => OwnTask(call[r])
  /\ pc[r] = "cacheSet" => TasksCreatedIn(local[r].entity, call[r].proj)
  /\ pc[r] # "done" => reply[r] = NoReply

OwnershipInv ==
  /\ OwnerIsolation
  /\ \A r \in Reqs : ChecksStillHold(r)

\* The row of project p or of a task of p differs in the next state.
Touched(p) ==
  \/ projects'[p] # projects[p]
  \/ \E t \in Tasks : home'[t] = p /\ tasks'[t] # tasks[t]

\* Only a request of the creator of a project changes the project's row or a
\* row of its tasks, however long ago the handler checked the ownership.
OnlyOwnersWrite ==
  [][\A p \in Projects : Touched(p) =>
       \E r \in Reqs : /\ pc'[r] # pc[r]
                       /\ pc[r] \in {"insert", "save", "remove"}
                       /\ call[r].user = creator'[p]]_vars

\* A cache entry that is not what the database holds.
Stale(u, p) ==
  cache[u][p] \notin {Absent, FindDetailByIdAndOwner(p, u)}

\* An entry is out of date only while a mutation of the project is on its way
\* to the invalidation, or because a commit overtook the read it was filled
\* from, or because an invalidation was lost (no Redis, a commit that was not
\* acknowledged, a crash).  Any mutation that forgets to invalidate breaks it.
StaleOnlyForACause ==
  \A u \in Users, p \in Projects : Stale(u, p) =>
    \/ p \in suspect
    \/ \E r \in Reqs : /\ pc[r] = "invalidate"
                       /\ call[r].user = u
                       /\ call[r].proj = p

\* Every event the queue accepts names a task that was committed, the project
\* it was created in and that project's owner.
EventsAreTrue ==
  \A e \in events : home[e.task] = e.project /\ creator[e.project] = e.user

\* A task that was created is announced by TASK_CREATED, also when it or its
\* project is deleted meanwhile, unless an instance has lost its queue (or has
\* crashed, or a commit was not acknowledged: there is no outbox) ...
Announced(t) ==
  \/ \E e \in events : e.type = "TASK_CREATED" /\ e.task = t
  \/ \E i \in Instances : ~queueUp[i]
  \/ \E r \in Reqs : /\ pc[r] \in {"invalidate", "publish"}
                     /\ call[r].op = "createTask"
                     /\ call[r].task = t

\* ... and it is announced once: no handler is about to do it again.
AnnouncedAlready(r) ==
  pc[r] = "publish" /\ EventOf(r).type = "TASK_CREATED" /\ EventOf(r) \in events

\* Every task that was ever created is announced, and only once, whatever is
\* written or deleted while its handler is on the way to publish().
CreationsAnnouncedOnce ==
  /\ \A t \in Tasks : home[t] # Absent => Announced(t)
  /\ \A r \in Reqs : ~AnnouncedAlready(r)

Boards ==
  INSTANCE PrivateBoards WITH
    board <- [u \in Users |->
                [p \in Projects |-> FindDetailByIdAndOwner(p, u)]],
    owner <- creator,
    parent <- home

\* The database under concurrent handlers behaves as private boards do, one
\* project of one user changing at a time.
ImplementsPrivateBoards == Boards!Spec

\* Every accepted request is answered, or its instance dies, so that its slot
\* is free again: neither a lost Redis client or queue nor a row that another
\* request has deleted meanwhile leaves a handler waiting.
EveryRequestEnds == \A r \in Reqs : []<>(pc[r] = "idle")

-----------------------------------------------------------------------------
\* While requests do not overlap.

\* A project or task whose DELETE has been answered with 204 is not found by
\* any request that starts later (docs: 404; test/projects.e2e-spec.ts).
DeletedIsNotFound ==
  \A r \in Reqs :
    pc[r] = "done" /\ "late" \in marks[r] => reply[r].code = 404

\* A task update that was answered published TASK_STATUS_CHANGED exactly if
\* its commit changed the status.
StatusEventIffMoved ==
  \A r \in Reqs :
    pc[r] = "done" /\ call[r].op = "updateTask" /\ reply[r].code = 200 =>
      ("told" \in marks[r] <=> "moved" \in marks[r])

\* While nothing fails, a request is answered with 500 only for an explicit
\* null in a field whose column is NOT NULL (@IsOptional accepts it, and the
\* services assign it), and a request with such a null changes nothing: it is
\* answered with 500, or with 404 by a check that comes first.
CarriesNull(c) == c.change # Absent /\ ~Storable(c.change)

OnlyNullGets500 ==
  \A r \in Reqs : pc[r] = "done" =>
    /\ reply[r].code = 500 => CarriesNull(call[r])
    /\ CarriesNull(call[r]) => reply[r].code \in {404, 500}
=============================================================================
