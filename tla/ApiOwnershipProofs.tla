-------------------------- MODULE ApiOwnershipProofs --------------------------
(***************************************************************************)
(* Proofs that no task is ever without its project, that every user only   *)
(* ever reads and writes projects and tasks of their own, and that the     *)
(* database, seen from outside, is the private boards of its users.        *)
(***************************************************************************)
EXTENDS ApiProofs

-----------------------------------------------------------------------------
\* The only steps that change a table.
DbStep(r) ==
  \/ InsertProject(r) \/ InsertTask(r) \/ SaveProject(r) \/ SaveTask(r)
  \/ RemoveProject(r) \/ RemoveTask(r)

LEMMA DbSteps ==
  ASSUME [Next]_vars
  PROVE  UNCHANGED dbVars \/ \E r \in Reqs : DbStep(r)
<1>1. ASSUME NEW r \in Reqs, Accept(r) \/ Step(r), ~DbStep(r)
      PROVE  UNCHANGED dbVars
  BY <1>1 DEF Step, DbStep, Accept, RequireOwnedProject, RequireTask, Load,
       Invalidate, Publish, CacheGet, FindDetail, CacheSet, Query, Respond
<1>2. ASSUME Environment PROVE UNCHANGED dbVars
  BY <1>2 DEF Environment, DbError, Reject, Expire, DropCacheClient, DropQueue,
       Restart
<1>3. ASSUME UNCHANGED vars PROVE UNCHANGED dbVars
  BY <1>3 DEF vars
<1>4. QED BY <1>1, <1>2, <1>3 DEF Next

\* What each of them does to the tables.
LEMMA InsertProjectRows ==
  ASSUME TypeOK, NEW r \in Reqs, InsertProject(r)
  PROVE  \/ UNCHANGED dbVars
         \/ \E p \in Projects :
              /\ creator[p] = Absent
              /\ projects' = [projects EXCEPT ![p] =
                   [owner |-> call[r].user, cols |-> call[r].change]]
              /\ creator' = [creator EXCEPT ![p] = call[r].user]
              /\ UNCHANGED <<tasks, home>>
              /\ call[r].user \in Users
              /\ [owner |-> call[r].user, cols |-> call[r].change] \in ProjectRows
<1>1. /\ call[r].user \in Users
      /\ Storable(call[r].change) => call[r].change \in ProjectData
  BY AtLabel, CallFields DEF InsertProject, NewProjects, ProjectData
<1>2. QED BY <1>1 DEF InsertProject, UnusedProjects, InsertProjectRow,
                      ProjectRows, Reject

LEMMA InsertTaskRows ==
  ASSUME TypeOK, NEW r \in Reqs, InsertTask(r)
  PROVE  \/ UNCHANGED dbVars
         \/ \E t \in Tasks :
              /\ home[t] = Absent
              /\ projects[call[r].proj] # Absent
              /\ call[r].proj \in Projects
              /\ tasks' = [tasks EXCEPT ![t] =
                   [project |-> call[r].proj, cols |-> call[r].change]]
              /\ home' = [home EXCEPT ![t] = call[r].proj]
              /\ UNCHANGED <<projects, creator>>
              /\ [project |-> call[r].proj, cols |-> call[r].change] \in TaskRows
<1>1. /\ call[r].proj \in Projects
      /\ Storable(call[r].change) => call[r].change \in TaskData
  BY AtLabel, CallFields DEF InsertTask, NewTasks, TaskData
<1>2. QED BY <1>1 DEF InsertTask, UnusedTasks, ParentExists, InsertTaskRow,
                      TaskRows, Reject

LEMMA SaveProjectRows ==
  ASSUME TypeOK, NEW r \in Reqs, SaveProject(r)
  PROVE  \/ UNCHANGED dbVars
         \/ /\ call[r].proj \in Projects
            /\ call[r].user \in Users
            /\ local[r].entity \in ProjectEntities
            /\ local[r].entity.owner = call[r].user
            /\ ProjectFlushAccepted(call[r].proj, local[r].entity, local[r].fresh)
            /\ projects' = [projects EXCEPT ![call[r].proj] =
                 Flushed(projects[call[r].proj], local[r].entity, local[r].fresh)]
            /\ UNCHANGED <<tasks, creator, home>>
<1>1. /\ call[r].proj \in Projects
      /\ call[r].user \in Users
      /\ local[r].entity \in ProjectEntities
      /\ local[r].entity.owner = call[r].user
  BY AtLabel, CallFields DEF SaveProject, HandlerOK, HoldsProject, HoldsTask
<1>2. QED BY <1>1 DEF SaveProject, FlushProjectRow, Reject

LEMMA SaveTaskRows ==
  ASSUME TypeOK, NEW r \in Reqs, SaveTask(r)
  PROVE  \/ UNCHANGED dbVars
         \/ /\ call[r].task \in Tasks
            /\ call[r].proj \in Projects
            /\ local[r].entity \in TaskEntities
            /\ local[r].entity.project = call[r].proj
            /\ TaskFlushAccepted(call[r].task, local[r].entity, local[r].fresh)
            /\ tasks' = [tasks EXCEPT ![call[r].task] =
                 Flushed(tasks[call[r].task], local[r].entity, local[r].fresh)]
            /\ UNCHANGED <<projects, creator, home>>
<1>1. /\ call[r].task \in Tasks
      /\ call[r].proj \in Projects
      /\ local[r].entity \in TaskEntities
      /\ local[r].entity.project = call[r].proj
  BY AtLabel, CallFields DEF SaveTask, HandlerOK, HoldsProject, HoldsTask
<1>2. QED BY <1>1 DEF SaveTask, FlushTaskRow, Reject

LEMMA RemoveRows ==
  ASSUME TypeOK, NEW r \in Reqs, RemoveProject(r) \/ RemoveTask(r)
  PROVE  /\ UNCHANGED <<creator, home>>
         /\ \/ /\ call[r].proj \in Projects
               /\ projects' = [projects EXCEPT ![call[r].proj] = Absent]
               /\ tasks' = [t \in Tasks |-> IF t \in TasksOf(call[r].proj)
                                            THEN Absent ELSE tasks[t]]
            \/ /\ call[r].task \in Tasks
               /\ tasks' = [tasks EXCEPT ![call[r].task] = Absent]
               /\ UNCHANGED projects
<1>1. CASE RemoveProject(r)
  BY <1>1, AtLabel, CallFields DEF RemoveProject, DeleteProjectRow
<1>2. CASE RemoveTask(r)
  BY <1>2, AtLabel, CallFields DEF RemoveTask, DeleteTaskRow
<1>3. QED BY <1>1, <1>2

-----------------------------------------------------------------------------
\* No orphans.

LEMMA NoOrphansStep ==
  ASSUME TypeOK, NoOrphanTasks, [Next]_vars
  PROVE  NoOrphanTasks'
<1> SUFFICES ASSUME NEW t \in Tasks, tasks'[t] # Absent
             PROVE  projects'[tasks'[t].project] # Absent
  BY DEF NoOrphanTasks
<1>1. tasks[t] # Absent => tasks[t] \in TaskRows /\ tasks[t].project \in Projects
                           /\ projects[tasks[t].project] # Absent
  BY DEF TypeOK, DbTypeOK, NoOrphanTasks, TaskRows
<1>2. CASE UNCHANGED dbVars
  BY <1>1, <1>2 DEF dbVars
<1>3. ASSUME NEW r \in Reqs, InsertProject(r), ~UNCHANGED dbVars
      PROVE  projects'[tasks'[t].project] # Absent
  <2>1. PICK p \in Projects, row \in ProjectRows :
          projects' = [projects EXCEPT ![p] = row] /\ UNCHANGED tasks
    BY <1>3, InsertProjectRows
  <2>2. row # Absent
    BY AbsentIsNoValue
  <2>3. QED BY <1>1, <2>1, <2>2 DEF TypeOK, DbTypeOK
<1>4. ASSUME NEW r \in Reqs, InsertTask(r)
      PROVE  projects'[tasks'[t].project] # Absent
  <2>1. CASE UNCHANGED dbVars BY <1>2, <2>1
  <2>2. CASE ~UNCHANGED dbVars
    <3>1. PICK n \in Tasks :
            /\ projects[call[r].proj] # Absent
            /\ tasks' = [tasks EXCEPT ![n] =
                 [project |-> call[r].proj, cols |-> call[r].change]]
            /\ UNCHANGED projects
      BY <1>4, <2>2, InsertTaskRows
    <3>2. QED BY <1>1, <3>1 DEF TypeOK, DbTypeOK
  <2>3. QED BY <2>1, <2>2
<1>5. ASSUME NEW r \in Reqs, SaveProject(r)
      PROVE  projects'[tasks'[t].project] # Absent
  <2>1. CASE UNCHANGED dbVars BY <1>2, <2>1
  <2>2. CASE ~UNCHANGED dbVars
    <3>1. projects[call[r].proj] # Absent =>
            Flushed(projects[call[r].proj], local[r].entity, local[r].fresh) # Absent
      BY <1>5, <2>2, SaveProjectRows, FlushedProject DEF TypeOK, DbTypeOK
    <3>2. QED BY <1>1, <1>5, <2>2, <3>1, SaveProjectRows DEF TypeOK, DbTypeOK
  <2>3. QED BY <2>1, <2>2
<1>6. ASSUME NEW r \in Reqs, SaveTask(r)
      PROVE  projects'[tasks'[t].project] # Absent
  <2>1. CASE UNCHANGED dbVars BY <1>2, <2>1
  <2>2. CASE ~UNCHANGED dbVars /\ t # call[r].task
    BY <1>1, <1>6, <2>2, SaveTaskRows DEF TypeOK, DbTypeOK
  <2>3. CASE ~UNCHANGED dbVars /\ t = call[r].task
    <3> DEFINE e == local[r].entity
               f == local[r].fresh
    <3>1. /\ e \in TaskEntities
          /\ TaskFlushAccepted(t, e, f)
          /\ tasks'[t] = Flushed(tasks[t], e, f)
          /\ projects' = projects
      BY <1>6, <2>3, SaveTaskRows DEF TypeOK, DbTypeOK
    <3>2. /\ tasks'[t].project = IF f = Absent THEN e.project ELSE tasks[t].project
          /\ f = Absent \/ tasks[t] # Absent
      BY <3>1, FlushedTask DEF TypeOK, DbTypeOK
    <3>3. CASE f = Absent
      BY <3>1, <3>2, <3>3 DEF TaskFlushAccepted, ParentExists
    <3>4. CASE f # Absent
      BY <1>1, <3>1, <3>2, <3>4
    <3>5. QED BY <3>3, <3>4
  <2>4. QED BY <2>1, <2>2, <2>3
<1>7. ASSUME NEW r \in Reqs, RemoveProject(r) \/ RemoveTask(r)
      PROVE  projects'[tasks'[t].project] # Absent
  BY <1>1, <1>7, RemoveRows DEF TypeOK, DbTypeOK, TasksOf, FindByIdAndProject
<1>8. QED BY <1>2, <1>3, <1>4, <1>5, <1>6, <1>7, DbSteps DEF DbStep

\* A task row always has its project's row, whatever order creates, saves and
\* deletes of the two commit in.
THEOREM NoOrphans == Spec => []NoOrphanTasks
<1>1. Init => NoOrphanTasks
  BY DEF Init, InitDb, NoOrphanTasks
<1>2. TypeOK /\ NoOrphanTasks /\ [Next]_vars => NoOrphanTasks'
  BY NoOrphansStep
<1>3. QED BY <1>1, <1>2, TypeCorrect, PTL DEF Spec

-----------------------------------------------------------------------------
\* Ownership.

\* An id that has been given out stays with its user (its project).
IdsStable ==
  /\ \A p \in Projects : creator[p] # Absent => creator'[p] = creator[p]
  /\ \A t \in Tasks : home[t] # Absent => home'[t] = home[t]

LEMMA IdsNeverMove ==
  ASSUME TypeOK, [Next]_vars
  PROVE  IdsStable
<1>1. CASE UNCHANGED dbVars
  BY <1>1 DEF dbVars, IdsStable
<1>2. ASSUME NEW r \in Reqs, InsertProject(r) PROVE IdsStable
  BY <1>1, <1>2, InsertProjectRows DEF IdsStable, TypeOK, DbTypeOK
<1>3. ASSUME NEW r \in Reqs, InsertTask(r) PROVE IdsStable
  BY <1>1, <1>3, InsertTaskRows DEF IdsStable, TypeOK, DbTypeOK
<1>4. ASSUME NEW r \in Reqs,
             SaveProject(r) \/ SaveTask(r) \/ RemoveProject(r) \/ RemoveTask(r)
      PROVE  IdsStable
  BY <1>1, <1>4, SaveProjectRows, SaveTaskRows, RemoveRows DEF IdsStable
<1>5. QED BY <1>1, <1>2, <1>3, <1>4, DbSteps DEF DbStep

\* What is owned stays owned.
LEMMA OwnStable ==
  ASSUME IdsStable, NEW c \in Calls
  PROVE  /\ OwnProject(c) => OwnProject(c)'
         /\ OwnTask(c) => OwnTask(c)'
         /\ \A x : OwnId(x, c.user) => OwnId(x, c.user)'
         /\ \A doc : c.proj \in Projects /\ TasksCreatedIn(doc, c.proj) =>
              TasksCreatedIn(doc, c.proj)'
<1>1. /\ c.user \in Users /\ c.user # Absent
      /\ c.proj \in Projects \cup {Absent}
      /\ c.task \in Tasks \cup {Absent}
      /\ c.task # Absent => c.proj \in Projects
      /\ \A p \in Projects : p # Absent
  BY CallFields, AbsentIsNoValue
<1>2. OwnProject(c) => OwnProject(c)'
  BY <1>1 DEF OwnProject, IdsStable
<1>3. OwnTask(c) => OwnTask(c)'
  BY <1>1 DEF OwnTask, IdsStable
<1>4. \A x : OwnId(x, c.user) => OwnId(x, c.user)'
  BY <1>1 DEF OwnId, IdsStable
<1>5. ASSUME NEW doc, c.proj \in Projects, TasksCreatedIn(doc, c.proj)
      PROVE  TasksCreatedIn(doc, c.proj)'
  BY <1>1, <1>5 DEF TasksCreatedIn, TasksIn, IdsStable
<1>6. QED BY <1>2, <1>3, <1>4, <1>5

HandlerOwn(r) == SuccessIsOwn(r) /\ BodyIsOwn(r) /\ ChecksStillHold(r)

\* A handler at rest is trivially so.
LEMMA OwnIdle ==
  ASSUME NEW q, pc[q] = "idle", reply[q] = NoReply
  PROVE  HandlerOwn(q)
  BY DEF HandlerOwn, SuccessIsOwn, BodyIsOwn, ChecksStillHold, NoReply,
         Success, PastOwnerCheck, PastTaskCheck

LEMMA OwnFrame ==
  ASSUME TypeOK, IdsStable, NEW q \in Reqs, HandlerOwn(q),
         pc'[q] = pc[q], call'[q] = call[q], local'[q] = local[q],
         reply'[q] = reply[q]
  PROVE  HandlerOwn(q)'
<1>1. CASE pc[q] = "idle"
  BY <1>1 DEF HandlerOwn, SuccessIsOwn, BodyIsOwn, ChecksStillHold, NoReply,
              Success, PastOwnerCheck, PastTaskCheck
<1>2. CASE pc[q] # "idle"
  <2>1. call[q] \in Calls
    BY <1>2, AtLabel
  <2>2. SuccessIsOwn(q)'
    BY <2>1, OwnStable DEF HandlerOwn, SuccessIsOwn, OwnProject, OwnTask
  <2>3. BodyIsOwn(q)'
    BY <2>1, OwnStable DEF HandlerOwn, BodyIsOwn, OwnId
  <2>4. ChecksStillHold(q)'
    <3>1. pc[q] = "cacheSet" => call[q].proj \in Projects
      BY <1>2, AtLabel, CallFields DEF OpsAt
    <3>2. QED BY <2>1, <3>1, OwnStable
      DEF HandlerOwn, ChecksStillHold, OwnProject, OwnTask, TasksCreatedIn
  <2>5. QED BY <2>2, <2>3, <2>4 DEF HandlerOwn
<1>3. QED BY <1>1, <1>2

LEMMA OwnFinish ==
  ASSUME TypeOK, IdsStable, \A q \in Reqs : HandlerOwn(q),
         NEW r \in Reqs, NEW code, NEW ids, Finish(r, code, ids),
         code \in Success => OwnProject(call[r])' /\ OwnTask(call[r])',
         \A x \in ids : OwnId(x, call[r].user)'
  PROVE  \A q \in Reqs : HandlerOwn(q)'
<1>1. /\ pc' = [pc EXCEPT ![r] = "done"]
      /\ call' = call
      /\ local' = [local EXCEPT ![r] = Blank]
      /\ reply' = [reply EXCEPT ![r] = [code |-> code, ids |-> ids]]
  BY DEF Finish, Goto
<1>2. ASSUME NEW q \in Reqs, q # r PROVE HandlerOwn(q)'
  BY <1>1, <1>2, OwnFrame DEF TypeOK, ReqTypeOK
<1>3. HandlerOwn(r)'
  <2>1. /\ pc'[r] = "done"
        /\ call'[r] = call[r]
        /\ reply'[r] = [code |-> code, ids |-> ids]
    BY <1>1 DEF TypeOK, ReqTypeOK
  <2>2. SuccessIsOwn(r)'
    BY <1>1, <2>1 DEF SuccessIsOwn, OwnProject, OwnTask
  <2>3. BodyIsOwn(r)'
    BY <1>1, <2>1 DEF BodyIsOwn, OwnId
  <2>4. ChecksStillHold(r)'
    BY <2>1 DEF ChecksStillHold, PastOwnerCheck, PastTaskCheck
  <2>5. QED BY <2>2, <2>3, <2>4 DEF HandlerOwn
<1>4. QED BY <1>2, <1>3

LEMMA OwnMove ==
  ASSUME TypeOK, IdsStable, \A q \in Reqs : HandlerOwn(q),
         NEW r \in Reqs, pc[r] # "done",
         NEW label, label # "done", Goto(r, label),
         NEW c, call' = [call EXCEPT ![r] = c],
         NEW l, local' = [local EXCEPT ![r] = l],
         UNCHANGED reply,
         label \in PastOwnerCheck => OwnProject(c)',
         label \in PastTaskCheck => OwnTask(c)',
         label = "cacheSet" => TasksCreatedIn(l.entity, c.proj)'
  PROVE  \A q \in Reqs : HandlerOwn(q)'
<1>1. ASSUME NEW q \in Reqs, q # r PROVE HandlerOwn(q)'
  BY <1>1, OwnFrame DEF TypeOK, ReqTypeOK, Goto
<1>2. HandlerOwn(r)'
  <2>1. pc'[r] = label /\ call'[r] = c /\ local'[r] = l /\ reply'[r] = NoReply
    BY DEF TypeOK, ReqTypeOK, Goto, HandlerOwn, ChecksStillHold
  <2>2. SuccessIsOwn(r)' /\ BodyIsOwn(r)'
    BY <2>1 DEF SuccessIsOwn, BodyIsOwn, NoReply, Success
  <2>3. ChecksStillHold(r)'
    BY <2>1 DEF ChecksStillHold, OwnProject, OwnTask, TasksCreatedIn
  <2>4. QED BY <2>2, <2>3 DEF HandlerOwn
<1>3. QED BY <1>1, <1>2

-----------------------------------------------------------------------------
\* Rows keep their origin.

LEMMA OriginStep ==
  ASSUME TypeOK, OwnershipInv, [Next]_vars
  PROVE  RowsKeepTheirOrigin'
<1> USE DEF OwnershipInv, OwnerIsolation
<1>1. CASE UNCHANGED dbVars
  BY <1>1 DEF RowsKeepTheirOrigin, dbVars
<1>2. ASSUME NEW r \in Reqs, InsertProject(r), ~UNCHANGED dbVars
      PROVE  RowsKeepTheirOrigin'
  <2>1. PICK p \in Projects :
          /\ projects' = [projects EXCEPT ![p] =
               [owner |-> call[r].user, cols |-> call[r].change]]
          /\ creator' = [creator EXCEPT ![p] = call[r].user]
          /\ UNCHANGED <<tasks, home>>
    BY <1>2, InsertProjectRows
  <2>2. QED BY <2>1 DEF RowsKeepTheirOrigin, TypeOK, DbTypeOK
<1>3. ASSUME NEW r \in Reqs, InsertTask(r), ~UNCHANGED dbVars
      PROVE  RowsKeepTheirOrigin'
  <2>1. PICK t \in Tasks :
          /\ tasks' = [tasks EXCEPT ![t] =
               [project |-> call[r].proj, cols |-> call[r].change]]
          /\ home' = [home EXCEPT ![t] = call[r].proj]
          /\ UNCHANGED <<projects, creator>>
    BY <1>3, InsertTaskRows
  <2>2. QED BY <2>1 DEF RowsKeepTheirOrigin, TypeOK, DbTypeOK
<1>4. ASSUME NEW r \in Reqs, SaveProject(r), ~UNCHANGED dbVars
      PROVE  RowsKeepTheirOrigin'
  <2> DEFINE p == call[r].proj
             row == Flushed(projects[p], local[r].entity, local[r].fresh)
  <2>1. /\ p \in Projects
        /\ local[r].entity \in ProjectEntities
        /\ local[r].entity.owner = call[r].user
        /\ projects' = [projects EXCEPT ![p] = row]
        /\ UNCHANGED <<tasks, creator, home>>
    BY <1>4, SaveProjectRows
  <2>2. creator[p] = call[r].user
    <3>1. pc[r] = "save" BY <1>4 DEF SaveProject
    <3>2. p # Absent BY <2>1, AbsentIsNoValue
    <3>3. QED BY <3>1, <3>2 DEF ChecksStillHold, PastOwnerCheck, OwnProject
  <2>3. row # Absent => row.owner = creator[p]
    <3>1. row # Absent =>
            /\ row.owner = IF local[r].fresh = Absent THEN local[r].entity.owner
                                                      ELSE projects[p].owner
            /\ local[r].fresh = Absent \/ projects[p] # Absent
      BY <2>1, FlushedProject DEF TypeOK, DbTypeOK
    <3>2. QED BY <2>1, <2>2, <3>1 DEF RowsKeepTheirOrigin
  <2>4. QED BY <2>1, <2>3 DEF RowsKeepTheirOrigin, TypeOK, DbTypeOK
<1>5. ASSUME NEW r \in Reqs, SaveTask(r), ~UNCHANGED dbVars
      PROVE  RowsKeepTheirOrigin'
  <2> DEFINE t == call[r].task
             row == Flushed(tasks[t], local[r].entity, local[r].fresh)
  <2>1. /\ t \in Tasks
        /\ local[r].entity \in TaskEntities
        /\ local[r].entity.project = call[r].proj
        /\ tasks' = [tasks EXCEPT ![t] = row]
        /\ UNCHANGED <<projects, creator, home>>
    BY <1>5, SaveTaskRows
  <2>2. home[t] = call[r].proj
    <3>1. pc[r] = "save" BY <1>5 DEF SaveTask
    <3>2. t # Absent BY <2>1, AbsentIsNoValue
    <3>3. QED BY <3>1, <3>2 DEF ChecksStillHold, PastTaskCheck, OwnTask
  <2>3. row # Absent => row.project = home[t]
    <3>1. row # Absent =>
            /\ row.project = IF local[r].fresh = Absent THEN local[r].entity.project
                                                        ELSE tasks[t].project
            /\ local[r].fresh = Absent \/ tasks[t] # Absent
      BY <2>1, FlushedTask DEF TypeOK, DbTypeOK
    <3>2. QED BY <2>1, <2>2, <3>1 DEF RowsKeepTheirOrigin
  <2>4. QED BY <2>1, <2>3 DEF RowsKeepTheirOrigin, TypeOK, DbTypeOK
<1>6. ASSUME NEW r \in Reqs, RemoveProject(r) \/ RemoveTask(r)
      PROVE  RowsKeepTheirOrigin'
  BY <1>6, RemoveRows DEF RowsKeepTheirOrigin, TypeOK, DbTypeOK
<1>7. QED BY <1>1, <1>2, <1>3, <1>4, <1>5, <1>6, DbSteps DEF DbStep

-----------------------------------------------------------------------------
\* The cache.

\* A detail the query returns is of the caller's project and tasks in it.
LEMMA DetailIsOwn ==
  ASSUME RowsKeepTheirOrigin, NEW p \in Projects, NEW u \in Users,
         FindDetailByIdAndOwner(p, u) # Absent
  PROVE  /\ creator[p] = u
         /\ TasksCreatedIn(FindDetailByIdAndOwner(p, u), p)
<1>1. projects[p] # Absent /\ projects[p].owner = u
  BY DEF FindDetailByIdAndOwner, FindByIdAndOwner
<1>2. \A t \in TasksOf(p) : home[t] = p
  BY DEF RowsKeepTheirOrigin, TasksOf, FindByIdAndProject
<1>3. ASSUME NEW t \in TasksIn(FindDetailByIdAndOwner(p, u)) PROVE home[t] = p
  <2>1. t \in Tasks /\ t \in TasksOf(p)
    BY <1>3 DEF TasksIn, FindDetailByIdAndOwner
  <2>2. QED BY <1>2, <2>1
<1>4. QED BY <1>1, <1>3 DEF RowsKeepTheirOrigin, TasksCreatedIn

\* What a handler is about to cache is the caller's own.
LEMMA FillIsOwn ==
  ASSUME TypeOK, OwnershipInv, NEW r \in Reqs, pc[r] = "cacheSet"
  PROVE  /\ call[r] \in Calls
         /\ call[r].proj \in Projects
         /\ call[r].user \in Users
         /\ creator[call[r].proj] = call[r].user
         /\ TasksCreatedIn(local[r].entity, call[r].proj)
         /\ OwnTask(call[r])
<1>1. /\ call[r] \in Calls
      /\ call[r].op = "getDetail"
      /\ call[r].proj \in Projects
      /\ call[r].user \in Users
      /\ call[r].task = Absent
  BY AtLabel, CallFields DEF OpsAt
<1>2. call[r].proj # Absent
  BY <1>1, AbsentIsNoValue
<1>3. QED BY <1>1, <1>2 DEF OwnershipInv, ChecksStillHold, PastOwnerCheck,
                            OwnProject, OwnTask

LEMMA CacheIsolationStable ==
  ASSUME TypeOK, CacheIsolation, IdsStable, NEW u \in Users, NEW p \in Projects,
         cache'[u][p] = cache[u][p], cache[u][p] # Absent
  PROVE  creator'[p] = u /\ \A t \in TasksIn(cache'[u][p]) : home'[t] = p
<1>1. creator[p] = u /\ u # Absent /\ p # Absent
  BY AbsentIsNoValue DEF CacheIsolation
<1>2. QED BY <1>1 DEF CacheIsolation, IdsStable, TasksIn

\* The only steps that change the cache.
LEMMA CacheSteps ==
  ASSUME [Next]_vars
  PROVE  \/ UNCHANGED cache
         \/ \E r \in Reqs : Invalidate(r) \/ CacheSet(r)
         \/ \E v \in Users, q \in Projects : Expire(v, q)
  BY DEF Next, Environment, Step, Accept, RequireOwnedProject, RequireTask,
         InsertProject, InsertTask, Load, SaveProject, SaveTask,
         RemoveProject, RemoveTask, Publish, CacheGet, FindDetail, Query,
         Respond, DbError, DropCacheClient, DropQueue, Restart,
         vars, redisVars

LEMMA CacheStep ==
  ASSUME TypeOK, OwnershipInv, [Next]_vars
  PROVE  CacheIsolation'
<1> USE DEF OwnershipInv, OwnerIsolation
<1> SUFFICES ASSUME NEW u \in Users, NEW p \in Projects, cache'[u][p] # Absent
             PROVE  creator'[p] = u /\ \A t \in TasksIn(cache'[u][p]) : home'[t] = p
  BY DEF CacheIsolation, TasksIn
<1>1. IdsStable
  BY IdsNeverMove
<1>2. CASE cache'[u][p] = cache[u][p]
  BY <1>1, <1>2, CacheIsolationStable
<1>3. CASE cache'[u][p] # cache[u][p]
  <2>1. PICK r \in Reqs : CacheSet(r)
    <3>1. ASSUME NEW r \in Reqs, Invalidate(r) PROVE FALSE
      <4>1. call[r].user \in Users /\ call[r].proj \in Projects
        BY <3>1, AtLabel, CallFields DEF Invalidate, OpsAt
      <4>2. QED BY <1>3, <3>1, <4>1 DEF Invalidate, CacheWithout, TypeOK, RedisTypeOK
    <3>2. ASSUME NEW v \in Users, NEW q \in Projects, Expire(v, q) PROVE FALSE
      BY <1>3, <3>2 DEF Expire, TypeOK, RedisTypeOK
    <3>3. QED BY <1>3, <3>1, <3>2, CacheSteps
  <2>2. /\ call[r].user \in Users
        /\ call[r].proj \in Projects
        /\ creator[call[r].proj] = call[r].user
        /\ TasksCreatedIn(local[r].entity, call[r].proj)
    BY <2>1, FillIsOwn DEF CacheSet
  <2>3. /\ u = call[r].user
        /\ p = call[r].proj
        /\ cache'[u][p] = local[r].entity
    BY <1>3, <2>1, <2>2 DEF CacheSet, CacheWith, TypeOK, RedisTypeOK
  <2>4. UNCHANGED <<creator, home>>
    BY <2>1 DEF CacheSet, dbVars
  <2>5. QED BY <2>2, <2>3, <2>4 DEF TasksCreatedIn, TasksIn
<1>4. QED BY <1>2, <1>3

-----------------------------------------------------------------------------
\* The handlers, one lemma per action.

LEMMA AcceptOwn ==
  ASSUME TypeOK, IdsStable, \A q \in Reqs : HandlerOwn(q),
         NEW r \in Reqs, Accept(r)
  PROVE  \A q \in Reqs : HandlerOwn(q)'
<1>1. PICK c \in Requests :
        Goto(r, FirstCall(c.op)) /\ call' = [call EXCEPT ![r] = c]
  BY DEF Accept
<1>2. c \in Calls
  BY DEF Calls
<1>3. FirstCall(c.op) \in PastOwnerCheck => c.proj = Absent
  BY <1>2, CallFields DEF FirstCall, PastOwnerCheck
<1>4. FirstCall(c.op) \notin PastTaskCheck \cup {"cacheSet", "done"}
  BY DEF FirstCall, PastTaskCheck
<1>5. /\ pc[r] # "done"
      /\ local' = [local EXCEPT ![r] = local[r]]
      /\ UNCHANGED reply
  BY DEF Accept, TypeOK, ReqTypeOK
<1>6. FirstCall(c.op) \in PastOwnerCheck => OwnProject(c)'
  BY <1>3 DEF OwnProject
<1>7. QED BY <1>1, <1>4, <1>5, <1>6, OwnMove

LEMMA RespondOwn ==
  ASSUME TypeOK, IdsStable, \A q \in Reqs : HandlerOwn(q),
         NEW r \in Reqs, Respond(r)
  PROVE  \A q \in Reqs : HandlerOwn(q)'
<1>1. ASSUME NEW q \in Reqs, q # r PROVE HandlerOwn(q)'
  BY <1>1, OwnFrame DEF Respond, Vacate, TypeOK, ReqTypeOK
<1>2. pc'[r] = "idle" /\ reply'[r] = NoReply
  BY DEF Respond, Vacate, TypeOK, ReqTypeOK
<1>3. HandlerOwn(r)'
  BY <1>2 DEF HandlerOwn, SuccessIsOwn, BodyIsOwn, ChecksStillHold, NoReply,
              Success, PastOwnerCheck, PastTaskCheck
<1>4. QED BY <1>1, <1>3

\* A refusal shows and claims nothing.
LEMMA RefuseOwn ==
  ASSUME TypeOK, IdsStable, \A q \in Reqs : HandlerOwn(q),
         NEW r \in Reqs, NEW code \in {404, 500}, Finish(r, code, {})
  PROVE  \A q \in Reqs : HandlerOwn(q)'
  BY OwnFinish DEF Success

LEMMA RequireOwnedProjectOwn ==
  ASSUME TypeOK, OwnershipInv, IdsStable, \A q \in Reqs : HandlerOwn(q),
         NEW r \in Reqs, RequireOwnedProject(r)
  PROVE  \A q \in Reqs : HandlerOwn(q)'
<1>c. PICK c : c = call[r]
  OBVIOUS
<1> DEFINE row == FindByIdAndOwner(c.proj, c.user)
<1>1. /\ pc[r] = "requireOwnedProject"
      /\ c \in Calls
      /\ c.proj \in Projects
      /\ c.op \notin {"getTask", "updateTask", "deleteTask", "createTask"} =>
           c.task = Absent
  BY <1>c, AtLabel, CallFields DEF RequireOwnedProject, OpsAt
<1>2. CASE Finish(r, 404, {})
  BY <1>2, RefuseOwn
<1>3. CASE /\ row # Absent
           /\ Goto(r, CallAfterOwned(c.op))
           /\ local' = [local EXCEPT ![r].entity =
                IF c.op = "updateProject" THEN Assign(row, c.change)
                                          ELSE Absent]
           /\ UNCHANGED <<call, reply>>
  <2>1. creator[c.proj] = c.user
    BY <1>1, <1>3 DEF FindByIdAndOwner, OwnershipInv, OwnerIsolation,
                      RowsKeepTheirOrigin
  <2>2. OwnProject(c)'
    BY <1>1, <2>1, OwnStable DEF OwnProject
  <2>3. CallAfterOwned(c.op) \in PastTaskCheck => OwnTask(c)'
    BY <1>1 DEF CallAfterOwned, PastTaskCheck, OwnTask
  <2>4. CallAfterOwned(c.op) \notin {"done", "cacheSet"}
    BY DEF CallAfterOwned
  <2>5. call' = [call EXCEPT ![r] = c] /\ (\E l : local' = [local EXCEPT ![r] = l])
    BY <1>c, <1>3 DEF TypeOK, ReqTypeOK
  <2>6. QED BY <1>1, <1>3, <2>2, <2>3, <2>4, <2>5, OwnMove
<1>4. QED BY <1>c, <1>2, <1>3 DEF RequireOwnedProject

LEMMA RequireTaskOwn ==
  ASSUME TypeOK, OwnershipInv, IdsStable, \A q \in Reqs : HandlerOwn(q),
         NEW r \in Reqs, RequireTask(r)
  PROVE  \A q \in Reqs : HandlerOwn(q)'
<1>c. PICK c : c = call[r]
  OBVIOUS
<1> DEFINE row == FindByIdAndProject(c.task, c.proj)
<1>1. /\ pc[r] = "requireTask"
      /\ c \in Calls
      /\ c.task \in Tasks
      /\ c.proj \in Projects
      /\ OwnProject(c)
      /\ c.proj # Absent
  BY <1>c, AtLabel, CallFields, AbsentIsNoValue
  DEF RequireTask, OpsAt, OwnershipInv, ChecksStillHold, PastOwnerCheck
<1>2. row # Absent => home[c.task] = c.proj
  BY <1>1 DEF FindByIdAndProject, OwnershipInv, OwnerIsolation, RowsKeepTheirOrigin
<1>3. OwnProject(c)' /\ (row # Absent => OwnTask(c)')
  BY <1>1, <1>2, OwnStable DEF OwnTask
<1>4. CASE Finish(r, 404, {})
  BY <1>4, RefuseOwn
<1>5. CASE row # Absent /\ Finish(r, 200, {c.task})
  <2>1. OwnId(c.task, c.user)
    BY <1>1, <1>2, <1>5 DEF OwnId, OwnProject
  <2>2. \A x \in {c.task} : OwnId(x, c.user)'
    BY <1>1, <2>1, OwnStable
  <2>3. call'[r] = c
    BY <1>c, <1>5 DEF Finish
  <2>4. /\ OwnProject(call[r])' /\ OwnTask(call[r])'
        /\ \A x \in {c.task} : OwnId(x, call[r].user)'
    BY <1>3, <1>5, <2>2, <2>3 DEF OwnProject, OwnTask, OwnId
  <2>5. QED BY <1>5, <2>4, OwnFinish
<1>6. ASSUME NEW label \in {"remove", "load"}, NEW l,
             row # Absent, Goto(r, label), UNCHANGED <<call, reply>>,
             local' = [local EXCEPT ![r] = l]
      PROVE  \A q \in Reqs : HandlerOwn(q)'
  <2>1. call' = [call EXCEPT ![r] = c]
    BY <1>c, <1>6 DEF TypeOK, ReqTypeOK
  <2>2. QED BY <1>1, <1>3, <1>6, <2>1, OwnMove
<1>7. UNCHANGED local => local' = [local EXCEPT ![r] = local[r]]
  BY DEF TypeOK, ReqTypeOK
<1>8. QED BY <1>c, <1>4, <1>5, <1>6, <1>7 DEF RequireTask

LEMMA InsertProjectOwn ==
  ASSUME TypeOK, IdsStable, \A q \in Reqs : HandlerOwn(q),
         NEW r \in Reqs, InsertProject(r)
  PROVE  \A q \in Reqs : HandlerOwn(q)'
<1>1. call[r].proj = Absent /\ call[r].task = Absent
  BY AtLabel, CallFields DEF InsertProject
<1>2. ASSUME NEW p \in UnusedProjects,
             InsertProjectRow(p, call[r].user, call[r].change),
             Finish(r, 201, {p})
      PROVE  \A q \in Reqs : HandlerOwn(q)'
  <2>1. p \in Projects /\ creator'[p] = call[r].user /\ call' = call
    BY <1>2 DEF UnusedProjects, InsertProjectRow, TypeOK, DbTypeOK, Finish
  <2>2. OwnId(p, call[r].user)'
    BY <2>1 DEF OwnId
  <2>3. OwnProject(call[r])' /\ OwnTask(call[r])'
    BY <1>1, <2>1 DEF OwnProject, OwnTask
  <2>4. QED BY <1>2, <2>2, <2>3, OwnFinish
<1>3. CASE Finish(r, 500, {})
  BY <1>3, RefuseOwn
<1>4. QED BY <1>2, <1>3 DEF InsertProject, Reject

\* A handler that has committed is still working on what is the caller's.
LEMMA AfterCommitOwn ==
  ASSUME TypeOK, IdsStable, \A q \in Reqs : HandlerOwn(q),
         NEW r \in Reqs, pc[r] # "done", NEW c, AfterCommit(r, c),
         OwnProject(c)', OwnTask(c)'
  PROVE  \A q \in Reqs : HandlerOwn(q)'
<1>1. CASE Finish(r, 500, {})
  BY <1>1, RefuseOwn
<1>2. CASE /\ Goto(r, "invalidate")
           /\ call' = [call EXCEPT ![r] = c]
           /\ UNCHANGED <<local, reply, suspect>>
  <2>1. PICK l : local' = [local EXCEPT ![r] = l]
    BY <1>2 DEF TypeOK, ReqTypeOK
  <2>2. UNCHANGED reply /\ Goto(r, "invalidate")
    BY <1>2
  <2>3. call' = [call EXCEPT ![r] = c] /\ "invalidate" \notin {"done", "cacheSet"}
    BY <1>2
  <2>4. QED BY <2>1, <2>2, <2>3, OwnMove
<1>3. QED BY <1>1, <1>2 DEF AfterCommit

LEMMA InsertTaskOwn ==
  ASSUME TypeOK, OwnershipInv, IdsStable, \A q \in Reqs : HandlerOwn(q),
         NEW r \in Reqs, InsertTask(r)
  PROVE  \A q \in Reqs : HandlerOwn(q)'
<1>1. PICK c : c = call[r]
  OBVIOUS
<1>2. pc[r] = "insert" /\ c \in Calls /\ c.op = "createTask" /\ OwnProject(c)
  BY <1>1, AtLabel DEF InsertTask, OwnershipInv, ChecksStillHold, PastOwnerCheck
<1>3. CASE Reject(r)
  BY <1>3, RefuseOwn DEF Reject
<1>4. ASSUME NEW t \in UnusedTasks,
             InsertTaskRow(t, c.proj, c.change),
             AfterCommit(r, [c EXCEPT !.task = t])
      PROVE  \A q \in Reqs : HandlerOwn(q)'
  <2>1. t \in Tasks
    BY DEF UnusedTasks
  <2>2. PICK d : d = [c EXCEPT !.task = t]
    OBVIOUS
  <2>3. d.task = t /\ d.proj = c.proj /\ d.user = c.user
    BY <1>2, <2>1, <2>2, SavedCall
  <2>4. OwnProject(d)'
    BY <1>2, <1>4, <2>3 DEF OwnProject, InsertTaskRow
  <2>5. OwnTask(d)'
    BY <1>4, <2>1, <2>3 DEF OwnTask, InsertTaskRow, TypeOK, DbTypeOK
  <2>6. AfterCommit(r, d) /\ pc[r] # "done"
    BY <1>2, <1>4, <2>2
  <2>7. QED BY <2>4, <2>5, <2>6, AfterCommitOwn
<1>5. QED BY <1>1, <1>3, <1>4 DEF InsertTask

LEMMA SaveAndRemoveOwn ==
  ASSUME TypeOK, OwnershipInv, IdsStable, \A q \in Reqs : HandlerOwn(q),
         NEW r \in Reqs,
         SaveProject(r) \/ SaveTask(r) \/ RemoveProject(r) \/ RemoveTask(r)
  PROVE  \A q \in Reqs : HandlerOwn(q)'
<1>1. pc[r] \in {"save", "remove"}
  BY DEF SaveProject, SaveTask, RemoveProject, RemoveTask
<1>2. PICK c : c = call[r]
  OBVIOUS
<1>3. c \in Calls /\ OwnProject(c) /\ OwnTask(c)
  BY <1>1, <1>2, AtLabel
  DEF OwnershipInv, ChecksStillHold, PastOwnerCheck, PastTaskCheck
<1>4. OwnProject(c)' /\ OwnTask(c)'
  BY <1>3, OwnStable
<1>5. CASE Reject(r)
  BY <1>5, RefuseOwn DEF Reject
<1>6. CASE AfterCommit(r, c)
  BY <1>1, <1>4, <1>6, AfterCommitOwn
<1>7. QED BY <1>2, <1>5, <1>6
          DEF SaveProject, SaveTask, RemoveProject, RemoveTask

LEMMA LoadOwn ==
  ASSUME TypeOK, OwnershipInv, IdsStable, \A q \in Reqs : HandlerOwn(q),
         NEW r \in Reqs, Load(r)
  PROVE  \A q \in Reqs : HandlerOwn(q)'
<1>1. pc[r] = "load"
  BY DEF Load
<1>2. PICK c : c = call[r]
  OBVIOUS
<1>3. c \in Calls /\ OwnProject(c) /\ OwnTask(c)
  BY <1>1, <1>2, AtLabel
  DEF OwnershipInv, ChecksStillHold, PastOwnerCheck, PastTaskCheck
<1>4. OwnProject(c)' /\ OwnTask(c)'
  BY <1>3, OwnStable
<1>5. PICK label \in {"invalidate", "save"} : Goto(r, label)
  BY DEF Load
<1>6. \E l : local' = [local EXCEPT ![r] = l]
  BY DEF Load, TypeOK, ReqTypeOK
<1>7. call' = [call EXCEPT ![r] = c] /\ UNCHANGED reply
  BY <1>2 DEF Load, TypeOK, ReqTypeOK
<1>8. QED BY <1>1, <1>4, <1>5, <1>6, <1>7, OwnMove

\* What a mutation answers with is the caller's.
LEMMA SucceedOwn ==
  ASSUME TypeOK, IdsStable, \A q \in Reqs : HandlerOwn(q),
         NEW r \in Reqs, NEW c, c = call[r], c \in Calls,
         c.op \in OpsAt("invalidate"),
         c.op = "createTask" => c.task \in Tasks,
         OwnProject(c), OwnTask(c), Succeed(r)
  PROVE  \A q \in Reqs : HandlerOwn(q)'
<1>1. /\ c.proj \in Projects /\ c.user \in Users
      /\ c.op \in {"createTask", "updateTask"} => c.task \in Tasks
      /\ c.proj # Absent /\ \A t \in Tasks : t # Absent
  BY CallFields, AbsentIsNoValue DEF OpsAt
<1>2. OwnId(c.proj, c.user)
  BY <1>1 DEF OwnId, OwnProject
<1>3. c.op \in {"createTask", "updateTask"} => OwnId(c.task, c.user)
  BY <1>1 DEF OwnId, OwnProject, OwnTask
<1>4. OwnProject(c)' /\ OwnTask(c)' /\ OwnId(c.proj, c.user)'
      /\ (c.op \in {"createTask", "updateTask"} => OwnId(c.task, c.user)')
  BY <1>2, <1>3, OwnStable
<1>5. PICK code, ids :
        /\ code \in {200, 201, 204}
        /\ Finish(r, code, ids)
        /\ \A x \in ids : OwnId(x, c.user)'
  BY <1>4 DEF Succeed
<1>6. call'[r] = c
  BY <1>5 DEF Finish
<1>7. OwnProject(call[r])' /\ OwnTask(call[r])'
      /\ \A x \in ids : OwnId(x, call[r].user)'
  BY <1>4, <1>5, <1>6 DEF OwnProject, OwnTask, OwnId
<1>8. QED BY <1>5, <1>7, OwnFinish

LEMMA InvalidateOwn ==
  ASSUME TypeOK, OwnershipInv, IdsStable, \A q \in Reqs : HandlerOwn(q),
         NEW r \in Reqs, Invalidate(r) \/ Publish(r)
  PROVE  \A q \in Reqs : HandlerOwn(q)'
<1>1. pc[r] \in {"invalidate", "publish"}
  BY DEF Invalidate, Publish
<1>2. PICK c : c = call[r]
  OBVIOUS
<1>3. /\ c \in Calls /\ OwnProject(c) /\ OwnTask(c)
      /\ c.op \in OpsAt("invalidate")
      /\ c.op = "createTask" => c.task \in Tasks
  BY <1>1, <1>2, AtLabel
  DEF OwnershipInv, ChecksStillHold, PastOwnerCheck, PastTaskCheck, OpsAt,
      HandlerOK
<1>4. OwnProject(c)' /\ OwnTask(c)'
  BY <1>3, OwnStable
<1>5. CASE Goto(r, "publish") /\ UNCHANGED <<call, local, reply>>
  <2>1. call' = [call EXCEPT ![r] = c] /\ local' = [local EXCEPT ![r] = local[r]]
    BY <1>2, <1>5 DEF TypeOK, ReqTypeOK
  <2>2. QED BY <1>1, <1>4, <1>5, <2>1, OwnMove
<1>6. CASE Succeed(r)
  BY <1>2, <1>3, <1>6, SucceedOwn
<1>7. QED BY <1>5, <1>6 DEF Invalidate, Publish

\* A detail shown to the caller is of the caller's project.
LEMMA ShowOwn ==
  ASSUME TypeOK, IdsStable, \A q \in Reqs : HandlerOwn(q),
         NEW r \in Reqs, NEW c, c = call[r], c \in Calls,
         c.proj \in Projects, creator[c.proj] = c.user, OwnTask(c),
         NEW doc, TasksCreatedIn(doc, c.proj),
         Finish(r, 200, IdsIn(c.proj, doc))
  PROVE  \A q \in Reqs : HandlerOwn(q)'
<1>1. OwnProject(c) /\ OwnTask(c)
  BY DEF OwnProject
<1>2. \A x \in IdsIn(c.proj, doc) : OwnId(x, c.user)
  BY DEF IdsIn, TasksIn, TasksCreatedIn, OwnId
<1>3. /\ OwnProject(c)' /\ OwnTask(c)'
      /\ \A x \in IdsIn(c.proj, doc) : OwnId(x, c.user)'
  BY <1>1, <1>2, OwnStable
<1>4. PICK ids : ids = IdsIn(c.proj, doc)
  OBVIOUS
<1>5. call'[r] = c
  BY DEF Finish
<1>6. OwnProject(call[r])' /\ OwnTask(call[r])'
      /\ \A x \in ids : OwnId(x, call[r].user)'
  BY <1>3, <1>4, <1>5 DEF OwnProject, OwnTask, OwnId
<1>7. Finish(r, 200, ids)
  BY <1>4
<1>8. QED BY <1>6, <1>7, OwnFinish

LEMMA CacheGetOwn ==
  ASSUME TypeOK, OwnershipInv, IdsStable, \A q \in Reqs : HandlerOwn(q),
         NEW r \in Reqs, CacheGet(r)
  PROVE  \A q \in Reqs : HandlerOwn(q)'
<1>1. pc[r] = "cacheGet"
  BY DEF CacheGet
<1>2. PICK c : c = call[r]
  OBVIOUS
<1>3. c \in Calls /\ c.proj \in Projects /\ c.user \in Users /\ c.task = Absent
  BY <1>1, <1>2, AtLabel, CallFields DEF OpsAt
<1>4. PICK value : value = CacheValueFor(Home[r], c.user, c.proj)
  OBVIOUS
<1>5. CASE value # Absent /\ Finish(r, 200, IdsIn(c.proj, value))
  <2>1. value = cache[c.user][c.proj] /\ cache[c.user][c.proj] # Absent
    BY <1>4, <1>5 DEF CacheValueFor
  <2>2. creator[c.proj] = c.user /\ TasksCreatedIn(value, c.proj)
    BY <1>3, <2>1 DEF OwnershipInv, OwnerIsolation, CacheIsolation, TasksCreatedIn
  <2>3. OwnTask(c)
    BY <1>3 DEF OwnTask
  <2>4. QED BY <1>2, <1>3, <1>5, <2>2, <2>3, ShowOwn
<1>6. CASE Goto(r, "findDetail") /\ UNCHANGED <<call, local, reply>>
  <2>1. /\ call' = [call EXCEPT ![r] = c]
        /\ \E l : local' = [local EXCEPT ![r] = l]
        /\ UNCHANGED reply
    BY <1>2, <1>6 DEF TypeOK, ReqTypeOK
  <2>2. "findDetail" \notin PastOwnerCheck \cup PastTaskCheck
    BY DEF PastOwnerCheck, PastTaskCheck
  <2>3. QED BY <1>1, <1>6, <2>1, <2>2, OwnMove
<1>7. QED BY <1>2, <1>4, <1>5, <1>6 DEF CacheGet

LEMMA FindDetailOwn ==
  ASSUME TypeOK, OwnershipInv, IdsStable, \A q \in Reqs : HandlerOwn(q),
         NEW r \in Reqs, FindDetail(r)
  PROVE  \A q \in Reqs : HandlerOwn(q)'
<1>1. pc[r] = "findDetail"
  BY DEF FindDetail
<1>2. PICK c : c = call[r]
  OBVIOUS
<1>3. c \in Calls /\ c.proj \in Projects /\ c.user \in Users
  BY <1>1, <1>2, AtLabel, CallFields DEF OpsAt
<1>4. CASE Finish(r, 404, {})
  BY <1>4, RefuseOwn
<1>5. CASE /\ FindDetailByIdAndOwner(c.proj, c.user) # Absent
           /\ Goto(r, "cacheSet")
           /\ local' = [local EXCEPT ![r].entity =
                          FindDetailByIdAndOwner(c.proj, c.user)]
           /\ UNCHANGED <<call, reply>>
  <2>1. PICK doc : doc = FindDetailByIdAndOwner(c.proj, c.user)
    OBVIOUS
  <2>2. creator[c.proj] = c.user /\ TasksCreatedIn(doc, c.proj)
    BY <1>3, <1>5, <2>1, DetailIsOwn DEF OwnershipInv, OwnerIsolation
  <2>3. OwnProject(c)' /\ TasksCreatedIn(doc, c.proj)'
    <3>1. OwnProject(c) BY <2>2 DEF OwnProject
    <3>2. QED BY <1>3, <2>2, <3>1, OwnStable
  <2>4. PICK l : l = [local[r] EXCEPT !.entity = doc]
    OBVIOUS
  <2>5. l.entity = doc
    BY <2>4 DEF TypeOK, ReqTypeOK
  <2>6. call' = [call EXCEPT ![r] = c] /\ local' = [local EXCEPT ![r] = l]
    BY <1>2, <1>5, <2>1, <2>4 DEF TypeOK, ReqTypeOK
  <2>7. TasksCreatedIn(l.entity, c.proj)'
    BY <2>3, <2>5
  <2>8. "cacheSet" \notin PastTaskCheck
    BY DEF PastTaskCheck
  <2>9. UNCHANGED reply /\ Goto(r, "cacheSet") /\ pc[r] # "done"
    BY <1>1, <1>5
  <2>10. QED BY <2>3, <2>6, <2>7, <2>8, <2>9, OwnMove
<1>6. QED BY <1>2, <1>4, <1>5 DEF FindDetail

LEMMA CacheSetOwn ==
  ASSUME TypeOK, OwnershipInv, IdsStable, \A q \in Reqs : HandlerOwn(q),
         NEW r \in Reqs, CacheSet(r)
  PROVE  \A q \in Reqs : HandlerOwn(q)'
<1>1. PICK c, doc : c = call[r] /\ doc = local[r].entity
  OBVIOUS
<1>2. /\ c \in Calls /\ c.proj \in Projects /\ creator[c.proj] = c.user
      /\ OwnTask(c) /\ TasksCreatedIn(doc, c.proj)
  BY <1>1, FillIsOwn DEF CacheSet
<1>3. Finish(r, 200, IdsIn(c.proj, doc))
  BY <1>1 DEF CacheSet
<1>4. QED BY <1>1, <1>2, <1>3, ShowOwn

LEMMA QueryOwn ==
  ASSUME TypeOK, OwnershipInv, IdsStable, \A q \in Reqs : HandlerOwn(q),
         NEW r \in Reqs, Query(r)
  PROVE  \A q \in Reqs : HandlerOwn(q)'
<1>1. pc[r] = "query"
  BY DEF Query
<1>2. PICK c : c = call[r]
  OBVIOUS
<1>3. /\ c \in Calls /\ c.user \in Users /\ c.task = Absent
      /\ c.op = "listTasks" => c.proj \in Projects
      /\ OwnProject(c)
  BY <1>1, <1>2, AtLabel, CallFields
  DEF OpsAt, OwnershipInv, ChecksStillHold, PastOwnerCheck
<1>4. PICK ids :
        /\ Finish(r, 200, ids)
        /\ \/ ids \subseteq ProjectsOf(c.user)
           \/ c.op = "listTasks" /\ ids \subseteq TasksOf(c.proj)
  BY <1>2 DEF Query
<1>5. \A x \in ids : OwnId(x, c.user)
  <2>1. CASE ids \subseteq ProjectsOf(c.user)
    BY <2>1 DEF ProjectsOf, FindByIdAndOwner, OwnId, OwnershipInv,
                OwnerIsolation, RowsKeepTheirOrigin
  <2>2. CASE c.op = "listTasks" /\ ids \subseteq TasksOf(c.proj)
    <3>1. \A x \in ids : x \in Tasks /\ home[x] = c.proj
      BY <2>2 DEF TasksOf, FindByIdAndProject, OwnershipInv, OwnerIsolation,
                  RowsKeepTheirOrigin
    <3>2. c.proj \in Projects /\ creator[c.proj] = c.user
      BY <1>3, <2>2, AbsentIsNoValue DEF OwnProject
    <3>3. QED BY <3>1, <3>2 DEF OwnId
  <2>3. QED BY <1>4, <2>1, <2>2
<1>6. /\ OwnProject(c)' /\ OwnTask(c)'
      /\ \A x \in ids : OwnId(x, c.user)'
  BY <1>3, <1>5, OwnStable DEF OwnTask
<1>7. call'[r] = c
  BY <1>2, <1>4 DEF Finish
<1>8. OwnProject(call[r])' /\ OwnTask(call[r])'
      /\ \A x \in ids : OwnId(x, call[r].user)'
  BY <1>6, <1>7 DEF OwnProject, OwnTask, OwnId
<1>9. QED BY <1>4, <1>8, OwnFinish

\* A restart silences the handlers it kills and touches no other.
LEMMA RestartOwn ==
  ASSUME TypeOK, IdsStable, \A q \in Reqs : HandlerOwn(q),
         NEW i \in Instances, Restart(i)
  PROVE  \A q \in Reqs : HandlerOwn(q)'
<1> SUFFICES ASSUME NEW q \in Reqs PROVE HandlerOwn(q)'
  OBVIOUS
<1>1. CASE Home[q] = i
  <2>1. pc'[q] = "idle" /\ reply'[q] = NoReply
    BY <1>1 DEF Restart
  <2>2. QED BY <2>1 DEF HandlerOwn, SuccessIsOwn, BodyIsOwn, ChecksStillHold,
                        NoReply, Success, PastOwnerCheck, PastTaskCheck
<1>2. CASE Home[q] # i
  BY <1>2, OwnFrame DEF Restart
<1>3. QED BY <1>1, <1>2

LEMMA HandlersStep ==
  ASSUME TypeOK, OwnershipInv, [Next]_vars
  PROVE  \A q \in Reqs : HandlerOwn(q)'
<1>1. IdsStable
  BY IdsNeverMove
<1>2. \A q \in Reqs : HandlerOwn(q)
  BY DEF OwnershipInv, OwnerIsolation, HandlerOwn
<1>3. ASSUME UNCHANGED reqVars PROVE \A q \in Reqs : HandlerOwn(q)'
  BY <1>1, <1>2, <1>3, OwnFrame DEF reqVars
<1>4. ASSUME NEW r \in Reqs, Accept(r) \/ Step(r)
      PROVE  \A q \in Reqs : HandlerOwn(q)'
  BY <1>1, <1>2, <1>4, AcceptOwn, RespondOwn, RequireOwnedProjectOwn,
     RequireTaskOwn, InsertProjectOwn, InsertTaskOwn, SaveAndRemoveOwn,
     LoadOwn, InvalidateOwn, CacheGetOwn, FindDetailOwn, CacheSetOwn, QueryOwn
  DEF Step
<1>5. ASSUME NEW r \in Reqs, DbError(r) PROVE \A q \in Reqs : HandlerOwn(q)'
  BY <1>1, <1>2, <1>5, RefuseOwn DEF DbError, Reject
<1>6. ASSUME NEW i \in Instances, Restart(i)
      PROVE  \A q \in Reqs : HandlerOwn(q)'
  BY <1>1, <1>2, <1>6, RestartOwn
<1>7. ASSUME Environment, ~UNCHANGED reqVars
      PROVE  \A q \in Reqs : HandlerOwn(q)'
  BY <1>5, <1>6, <1>7 DEF Environment, Expire, DropCacheClient, DropQueue
<1>8. QED BY <1>3, <1>4, <1>7 DEF Next, vars, reqVars

LEMMA OwnershipStep ==
  ASSUME TypeOK, OwnershipInv, [Next]_vars
  PROVE  OwnershipInv'
<1>1. RowsKeepTheirOrigin' BY OriginStep
<1>2. CacheIsolation' BY CacheStep
<1>3. \A q \in Reqs : HandlerOwn(q)' BY HandlersStep
<1>4. QED BY <1>1, <1>2, <1>3 DEF OwnershipInv, OwnerIsolation, HandlerOwn

\* The ownership check a handler makes before its awaits still holds whenever
\* the handler goes on.
THEOREM ChecksHold == Spec => []OwnershipInv
<1>1. Init => OwnershipInv
  <2> SUFFICES ASSUME Init PROVE OwnershipInv
    OBVIOUS
  <2>1. RowsKeepTheirOrigin /\ CacheIsolation
    BY DEF Init, InitDb, InitCache, RowsKeepTheirOrigin, CacheIsolation
  <2>2. \A q \in Reqs : HandlerOwn(q)
    BY OwnIdle DEF Init
  <2>3. QED BY <2>1, <2>2 DEF OwnershipInv, OwnerIsolation, HandlerOwn
<1>2. TypeOK /\ OwnershipInv /\ [Next]_vars => OwnershipInv'
  BY OwnershipStep
<1>3. QED BY <1>1, <1>2, TypeCorrect, PTL DEF Spec

\* Nobody is ever answered with, or succeeds on, another user's project or
\* task, from the database or from the cache.
THEOREM Isolation == Spec => []OwnerIsolation
<1>1. OwnershipInv => OwnerIsolation
  BY DEF OwnershipInv
<1>2. QED BY <1>1, ChecksHold, PTL

-----------------------------------------------------------------------------
\* Who writes.

\* A handler whose statement the database answers is past that statement.
LEMMA DbStepMoves ==
  ASSUME TypeOK, NEW r \in Reqs, DbStep(r)
  PROVE  /\ pc[r] \in {"insert", "save", "remove"}
         /\ pc'[r] \in {"invalidate", "done"}
         /\ \A q \in Reqs : q # r => pc'[q] = pc[q]
<1>1. /\ pc[r] \in {"insert", "save", "remove"}
      /\ Goto(r, "invalidate") \/ Goto(r, "done")
  BY DEF DbStep, InsertProject, InsertTask, SaveProject, SaveTask,
         RemoveProject, RemoveTask, Reject, AfterCommit, Finish
<1>2. QED BY <1>1 DEF Goto, TypeOK, ReqTypeOK

\* What a statement changes is the caller's: the rows of one project, which
\* the caller created, now or before.
LEMMA WritesOwn ==
  ASSUME TypeOK, OwnershipInv, NEW r \in Reqs, DbStep(r),
         NEW p \in Projects, Touched(p)
  PROVE  call[r].user = creator'[p]
<1> USE DEF OwnershipInv, OwnerIsolation
<1>1. ~UNCHANGED dbVars
  BY DEF Touched, dbVars
<1>2. call[r].proj \in Projects => call[r].user = creator[call[r].proj]
  BY DbStepMoves, AbsentIsNoValue DEF ChecksStillHold, PastOwnerCheck, OwnProject
<1>3. call[r].task \in Tasks /\ pc[r] \in {"save", "remove"} =>
        home[call[r].task] = call[r].proj
  BY AbsentIsNoValue DEF ChecksStillHold, PastTaskCheck, OwnTask
<1>4. CASE InsertProject(r)
  BY <1>1, <1>4, InsertProjectRows DEF Touched, TypeOK, DbTypeOK
<1>5. CASE InsertTask(r)
  <2>1. PICK t \in Tasks :
          /\ call[r].proj \in Projects
          /\ tasks' = [tasks EXCEPT ![t] =
               [project |-> call[r].proj, cols |-> call[r].change]]
          /\ home' = [home EXCEPT ![t] = call[r].proj]
          /\ UNCHANGED <<projects, creator>>
    BY <1>1, <1>5, InsertTaskRows
  <2>2. p = call[r].proj
    BY <2>1 DEF Touched, TypeOK, DbTypeOK
  <2>3. QED BY <1>2, <2>1, <2>2
<1>6. CASE SaveProject(r)
  BY <1>1, <1>2, <1>6, SaveProjectRows DEF Touched, TypeOK, DbTypeOK
<1>7. CASE SaveTask(r)
  BY <1>1, <1>2, <1>3, <1>7, SaveTaskRows DEF SaveTask, Touched, TypeOK, DbTypeOK
<1>8. CASE RemoveProject(r)
  <2>1. p = call[r].proj /\ UNCHANGED creator
    BY <1>8 DEF RemoveProject, DeleteProjectRow, Touched, TasksOf,
                FindByIdAndProject, RowsKeepTheirOrigin, TypeOK, DbTypeOK
  <2>2. QED BY <1>2, <2>1
<1>9. CASE RemoveTask(r)
  BY <1>2, <1>3, <1>9 DEF RemoveTask, DeleteTaskRow, Touched, TypeOK, DbTypeOK
<1>10. QED BY <1>4, <1>5, <1>6, <1>7, <1>8, <1>9 DEF DbStep

\* Nothing but a request of the creator changes a project or its tasks,
\* however many awaits lie between the ownership check and the statement.
THEOREM OwnersWrite == Spec => OnlyOwnersWrite
<1>1. TypeOK /\ OwnershipInv /\ [Next]_vars =>
        \A p \in Projects : Touched(p) =>
          \E r \in Reqs : /\ pc'[r] # pc[r]
                          /\ pc[r] \in {"insert", "save", "remove"}
                          /\ call[r].user = creator'[p]
  <2> SUFFICES ASSUME TypeOK, OwnershipInv, [Next]_vars,
                      NEW p \in Projects, Touched(p)
               PROVE  \E r \in Reqs : /\ pc'[r] # pc[r]
                                      /\ pc[r] \in {"insert", "save", "remove"}
                                      /\ call[r].user = creator'[p]
    OBVIOUS
  <2>1. ~UNCHANGED dbVars
    BY DEF Touched, dbVars
  <2>2. PICK r \in Reqs : DbStep(r)
    BY <2>1, DbSteps
  <2>3. QED BY <2>2, DbStepMoves, WritesOwn
<1>2. QED BY <1>1, TypeCorrect, ChecksHold, PTL DEF Spec, OnlyOwnersWrite

-----------------------------------------------------------------------------
\* The database implements private boards.

\* The boards the database stands for, as ApiProperties maps them.
Board == [u \in Users |-> [p \in Projects |-> FindDetailByIdAndOwner(p, u)]]

TasksShown(p) == [t \in Tasks |-> IF t \in TasksOf(p) THEN tasks[t].cols
                                                    ELSE Absent]

Shown(p) == [cols |-> projects[p].cols, tasks |-> TasksShown(p)]

\* What the detail query finds, by cases, before and after a step.
LEMMA DetailCases ==
  ASSUME NEW p \in Projects, NEW u
  PROVE  /\ FindDetailByIdAndOwner(p, u) =
              IF projects[p] # Absent /\ projects[p].owner = u THEN Shown(p)
                                                              ELSE Absent
         /\ FindDetailByIdAndOwner(p, u)' =
              IF projects'[p] # Absent /\ projects'[p].owner = u THEN Shown(p)'
                                                                ELSE Absent
  BY DEF FindDetailByIdAndOwner, FindByIdAndOwner, TasksShown, Shown

LEMMA ShownIsDetail ==
  ASSUME DbTypeOK, NEW p \in Projects, projects[p] # Absent
  PROVE  Shown(p) \in Details /\ Shown(p) # Absent
<1>1. projects[p].cols \in ProjectData
  BY DEF DbTypeOK, ProjectRows
<1>2. \A t \in TasksOf(p) : tasks[t].cols \in TaskData
  BY DEF DbTypeOK, TaskRows, TasksOf, FindByIdAndProject
<1>3. Shown(p) \in Details
  BY <1>1, <1>2 DEF Shown, TasksShown, Details
<1>4. QED BY <1>3, AbsentIsNoValue

\* A detail changes only with the row of its project or of one of its tasks.
LEMMA TasksShownFrame ==
  ASSUME NEW p \in Projects,
         \A t \in Tasks : FindByIdAndProject(t, p)' = FindByIdAndProject(t, p)
  PROVE  TasksShown(p)' = TasksShown(p)
<1>1. TasksOf(p)' = TasksOf(p)
  BY DEF TasksOf
<1>2. \A t \in TasksOf(p) : tasks'[t] = tasks[t]
  BY <1>1 DEF TasksOf, FindByIdAndProject
<1>3. QED BY <1>1, <1>2 DEF TasksShown

LEMMA DetailFrame ==
  ASSUME NEW p \in Projects, NEW u, projects'[p] = projects[p],
         \A t \in Tasks : FindByIdAndProject(t, p)' = FindByIdAndProject(t, p)
  PROVE  FindDetailByIdAndOwner(p, u)' = FindDetailByIdAndOwner(p, u)
<1>1. TasksShown(p)' = TasksShown(p)
  BY TasksShownFrame
<1>2. QED BY <1>1, DetailCases DEF Shown

\* A project that is not there has no tasks.
LEMMA NothingShown ==
  ASSUME NoOrphanTasks, NEW p \in Projects, projects[p] = Absent
  PROVE  TasksShown(p) = Boards!NoTasks
<1>1. TasksOf(p) = {}
  BY DEF NoOrphanTasks, TasksOf, FindByIdAndProject
<1>2. QED BY <1>1 DEF TasksShown, Boards!NoTasks

\* Boards that differ in one place.
LEMMA BoardPut ==
  ASSUME NEW u \in Users, NEW p \in Projects, NEW doc,
         FindDetailByIdAndOwner(p, u)' = doc,
         \A v \in Users, q \in Projects : v # u \/ q # p =>
           FindDetailByIdAndOwner(q, v)' = FindDetailByIdAndOwner(q, v)
  PROVE  Board' = [Board EXCEPT ![u][p] = doc]
<1> DEFINE after == [Board EXCEPT ![u][p] = doc]
<1>1. \A v \in Users : Board'[v] = after[v]
  <2> SUFFICES ASSUME NEW v \in Users PROVE Board'[v] = after[v]
    OBVIOUS
  <2>1. \A q \in Projects : Board'[v][q] = after[v][q]
    BY DEF Board
  <2>2. QED BY <2>1 DEF Board
<1>2. QED BY <1>1 DEF Board

LEMMA PutsProject ==
  ASSUME TypeOK, OwnershipInv, NoOrphanTasks,
         NEW u \in Users, NEW p \in Projects, NEW row \in ProjectRows,
         row.owner = u, creator[p] \in {u, Absent},
         projects' = [projects EXCEPT ![p] = row],
         creator' = [creator EXCEPT ![p] = u],
         UNCHANGED <<tasks, home>>
  PROVE  Boards!PutProject(u, p, row.cols)
<1> USE DEF TypeOK, DbTypeOK
<1>1. projects[p] # Absent => projects[p].owner = u
  BY AbsentIsNoValue
  DEF OwnershipInv, OwnerIsolation, RowsKeepTheirOrigin, ProjectRows
<1>2. row # Absent
  BY AbsentIsNoValue
<1>3. \A q \in Projects, t \in Tasks :
        FindByIdAndProject(t, q)' = FindByIdAndProject(t, q)
  BY DEF FindByIdAndProject
<1>4. TasksShown(p)' = TasksShown(p)
  BY <1>3, TasksShownFrame
<1>5. \A v \in Users, q \in Projects : v # u \/ q # p =>
        FindDetailByIdAndOwner(q, v)' = FindDetailByIdAndOwner(q, v)
  <2>1. ASSUME NEW v \in Users, NEW q \in Projects, q # p
        PROVE  FindDetailByIdAndOwner(q, v)' = FindDetailByIdAndOwner(q, v)
    BY <1>3, <2>1, DetailFrame
  <2>2. ASSUME NEW v \in Users, v # u
        PROVE  FindDetailByIdAndOwner(p, v)' = FindDetailByIdAndOwner(p, v)
    BY <1>1, <2>2, DetailCases
  <2>3. QED BY <2>1, <2>2
<1>6. FindDetailByIdAndOwner(p, u)' =
        [cols |-> row.cols, tasks |-> TasksShown(p)]
  BY <1>2, <1>4, DetailCases DEF Shown
<1>7. TasksShown(p) = IF Board[u][p] = Absent THEN Boards!NoTasks
                                              ELSE Board[u][p].tasks
  <2>1. CASE projects[p] = Absent
    BY <2>1, NothingShown, DetailCases DEF Board
  <2>2. CASE projects[p] # Absent
    <3>1. Board[u][p] = Shown(p)
      BY <1>1, <2>2, DetailCases DEF Board
    <3>2. Board[u][p] # Absent
      BY <2>2, <3>1, ShownIsDetail
    <3>3. QED BY <3>1, <3>2 DEF Shown
  <2>3. QED BY <2>1, <2>2
<1>8. Board' = [Board EXCEPT ![u][p] =
                  [cols |-> row.cols, tasks |-> TasksShown(p)]]
  BY <1>5, <1>6, BoardPut
<1>9. QED BY <1>7, <1>8 DEF Boards!PutProject, Board

LEMMA DropsProject ==
  ASSUME TypeOK, OwnershipInv, NEW u \in Users, NEW p \in Projects,
         creator[p] = u,
         projects' = [projects EXCEPT ![p] = Absent],
         tasks' = [t \in Tasks |-> IF t \in TasksOf(p) THEN Absent ELSE tasks[t]],
         UNCHANGED <<creator, home>>
  PROVE  Boards!DropProject(u, p)
<1> USE DEF TypeOK, DbTypeOK
<1>1. projects[p] # Absent => projects[p].owner = u
  BY DEF OwnershipInv, OwnerIsolation, RowsKeepTheirOrigin
<1>2. \A q \in Projects, t \in Tasks : q # p =>
        FindByIdAndProject(t, q)' = FindByIdAndProject(t, q)
  BY DEF FindByIdAndProject, TasksOf
<1>3. \A v \in Users, q \in Projects : v # u \/ q # p =>
        FindDetailByIdAndOwner(q, v)' = FindDetailByIdAndOwner(q, v)
  <2>1. ASSUME NEW v \in Users, NEW q \in Projects, q # p
        PROVE  FindDetailByIdAndOwner(q, v)' = FindDetailByIdAndOwner(q, v)
    BY <1>2, <2>1, DetailFrame
  <2>2. ASSUME NEW v \in Users, v # u
        PROVE  FindDetailByIdAndOwner(p, v)' = FindDetailByIdAndOwner(p, v)
    BY <1>1, <2>2, DetailCases
  <2>3. QED BY <2>1, <2>2
<1>4. FindDetailByIdAndOwner(p, u)' = Absent
  BY DetailCases
<1>5. Board' = [Board EXCEPT ![u][p] = Absent]
  BY <1>3, <1>4, BoardPut
<1>6. QED BY <1>5 DEF Boards!DropProject, Board

\* A step that touches one task of project p touches no other project.
LEMMA OneTaskFrame ==
  ASSUME TypeOK, OwnershipInv, NEW p \in Projects, NEW t \in Tasks,
         home[t] \in {p, Absent},
         NEW row \in TaskRows \cup {Absent}, row # Absent => row.project = p,
         tasks' = [tasks EXCEPT ![t] = row],
         UNCHANGED projects
  PROVE  /\ \A q \in Projects, u \in Users : q # p =>
              FindDetailByIdAndOwner(q, u)' = FindDetailByIdAndOwner(q, u)
         /\ TasksShown(p)' = [TasksShown(p) EXCEPT ![t] =
              IF row = Absent THEN Absent ELSE row.cols]
<1> USE DEF TypeOK, DbTypeOK
<1>1. tasks[t] # Absent => tasks[t].project = p
  BY AbsentIsNoValue
  DEF OwnershipInv, OwnerIsolation, RowsKeepTheirOrigin, TaskRows
<1>2. \A q \in Projects, s \in Tasks : q # p \/ s # t =>
        FindByIdAndProject(s, q)' = FindByIdAndProject(s, q)
  BY <1>1 DEF FindByIdAndProject
<1>3. \A q \in Projects, u \in Users : q # p =>
        FindDetailByIdAndOwner(q, u)' = FindDetailByIdAndOwner(q, u)
  BY <1>2, DetailFrame
<1>4. \A s \in Tasks : TasksShown(p)'[s] =
        [TasksShown(p) EXCEPT ![t] =
           IF row = Absent THEN Absent ELSE row.cols][s]
  BY <1>1 DEF TasksShown, TasksOf, FindByIdAndProject
<1>5. QED BY <1>3, <1>4 DEF TasksShown

LEMMA PutsTask ==
  ASSUME TypeOK, OwnershipInv, NEW u \in Users, NEW p \in Projects,
         NEW t \in Tasks, home[t] \in {p, Absent}, creator[p] = u,
         projects[p] # Absent,
         NEW row \in TaskRows, row.project = p,
         tasks' = [tasks EXCEPT ![t] = row],
         home' = [home EXCEPT ![t] = p],
         UNCHANGED <<projects, creator>>
  PROVE  Boards!PutTask(u, p, t, row.cols)
<1>1. projects[p].owner = u /\ row # Absent
  BY AbsentIsNoValue DEF OwnershipInv, OwnerIsolation, RowsKeepTheirOrigin
<1>2. Board[u][p] = Shown(p) /\ Board[u][p] # Absent
  BY <1>1, DetailCases, ShownIsDetail DEF Board, TypeOK
<1>3. /\ \A q \in Projects, v \in Users : q # p =>
            FindDetailByIdAndOwner(q, v)' = FindDetailByIdAndOwner(q, v)
      /\ TasksShown(p)' = [TasksShown(p) EXCEPT ![t] = row.cols]
  BY <1>1, OneTaskFrame
<1>4. \A v \in Users, q \in Projects : v # u \/ q # p =>
        FindDetailByIdAndOwner(q, v)' = FindDetailByIdAndOwner(q, v)
  BY <1>1, <1>3, DetailCases
<1>5. Shown(p)' = [Shown(p) EXCEPT !.tasks[t] = row.cols]
  BY <1>3 DEF Shown
<1>6. FindDetailByIdAndOwner(p, u)' = [Board[u][p] EXCEPT !.tasks[t] = row.cols]
  BY <1>1, <1>2, <1>5, DetailCases
<1>7. Board' = [Board EXCEPT ![u][p].tasks[t] = row.cols]
  BY <1>4, <1>6, BoardPut
<1>8. QED BY <1>2, <1>7 DEF Boards!PutTask, Board

LEMMA DropsTask ==
  ASSUME TypeOK, OwnershipInv, NEW u \in Users, NEW p \in Projects,
         NEW t \in Tasks, home[t] = p, creator[p] = u, projects[p] # Absent,
         tasks' = [tasks EXCEPT ![t] = Absent],
         UNCHANGED <<projects, creator, home>>
  PROVE  Boards!DropTask(u, p, t)
<1>1. projects[p].owner = u
  BY DEF OwnershipInv, OwnerIsolation, RowsKeepTheirOrigin
<1>2. Board[u][p] = Shown(p) /\ Board[u][p] # Absent
  BY <1>1, DetailCases, ShownIsDetail DEF Board, TypeOK
<1>3. /\ \A q \in Projects, v \in Users : q # p =>
            FindDetailByIdAndOwner(q, v)' = FindDetailByIdAndOwner(q, v)
      /\ TasksShown(p)' = [TasksShown(p) EXCEPT ![t] = Absent]
  BY <1>1, OneTaskFrame
<1>4. \A v \in Users, q \in Projects : v # u \/ q # p =>
        FindDetailByIdAndOwner(q, v)' = FindDetailByIdAndOwner(q, v)
  BY <1>1, <1>3, DetailCases
<1>5. Shown(p)' = [Shown(p) EXCEPT !.tasks[t] = Absent]
  BY <1>3 DEF Shown
<1>6. FindDetailByIdAndOwner(p, u)' = [Board[u][p] EXCEPT !.tasks[t] = Absent]
  BY <1>1, <1>2, <1>5, DetailCases
<1>7. Board' = [Board EXCEPT ![u][p].tasks[t] = Absent]
  BY <1>4, <1>6, BoardPut
<1>8. QED BY <1>2, <1>7 DEF Boards!DropTask, Board

\* A statement is one step of one board, or changes nothing a board shows.
LEMMA StatementIsBoardStep ==
  ASSUME TypeOK, OwnershipInv, NoOrphanTasks, NEW r \in Reqs, DbStep(r),
         ~UNCHANGED dbVars
  PROVE  Boards!Next \/ UNCHANGED <<Board, creator, home>>
<1> USE DEF TypeOK, DbTypeOK
<1>1. pc[r] # "idle" /\ call[r].user \in Users
  BY DbStepMoves, AtLabel, CallFields
<1>2. call[r].proj \in Projects => creator[call[r].proj] = call[r].user
  BY DbStepMoves, AbsentIsNoValue
  DEF OwnershipInv, ChecksStillHold, PastOwnerCheck, OwnProject
<1>3. call[r].task \in Tasks /\ pc[r] \in {"save", "remove"} =>
        home[call[r].task] = call[r].proj
  BY AbsentIsNoValue
  DEF OwnershipInv, ChecksStillHold, PastTaskCheck, OwnTask
<1>4. ASSUME UNCHANGED <<projects, tasks>> PROVE UNCHANGED Board
  BY <1>4 DEF Board, FindDetailByIdAndOwner, FindByIdAndOwner, TasksOf,
              FindByIdAndProject
<1>5. ASSUME NEW u \in Users, NEW p \in Projects, NEW row \in ProjectRows,
             Boards!PutProject(u, p, row.cols)
      PROVE  Boards!Next
  BY <1>5 DEF Boards!Next, ProjectRows
<1>6. ASSUME NEW u \in Users, NEW p \in Projects, NEW t \in Tasks,
             NEW row \in TaskRows, Boards!PutTask(u, p, t, row.cols)
      PROVE  Boards!Next
  BY <1>6 DEF Boards!Next, TaskRows
<1>7. ASSUME NEW u \in Users, NEW p \in Projects, NEW t \in Tasks,
             Boards!DropProject(u, p) \/ Boards!DropTask(u, p, t)
      PROVE  Boards!Next
  BY <1>7 DEF Boards!Next
<1>8. CASE InsertProject(r)
  <2>1. PICK p \in Projects, row \in ProjectRows :
          /\ creator[p] = Absent
          /\ row.owner = call[r].user
          /\ projects' = [projects EXCEPT ![p] = row]
          /\ creator' = [creator EXCEPT ![p] = call[r].user]
          /\ UNCHANGED <<tasks, home>>
    BY <1>8, InsertProjectRows
  <2>2. QED BY <1>1, <1>5, <2>1, PutsProject
<1>9. CASE InsertTask(r)
  <2>1. PICK t \in Tasks :
          /\ home[t] = Absent
          /\ projects[call[r].proj] # Absent
          /\ call[r].proj \in Projects
          /\ tasks' = [tasks EXCEPT ![t] =
               [project |-> call[r].proj, cols |-> call[r].change]]
          /\ home' = [home EXCEPT ![t] = call[r].proj]
          /\ UNCHANGED <<projects, creator>>
          /\ [project |-> call[r].proj, cols |-> call[r].change] \in TaskRows
    BY <1>9, InsertTaskRows
  <2>2. PICK row \in TaskRows :
          row = [project |-> call[r].proj, cols |-> call[r].change]
    BY <2>1
  <2>3. row.project = call[r].proj /\ tasks' = [tasks EXCEPT ![t] = row]
    BY <2>1, <2>2
  <2>4. Boards!PutTask(call[r].user, call[r].proj, t, row.cols)
    BY <1>1, <1>2, <2>1, <2>3, PutsTask
  <2>5. QED BY <1>1, <1>6, <2>1, <2>4
<1>10. CASE SaveProject(r)
  <2> DEFINE p == call[r].proj
             row == Flushed(projects[p], local[r].entity, local[r].fresh)
  <2>1. /\ p \in Projects
        /\ local[r].entity \in ProjectEntities
        /\ local[r].entity.owner = call[r].user
        /\ RowStorable(row)
        /\ projects' = [projects EXCEPT ![p] = row]
        /\ UNCHANGED <<tasks, creator, home>>
    BY <1>10, SaveProjectRows DEF ProjectFlushAccepted
  <2>2. /\ row \in ProjectRows \cup {Absent}
        /\ projects[p] # Absent => row # Absent
        /\ row # Absent => row.owner = call[r].user
    <3>1. /\ row \in ProjectRows \cup {Absent}
          /\ projects[p] # Absent => row # Absent
          /\ row # Absent =>
               /\ row.owner = IF local[r].fresh = Absent
                              THEN local[r].entity.owner ELSE projects[p].owner
               /\ local[r].fresh = Absent \/ projects[p] # Absent
      BY <2>1, FlushedProject
    <3>2. QED BY <1>2, <2>1, <3>1
      DEF OwnershipInv, OwnerIsolation, RowsKeepTheirOrigin
  <2>3. CASE row = Absent
    BY <1>4, <2>1, <2>2, <2>3
  <2>4. CASE row \in ProjectRows
    <3>1. creator' = [creator EXCEPT ![p] = call[r].user] /\ row # Absent
      BY <1>2, <2>1, <2>4, AbsentIsNoValue
    <3>2. Boards!PutProject(call[r].user, p, row.cols)
      BY <1>1, <1>2, <2>1, <2>2, <2>4, <3>1, PutsProject
    <3>3. QED BY <1>1, <1>5, <2>1, <2>4, <3>2
  <2>5. QED BY <2>2, <2>3, <2>4
<1>11. CASE SaveTask(r)
  <2> DEFINE t == call[r].task
             p == call[r].proj
             row == Flushed(tasks[t], local[r].entity, local[r].fresh)
  <2>1. /\ t \in Tasks /\ p \in Projects
        /\ local[r].entity \in TaskEntities
        /\ local[r].entity.project = p
        /\ TaskFlushAccepted(t, local[r].entity, local[r].fresh)
        /\ RowStorable(row)
        /\ tasks' = [tasks EXCEPT ![t] = row]
        /\ UNCHANGED <<projects, creator, home>>
        /\ home[t] = p
    BY <1>3, <1>11, SaveTaskRows DEF SaveTask, TaskFlushAccepted
  <2>2. /\ row \in TaskRows \cup {Absent}
        /\ tasks[t] # Absent => row # Absent
        /\ row # Absent => row.project = p /\ projects[p] # Absent
    <3>1. /\ row \in TaskRows \cup {Absent}
          /\ tasks[t] # Absent => row # Absent
          /\ row # Absent =>
               /\ row.project = IF local[r].fresh = Absent
                                THEN local[r].entity.project ELSE tasks[t].project
               /\ local[r].fresh = Absent \/ tasks[t] # Absent
      <4>1. tasks[t] \in TaskRows \cup {Absent} /\ local[r].entity \in TaskEntities
        BY <2>1
      <4>2. RowStorable(Flushed(tasks[t], local[r].entity, local[r].fresh))
        BY <2>1
      <4>3. QED BY <4>1, <4>2, FlushedTask
    <3>2. tasks[t] # Absent => tasks[t].project = p /\ projects[p] # Absent
      BY <2>1 DEF OwnershipInv, OwnerIsolation, RowsKeepTheirOrigin, NoOrphanTasks
    <3>3. QED BY <2>1, <3>1, <3>2 DEF TaskFlushAccepted, ParentExists
  <2>3. CASE row = Absent
    BY <1>4, <2>1, <2>2, <2>3
  <2>4. CASE row \in TaskRows
    <3>1. home' = [home EXCEPT ![t] = p] /\ row # Absent
      BY <2>1, <2>4, AbsentIsNoValue
    <3>2. Boards!PutTask(call[r].user, p, t, row.cols)
      BY <1>1, <1>2, <2>1, <2>2, <2>4, <3>1, PutsTask
    <3>3. QED BY <1>1, <1>6, <2>1, <2>4, <3>2
  <2>5. QED BY <2>2, <2>3, <2>4
<1>12. CASE RemoveProject(r)
  <2>1. call[r].proj \in Projects
    BY <1>1, <1>12, AtLabel, CallFields DEF RemoveProject
  <2>2. Boards!DropProject(call[r].user, call[r].proj)
    BY <1>1, <1>2, <1>12, <2>1, DropsProject DEF RemoveProject, DeleteProjectRow
  <2>3. QED BY <1>1, <2>1, <2>2 DEF Boards!Next
<1>13. CASE RemoveTask(r)
  <2> DEFINE t == call[r].task
             p == call[r].proj
  <2>1. /\ t \in Tasks /\ p \in Projects
        /\ home[t] = p
        /\ tasks' = [tasks EXCEPT ![t] = Absent]
        /\ UNCHANGED <<projects, creator, home>>
    BY <1>1, <1>3, <1>13, AtLabel, CallFields DEF RemoveTask, DeleteTaskRow
  <2>2. CASE projects[p] = Absent
    <3>1. tasks[t] = Absent
      BY <2>1, <2>2 DEF NoOrphanTasks, OwnershipInv, OwnerIsolation,
                        RowsKeepTheirOrigin
    <3>2. QED BY <1>4, <2>1, <3>1
  <2>3. CASE projects[p] # Absent
    BY <1>1, <1>2, <1>7, <2>1, <2>3, DropsTask
  <2>4. QED BY <2>2, <2>3
<1>14. QED BY <1>8, <1>9, <1>10, <1>11, <1>12, <1>13 DEF DbStep

\* Under every interleaving of handlers and every failure the database goes
\* through the states of private boards, one project of one user at a time.
THEOREM DatabaseIsPrivateBoards == Spec => ImplementsPrivateBoards
<1>1. Init => Boards!Init
  <2> SUFFICES ASSUME Init PROVE Boards!Init
    OBVIOUS
  <2>1. \A p \in Projects, u \in Users : FindDetailByIdAndOwner(p, u) = Absent
    BY DetailCases DEF Init, InitDb
  <2>2. QED BY <2>1 DEF Init, InitDb, Boards!Init
<1>2. TypeOK /\ OwnershipInv /\ NoOrphanTasks /\ [Next]_vars =>
        [Boards!Next]_<<Board, creator, home>>
  <2> SUFFICES ASSUME TypeOK, OwnershipInv, NoOrphanTasks, [Next]_vars
               PROVE  Boards!Next \/ UNCHANGED <<Board, creator, home>>
    OBVIOUS
  <2>1. CASE UNCHANGED dbVars
    BY <2>1 DEF dbVars, Board, FindDetailByIdAndOwner, FindByIdAndOwner,
                TasksOf, FindByIdAndProject
  <2>2. CASE ~UNCHANGED dbVars
    BY <2>2, DbSteps, StatementIsBoardStep
  <2>3. QED BY <2>1, <2>2
<1>3. QED BY <1>1, <1>2, TypeCorrect, ChecksHold, NoOrphans, PTL
          DEF Spec, ImplementsPrivateBoards, Boards!Spec, Board
=============================================================================
