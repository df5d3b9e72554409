------------------------------ MODULE ApiProofs ------------------------------
(***************************************************************************)
(* Proofs of the safety properties of ApiProperties for every number of    *)
(* users, ids, columns, values, slots and instances, and every set of      *)
(* operations and failures.                                                *)
(***************************************************************************)
EXTENDS ApiProperties, TLAPS

-----------------------------------------------------------------------------
\* The data: what the operators of Persistence return.

\* A call carries what its operation needs (the controllers' parameters).
LEMMA CallFields ==
  ASSUME NEW c \in Calls
  PROVE  /\ c.op \in AllOps
         /\ c.user \in Users
         /\ c.proj \in Projects \cup {Absent}
         /\ c.task \in Tasks \cup {Absent}
         /\ c.op \notin {"createProject", "listProjects"} => c.proj \in Projects
         /\ c.op \in {"getTask", "updateTask", "deleteTask"} => c.task \in Tasks
         /\ c.op \notin {"createTask", "getTask", "updateTask", "deleteTask"} =>
              c.task = Absent
         /\ c.op \in {"createProject", "listProjects"} => c.proj = Absent
         /\ c.task # Absent => c.proj \in Projects
         /\ c.op = "createProject" => c.change \in NewProjects
         /\ c.op = "updateProject" => c.change \in ProjectChanges
         /\ c.op = "createTask" => c.change \in NewTasks
         /\ c.op = "updateTask" => c.change \in TaskChanges
         /\ c.op \notin {"createProject", "updateProject",
                        "createTask", "updateTask"} => c.change = Absent
  BY DEF Calls, Requests, CallsOf, AllOps

\* createTask's call with the id of the saved task is a call.
LEMMA SavedCall ==
  ASSUME NEW c \in Calls, c.op = "createTask", NEW t \in Tasks
  PROVE  /\ [c EXCEPT !.task = t] \in Calls
         /\ [c EXCEPT !.task = t].op = "createTask"
         /\ [c EXCEPT !.task = t].task = t
         /\ [c EXCEPT !.task = t].proj = c.proj
         /\ [c EXCEPT !.task = t].user = c.user
         /\ [c EXCEPT !.task = t].change = c.change
  BY DEF Calls, Requests, CallsOf

\* A row is an entity; an entity without a null in a NOT NULL column is a row.
LEMMA RowsAndEntities ==
  /\ ProjectRows = {e \in ProjectEntities : Storable(e.cols)}
  /\ TaskRows = {e \in TaskEntities : Storable(e.cols)}
  BY DEF ProjectRows, TaskRows, ProjectData, TaskData, ProjectEntities, TaskEntities

\* Assigning an update DTO makes an entity of the same owner.
LEMMA AssignProject ==
  ASSUME NEW row \in ProjectRows, NEW change \in ProjectChanges
  PROVE  /\ Assign(row, change) \in ProjectEntities
         /\ Assign(row, change).owner = row.owner
  BY DEF Assign, ProjectRows, ProjectChanges, ProjectData, ProjectEntities

LEMMA AssignTask ==
  ASSUME NEW row \in TaskRows, NEW change \in TaskChanges
  PROVE  /\ Assign(row, change) \in TaskEntities
         /\ Assign(row, change).project = row.project
  BY DEF Assign, TaskRows, TaskChanges, TaskData, TaskEntities

\* Whatever save() flushes leaves a row of the same owner, or no row.
LEMMA FlushedProject ==
  ASSUME NEW current \in ProjectRows \cup {Absent},
         NEW entity \in ProjectEntities, NEW fresh
  PROVE  /\ Flushed(current, entity, fresh) \in ProjectEntities \cup {Absent}
         /\ RowStorable(Flushed(current, entity, fresh)) =>
              Flushed(current, entity, fresh) \in ProjectRows \cup {Absent}
         /\ current # Absent => Flushed(current, entity, fresh) # Absent
         /\ Flushed(current, entity, fresh) # Absent =>
              Flushed(current, entity, fresh).owner =
                IF fresh = Absent THEN entity.owner ELSE current.owner
         /\ Flushed(current, entity, fresh) # Absent =>
              fresh = Absent \/ current # Absent
<1>1. Flushed(current, entity, fresh) \in ProjectEntities \cup {Absent}
  BY AbsentIsNoValue DEF Flushed, Overlay, ProjectRows, ProjectData, ProjectEntities
<1>2. RowStorable(Flushed(current, entity, fresh)) =>
        Flushed(current, entity, fresh) \in ProjectRows \cup {Absent}
  BY <1>1, RowsAndEntities DEF RowStorable
<1>3. QED
  BY <1>1, <1>2, AbsentIsNoValue
     DEF Flushed, Overlay, ProjectRows, ProjectData, ProjectEntities

LEMMA FlushedTask ==
  ASSUME NEW current \in TaskRows \cup {Absent},
         NEW entity \in TaskEntities, NEW fresh
  PROVE  /\ Flushed(current, entity, fresh) \in TaskEntities \cup {Absent}
         /\ RowStorable(Flushed(current, entity, fresh)) =>
              Flushed(current, entity, fresh) \in TaskRows \cup {Absent}
         /\ current # Absent => Flushed(current, entity, fresh) # Absent
         /\ Flushed(current, entity, fresh) # Absent =>
              Flushed(current, entity, fresh).project =
                IF fresh = Absent THEN entity.project ELSE current.project
         /\ Flushed(current, entity, fresh) # Absent =>
              fresh = Absent \/ current # Absent
<1>1. Flushed(current, entity, fresh) \in TaskEntities \cup {Absent}
  BY AbsentIsNoValue DEF Flushed, Overlay, TaskRows, TaskData, TaskEntities
<1>2. RowStorable(Flushed(current, entity, fresh)) =>
        Flushed(current, entity, fresh) \in TaskRows \cup {Absent}
  BY <1>1, RowsAndEntities DEF RowStorable
<1>3. QED
  BY <1>1, <1>2, AbsentIsNoValue
     DEF Flushed, Overlay, TaskRows, TaskData, TaskEntities

\* The detail query returns a detail or nothing.
LEMMA DetailType ==
  ASSUME DbTypeOK, NEW p \in Projects, NEW u \in Users
  PROVE  FindDetailByIdAndOwner(p, u) \in Details \cup {Absent}
<1> DEFINE doc == [cols  |-> projects[p].cols,
                   tasks |-> [t \in Tasks |->
                     IF t \in TasksOf(p) THEN tasks[t].cols ELSE Absent]]
<1>1. CASE FindByIdAndOwner(p, u) = Absent
  BY <1>1 DEF FindDetailByIdAndOwner
<1>2. CASE FindByIdAndOwner(p, u) # Absent
  <2>1. projects[p] \in ProjectRows
    BY <1>2 DEF FindByIdAndOwner, DbTypeOK
  <2>2. \A t \in Tasks : t \in TasksOf(p) => tasks[t] \in TaskRows
    BY DEF TasksOf, FindByIdAndProject, DbTypeOK
  <2>3. doc \in Details
    BY <2>1, <2>2 DEF Details, ProjectRows, TaskRows
  <2>4. QED BY <1>2, <2>3 DEF FindDetailByIdAndOwner
<1>3. QED BY <1>1, <1>2

-----------------------------------------------------------------------------
\* The control: what moving one handler does to all of them.

\* A step that leaves a slot alone leaves its handler as it was.
LEMMA HandlerFrame ==
  ASSUME NEW q \in Reqs, HandlerOK(q),
         pc'[q] = pc[q], call'[q] = call[q], local'[q] = local[q]
  PROVE  HandlerOK(q)'
  BY DEF HandlerOK, HoldsProject, HoldsTask

\* Answering a request.
LEMMA FinishOK ==
  ASSUME ReqTypeOK, HandlersOK, NEW r \in Reqs, pc[r] # "idle",
         NEW code \in Codes, NEW ids \in SUBSET (Projects \cup Tasks),
         Finish(r, code, ids)
  PROVE  ReqTypeOK' /\ HandlersOK'
<1>1. /\ pc' = [pc EXCEPT ![r] = "done"]
      /\ call' = call
      /\ local' = [local EXCEPT ![r] = Blank]
      /\ reply' = [reply EXCEPT ![r] = [code |-> code, ids |-> ids]]
  BY DEF Finish, Goto
<1>2. ReqTypeOK'
  BY <1>1 DEF ReqTypeOK, Labels, Blank, Entities
<1>3. ASSUME NEW q \in Reqs, pc'[q] # "idle" PROVE HandlerOK(q)'
  <2>1. CASE q = r
    <3>1. call[r] \in Calls
      BY DEF HandlersOK, HandlerOK
    <3>2. call[r].op \in AllOps
      BY <3>1, CallFields
    <3>3. pc'[q] = "done" /\ call'[q] = call[r]
      BY <1>1, <2>1 DEF ReqTypeOK
    <3>4. QED BY <3>1, <3>2, <3>3 DEF HandlerOK, OpsAt
  <2>2. CASE q # r
    <3>1. pc'[q] = pc[q] /\ call'[q] = call[q] /\ local'[q] = local[q]
      BY <1>1, <2>2 DEF ReqTypeOK
    <3>2. QED BY <3>1, <1>3, HandlerFrame DEF HandlersOK
  <2>3. QED BY <2>1, <2>2
<1>4. QED BY <1>2, <1>3 DEF HandlersOK

\* Moving a handler to its next await.
LEMMA MoveOK ==
  ASSUME ReqTypeOK, HandlersOK, NEW r \in Reqs, NEW label \in Labels,
         NEW c \in Calls, NEW l \in [entity : Entities, fresh : Entities,
                                     prev : Given \cup {Absent}],
         Goto(r, label),
         call' = [call EXCEPT ![r] = c],
         local' = [local EXCEPT ![r] = l],
         UNCHANGED reply,
         HandlerOK(r)'
  PROVE  ReqTypeOK' /\ HandlersOK'
<1>1. ReqTypeOK'
  BY DEF ReqTypeOK, Goto
<1>2. ASSUME NEW q \in Reqs, pc'[q] # "idle", q # r PROVE HandlerOK(q)'
  <2>1. pc'[q] = pc[q] /\ call'[q] = call[q] /\ local'[q] = local[q]
    BY <1>2 DEF ReqTypeOK, Goto
  <2>2. QED BY <2>1, <1>2, HandlerFrame DEF HandlersOK
<1>3. QED BY <1>1, <1>2 DEF HandlersOK

\* A handler that only waits for something else now.
LEMMA GotoOK ==
  ASSUME ReqTypeOK, HandlersOK, NEW r \in Reqs, NEW label \in Labels,
         pc[r] # "idle", Goto(r, label), UNCHANGED <<call, local, reply>>,
         HandlerOK(r)'
  PROVE  ReqTypeOK' /\ HandlersOK'
<1>1. call' = [call EXCEPT ![r] = call[r]] /\ local' = [local EXCEPT ![r] = local[r]]
  BY DEF ReqTypeOK
<1>2. call[r] \in Calls
  BY DEF HandlersOK, HandlerOK
<1>3. local[r] \in [entity : Entities, fresh : Entities, prev : Given \cup {Absent}]
  BY DEF ReqTypeOK
<1>4. QED BY <1>1, <1>2, <1>3, MoveOK

\* The marks stay marks.
LEMMA MarkOK ==
  ASSUME HistoryTypeOK, NEW r \in Reqs,
         NEW flag \in {"raced", "late", "moved", "told"}, Mark(r, flag)
  PROVE  marks' \in [Reqs -> SUBSET {"raced", "late", "moved", "told"}]
  BY DEF HistoryTypeOK, Mark

LEMMA MarkCommitOK ==
  ASSUME HistoryTypeOK, NEW r \in Reqs, NEW p,
         NEW flags \in SUBSET {"raced", "late", "moved", "told"},
         MarkCommit(r, p, flags)
  PROVE  marks' \in [Reqs -> SUBSET {"raced", "late", "moved", "told"}]
  BY DEF HistoryTypeOK, MarkCommit

\* After a commit the handler is at the invalidation, or has answered 500.
Mutations == {"updateProject", "deleteProject", "createTask", "updateTask",
              "deleteTask"}

LEMMA AfterCommitOK ==
  ASSUME ReqTypeOK, HandlersOK, suspect \subseteq Projects,
         NEW r \in Reqs, pc[r] # "idle", NEW c \in Calls,
         c.op \in Mutations, c.op = "createTask" => c.task \in Tasks,
         AfterCommit(r, c)
  PROVE  ReqTypeOK' /\ HandlersOK' /\ suspect' \subseteq Projects
<1>1. CASE /\ Goto(r, "invalidate")
           /\ call' = [call EXCEPT ![r] = c]
           /\ UNCHANGED <<local, reply, suspect>>
  <2>1. local' = [local EXCEPT ![r] = local[r]]
        /\ local[r] \in [entity : Entities, fresh : Entities,
                         prev : Given \cup {Absent}]
    BY <1>1 DEF ReqTypeOK
  <2>2. pc'[r] = "invalidate" /\ call'[r] = c
    BY <1>1 DEF ReqTypeOK, Goto
  <2>3. HandlerOK(r)'
    BY <2>2 DEF HandlerOK, OpsAt, Mutations
  <2>4. QED BY <1>1, <2>1, <2>3, MoveOK DEF Labels
<1>2. CASE Finish(r, 500, {}) /\ suspect' = Doubted(c.user, c.proj)
  <2>1. c.proj \in Projects
    BY CallFields DEF Mutations
  <2>2. suspect' \subseteq Projects
    BY <1>2, <2>1 DEF Doubted
  <2>3. ReqTypeOK' /\ HandlersOK'
    BY <1>2, FinishOK DEF Codes
  <2>4. QED BY <2>2, <2>3
<1>3. QED BY <1>1, <1>2 DEF AfterCommit

-----------------------------------------------------------------------------
\* Type correctness, one lemma per action.

\* A handler that moves on, keeping its call and changing what it holds.
LEMMA HoldOK ==
  ASSUME ReqTypeOK, HandlersOK, NEW r \in Reqs, NEW label \in Labels,
         pc[r] # "idle", Goto(r, label), UNCHANGED <<call, reply>>,
         NEW l \in [entity : Entities, fresh : Entities,
                    prev : Given \cup {Absent}],
         local' = [local EXCEPT ![r] = l],
         HandlerOK(r)'
  PROVE  ReqTypeOK' /\ HandlersOK'
<1>1. call' = [call EXCEPT ![r] = call[r]] /\ call[r] \in Calls
  BY DEF ReqTypeOK, HandlersOK, HandlerOK
<1>2. QED BY <1>1, MoveOK

LEMMA AcceptType ==
  ASSUME TypeOK, NEW r \in Reqs, Accept(r)
  PROVE  TypeOK'
<1> USE DEF TypeOK
<1>1. PICK c \in Requests :
        /\ Goto(r, FirstCall(c.op))
        /\ call' = [call EXCEPT ![r] = c]
        /\ marks' = [marks EXCEPT ![r] =
             IF {c.proj, c.task} \cap buried # {} THEN {"late"} ELSE {}]
  BY DEF Accept
<1>2. c \in Calls /\ c.op \in AllOps
  <2>1. c \in Calls BY DEF Calls
  <2>2. QED BY <2>1, CallFields
<1>3. ReqTypeOK' /\ HandlersOK'
  <2>1. FirstCall(c.op) \in Labels
    BY DEF FirstCall, Labels
  <2>2. local' = [local EXCEPT ![r] = local[r]] /\ UNCHANGED reply
        /\ local[r] \in [entity : Entities, fresh : Entities,
                         prev : Given \cup {Absent}]
    BY DEF Accept, ReqTypeOK
  <2>3. pc'[r] = FirstCall(c.op) /\ call'[r] = c
    BY <1>1 DEF ReqTypeOK, Goto
  <2>4. HandlerOK(r)'
    BY <1>2, <2>3 DEF HandlerOK, OpsAt, FirstCall, AllOps
  <2>5. QED BY <1>1, <1>2, <2>1, <2>2, <2>4, MoveOK
<1>4. HistoryTypeOK'
  BY <1>1 DEF Accept, HistoryTypeOK
<1>5. DbTypeOK' /\ RedisTypeOK'
  BY DEF Accept, DbTypeOK, RedisTypeOK, dbVars, redisVars, queueVars
<1>6. QED BY <1>3, <1>4, <1>5

LEMMA RespondType ==
  ASSUME TypeOK, NEW r \in Reqs, Respond(r)
  PROVE  TypeOK'
<1> USE DEF TypeOK
<1>1. /\ pc' = [pc EXCEPT ![r] = "idle"]
      /\ call' = [call EXCEPT ![r] = Absent]
      /\ local' = [local EXCEPT ![r] = Blank]
      /\ reply' = [reply EXCEPT ![r] = NoReply]
      /\ marks' = [marks EXCEPT ![r] = {}]
      /\ UNCHANGED <<suspect, buried>>
  BY DEF Respond, Vacate
<1>2. ReqTypeOK'
  BY <1>1 DEF ReqTypeOK, Labels, Blank, Entities, NoReply, Codes
<1>3. ASSUME NEW q \in Reqs, pc'[q] # "idle" PROVE HandlerOK(q)'
  <2>1. q # r
    BY <1>1, <1>3 DEF ReqTypeOK
  <2>2. pc'[q] = pc[q] /\ call'[q] = call[q] /\ local'[q] = local[q]
    BY <1>1, <2>1 DEF ReqTypeOK
  <2>3. QED BY <1>3, <2>2, HandlerFrame DEF HandlersOK
<1>4. HistoryTypeOK'
  BY <1>1 DEF HistoryTypeOK
<1>5. DbTypeOK' /\ RedisTypeOK'
  BY DEF Respond, DbTypeOK, RedisTypeOK, dbVars, redisVars, queueVars
<1>6. QED BY <1>2, <1>3, <1>4, <1>5 DEF HandlersOK

LEMMA RequireOwnedProjectType ==
  ASSUME TypeOK, NEW r \in Reqs, RequireOwnedProject(r)
  PROVE  TypeOK'
<1> USE DEF TypeOK
<1> DEFINE c == call[r]
           row == FindByIdAndOwner(c.proj, c.user)
           l == [local[r] EXCEPT !.entity =
                   IF c.op = "updateProject" THEN Assign(row, c.change)
                                             ELSE Absent]
<1>1. /\ pc[r] # "idle"
      /\ c \in Calls
      /\ c.op \in AllOps \ {"createProject", "listProjects", "getDetail"}
      /\ c.proj \in Projects
      /\ c.op = "updateProject" => c.change \in ProjectChanges
  <2>1. pc[r] = "requireOwnedProject"
    BY DEF RequireOwnedProject
  <2>2. c \in Calls /\ c.op \in OpsAt("requireOwnedProject")
    BY <2>1 DEF HandlersOK, HandlerOK
  <2>3. QED BY <2>1, <2>2, CallFields DEF OpsAt
<1>2. ReqTypeOK' /\ HandlersOK'
  <2>1. CASE Finish(r, 404, {})
    BY <1>1, <2>1, FinishOK DEF Codes
  <2>2. CASE /\ row # Absent
             /\ Goto(r, CallAfterOwned(c.op))
             /\ local' = [local EXCEPT ![r].entity =
                  IF c.op = "updateProject" THEN Assign(row, c.change)
                                            ELSE Absent]
             /\ UNCHANGED <<call, reply>>
    <3>1. row \in ProjectRows /\ row.owner = c.user
      BY <1>1, <2>2 DEF FindByIdAndOwner, DbTypeOK
    <3>2. c.op = "updateProject" =>
            /\ Assign(row, c.change) \in ProjectEntities
            /\ Assign(row, c.change).owner = c.user
      BY <1>1, <3>1, AssignProject
    <3>3. /\ local' = [local EXCEPT ![r] = l]
          /\ l \in [entity : Entities, fresh : Entities,
                    prev : Given \cup {Absent}]
          /\ l.fresh = local[r].fresh
          /\ c.op = "updateProject" => l.entity = Assign(row, c.change)
      BY <2>2, <3>2 DEF ReqTypeOK, Entities
    <3>4. CallAfterOwned(c.op) \in Labels
      BY DEF CallAfterOwned, Labels
    <3>5. pc'[r] = CallAfterOwned(c.op) /\ call'[r] = c /\ local'[r] = l
      BY <2>2, <3>3 DEF ReqTypeOK, Goto
    <3>6. HandlerOK(r)'
      BY <1>1, <3>2, <3>3, <3>5 DEF HandlerOK, HoldsProject, OpsAt, AllOps, CallAfterOwned
    <3>7. QED BY <1>1, <2>2, <3>3, <3>4, <3>6, HoldOK
  <2>3. QED BY <2>1, <2>2 DEF RequireOwnedProject
<1>3. DbTypeOK' /\ RedisTypeOK' /\ HistoryTypeOK'
  BY DEF RequireOwnedProject, DbTypeOK, RedisTypeOK, HistoryTypeOK,
         dbVars, redisVars, queueVars, history
<1>4. QED BY <1>2, <1>3

LEMMA RequireTaskType ==
  ASSUME TypeOK, NEW r \in Reqs, RequireTask(r)
  PROVE  TypeOK'
<1> USE DEF TypeOK
<1> DEFINE c == call[r]
           row == FindByIdAndProject(c.task, c.proj)
           l == [entity |-> Assign(row, c.change), fresh |-> Absent,
                 prev |-> row.cols["status"]]
<1>1. /\ pc[r] # "idle"
      /\ c \in Calls
      /\ c.task \in Tasks
      /\ c.op = "updateTask" => c.change \in TaskChanges
  <2>1. pc[r] = "requireTask"
    BY DEF RequireTask
  <2>2. c \in Calls /\ c.op \in OpsAt("requireTask")
    BY <2>1 DEF HandlersOK, HandlerOK
  <2>3. QED BY <2>1, <2>2, CallFields DEF OpsAt
<1>2. ReqTypeOK' /\ HandlersOK'
  <2>1. CASE Finish(r, 404, {})
    BY <1>1, <2>1, FinishOK DEF Codes
  <2>2. CASE Finish(r, 200, {c.task})
    BY <1>1, <2>2, FinishOK DEF Codes
  <2>3. CASE c.op = "deleteTask" /\ Goto(r, "remove") /\ UNCHANGED <<call, local, reply>>
    <3>1. pc'[r] = "remove" /\ call'[r] = c
      BY <2>3 DEF ReqTypeOK, Goto
    <3>2. HandlerOK(r)'
      BY <1>1, <2>3, <3>1 DEF HandlerOK, OpsAt
    <3>3. QED BY <1>1, <2>3, <3>2, GotoOK DEF Labels
  <2>4. CASE /\ row # Absent
             /\ c.op = "updateTask"
             /\ Goto(r, "load")
             /\ local' = [local EXCEPT ![r] = l]
             /\ UNCHANGED <<call, reply>>
    <3>1. row \in TaskRows /\ row.project = c.proj
      BY <1>1, <2>4 DEF FindByIdAndProject, DbTypeOK
    <3>2. Assign(row, c.change) \in TaskEntities /\ Assign(row, c.change).project = c.proj
      BY <1>1, <2>4, <3>1, AssignTask
    <3>3. row.cols["status"] \in Given
      BY <3>1, StatusIsAColumn DEF TaskRows, TaskData
    <3>4. l \in [entity : Entities, fresh : Entities, prev : Given \cup {Absent}]
      BY <3>2, <3>3 DEF Entities
    <3>5. pc'[r] = "load" /\ call'[r] = c /\ local'[r] = l
      BY <2>4 DEF ReqTypeOK, Goto
    <3>6. HandlerOK(r)'
      BY <1>1, <2>4, <3>2, <3>5 DEF HandlerOK, HoldsTask, OpsAt
    <3>7. QED BY <1>1, <2>4, <3>4, <3>6, HoldOK DEF Labels
  <2>5. QED BY <2>1, <2>2, <2>3, <2>4 DEF RequireTask
<1>3. DbTypeOK' /\ RedisTypeOK' /\ HistoryTypeOK'
  BY DEF RequireTask, DbTypeOK, RedisTypeOK, HistoryTypeOK,
         dbVars, redisVars, queueVars, history
<1>4. QED BY <1>2, <1>3

\* What is known of a handler at a label.
LEMMA AtLabel ==
  ASSUME TypeOK, NEW r \in Reqs, pc[r] # "idle"
  PROVE  /\ HandlerOK(r)
         /\ call[r] \in Calls
         /\ call[r].op \in OpsAt(pc[r])
  BY DEF TypeOK, HandlersOK, HandlerOK

\* A rejected statement changes nothing but the answer.
LEMMA RejectType ==
  ASSUME TypeOK, NEW r \in Reqs, pc[r] # "idle", Reject(r),
         UNCHANGED <<redisVars, queueVars, buried>>
  PROVE  TypeOK'
<1> USE DEF TypeOK
<1>1. ReqTypeOK' /\ HandlersOK'
  BY FinishOK DEF Reject, Codes
<1>2. DbTypeOK' /\ RedisTypeOK' /\ HistoryTypeOK'
  BY DEF Reject, DbTypeOK, RedisTypeOK, HistoryTypeOK, dbVars, redisVars, queueVars
<1>3. QED BY <1>1, <1>2

LEMMA InsertProjectType ==
  ASSUME TypeOK, NEW r \in Reqs, InsertProject(r)
  PROVE  TypeOK'
<1> USE DEF TypeOK
<1>1. /\ pc[r] # "idle"
      /\ call[r].user \in Users
      /\ call[r].change \in NewProjects
      /\ UNCHANGED <<redisVars, queueVars, buried>>
  BY AtLabel, CallFields DEF InsertProject
<1>2. ASSUME NEW p \in UnusedProjects,
             Storable(call[r].change),
             InsertProjectRow(p, call[r].user, call[r].change),
             Finish(r, 201, {p}) \/ Finish(r, 500, {}),
             UNCHANGED <<suspect, marks>>
      PROVE  TypeOK'
  <2>1. p \in Projects
    BY DEF UnusedProjects
  <2>2. call[r].change \in ProjectData
    BY <1>1, <1>2 DEF NewProjects, ProjectData
  <2>3. DbTypeOK'
    BY <1>1, <1>2, <2>1, <2>2 DEF DbTypeOK, InsertProjectRow, ProjectRows
  <2>4. ReqTypeOK' /\ HandlersOK'
    <3>1. CASE Finish(r, 201, {p}) BY <1>1, <2>1, <3>1, FinishOK DEF Codes
    <3>2. CASE Finish(r, 500, {}) BY <1>1, <3>2, FinishOK DEF Codes
    <3>3. QED BY <1>2, <3>1, <3>2
  <2>5. RedisTypeOK' /\ HistoryTypeOK'
    BY <1>1, <1>2 DEF RedisTypeOK, HistoryTypeOK, redisVars, queueVars
  <2>6. QED BY <2>3, <2>4, <2>5
<1>3. CASE Reject(r)
  BY <1>1, <1>3, RejectType
<1>4. QED BY <1>2, <1>3 DEF InsertProject

\* A committed statement, its marks, and what the handler does after it.
LEMMA CommitType ==
  ASSUME TypeOK, NEW r \in Reqs, pc[r] # "idle", NEW c \in Calls,
         c.op \in Mutations, c.op = "createTask" => c.task \in Tasks,
         NEW p, NEW flags \in SUBSET {"raced", "late", "moved", "told"},
         MarkCommit(r, p, flags), AfterCommit(r, c), DbTypeOK',
         UNCHANGED <<redisVars, queueVars, buried>>
  PROVE  TypeOK'
<1> USE DEF TypeOK
<1>1. ReqTypeOK' /\ HandlersOK' /\ suspect' \subseteq Projects
  BY AfterCommitOK DEF HistoryTypeOK
<1>2. marks' \in [Reqs -> SUBSET {"raced", "late", "moved", "told"}]
  BY MarkCommitOK
<1>3. HistoryTypeOK' /\ RedisTypeOK'
  BY <1>1, <1>2 DEF HistoryTypeOK, RedisTypeOK, redisVars, queueVars
<1>4. QED BY <1>1, <1>3

LEMMA InsertTaskType ==
  ASSUME TypeOK, NEW r \in Reqs, InsertTask(r)
  PROVE  TypeOK'
<1> DEFINE c == call[r]
<1>1. /\ pc[r] # "idle"
      /\ c \in Calls
      /\ c.op = "createTask"
      /\ c.proj \in Projects
      /\ c.change \in NewTasks
      /\ UNCHANGED <<redisVars, queueVars, buried>>
  BY AtLabel, CallFields DEF InsertTask
<1>2. CASE Reject(r)
  BY <1>1, <1>2, RejectType
<1>3. ASSUME NEW t \in UnusedTasks,
             Storable(c.change),
             InsertTaskRow(t, c.proj, c.change),
             MarkCommit(r, c.proj, {}),
             AfterCommit(r, [c EXCEPT !.task = t])
      PROVE  TypeOK'
  <2>1. t \in Tasks BY DEF UnusedTasks
  <2>2. DbTypeOK'
    BY <1>1, <1>3, <2>1 DEF TypeOK, DbTypeOK, InsertTaskRow, TaskRows,
                            NewTasks, TaskData
  <2>3. /\ [c EXCEPT !.task = t] \in Calls
        /\ [c EXCEPT !.task = t].op = "createTask"
        /\ [c EXCEPT !.task = t].task = t
    BY <1>1, <2>1, SavedCall
  <2>4. QED BY <1>1, <1>3, <2>1, <2>2, <2>3, CommitType DEF Mutations
<1>4. QED BY <1>2, <1>3 DEF InsertTask

LEMMA LoadType ==
  ASSUME TypeOK, NEW r \in Reqs, Load(r)
  PROVE  TypeOK'
<1> USE DEF TypeOK
<1> DEFINE c == call[r]
           fresh == IF c.op = "updateProject" THEN projects[c.proj]
                                              ELSE tasks[c.task]
           l == [local[r] EXCEPT !.fresh = fresh]
<1>1. pc[r] = "load"
  BY DEF Load
<1>2. /\ c \in Calls
      /\ c.op \in {"updateProject", "updateTask"}
      /\ c.op = "updateProject" => c.proj \in Projects
      /\ c.op = "updateTask" => c.task \in Tasks
      /\ HoldsProject(r) \/ HoldsTask(r)
  BY <1>1, AtLabel, CallFields DEF OpsAt, HandlerOK
<1>3. ReqTypeOK' /\ HandlersOK'
  <2>1. CASE Goto(r, "invalidate") /\ UNCHANGED <<call, local, reply>>
    <3>1. pc'[r] = "invalidate" /\ call'[r] = c
      BY <2>1 DEF ReqTypeOK, Goto
    <3>2. HandlerOK(r)'
      BY <1>2, <3>1 DEF HandlerOK, OpsAt
    <3>3. QED BY <1>1, <2>1, <3>2, GotoOK DEF Labels
  <2>2. CASE /\ Goto(r, "save")
             /\ local' = [local EXCEPT ![r].fresh = fresh]
             /\ UNCHANGED <<call, reply>>
    <3>1. fresh \in Entities
      BY <1>2, RowsAndEntities DEF DbTypeOK, Entities
    <3>2. /\ local' = [local EXCEPT ![r] = l]
          /\ l \in [entity : Entities, fresh : Entities, prev : Given \cup {Absent}]
          /\ l.entity = local[r].entity
      BY <2>2, <3>1 DEF ReqTypeOK
    <3>3. pc'[r] = "save" /\ call'[r] = c /\ local'[r] = l
      BY <2>2, <3>2 DEF ReqTypeOK, Goto
    <3>4. HandlerOK(r)'
      BY <1>2, <3>2, <3>3 DEF HandlerOK, HoldsProject, HoldsTask, OpsAt
    <3>5. QED BY <1>1, <2>2, <3>2, <3>4, HoldOK DEF Labels
  <2>3. QED BY <2>1, <2>2 DEF Load
<1>4. DbTypeOK' /\ RedisTypeOK' /\ HistoryTypeOK'
  BY DEF Load, DbTypeOK, RedisTypeOK, HistoryTypeOK,
         dbVars, redisVars, queueVars, history
<1>5. QED BY <1>3, <1>4

LEMMA SaveProjectType ==
  ASSUME TypeOK, NEW r \in Reqs, SaveProject(r)
  PROVE  TypeOK'
<1> DEFINE c == call[r]
<1>1. /\ pc[r] = "save"
      /\ c.op = "updateProject"
      /\ UNCHANGED <<redisVars, queueVars, buried>>
  BY DEF SaveProject
<1>2. /\ c \in Calls
      /\ c.proj \in Projects
      /\ local[r].entity \in ProjectEntities
  BY <1>1, AtLabel, CallFields DEF HandlerOK, HoldsProject, HoldsTask
<1>3. CASE Reject(r)
  BY <1>1, <1>3, RejectType
<1>4. CASE /\ ProjectFlushAccepted(c.proj, local[r].entity, local[r].fresh)
           /\ FlushProjectRow(c.proj, local[r].entity, local[r].fresh)
           /\ MarkCommit(r, c.proj, {})
           /\ AfterCommit(r, c)
  <2>1. Flushed(projects[c.proj], local[r].entity, local[r].fresh)
          \in ProjectRows \cup {Absent}
    BY <1>2, <1>4, FlushedProject DEF TypeOK, DbTypeOK, ProjectFlushAccepted
  <2>2. DbTypeOK'
    BY <1>2, <1>4, <2>1 DEF TypeOK, DbTypeOK, FlushProjectRow
  <2>3. QED BY <1>1, <1>2, <1>4, <2>2, CommitType DEF Mutations
<1>5. QED BY <1>3, <1>4 DEF SaveProject

LEMMA SaveTaskType ==
  ASSUME TypeOK, NEW r \in Reqs, SaveTask(r)
  PROVE  TypeOK'
<1> DEFINE c == call[r]
<1>1. /\ pc[r] = "save"
      /\ c.op = "updateTask"
      /\ UNCHANGED <<redisVars, queueVars, buried>>
  BY DEF SaveTask
<1>2. /\ c \in Calls
      /\ c.task \in Tasks
      /\ local[r].entity \in TaskEntities
  BY <1>1, AtLabel, CallFields DEF HandlerOK, HoldsProject, HoldsTask
<1>3. CASE Reject(r)
  BY <1>1, <1>3, RejectType
<1>4. ASSUME NEW flags \in SUBSET {"raced", "late", "moved", "told"},
             TaskFlushAccepted(c.task, local[r].entity, local[r].fresh),
             FlushTaskRow(c.task, local[r].entity, local[r].fresh),
             MarkCommit(r, c.proj, flags),
             AfterCommit(r, c)
      PROVE  TypeOK'
  <2>1. Flushed(tasks[c.task], local[r].entity, local[r].fresh)
          \in TaskRows \cup {Absent}
    BY <1>2, <1>4, FlushedTask DEF TypeOK, DbTypeOK, TaskFlushAccepted
  <2>2. DbTypeOK'
    BY <1>2, <1>4, <2>1 DEF TypeOK, DbTypeOK, FlushTaskRow
  <2>3. QED BY <1>1, <1>2, <1>4, <2>2, CommitType DEF Mutations
<1>5. QED BY <1>3, <1>4 DEF SaveTask

LEMMA RemoveProjectType ==
  ASSUME TypeOK, NEW r \in Reqs, RemoveProject(r)
  PROVE  TypeOK'
<1>1. /\ pc[r] # "idle"
      /\ call[r] \in Calls
      /\ call[r].op \in Mutations
      /\ call[r].op # "createTask"
      /\ call[r].proj \in Projects
  BY AtLabel, CallFields DEF RemoveProject, Mutations
<1>2. DbTypeOK'
  BY <1>1 DEF TypeOK, DbTypeOK, RemoveProject, DeleteProjectRow
<1>3. QED BY <1>1, <1>2, CommitType DEF RemoveProject

LEMMA RemoveTaskType ==
  ASSUME TypeOK, NEW r \in Reqs, RemoveTask(r)
  PROVE  TypeOK'
<1>1. /\ pc[r] # "idle"
      /\ call[r] \in Calls
      /\ call[r].op \in Mutations
      /\ call[r].op # "createTask"
      /\ call[r].task \in Tasks
  BY AtLabel, CallFields DEF RemoveTask, Mutations
<1>2. DbTypeOK'
  BY <1>1 DEF TypeOK, DbTypeOK, RemoveTask, DeleteTaskRow
<1>3. QED BY <1>1, <1>2, CommitType DEF RemoveTask

\* The answer of a mutation.
LEMMA SucceedOK ==
  ASSUME TypeOK, NEW r \in Reqs, pc[r] \in {"invalidate", "publish"}, Succeed(r)
  PROVE  ReqTypeOK' /\ HandlersOK'
<1>1. /\ call[r] \in Calls
      /\ call[r].op = "createTask" => call[r].task \in Tasks
  BY AtLabel DEF HandlerOK
<1>2. /\ call[r].op = "updateProject" => call[r].proj \in Projects
      /\ call[r].op = "updateTask" => call[r].task \in Tasks
  BY <1>1, CallFields
<1>3. \E code \in {200, 201, 204}, ids \in SUBSET (Projects \cup Tasks) :
        Finish(r, code, ids)
  BY <1>1, <1>2 DEF Succeed
<1>4. QED BY <1>3, FinishOK DEF TypeOK, Codes

LEMMA InvalidateType ==
  ASSUME TypeOK, NEW r \in Reqs, Invalidate(r)
  PROVE  TypeOK'
<1> USE DEF TypeOK
<1>1. pc[r] = "invalidate"
  BY DEF Invalidate
<1>2. /\ call[r] \in Calls
      /\ call[r].op \in Mutations
      /\ call[r].op = "createTask" => call[r].task \in Tasks
      /\ call[r].proj \in Projects
      /\ call[r].user \in Users
      /\ call[r].op = "deleteTask" => call[r].task \in Tasks
  BY <1>1, AtLabel, CallFields DEF HandlerOK, OpsAt, Mutations
<1>3. ReqTypeOK' /\ HandlersOK'
  <2>1. CASE NeedsEvent(r) /\ Goto(r, "publish") /\ UNCHANGED <<call, local, reply>>
    <3>1. pc'[r] = "publish" /\ call'[r] = call[r]
      BY <2>1 DEF ReqTypeOK, Goto
    <3>2. HandlerOK(r)'
      BY <1>2, <2>1, <3>1 DEF HandlerOK, OpsAt, NeedsEvent, StatusChanged
    <3>3. QED BY <1>1, <2>1, <3>2, GotoOK DEF Labels
  <2>2. CASE Succeed(r)
    BY <1>1, <2>2, SucceedOK
  <2>3. QED BY <2>1, <2>2 DEF Invalidate
<1>4. RedisTypeOK'
  BY <1>2 DEF Invalidate, CacheWithout, RedisTypeOK, queueVars
<1>5. suspect' \subseteq Projects
  BY <1>2 DEF Invalidate, Doubted, HistoryTypeOK
<1>6. buried' \subseteq Projects \cup Tasks
  BY <1>2 DEF Invalidate, Buries, HistoryTypeOK
<1>7. HistoryTypeOK' /\ DbTypeOK'
  BY <1>5, <1>6 DEF Invalidate, HistoryTypeOK, DbTypeOK, dbVars
<1>8. QED BY <1>3, <1>4, <1>7

LEMMA PublishType ==
  ASSUME TypeOK, NEW r \in Reqs, Publish(r)
  PROVE  TypeOK'
<1> USE DEF TypeOK
<1>1. pc[r] = "publish"
  BY DEF Publish
<1>2. /\ call[r].user \in Users
      /\ call[r].proj \in Projects
      /\ call[r].task \in Tasks
  BY <1>1, AtLabel, CallFields DEF HandlerOK, OpsAt
<1>3. EventOf(r) \in Events
  BY <1>2 DEF EventOf, Events
<1>4. ReqTypeOK' /\ HandlersOK'
  BY <1>1, SucceedOK DEF Publish
<1>5. RedisTypeOK'
  BY <1>3 DEF Publish, RedisTypeOK, redisVars
<1>6. HistoryTypeOK'
  BY MarkOK DEF Publish, HistoryTypeOK
<1>7. DbTypeOK'
  BY DEF Publish, DbTypeOK, dbVars
<1>8. QED BY <1>4, <1>5, <1>6, <1>7

\* The ids a response body shows are ids.
LEMMA IdsInType ==
  ASSUME NEW p \in Projects, NEW doc
  PROVE  IdsIn(p, doc) \in SUBSET (Projects \cup Tasks)
  BY DEF IdsIn, TasksIn

LEMMA CacheGetType ==
  ASSUME TypeOK, NEW r \in Reqs, CacheGet(r)
  PROVE  TypeOK'
<1> USE DEF TypeOK
<1>1. pc[r] = "cacheGet"
  BY DEF CacheGet
<1>2. call[r] \in Calls /\ call[r].op = "getDetail" /\ call[r].proj \in Projects
  BY <1>1, AtLabel, CallFields DEF OpsAt
<1>3. ReqTypeOK' /\ HandlersOK'
  <2>1. ASSUME NEW value, Finish(r, 200, IdsIn(call[r].proj, value))
        PROVE  ReqTypeOK' /\ HandlersOK'
    BY <1>1, <1>2, <2>1, IdsInType, FinishOK DEF Codes
  <2>2. CASE Goto(r, "findDetail") /\ UNCHANGED <<call, local, reply>>
    <3>1. pc'[r] = "findDetail" /\ call'[r] = call[r]
      BY <2>2 DEF ReqTypeOK, Goto
    <3>2. HandlerOK(r)'
      BY <1>2, <3>1 DEF HandlerOK, OpsAt
    <3>3. QED BY <1>1, <2>2, <3>2, GotoOK DEF Labels
  <2>3. QED BY <2>1, <2>2 DEF CacheGet
<1>4. DbTypeOK' /\ RedisTypeOK' /\ HistoryTypeOK'
  BY DEF CacheGet, DbTypeOK, RedisTypeOK, HistoryTypeOK,
         dbVars, redisVars, queueVars, history
<1>5. QED BY <1>3, <1>4

LEMMA FindDetailType ==
  ASSUME TypeOK, NEW r \in Reqs, FindDetail(r)
  PROVE  TypeOK'
<1> USE DEF TypeOK
<1> DEFINE doc == FindDetailByIdAndOwner(call[r].proj, call[r].user)
           l == [local[r] EXCEPT !.entity = doc]
<1>1. pc[r] = "findDetail"
  BY DEF FindDetail
<1>2. /\ call[r] \in Calls
      /\ call[r].op = "getDetail"
      /\ call[r].proj \in Projects
      /\ call[r].user \in Users
  BY <1>1, AtLabel, CallFields DEF OpsAt
<1>3. ReqTypeOK' /\ HandlersOK'
  <2>1. CASE Finish(r, 404, {})
    BY <1>1, <2>1, FinishOK DEF Codes
  <2>2. CASE /\ doc # Absent
             /\ Goto(r, "cacheSet")
             /\ local' = [local EXCEPT ![r].entity = doc]
             /\ UNCHANGED <<call, reply>>
    <3>1. doc \in Details
      BY <1>2, <2>2, DetailType
    <3>2. /\ local' = [local EXCEPT ![r] = l]
          /\ l \in [entity : Entities, fresh : Entities, prev : Given \cup {Absent}]
          /\ l.entity = doc
      BY <2>2, <3>1 DEF ReqTypeOK, Entities
    <3>3. pc'[r] = "cacheSet" /\ call'[r] = call[r] /\ local'[r] = l
      BY <2>2, <3>2 DEF ReqTypeOK, Goto
    <3>4. HandlerOK(r)'
      BY <1>2, <3>1, <3>2, <3>3 DEF HandlerOK, OpsAt
    <3>5. QED BY <1>1, <2>2, <3>2, <3>4, HoldOK DEF Labels
  <2>3. QED BY <2>1, <2>2 DEF FindDetail
<1>4. DbTypeOK' /\ RedisTypeOK' /\ HistoryTypeOK'
  BY DEF FindDetail, DbTypeOK, RedisTypeOK, HistoryTypeOK,
         dbVars, redisVars, queueVars, history
<1>5. QED BY <1>3, <1>4

LEMMA CacheSetType ==
  ASSUME TypeOK, NEW r \in Reqs, CacheSet(r)
  PROVE  TypeOK'
<1> USE DEF TypeOK
<1>1. pc[r] = "cacheSet"
  BY DEF CacheSet
<1>2. /\ call[r] \in Calls
      /\ call[r].op = "getDetail"
      /\ call[r].proj \in Projects
      /\ call[r].user \in Users
      /\ local[r].entity \in Details
  BY <1>1, AtLabel, CallFields DEF OpsAt, HandlerOK
<1>3. ReqTypeOK' /\ HandlersOK'
  BY <1>1, <1>2, IdsInType, FinishOK DEF CacheSet, Codes
<1>4. RedisTypeOK'
  BY <1>2 DEF CacheSet, CacheWith, RedisTypeOK, queueVars
<1>5. HistoryTypeOK'
  BY <1>2 DEF CacheSet, HistoryTypeOK
<1>6. DbTypeOK'
  BY DEF CacheSet, DbTypeOK, dbVars
<1>7. QED BY <1>3, <1>4, <1>5, <1>6

LEMMA QueryType ==
  ASSUME TypeOK, NEW r \in Reqs, Query(r)
  PROVE  TypeOK'
<1> USE DEF TypeOK
<1>1. pc[r] # "idle" /\ \E page \in SUBSET (Projects \cup Tasks) : Finish(r, 200, page)
  BY DEF Query, ProjectsOf, TasksOf
<1>2. ReqTypeOK' /\ HandlersOK'
  BY <1>1, FinishOK DEF Codes
<1>3. DbTypeOK' /\ RedisTypeOK' /\ HistoryTypeOK'
  BY DEF Query, DbTypeOK, RedisTypeOK, HistoryTypeOK,
         dbVars, redisVars, queueVars, history
<1>4. QED BY <1>2, <1>3

LEMMA RestartType ==
  ASSUME TypeOK, NEW i \in Instances, Restart(i)
  PROVE  TypeOK'
<1> USE DEF TypeOK
<1> DEFINE lost == {r \in Reqs : Home[r] = i}
<1>1. /\ pc' = [r \in Reqs |-> IF r \in lost THEN "idle" ELSE pc[r]]
      /\ call' = [r \in Reqs |-> IF r \in lost THEN Absent ELSE call[r]]
      /\ local' = [r \in Reqs |-> IF r \in lost THEN Blank ELSE local[r]]
      /\ reply' = [r \in Reqs |-> IF r \in lost THEN NoReply ELSE reply[r]]
      /\ marks' = [r \in Reqs |-> IF r \in lost THEN {} ELSE marks[r]]
      /\ suspect' \subseteq suspect \cup Projects
      /\ UNCHANGED buried
  BY DEF Restart
<1>2. ReqTypeOK'
  BY <1>1 DEF ReqTypeOK, Labels, Blank, Entities, NoReply, Codes
<1>3. ASSUME NEW q \in Reqs, pc'[q] # "idle" PROVE HandlerOK(q)'
  <2>1. pc'[q] = pc[q] /\ call'[q] = call[q] /\ local'[q] = local[q]
    BY <1>1, <1>3
  <2>2. QED BY <1>3, <2>1, HandlerFrame DEF HandlersOK
<1>4. HistoryTypeOK'
  BY <1>1 DEF HistoryTypeOK
<1>5. RedisTypeOK'
  <2>1. cacheUp' \in [Instances -> BOOLEAN] /\ queueUp' \in [Instances -> BOOLEAN]
    BY DEF Restart, RedisTypeOK
  <2>2. QED BY <2>1 DEF Restart, RedisTypeOK
<1>6. DbTypeOK'
  BY DEF Restart, DbTypeOK, dbVars
<1>7. QED BY <1>2, <1>3, <1>4, <1>5, <1>6 DEF HandlersOK

LEMMA LinkType ==
  ASSUME TypeOK, NEW i \in Instances, DropCacheClient(i) \/ DropQueue(i)
  PROVE  TypeOK'
<1> USE DEF TypeOK
<1>1. RedisTypeOK'
  BY DEF DropCacheClient, DropQueue, RedisTypeOK, redisVars, queueVars
<1>2. ReqTypeOK' /\ HandlersOK'
  <2>1. UNCHANGED <<pc, call, local, reply>>
    BY DEF DropCacheClient, DropQueue, reqVars
  <2>2. QED BY <2>1, HandlerFrame DEF ReqTypeOK, HandlersOK
<1>3. DbTypeOK' /\ HistoryTypeOK'
  BY DEF DropCacheClient, DropQueue, DbTypeOK, HistoryTypeOK, dbVars, history
<1>4. QED BY <1>1, <1>2, <1>3

LEMMA ExpireType ==
  ASSUME TypeOK, NEW u \in Users, NEW p \in Projects, Expire(u, p)
  PROVE  TypeOK'
<1> USE DEF TypeOK
<1>1. RedisTypeOK'
  BY DEF Expire, RedisTypeOK, queueVars
<1>2. ReqTypeOK' /\ HandlersOK'
  <2>1. UNCHANGED <<pc, call, local, reply>>
    BY DEF Expire, reqVars
  <2>2. QED BY <2>1, HandlerFrame DEF ReqTypeOK, HandlersOK
<1>3. DbTypeOK' /\ HistoryTypeOK'
  BY DEF Expire, DbTypeOK, HistoryTypeOK, dbVars
<1>4. QED BY <1>1, <1>2, <1>3

LEMMA DbErrorType ==
  ASSUME TypeOK, NEW r \in Reqs, DbError(r)
  PROVE  TypeOK'
  BY RejectType DEF DbError, DbLabels

LEMMA InitType == Init => TypeOK
<1> SUFFICES ASSUME Init PROVE TypeOK
  OBVIOUS
<1>1. DbTypeOK
  BY DEF Init, InitDb, DbTypeOK
<1>2. RedisTypeOK
  BY DEF Init, InitCache, RedisTypeOK
<1>3. ReqTypeOK
  BY DEF Init, ReqTypeOK, Labels, Blank, NoReply, Entities, Codes
<1>4. HistoryTypeOK /\ HandlersOK
  BY DEF Init, HistoryTypeOK, HandlersOK
<1>5. QED BY <1>1, <1>2, <1>3, <1>4 DEF TypeOK

LEMMA StutterType == TypeOK /\ UNCHANGED vars => TypeOK'
<1> SUFFICES ASSUME TypeOK, UNCHANGED vars PROVE TypeOK'
  OBVIOUS
<1>1. DbTypeOK' /\ RedisTypeOK' /\ ReqTypeOK' /\ HistoryTypeOK'
  BY DEF TypeOK, DbTypeOK, RedisTypeOK, ReqTypeOK, HistoryTypeOK,
         vars, dbVars, redisVars, queueVars, reqVars, history
<1>2. HandlersOK'
  BY HandlerFrame DEF TypeOK, HandlersOK, vars, reqVars
<1>3. QED BY <1>1, <1>2 DEF TypeOK

LEMMA NextType == TypeOK /\ [Next]_vars => TypeOK'
<1> SUFFICES ASSUME TypeOK, [Next]_vars PROVE TypeOK'
  OBVIOUS
<1>1. ASSUME NEW r \in Reqs, Accept(r) \/ Step(r) PROVE TypeOK'
  BY <1>1, AcceptType, RequireOwnedProjectType, RequireTaskType,
     InsertProjectType, InsertTaskType, LoadType, SaveProjectType,
     SaveTaskType, RemoveProjectType, RemoveTaskType, InvalidateType,
     PublishType, CacheGetType, FindDetailType, CacheSetType, QueryType,
     RespondType DEF Step
<1>2. CASE Environment
  BY <1>2, DbErrorType, ExpireType, LinkType, RestartType DEF Environment
<1>3. CASE UNCHANGED vars
  BY <1>3, StutterType
<1>4. QED BY <1>1, <1>2, <1>3 DEF Next

\* Every variable keeps its type, and every handler stays at an await of its
\* own operation holding what that await's code holds.
THEOREM TypeCorrect == Spec => []TypeOK
  BY InitType, NextType, PTL DEF Spec
=============================================================================
