---------------------------- MODULE ProjectTaskApi ----------------------------
(***************************************************************************)
(* The handlers of ProjectsService and TasksService over the database, the *)
(* Project Detail cache and the task activity queue.  A request runs in a  *)
(* slot; one action is what its handler does from one await to the next,   *)
(* and the label of the slot names the call the handler is waiting for.    *)
(* Between two labels every other request may take steps.                  *)
(***************************************************************************)
EXTENDS ProjectDetailCache

CONSTANTS
  Reqs,    \* the slots in which requests run
  Home,    \* Home[r]: the instance that serves slot r
  Ops,     \* the operations clients call
  Faults   \* what may fail: "db", "redis", "queue", "crash"

AllOps == {"createProject", "listProjects", "getDetail", "updateProject",
           "deleteProject", "createTask", "listTasks", "getTask",
           "updateTask", "deleteTask"}

ASSUME ApiAssumption ==
  /\ Home \in [Reqs -> Instances]
  /\ Ops \subseteq AllOps
  /\ Faults \subseteq {"db", "redis", "queue", "crash"}

VARIABLES
  queueUp,  \* whether an instance holds a BullMQ queue that accepts jobs
  events,   \* the task activity events the queue has accepted
  pc,       \* the call the handler of a slot waits for
  call,     \* the request in a slot
  local,    \* what its handler holds: the entity, what save() loaded of it,
            \* and the status the task had when the handler read it
  reply,    \* the status code it answers with, and the ids its body shows
  (* History that no step reads. *)
  suspect,  \* projects whose cache entry was filled from a read a commit
            \* overtook, or survived an invalidation that did not run
  marks,    \* per slot: "raced", "late", "moved", "told" (see below)
  buried    \* ids whose DELETE has been answered with 204

queueVars == <<queueUp, events>>
redisVars == <<cache, cacheUp>>
reqVars == <<pc, call, local, reply>>
history == <<suspect, marks, buried>>
vars == <<dbVars, redisVars, queueVars, reqVars, history>>

-----------------------------------------------------------------------------
\* Requests.

CallsOf(ops, ps, ts, changes) ==
  [op : ops \cap Ops, user : Users, proj : ps, task : ts, change : changes]

\* Authenticated and validated requests.  A client may name any uuid.
Requests ==
  CallsOf({"createProject"}, {Absent}, {Absent}, NewProjects)
    \cup CallsOf({"listProjects"}, {Absent}, {Absent}, {Absent})
    \cup CallsOf({"getDetail", "deleteProject", "listTasks"},
                 Projects, {Absent}, {Absent})
    \cup CallsOf({"updateProject"}, Projects, {Absent}, ProjectChanges)
    \cup CallsOf({"createTask"}, Projects, {Absent}, NewTasks)
    \cup CallsOf({"getTask", "deleteTask"}, Projects, Tasks, {Absent})
    \cup CallsOf({"updateTask"}, Projects, Tasks, TaskChanges)

\* createTask learns the id of its task from the INSERT.
Calls == Requests \cup CallsOf({"createTask"}, Projects, Tasks, NewTasks)

\* Mutant: createTask trusts its route and skips the ownership check.
BugCreateUnchecked(op) ==
  CASE op \in {"createProject", "createTask"} -> "insert"
    [] op = "listProjects" -> "query"
    [] op = "getDetail" -> "cacheGet"
    [] OTHER -> "requireOwnedProject"

FirstCall(op) ==
  CASE op = "createProject" -> "insert"
    [] op = "listProjects" -> "query"
    [] op = "getDetail" -> "cacheGet"
    [] OTHER -> "requireOwnedProject"

CallAfterOwned(op) ==
  CASE op = "updateProject" -> "load"
    [] op = "deleteProject" -> "remove"
    [] op = "createTask" -> "insert"
    [] op = "listTasks" -> "query"
    [] OTHER -> "requireTask"

Labels == {"idle", "requireOwnedProject", "requireTask", "load", "save",
           "insert", "remove", "query", "cacheGet", "findDetail", "cacheSet",
           "invalidate", "publish", "done"}

\* The labels at which the handler waits for the database.
DbLabels == {"requireOwnedProject", "requireTask", "load", "save", "insert",
             "remove", "query", "findDetail"}

Blank == [entity |-> Absent, fresh |-> Absent, prev |-> Absent]
NoReply == [code |-> 0, ids |-> {}]

Goto(r, label) == pc' = [pc EXCEPT ![r] = label]

Finish(r, code, ids) ==
  /\ Goto(r, "done")
  /\ reply' = [reply EXCEPT ![r] = [code |-> code, ids |-> ids]]
  /\ local' = [local EXCEPT ![r] = Blank]
  /\ UNCHANGED call

Mark(r, flag) == marks' = [marks EXCEPT ![r] = @ \cup {flag}]

\* A bound, not a guard of the code: creates in flight never outnumber the
\* ids left for them.
Creating(op) ==
  {q \in Reqs : /\ pc[q] \in {"requireOwnedProject", "insert"}
                /\ call[q].op = op}
IdsLeftFor(op) ==
  /\ op = "createProject" => Cardinality(Creating(op)) < Cardinality(UnusedProjects)
  /\ op = "createTask" => Cardinality(Creating(op)) < Cardinality(UnusedTasks)

\* "late": the project or task named had been answered as deleted before.
Accept(r) ==
  /\ pc[r] = "idle"
  /\ \E c \in Requests :
       /\ IdsLeftFor(c.op)
       /\ Goto(r, FirstCall(c.op))
       /\ call' = [call EXCEPT ![r] = c]
       /\ marks' = [marks EXCEPT ![r] =
            IF {c.proj, c.task} \cap buried # {} THEN {"late"} ELSE {}]
  /\ UNCHANGED <<dbVars, redisVars, queueVars, local, reply, suspect, buried>>

\* The response has left; the slot takes another request.
Vacate(r) ==
  /\ pc' = [pc EXCEPT ![r] = "idle"]
  /\ call' = [call EXCEPT ![r] = Absent]
  /\ local' = [local EXCEPT ![r] = Blank]
  /\ reply' = [reply EXCEPT ![r] = NoReply]

Respond(r) ==
  /\ pc[r] = "done"
  /\ Vacate(r)
  /\ marks' = [marks EXCEPT ![r] = {}]
  /\ UNCHANGED <<dbVars, redisVars, queueVars, suspect, buried>>

-----------------------------------------------------------------------------
\* Guards every nested operation passes.

RequireOwnedProject(r) ==
  /\ pc[r] = "requireOwnedProject"
  /\ LET c == call[r]
         row == FindByIdAndOwner(c.proj, c.user)
     IN \/ /\ row = Absent
           /\ Finish(r, 404, {})
        \/ /\ row # Absent
           /\ Goto(r, CallAfterOwned(c.op))
           /\ local' = [local EXCEPT ![r].entity =
                IF c.op = "updateProject" THEN Assign(row, c.change)
                                          ELSE Absent]
           /\ UNCHANGED <<call, reply>>
  /\ UNCHANGED <<dbVars, redisVars, queueVars, history>>

RequireTask(r) ==
  /\ pc[r] = "requireTask"
  /\ LET c == call[r]
         row == FindByIdAndProject(c.task, c.proj)
     IN \/ /\ row = Absent
           /\ Finish(r, 404, {})
        \/ /\ row # Absent
           /\ c.op = "getTask"
           /\ Finish(r, 200, {c.task})
        \/ /\ row # Absent
           /\ c.op = "deleteTask"
           /\ Goto(r, "remove")
           /\ UNCHANGED <<call, local, reply>>
        \/ /\ row # Absent
           /\ c.op = "updateTask"
           /\ Goto(r, "load")
           /\ local' = [local EXCEPT ![r] =
                [entity |-> Assign(row, c.change),
                 fresh  |-> Absent,
                 prev   |-> row.cols["status"]]]
           /\ UNCHANGED <<call, reply>>
  /\ UNCHANGED <<dbVars, redisVars, queueVars, history>>

-----------------------------------------------------------------------------
\* Commits.

\* A commit on project p overtakes every detail read of p not yet cached.
\* "moved" marks a commit that changed the status of a task.
Overtaken(p) == {q \in Reqs : pc[q] = "cacheSet" /\ call[q].proj = p}
MarkCommit(r, p, flags) ==
  marks' = [q \in Reqs |-> marks[q]
              \cup (IF q \in Overtaken(p) THEN {"raced"} ELSE {})
              \cup (IF q = r THEN flags ELSE {})]

\* An entry that survives an invalidation is suspect, if there is one.
Doubted(u, p) ==
  IF cache[u][p] = Absent THEN suspect ELSE suspect \cup {p}

\* Mutant: the handler goes on with the request instead of the saved entity.
BugSavedIgnored(r, c) ==
  /\ Goto(r, "invalidate")
  /\ UNCHANGED <<call, local, reply, suspect>>

\* After a commit the handler goes on to the invalidation -- unless the
\* connection fails before the commit is acknowledged, when save() or
\* remove() throws although the rows have changed.
AfterCommit(r, c) ==
  \/ /\ Goto(r, "invalidate")
     /\ call' = [call EXCEPT ![r] = c]
     /\ UNCHANGED <<local, reply, suspect>>
  \/ /\ "db" \in Faults
     /\ Finish(r, 500, {})
     /\ suspect' = Doubted(c.user, c.proj)

\* A statement a constraint rejected, and any other failed statement.
Reject(r) ==
  /\ Finish(r, 500, {})
  /\ UNCHANGED <<dbVars, suspect, marks>>

InsertProject(r) ==
  /\ pc[r] = "insert"
  /\ call[r].op = "createProject"
  /\ \/ \E p \in UnusedProjects :
          /\ Storable(call[r].change)
          /\ InsertProjectRow(p, call[r].user, call[r].change)
          /\ \/ Finish(r, 201, {p})
             \/ "db" \in Faults /\ Finish(r, 500, {})
          /\ UNCHANGED <<suspect, marks>>
     \/ /\ ~Storable(call[r].change)
        /\ Reject(r)
  /\ UNCHANGED <<redisVars, queueVars, buried>>

InsertTask(r) ==
  /\ pc[r] = "insert"
  /\ call[r].op = "createTask"
  /\ LET c == call[r]
     IN \/ \E t \in UnusedTasks :
             /\ ParentExists(c.proj) /\ Storable(c.change)
             /\ InsertTaskRow(t, c.proj, c.change)
             /\ MarkCommit(r, c.proj, {})
             /\ AfterCommit(r, [c EXCEPT !.task = t])
        \/ /\ ~(ParentExists(c.proj) /\ Storable(c.change))
           /\ Reject(r)
  /\ UNCHANGED <<redisVars, queueVars, buried>>

\* The first half of save(): load the row by id and compare.
Load(r) ==
  /\ pc[r] = "load"
  /\ LET c == call[r]
         fresh == IF c.op = "updateProject" THEN projects[c.proj]
                                            ELSE tasks[c.task]
     IN \/ /\ NothingToSave(local[r].entity, fresh)
           /\ Goto(r, "invalidate")
           /\ UNCHANGED local
        \/ /\ ~NothingToSave(local[r].entity, fresh)
           /\ Goto(r, "save")
           /\ local' = [local EXCEPT ![r].fresh = fresh]
  /\ UNCHANGED <<dbVars, redisVars, queueVars, call, reply, history>>

\* The second half of save(): flush the difference.
SaveProject(r) ==
  /\ pc[r] = "save"
  /\ call[r].op = "updateProject"
  /\ LET c == call[r]
         l == local[r]
     IN \/ /\ ProjectFlushAccepted(c.proj, l.entity, l.fresh)
           /\ FlushProjectRow(c.proj, l.entity, l.fresh)
           /\ MarkCommit(r, c.proj, {})
           /\ AfterCommit(r, c)
        \/ /\ ~ProjectFlushAccepted(c.proj, l.entity, l.fresh)
           /\ Reject(r)
  /\ UNCHANGED <<redisVars, queueVars, buried>>

StatusOf(row) == IF row = Absent THEN Absent ELSE row.cols["status"]

SaveTask(r) ==
  /\ pc[r] = "save"
  /\ call[r].op = "updateTask"
  /\ LET c == call[r]
         l == local[r]
         before == tasks[c.task]
         after == Flushed(before, l.entity, l.fresh)
     IN \/ /\ TaskFlushAccepted(c.task, l.entity, l.fresh)
           /\ FlushTaskRow(c.task, l.entity, l.fresh)
           /\ MarkCommit(r, c.proj,
                IF StatusOf(after) # StatusOf(before) THEN {"moved"} ELSE {})
           /\ AfterCommit(r, c)
        \/ /\ ~TaskFlushAccepted(c.task, l.entity, l.fresh)
           /\ Reject(r)
  /\ UNCHANGED <<redisVars, queueVars, buried>>

RemoveProject(r) ==
  /\ pc[r] = "remove"
  /\ call[r].op = "deleteProject"
  /\ DeleteProjectRow(call[r].proj)
  /\ MarkCommit(r, call[r].proj, {})
  /\ AfterCommit(r, call[r])
  /\ UNCHANGED <<redisVars, queueVars, buried>>

\* Mutant: deleting a task does not invalidate the detail of its project.
BugDeleteTaskKeepsCache(r) ==
  /\ pc[r] = "remove"
  /\ call[r].op = "deleteTask"
  /\ DeleteTaskRow(call[r].task)
  /\ MarkCommit(r, call[r].proj, {})
  /\ Finish(r, 204, {})
  /\ UNCHANGED <<redisVars, queueVars, suspect, buried>>

RemoveTask(r) ==
  /\ pc[r] = "remove"
  /\ call[r].op = "deleteTask"
  /\ DeleteTaskRow(call[r].task)
  /\ MarkCommit(r, call[r].proj, {})
  /\ AfterCommit(r, call[r])
  /\ UNCHANGED <<redisVars, queueVars, buried>>

-----------------------------------------------------------------------------
\* After the commit: invalidate, publish, answer.

\* Mutant: any status in the request counts as a change.
BugStatusGiven(r) ==
  /\ call[r].op = "updateTask"
  /\ call[r].change["status"] # Absent

StatusChanged(r) ==
  /\ call[r].op = "updateTask"
  /\ call[r].change["status"] \notin {Absent, local[r].prev}

NeedsEvent(r) == call[r].op = "createTask" \/ StatusChanged(r)

\* Mutant: every event has the same type.
BugOneEventType(r) ==
  [type |-> "TASK_CREATED", user |-> call[r].user,
   project |-> call[r].proj, task |-> call[r].task]

EventOf(r) ==
  [type    |-> IF call[r].op = "createTask" THEN "TASK_CREATED"
                                            ELSE "TASK_STATUS_CHANGED",
   user    |-> call[r].user,
   project |-> call[r].proj,
   task    |-> call[r].task]

\* The mutations that reach the invalidation, with the answer they give.
Succeed(r) ==
  CASE call[r].op = "updateProject" -> Finish(r, 200, {call[r].proj})
    [] call[r].op = "updateTask" -> Finish(r, 200, {call[r].task})
    [] call[r].op = "createTask" -> Finish(r, 201, {call[r].task})
    [] OTHER -> Finish(r, 204, {})

Buries(r) ==
  CASE call[r].op = "deleteProject" -> {call[r].proj}
    [] call[r].op = "deleteTask" -> {call[r].task}
    [] OTHER -> {}

Invalidate(r) ==
  /\ pc[r] = "invalidate"
  /\ LET c == call[r]
         i == Home[r]
     IN /\ cache' = CacheWithout(i, c.user, c.proj)
        /\ suspect' = IF cacheUp[i] THEN suspect \ {c.proj}
                                    ELSE Doubted(c.user, c.proj)
  /\ \/ /\ NeedsEvent(r)
        /\ Goto(r, "publish")
        /\ UNCHANGED <<call, local, reply>>
     \/ /\ ~NeedsEvent(r)
        /\ Succeed(r)
  /\ buried' = buried \cup Buries(r)
  /\ UNCHANGED <<dbVars, cacheUp, queueVars, marks>>

\* Mutant: the handler waits until the queue is there.
BugAwaitsQueue(r) ==
  /\ pc[r] = "publish"
  /\ queueUp[Home[r]]
  /\ events' = events \cup {EventOf(r)}
  /\ Mark(r, "told")
  /\ Succeed(r)
  /\ UNCHANGED <<dbVars, redisVars, queueUp, suspect, buried>>

Publish(r) ==
  /\ pc[r] = "publish"
  /\ events' = IF queueUp[Home[r]] THEN events \cup {EventOf(r)} ELSE events
  /\ Mark(r, "told")
  /\ Succeed(r)
  /\ UNCHANGED <<dbVars, redisVars, queueUp, suspect, buried>>

-----------------------------------------------------------------------------
\* Reads.

TasksIn(doc) == {t \in Tasks : doc.tasks[t] # Absent}
IdsIn(p, doc) == {p} \cup TasksIn(doc)

CacheGet(r) ==
  /\ pc[r] = "cacheGet"
  /\ LET c == call[r]
         value == CacheValueFor(Home[r], c.user, c.proj)
     IN \/ /\ value # Absent
           /\ Finish(r, 200, IdsIn(c.proj, value))
        \/ /\ value = Absent
           /\ Goto(r, "findDetail")
           /\ UNCHANGED <<call, local, reply>>
  /\ UNCHANGED <<dbVars, redisVars, queueVars, history>>

FindDetail(r) ==
  /\ pc[r] = "findDetail"
  /\ LET c == call[r]
         doc == FindDetailByIdAndOwner(c.proj, c.user)
     IN \/ /\ doc = Absent
           /\ Finish(r, 404, {})
        \/ /\ doc # Absent
           /\ Goto(r, "cacheSet")
           /\ local' = [local EXCEPT ![r].entity = doc]
           /\ UNCHANGED <<call, reply>>
  /\ UNCHANGED <<dbVars, redisVars, queueVars, history>>

CacheSet(r) ==
  /\ pc[r] = "cacheSet"
  /\ LET c == call[r]
         i == Home[r]
         doc == local[r].entity
     IN /\ cache' = CacheWith(i, c.user, c.proj, doc)
        /\ suspect' = IF ~cacheUp[i] THEN suspect
                      ELSE IF "raced" \in marks[r] THEN suspect \cup {c.proj}
                      ELSE suspect \ {c.proj}
        /\ Finish(r, 200, IdsIn(c.proj, doc))
  /\ UNCHANGED <<dbVars, cacheUp, queueVars, marks, buried>>

\* A page of a list is some of the rows the query matches.
Query(r) ==
  /\ pc[r] = "query"
  /\ \/ /\ call[r].op = "listProjects"
        /\ \E page \in SUBSET ProjectsOf(call[r].user) : Finish(r, 200, page)
     \/ /\ call[r].op = "listTasks"
        /\ \E page \in SUBSET TasksOf(call[r].proj) : Finish(r, 200, page)
  /\ UNCHANGED <<dbVars, redisVars, queueVars, history>>

-----------------------------------------------------------------------------
\* Failures, and what Redis does by itself.

\* A statement fails before it commits; the exception filter answers 500.
DbError(r) ==
  /\ "db" \in Faults
  /\ pc[r] \in DbLabels
  /\ Reject(r)
  /\ UNCHANGED <<redisVars, queueVars, buried>>

\* The TTL of an entry runs out.
Expire(u, p) ==
  /\ cache[u][p] # Absent
  /\ cache' = [cache EXCEPT ![u][p] = Absent]
  /\ suspect' = suspect \ {p}
  /\ UNCHANGED <<dbVars, cacheUp, queueVars, reqVars, marks, buried>>

DropCacheClient(i) ==
  /\ "redis" \in Faults
  /\ cacheUp[i]
  /\ cacheUp' = [cacheUp EXCEPT ![i] = FALSE]
  /\ UNCHANGED <<dbVars, cache, queueVars, reqVars, history>>

DropQueue(i) ==
  /\ "queue" \in Faults
  /\ queueUp[i]
  /\ queueUp' = [queueUp EXCEPT ![i] = FALSE]
  /\ UNCHANGED <<dbVars, redisVars, events, reqVars, history>>

\* An instance dies and starts again: its requests are gone, wherever they
\* were, and it connects to Redis anew, or fails to.
Restart(i) ==
  /\ "crash" \in Faults
  /\ LET lost == {r \in Reqs : Home[r] = i}
         unfinished == {r \in lost : pc[r] = "invalidate"}
     IN /\ pc' = [r \in Reqs |-> IF r \in lost THEN "idle" ELSE pc[r]]
        /\ call' = [r \in Reqs |-> IF r \in lost THEN Absent ELSE call[r]]
        /\ local' = [r \in Reqs |-> IF r \in lost THEN Blank ELSE local[r]]
        /\ reply' = [r \in Reqs |-> IF r \in lost THEN NoReply ELSE reply[r]]
        /\ marks' = [r \in Reqs |-> IF r \in lost THEN {} ELSE marks[r]]
        /\ suspect' = suspect \cup
             {p \in Projects : \E r \in unfinished :
                call[r].proj = p /\ cache[call[r].user][p] # Absent}
  /\ cacheUp' \in {[cacheUp EXCEPT ![i] = b] :
                     b \in IF "redis" \in Faults THEN BOOLEAN ELSE {TRUE}}
  /\ queueUp' \in {[queueUp EXCEPT ![i] = b] :
                     b \in IF "queue" \in Faults THEN BOOLEAN ELSE {TRUE}}
  /\ UNCHANGED <<dbVars, cache, events, buried>>

-----------------------------------------------------------------------------
Init ==
  /\ InitDb
  /\ InitCache
  /\ "redis" \notin Faults => cacheUp = [i \in Instances |-> TRUE]
  /\ queueUp \in [Instances -> BOOLEAN]
  /\ "queue" \notin Faults => queueUp = [i \in Instances |-> TRUE]
  /\ events = {}
  /\ pc = [r \in Reqs |-> "idle"]
  /\ call = [r \in Reqs |-> Absent]
  /\ local = [r \in Reqs |-> Blank]
  /\ reply = [r \in Reqs |-> NoReply]
  /\ suspect = {}
  /\ marks = [r \in Reqs |-> {}]
  /\ buried = {}

\* What a handler does of its own accord once the request is accepted.
Step(r) ==
  \/ RequireOwnedProject(r) \/ RequireTask(r)
  \/ InsertProject(r) \/ InsertTask(r)
  \/ Load(r) \/ SaveProject(r) \/ SaveTask(r)
  \/ RemoveProject(r) \/ RemoveTask(r)
  \/ Invalidate(r) \/ Publish(r)
  \/ CacheGet(r) \/ FindDetail(r) \/ CacheSet(r) \/ Query(r)
  \/ Respond(r)

Environment ==
  \/ \E r \in Reqs : DbError(r)
  \/ \E u \in Users, p \in Projects : Expire(u, p)
  \/ \E i \in Instances : DropCacheClient(i) \/ DropQueue(i) \/ Restart(i)

Next ==
  \/ \E r \in Reqs : Accept(r) \/ Step(r)
  \/ Environment

Spec == Init /\ [][Next]_vars

\* Every call a handler awaits is settled, and Node then runs the handler on.
Fairness == \A r \in Reqs : WF_vars(Step(r))

FairSpec == Spec /\ Fairness
=============================================================================
