--------------------------- MODULE ApiOutcomeProofs ---------------------------
(***************************************************************************)
(* Proofs of what the handlers leave behind in the queue and in the cache, *)
(* under every interleaving and failure, and of what they answer while     *)
(* requests do not overlap.                                                *)
(***************************************************************************)
EXTENDS ApiOwnershipProofs

-----------------------------------------------------------------------------
\* The frame: whose slot a step concerns.

\* The steps of one slot.
SlotStep(r) == Accept(r) \/ Step(r) \/ DbError(r)

LEMMA SlotSteps ==
  ASSUME [Next]_vars
  PROVE  \/ \E r \in Reqs : SlotStep(r)
         \/ \E i \in Instances : Restart(i)
         \/ UNCHANGED <<dbVars, events, reqVars, marks, buried>>
<1>1. ASSUME NEW u \in Users, NEW p \in Projects, Expire(u, p)
      PROVE  UNCHANGED <<dbVars, events, reqVars, marks, buried>>
  BY <1>1 DEF Expire, queueVars
<1>2. ASSUME NEW i \in Instances, DropCacheClient(i) \/ DropQueue(i)
      PROVE  UNCHANGED <<dbVars, events, reqVars, marks, buried>>
  BY <1>2 DEF DropCacheClient, DropQueue, queueVars, history
<1>3. CASE UNCHANGED vars
  BY <1>3 DEF vars, queueVars, history
<1>4. QED BY <1>1, <1>2, <1>3 DEF Next, Environment, SlotStep

SameSlot(q) ==
  /\ pc'[q] = pc[q]
  /\ call'[q] = call[q]
  /\ local'[q] = local[q]
  /\ reply'[q] = reply[q]

\* A step of one slot leaves every other as it was, but for the mark of a
\* detail read that a commit overtakes.
LEMMA OtherSlots ==
  ASSUME TypeOK, NEW r \in Reqs, SlotStep(r), NEW q \in Reqs, q # r
  PROVE  /\ SameSlot(q)
         /\ marks[q] \subseteq marks'[q]
         /\ marks'[q] \subseteq marks[q] \cup {"raced"}
<1> USE DEF TypeOK, ReqTypeOK, HistoryTypeOK, SameSlot, Goto
<1>1. ASSUME NEW code, NEW ids, Finish(r, code, ids) PROVE SameSlot(q)
  BY <1>1 DEF Finish
<1>2. ASSUME NEW p, NEW flags, MarkCommit(r, p, flags)
      PROVE  /\ marks[q] \subseteq marks'[q]
             /\ marks'[q] \subseteq marks[q] \cup {"raced"}
  BY <1>2 DEF MarkCommit
<1>3. ASSUME NEW c, AfterCommit(r, c) PROVE SameSlot(q)
  BY <1>1, <1>3 DEF AfterCommit
<1>4. ASSUME Succeed(r) PROVE SameSlot(q)
  BY <1>1, <1>4 DEF Succeed
<1>5. CASE Accept(r) \/ Respond(r)
  BY <1>5 DEF Accept, Respond, Vacate
<1>6. CASE RequireOwnedProject(r)
  BY <1>1, <1>6 DEF RequireOwnedProject, history
<1>7. CASE RequireTask(r)
  BY <1>1, <1>7 DEF RequireTask, history
<1>8. CASE InsertProject(r)
  BY <1>1, <1>8 DEF InsertProject, Reject
<1>9. CASE InsertTask(r)
  BY <1>1, <1>2, <1>3, <1>9 DEF InsertTask, Reject
<1>10. CASE Load(r)
  BY <1>10 DEF Load, history
<1>11. CASE SaveProject(r)
  BY <1>1, <1>2, <1>3, <1>11 DEF SaveProject, Reject
<1>12. CASE SaveTask(r)
  BY <1>1, <1>2, <1>3, <1>12 DEF SaveTask, Reject
<1>13. CASE RemoveProject(r) \/ RemoveTask(r)
  BY <1>2, <1>3, <1>13 DEF RemoveProject, RemoveTask
<1>14. CASE Invalidate(r)
  BY <1>4, <1>14 DEF Invalidate
<1>15. CASE Publish(r)
  BY <1>4, <1>15 DEF Publish, Mark
<1>16. CASE CacheGet(r) \/ FindDetail(r)
  BY <1>1, <1>16 DEF CacheGet, FindDetail, history
<1>17. CASE CacheSet(r) \/ Query(r)
  BY <1>1, <1>17 DEF CacheSet, Query, history
<1>18. CASE DbError(r)
  BY <1>1, <1>18 DEF DbError, Reject
<1>19. QED
  BY <1>5, <1>6, <1>7, <1>8, <1>9, <1>10, <1>11, <1>12, <1>13, <1>14, <1>15,
     <1>16, <1>17, <1>18 DEF SlotStep, Step

\* A handler that reaches the invalidation has just committed, or had nothing
\* to save; one that reaches the announcement has just invalidated.
LEMMA ReachesTheEnd ==
  ASSUME TypeOK, NEW r \in Reqs, SlotStep(r)
  PROVE  /\ pc'[r] = "publish" => Invalidate(r) /\ call'[r] = call[r]
         /\ pc'[r] = "invalidate" =>
              \/ InsertTask(r)
              \/ /\ Load(r) \/ SaveProject(r) \/ SaveTask(r)
                    \/ RemoveProject(r) \/ RemoveTask(r)
                 /\ call'[r] = call[r]
                 /\ call[r].op # "createTask"
<1> USE DEF TypeOK, ReqTypeOK, Goto
<1>1. ASSUME NEW code, NEW ids, Finish(r, code, ids) PROVE pc'[r] = "done"
  BY <1>1 DEF Finish
<1>2. ASSUME NEW c, AfterCommit(r, c), pc'[r] = "invalidate"
      PROVE  call' = [call EXCEPT ![r] = c]
  BY <1>1, <1>2 DEF AfterCommit
<1>3. ASSUME NEW c, AfterCommit(r, c) PROVE pc'[r] # "publish"
  BY <1>1, <1>3 DEF AfterCommit
<1>4. Succeed(r) => pc'[r] = "done"
  BY <1>1 DEF Succeed
<1>5. CASE Accept(r) \/ Respond(r)
  BY <1>5 DEF Accept, Respond, Vacate, FirstCall
<1>6. CASE RequireOwnedProject(r)
  BY <1>1, <1>6 DEF RequireOwnedProject, CallAfterOwned
<1>7. CASE RequireTask(r) \/ CacheGet(r) \/ FindDetail(r)
  BY <1>1, <1>7 DEF RequireTask, CacheGet, FindDetail
<1>8. CASE InsertProject(r) \/ CacheSet(r) \/ Query(r) \/ DbError(r)
  BY <1>1, <1>8 DEF InsertProject, CacheSet, Query, DbError, Reject
<1>9. CASE InsertTask(r)
  BY <1>1, <1>3, <1>9 DEF InsertTask, Reject
<1>10. CASE Load(r)
  <2>1. call[r].op # "createTask"
    BY <1>10, AtLabel DEF Load, OpsAt
  <2>2. QED BY <1>10, <2>1 DEF Load
<1>11. CASE SaveProject(r)
  BY <1>1, <1>2, <1>3, <1>11 DEF SaveProject, Reject
<1>12. CASE SaveTask(r)
  BY <1>1, <1>2, <1>3, <1>12 DEF SaveTask, Reject
<1>13. CASE RemoveProject(r) \/ RemoveTask(r)
  BY <1>2, <1>3, <1>13 DEF RemoveProject, RemoveTask
<1>14. CASE Invalidate(r)
  BY <1>4, <1>14 DEF Invalidate
<1>15. CASE Publish(r)
  BY <1>4, <1>15 DEF Publish
<1>16. QED
  BY <1>5, <1>6, <1>7, <1>8, <1>9, <1>10, <1>11, <1>12, <1>13, <1>14, <1>15
  DEF SlotStep, Step

\* Only publish() adds an event.
LEMMA EventSteps ==
  ASSUME [Next]_vars
  PROVE  UNCHANGED events \/ \E r \in Reqs : Publish(r)
<1>1. ASSUME NEW r \in Reqs, SlotStep(r), ~Publish(r) PROVE UNCHANGED events
  BY <1>1 DEF SlotStep, Step, Accept, RequireOwnedProject, RequireTask,
       InsertProject, InsertTask, Load, SaveProject, SaveTask, RemoveProject,
       RemoveTask, Invalidate, CacheGet, FindDetail, CacheSet, Query, Respond,
       DbError, Reject, queueVars
<1>2. QED BY <1>1, SlotSteps DEF Restart

-----------------------------------------------------------------------------
\* Events.

\* What a handler is about to announce is true: the task is in the project it
\* was created in, and that project is the caller's.
LEMMA EventIsTrue ==
  ASSUME TypeOK, OwnershipInv, NEW r \in Reqs, pc[r] = "publish"
  PROVE  /\ home[EventOf(r).task] = EventOf(r).project
         /\ creator[EventOf(r).project] = EventOf(r).user
<1>1. call[r].proj \in Projects /\ call[r].task \in Tasks
  BY AtLabel, CallFields DEF HandlerOK, OpsAt
<1>2. home[call[r].task] = call[r].proj /\ creator[call[r].proj] = call[r].user
  BY <1>1, AbsentIsNoValue DEF OwnershipInv, ChecksStillHold, PastOwnerCheck,
                               PastTaskCheck, OwnProject, OwnTask
<1>3. QED BY <1>2 DEF EventOf

LEMMA EventsAreTrueStep ==
  ASSUME TypeOK, OwnershipInv, EventsAreTrue, [Next]_vars
  PROVE  EventsAreTrue'
<1>1. IdsStable
  BY IdsNeverMove
<1>2. \A e \in events : home'[e.task] = e.project /\ creator'[e.project] = e.user
  <2> SUFFICES ASSUME NEW e \in events
               PROVE  home'[e.task] = e.project /\ creator'[e.project] = e.user
    OBVIOUS
  <2>1. e.task \in Tasks /\ e.project \in Projects /\ e.user \in Users
    BY DEF TypeOK, RedisTypeOK, Events
  <2>2. e.project # Absent /\ e.user # Absent
    BY <2>1, AbsentIsNoValue
  <2>3. QED BY <1>1, <2>1, <2>2 DEF IdsStable, EventsAreTrue
<1>3. ASSUME NEW r \in Reqs, Publish(r) PROVE EventsAreTrue'
  <2>1. pc[r] = "publish" /\ events' \subseteq events \cup {EventOf(r)}
    BY <1>3 DEF Publish
  <2>2. home' = home /\ creator' = creator
    BY <1>3 DEF Publish, dbVars
  <2>3. QED BY <1>2, <2>1, <2>2, EventIsTrue DEF EventsAreTrue
<1>4. QED BY <1>2, <1>3, EventSteps DEF EventsAreTrue

\* No event tells of a task that was never committed, of another project than
\* its own, or of another user's, whatever happened since the handler read it.
THEOREM EventsTrue == Spec => []EventsAreTrue
<1>1. Init => EventsAreTrue
  BY DEF Init, EventsAreTrue
<1>2. TypeOK /\ OwnershipInv /\ EventsAreTrue /\ [Next]_vars => EventsAreTrue'
  BY EventsAreTrueStep
<1>3. QED BY <1>1, <1>2, TypeCorrect, ChecksHold, PTL DEF Spec

\* The handler of slot r has a new task still to announce.
Announcing(r) ==
  pc[r] \in {"invalidate", "publish"} /\ call[r].op = "createTask"

AnnouncedAs(t, evs) == \E e \in evs : e.type = "TASK_CREATED" /\ e.task = t

\* One handler at most has a task to announce, and nobody has done it yet.
OneAnnouncer ==
  /\ \A q, r \in Reqs :
       Announcing(q) /\ Announcing(r) /\ call[q].task = call[r].task => q = r
  /\ \A r \in Reqs : Announcing(r) => ~AnnouncedAs(call[r].task, events)

\* A handler that announces a task has created it.
LEMMA AnnouncerCreated ==
  ASSUME TypeOK, OwnershipInv, NEW r \in Reqs, Announcing(r)
  PROVE  call[r].task \in Tasks /\ home[call[r].task] # Absent
<1>1. call[r].proj \in Projects /\ call[r].task \in Tasks
  BY AtLabel, CallFields DEF Announcing, HandlerOK, OpsAt
<1>2. QED BY <1>1, AbsentIsNoValue
          DEF Announcing, OwnershipInv, ChecksStillHold, PastTaskCheck, OwnTask

\* A handler begins to announce a task by inserting it, and ends by publishing.
LEMMA AnnouncerSteps ==
  ASSUME TypeOK, [Next]_vars, NEW r \in Reqs, Announcing(r)'
  PROVE  \/ Announcing(r) /\ call'[r] = call[r] /\ ~Publish(r)
         \/ InsertTask(r)
<1>1. CASE SlotStep(r)
  <2>1. CASE pc'[r] = "publish"
    BY <1>1, <2>1, ReachesTheEnd DEF Announcing, Invalidate, Publish
  <2>2. CASE pc'[r] = "invalidate"
    BY <1>1, <2>2, ReachesTheEnd DEF Announcing
  <2>3. QED BY <2>1, <2>2 DEF Announcing
<1>2. ASSUME NEW q \in Reqs, SlotStep(q), q # r
      PROVE  Announcing(r) /\ call'[r] = call[r] /\ ~Publish(r)
  <2>1. SameSlot(r)
    BY <1>2, OtherSlots
  <2>2. ~Publish(r)
    <3>1. Publish(r) => pc'[r] = "done"
      BY DEF Publish, Succeed, Finish, Goto, TypeOK, ReqTypeOK
    <3>2. QED BY <3>1 DEF Announcing
  <2>3. QED BY <2>1, <2>2 DEF Announcing, SameSlot
<1>3. ASSUME SameSlot(r)
      PROVE  Announcing(r) /\ call'[r] = call[r] /\ ~Publish(r)
  <2>1. Publish(r) => pc'[r] = "done"
    BY DEF Publish, Succeed, Finish, Goto, TypeOK, ReqTypeOK
  <2>2. QED BY <1>3, <2>1 DEF Announcing, SameSlot
<1>4. ASSUME NEW i \in Instances, Restart(i) PROVE SameSlot(r)
  BY <1>4 DEF Restart, SameSlot, Announcing
<1>5. QED BY <1>1, <1>2, <1>3, <1>4, SlotSteps DEF reqVars, SameSlot

\* The task a handler inserts is nobody else's yet.
LEMMA InsertedIsNew ==
  ASSUME TypeOK, NEW r \in Reqs, InsertTask(r), pc'[r] = "invalidate"
  PROVE  call'[r].task \in Tasks /\ home[call'[r].task] = Absent
<1>1. call[r] \in Calls /\ call[r].op = "createTask"
  BY AtLabel DEF InsertTask
<1>2. PICK t \in UnusedTasks : AfterCommit(r, [call[r] EXCEPT !.task = t])
  BY DEF InsertTask, Reject, Finish, Goto, TypeOK, ReqTypeOK
<1>3. call'[r] = [call[r] EXCEPT !.task = t]
  BY <1>2 DEF AfterCommit, Finish, Goto, TypeOK, ReqTypeOK
<1>4. QED BY <1>1, <1>2, <1>3, SavedCall DEF UnusedTasks

LEMMA OneAnnouncerStep ==
  ASSUME TypeOK, OwnershipInv, EventsAreTrue, OneAnnouncer, [Next]_vars
  PROVE  OneAnnouncer'
<1>1. ASSUME NEW q \in Reqs, NEW r \in Reqs, Announcing(q)', Announcing(r)',
             InsertTask(r), q # r
      PROVE  call'[q].task # call'[r].task
  <2>1. pc'[r] = "invalidate"
    BY <1>1 DEF InsertTask, Reject, AfterCommit, Finish, Goto, Announcing,
                TypeOK, ReqTypeOK
  <2>2. home[call'[r].task] = Absent
    BY <1>1, <2>1, InsertedIsNew
  <2>3. SlotStep(r)
    BY <1>1 DEF SlotStep, Step
  <2>4. Announcing(q) /\ call'[q] = call[q]
    BY <1>1, <2>3, OtherSlots DEF SameSlot, Announcing
  <2>5. QED BY <2>2, <2>4, AnnouncerCreated
<1>2. ASSUME NEW q \in Reqs, NEW r \in Reqs, Announcing(q)', Announcing(r)',
             call'[q].task = call'[r].task
      PROVE  q = r
  <2>1. CASE InsertTask(q) \/ InsertTask(r)
    BY <1>1, <1>2, <2>1
  <2>2. CASE ~InsertTask(q) /\ ~InsertTask(r)
    BY <1>2, <2>2, AnnouncerSteps DEF OneAnnouncer
  <2>3. QED BY <2>1, <2>2
<1>3. ASSUME NEW r \in Reqs, Announcing(r)', AnnouncedAs(call'[r].task, events')
      PROVE  FALSE
  <2>1. CASE InsertTask(r)
    <3>1. UNCHANGED events
      BY <2>1 DEF InsertTask, queueVars
    <3>2. pc'[r] = "invalidate"
      BY <1>3, <2>1 DEF InsertTask, Reject, AfterCommit, Finish, Goto,
                        Announcing, TypeOK, ReqTypeOK
    <3>3. home[call'[r].task] = Absent
      BY <2>1, <3>2, InsertedIsNew
    <3>4. \A e \in events : home[e.task] # Absent
      BY AbsentIsNoValue DEF EventsAreTrue, TypeOK, RedisTypeOK, Events
    <3>5. QED BY <1>3, <3>1, <3>3, <3>4 DEF AnnouncedAs
  <2>2. CASE Announcing(r) /\ call'[r] = call[r] /\ ~Publish(r)
    <3>1. ~AnnouncedAs(call[r].task, events)
      BY <2>2 DEF OneAnnouncer
    <3>2. PICK q \in Reqs : Publish(q)
      BY <1>3, <2>2, <3>1, EventSteps
    <3>3. /\ events' \subseteq events \cup {EventOf(q)}
          /\ pc[q] = "publish"
          /\ q # r
      BY <2>2, <3>2 DEF Publish
    <3>4. EventOf(q).type = "TASK_CREATED" /\ EventOf(q).task = call[r].task
      BY <1>3, <2>2, <3>1, <3>3 DEF AnnouncedAs
    <3>5. Announcing(q) /\ call[q].task = call[r].task
      BY <3>3, <3>4 DEF EventOf, Announcing
    <3>6. QED BY <2>2, <3>3, <3>5 DEF OneAnnouncer
  <2>3. QED BY <1>3, <2>1, <2>2, AnnouncerSteps
<1>4. QED BY <1>2, <1>3 DEF OneAnnouncer

LEMMA OneAnnouncerAlways == Spec => []OneAnnouncer
<1>1. Init => OneAnnouncer
  BY DEF Init, OneAnnouncer, Announcing
<1>2. TypeOK /\ OwnershipInv /\ EventsAreTrue /\ OneAnnouncer /\ [Next]_vars =>
        OneAnnouncer'
  BY OneAnnouncerStep
<1>3. QED BY <1>1, <1>2, TypeCorrect, ChecksHold, EventsTrue, PTL DEF Spec

LEMMA NeverAgain == OneAnnouncer => \A r \in Reqs : ~AnnouncedAlready(r)
  BY DEF OneAnnouncer, Announcing, AnnouncedAs, AnnouncedAlready, EventOf

\* No TASK_CREATED is published a second time for a task, whatever fails, is
\* retried by a client or crashes.
THEOREM NeverAnnouncedTwice == Spec => [](\A r \in Reqs : ~AnnouncedAlready(r))
  BY OneAnnouncerAlways, NeverAgain, PTL

\* While no statement fails and no instance crashes, a handler with a task to
\* announce goes on until it publishes.
NothingIsLost == Faults \cap {"db", "crash"} = {}

LEMMA AnnouncerGoesOn ==
  ASSUME NothingIsLost, TypeOK, [Next]_vars, NEW r \in Reqs, Announcing(r)
  PROVE  \/ Announcing(r)' /\ call'[r] = call[r]
         \/ Publish(r)
<1>1. CASE SlotStep(r)
  <2>1. pc[r] \in {"invalidate", "publish"} /\ NeedsEvent(r)
    BY DEF Announcing, NeedsEvent
  <2>2. Invalidate(r) \/ Publish(r)
    BY <1>1, <2>1 DEF SlotStep, Step, Accept, RequireOwnedProject, RequireTask,
         InsertProject, InsertTask, Load, SaveProject, SaveTask, RemoveProject,
         RemoveTask, CacheGet, FindDetail, CacheSet, Query, Respond, DbError,
         NothingIsLost
  <2>3. Invalidate(r) => pc'[r] = "publish" /\ call'[r] = call[r]
    BY <2>1 DEF Invalidate, Goto, TypeOK, ReqTypeOK
  <2>4. QED BY <2>2, <2>3 DEF Announcing
<1>2. ASSUME NEW q \in Reqs, SlotStep(q), q # r PROVE SameSlot(r)
  BY <1>2, OtherSlots
<1>3. ASSUME NEW i \in Instances, Restart(i) PROVE FALSE
  BY <1>3 DEF Restart, NothingIsLost
<1>4. QED BY <1>1, <1>2, <1>3, SlotSteps DEF reqVars, SameSlot, Announcing

\* A task comes to be with a handler that will announce it.
LEMMA NewTaskHasAnnouncer ==
  ASSUME NothingIsLost, TypeOK, [Next]_vars, NEW t \in Tasks,
         home[t] = Absent, home'[t] # Absent
  PROVE  \E r \in Reqs : Announcing(r)' /\ call'[r].task = t
<1>1. PICK r \in Reqs : DbStep(r)
  BY DbSteps DEF dbVars
<1>2. InsertTask(r) /\ ~UNCHANGED dbVars
  BY <1>1, InsertProjectRows, SaveProjectRows, SaveTaskRows, RemoveRows
  DEF DbStep, dbVars
<1>3. PICK n \in UnusedTasks :
        /\ InsertTaskRow(n, call[r].proj, call[r].change)
        /\ AfterCommit(r, [call[r] EXCEPT !.task = n])
  BY <1>2 DEF InsertTask, Reject
<1>4. n = t
  BY <1>3 DEF InsertTaskRow, TypeOK, DbTypeOK
<1>5. /\ pc'[r] = "invalidate"
      /\ call'[r] = [call[r] EXCEPT !.task = n]
  BY <1>3 DEF AfterCommit, NothingIsLost, Goto, TypeOK, ReqTypeOK
<1>6. call[r] \in Calls /\ call[r].op = "createTask"
  BY <1>2, AtLabel DEF InsertTask
<1>7. PICK d : d = [call[r] EXCEPT !.task = n]
  OBVIOUS
<1>8. d.op = "createTask" /\ d.task = t
  <2>1. n \in Tasks
    BY DEF UnusedTasks
  <2>2. QED BY <1>4, <1>6, <1>7, <2>1, SavedCall
<1>9. QED BY <1>5, <1>7, <1>8 DEF Announcing

AllAnnounced == \A t \in Tasks : home[t] # Absent => Announced(t)

LEMMA AllAnnouncedStep ==
  ASSUME NothingIsLost, TypeOK, AllAnnounced, [Next]_vars
  PROVE  AllAnnounced'
<1> SUFFICES ASSUME NEW t \in Tasks, home'[t] # Absent PROVE Announced(t)'
  BY DEF AllAnnounced
<1>1. CASE home[t] = Absent
  BY <1>1, NewTaskHasAnnouncer DEF Announced, Announcing
<1>2. CASE \E e \in events : e.type = "TASK_CREATED" /\ e.task = t
  <2>1. events \subseteq events'
    BY EventSteps DEF Publish
  <2>2. QED BY <1>2, <2>1 DEF Announced
<1>3. ASSUME NEW i \in Instances, ~queueUp[i] PROVE Announced(t)'
  <2>1. ~queueUp'[i]
    <3>1. ASSUME NEW r \in Reqs, SlotStep(r) PROVE UNCHANGED queueUp
      BY <3>1 DEF SlotStep, Step, Accept, RequireOwnedProject, RequireTask,
           InsertProject, InsertTask, Load, SaveProject, SaveTask,
           RemoveProject, RemoveTask, Invalidate, Publish, CacheGet,
           FindDetail, CacheSet, Query, Respond, DbError, Reject, queueVars
    <3>2. ASSUME NEW j \in Instances,
                 DropCacheClient(j) \/ DropQueue(j) \/ Restart(j)
          PROVE  ~queueUp'[i]
      BY <1>3, <3>2 DEF DropCacheClient, DropQueue, Restart, NothingIsLost,
                        queueVars, TypeOK, RedisTypeOK
    <3>3. ASSUME NEW u \in Users, NEW p \in Projects, Expire(u, p)
          PROVE  UNCHANGED queueUp
      BY <3>3 DEF Expire, queueVars
    <3>4. QED BY <1>3, <3>1, <3>2, <3>3
              DEF Next, Environment, SlotStep, vars, queueVars
  <2>2. QED BY <2>1 DEF Announced
<1>4. ASSUME NEW r \in Reqs, Announcing(r), call[r].task = t
      PROVE  Announced(t)'
  <2>1. CASE Announcing(r)' /\ call'[r] = call[r]
    BY <1>4, <2>1 DEF Announced, Announcing
  <2>2. CASE Publish(r)
    <3>1. CASE ~queueUp[Home[r]]
      BY <1>3, <3>1, ApiAssumption
    <3>2. CASE queueUp[Home[r]]
      <4>1. EventOf(r) \in events'
        BY <2>2, <3>2 DEF Publish
      <4>2. EventOf(r).type = "TASK_CREATED" /\ EventOf(r).task = t
        BY <1>4 DEF EventOf, Announcing
      <4>3. QED BY <4>1, <4>2 DEF Announced
    <3>3. QED BY <3>1, <3>2
  <2>3. QED BY <1>4, <2>1, <2>2, AnnouncerGoesOn
<1>5. QED BY <1>1, <1>2, <1>3, <1>4 DEF AllAnnounced, Announced, Announcing

\* While no statement fails and no instance crashes, every task that is created
\* is announced, and once, whatever else is written, deleted or loses Redis.
\* (There is no outbox: after a crash the announcement is lost, which the
\* hypothesis says.)
THEOREM EveryTaskAnnouncedOnce ==
  ASSUME NothingIsLost
  PROVE  Spec => []CreationsAnnouncedOnce
<1>1. Init => AllAnnounced
  BY DEF Init, InitDb, AllAnnounced
<1>2. TypeOK /\ AllAnnounced /\ [Next]_vars => AllAnnounced'
  BY AllAnnouncedStep
<1>3. AllAnnounced /\ OneAnnouncer => CreationsAnnouncedOnce
  BY NeverAgain DEF AllAnnounced, CreationsAnnouncedOnce
<1>4. QED BY <1>1, <1>2, <1>3, TypeCorrect, OneAnnouncerAlways, PTL DEF Spec

-----------------------------------------------------------------------------
\* The cache.

\* Rows of a project and of its tasks that stay make a detail that stays.
LEMMA UntouchedDetail ==
  ASSUME RowsKeepTheirOrigin, RowsKeepTheirOrigin', IdsStable,
         NEW p \in Projects, NEW u, ~Touched(p)
  PROVE  FindDetailByIdAndOwner(p, u)' = FindDetailByIdAndOwner(p, u)
<1>1. \A t \in Tasks : FindByIdAndProject(t, p)' = FindByIdAndProject(t, p)
  <2> SUFFICES ASSUME NEW t \in Tasks
               PROVE  FindByIdAndProject(t, p)' = FindByIdAndProject(t, p)
    OBVIOUS
  <2>1. CASE home'[t] = p
    BY <2>1 DEF Touched, FindByIdAndProject
  <2>2. CASE home'[t] # p
    <3>1. ~(tasks'[t] # Absent /\ tasks'[t].project = p)
      BY <2>2 DEF RowsKeepTheirOrigin
    <3>2. ~(tasks[t] # Absent /\ tasks[t].project = p)
      BY <2>2, AbsentIsNoValue DEF RowsKeepTheirOrigin, IdsStable
    <3>3. QED BY <3>1, <3>2 DEF FindByIdAndProject
  <2>3. QED BY <2>1, <2>2
<1>2. QED BY <1>1, DetailFrame DEF Touched

\* A commit of slot r on project p.
CommitOn(r, p) ==
  /\ call[r].proj = p
  /\ \E flags : MarkCommit(r, p, flags)
  /\ \E c : c.user = call[r].user /\ c.proj = p /\ AfterCommit(r, c)

\* Whatever changes a project that is there already, or a task of it, is a
\* commit of a request that names the project.
LEMMA TouchedByCommit ==
  ASSUME TypeOK, OwnershipInv, NEW r \in Reqs, DbStep(r),
         NEW p \in Projects, Touched(p), creator[p] # Absent
  PROVE  CommitOn(r, p)
<1> USE DEF OwnershipInv, OwnerIsolation
<1>1. ~UNCHANGED dbVars
  BY DEF Touched, dbVars
<1>2. call[r].task \in Tasks /\ pc[r] \in {"save", "remove"} =>
        home[call[r].task] = call[r].proj
  BY AbsentIsNoValue DEF ChecksStillHold, PastTaskCheck, OwnTask
<1>3. CASE InsertProject(r)
  BY <1>1, <1>3, InsertProjectRows DEF Touched, TypeOK, DbTypeOK
<1>4. CASE InsertTask(r)
  <2>1. PICK t \in UnusedTasks :
          /\ InsertTaskRow(t, call[r].proj, call[r].change)
          /\ MarkCommit(r, call[r].proj, {})
          /\ AfterCommit(r, [call[r] EXCEPT !.task = t])
    BY <1>1, <1>4 DEF InsertTask, Reject
  <2>2. p = call[r].proj
    BY <2>1 DEF Touched, InsertTaskRow, UnusedTasks, TypeOK, DbTypeOK
  <2>3. call[r] \in Calls /\ call[r].op = "createTask" /\ t \in Tasks
    BY <1>4, <2>1, AtLabel DEF InsertTask, UnusedTasks
  <2>4. PICK c : c = [call[r] EXCEPT !.task = t]
    OBVIOUS
  <2>5. c.user = call[r].user /\ c.proj = call[r].proj
    BY <2>3, <2>4, SavedCall
  <2>6. QED BY <2>1, <2>2, <2>4, <2>5 DEF CommitOn
<1>5. CASE SaveProject(r)
  <2>1. /\ MarkCommit(r, call[r].proj, {})
        /\ AfterCommit(r, call[r])
    BY <1>1, <1>5 DEF SaveProject, Reject
  <2>2. p = call[r].proj
    BY <1>1, <1>5, SaveProjectRows DEF Touched, TypeOK, DbTypeOK
  <2>3. QED BY <2>1, <2>2 DEF CommitOn
<1>6. CASE SaveTask(r)
  <2>1. PICK flags : /\ MarkCommit(r, call[r].proj, flags)
                     /\ AfterCommit(r, call[r])
    BY <1>1, <1>6 DEF SaveTask, Reject
  <2>2. p = call[r].proj
    BY <1>1, <1>2, <1>6, SaveTaskRows DEF SaveTask, Touched, TypeOK, DbTypeOK
  <2>3. QED BY <2>1, <2>2 DEF CommitOn
<1>7. CASE RemoveProject(r)
  <2>1. p = call[r].proj
    BY <1>7 DEF RemoveProject, DeleteProjectRow, Touched, TasksOf,
                FindByIdAndProject, RowsKeepTheirOrigin, TypeOK, DbTypeOK
  <2>2. QED BY <1>7, <2>1 DEF RemoveProject, CommitOn
<1>8. CASE RemoveTask(r)
  <2>1. p = call[r].proj
    BY <1>2, <1>8 DEF RemoveTask, DeleteTaskRow, Touched, TypeOK, DbTypeOK
  <2>2. QED BY <1>8, <2>1 DEF RemoveTask, CommitOn
<1>9. QED BY <1>3, <1>4, <1>5, <1>6, <1>7, <1>8 DEF DbStep

LEMMA DetailChanges ==
  ASSUME TypeOK, OwnershipInv, [Next]_vars, NEW p \in Projects, NEW u,
         FindDetailByIdAndOwner(p, u)' # FindDetailByIdAndOwner(p, u),
         creator[p] # Absent
  PROVE  \E r \in Reqs : DbStep(r) /\ CommitOn(r, p)
<1>1. IdsStable /\ RowsKeepTheirOrigin /\ RowsKeepTheirOrigin'
  BY IdsNeverMove, OwnershipStep DEF OwnershipInv, OwnerIsolation
<1>2. Touched(p)
  BY <1>1, UntouchedDetail
<1>3. ~UNCHANGED dbVars
  BY <1>2 DEF Touched, dbVars
<1>4. QED BY <1>2, <1>3, DbSteps, TouchedByCommit

\* What a handler is about to cache, unless a commit has overtaken it, is what
\* the query would still find.
FillsAreFresh ==
  \A r \in Reqs, p \in Projects, u \in Users :
    pc[r] = "cacheSet" /\ call[r].proj = p /\ call[r].user = u
      /\ "raced" \notin marks[r] =>
      local[r].entity = FindDetailByIdAndOwner(p, u)

\* Where a handler has been just before.
LEMMA ComesFrom ==
  ASSUME TypeOK, NEW r \in Reqs, SlotStep(r)
  PROVE  /\ pc'[r] = "cacheSet" => FindDetail(r)
         /\ pc'[r] = "save" => Load(r)
         /\ pc'[r] = "load" => RequireOwnedProject(r) \/ RequireTask(r)
         /\ pc'[r] = "requireTask" => RequireOwnedProject(r)
         /\ pc'[r] = "requireOwnedProject" => Accept(r)
         /\ pc'[r] = "insert" => Accept(r) \/ RequireOwnedProject(r)
<1> USE DEF TypeOK, ReqTypeOK, Goto
<1>1. ASSUME NEW code, NEW ids, Finish(r, code, ids) PROVE pc'[r] = "done"
  BY <1>1 DEF Finish
<1>2. ASSUME NEW c, AfterCommit(r, c) PROVE pc'[r] \in {"invalidate", "done"}
  BY <1>1, <1>2 DEF AfterCommit
<1>3. Succeed(r) => pc'[r] = "done"
  BY <1>1 DEF Succeed
<1>4. CASE Accept(r)
  BY <1>4 DEF Accept, FirstCall
<1>5. CASE RequireOwnedProject(r)
  BY <1>1, <1>5 DEF RequireOwnedProject, CallAfterOwned
<1>6. CASE RequireTask(r)
  BY <1>1, <1>6 DEF RequireTask
<1>7. CASE InsertProject(r) \/ CacheSet(r) \/ Query(r) \/ DbError(r)
  <2>1. pc'[r] = "done"
    BY <1>1, <1>7 DEF InsertProject, CacheSet, Query, DbError, Reject
  <2>2. QED BY <2>1
<1>8. CASE Load(r) \/ CacheGet(r) \/ FindDetail(r)
  BY <1>1, <1>8 DEF Load, CacheGet, FindDetail
<1>9. CASE InsertTask(r) \/ SaveProject(r) \/ SaveTask(r)
  BY <1>1, <1>2, <1>9 DEF InsertTask, SaveProject, SaveTask, Reject
<1>10. CASE RemoveProject(r) \/ RemoveTask(r)
  BY <1>2, <1>10 DEF RemoveProject, RemoveTask
<1>11. CASE Invalidate(r) \/ Publish(r) \/ Respond(r)
  BY <1>3, <1>11 DEF Invalidate, Publish, Respond, Vacate
<1>12. QED
  BY <1>4, <1>5, <1>6, <1>7, <1>8, <1>9, <1>10, <1>11 DEF SlotStep, Step

\* A step leaves a handler at the SET as it is, or takes it there, unless the
\* handler moves on.
LEMMA CacheSetSteps ==
  ASSUME TypeOK, [Next]_vars, NEW r \in Reqs, pc'[r] = "cacheSet"
  PROVE  \/ FindDetail(r)
         \/ SameSlot(r) /\ marks[r] \subseteq marks'[r]
<1>1. CASE SlotStep(r)
  BY <1>1, ComesFrom
<1>2. ASSUME NEW q \in Reqs, SlotStep(q), q # r
      PROVE  SameSlot(r) /\ marks[r] \subseteq marks'[r]
  BY <1>2, OtherSlots
<1>3. ASSUME NEW i \in Instances, Restart(i)
      PROVE  SameSlot(r) /\ marks[r] \subseteq marks'[r]
  BY <1>3 DEF Restart, SameSlot
<1>4. QED BY <1>1, <1>2, <1>3, SlotSteps DEF reqVars, SameSlot

LEMMA FillsAreFreshStep ==
  ASSUME TypeOK, OwnershipInv, FillsAreFresh, [Next]_vars
  PROVE  FillsAreFresh'
<1> SUFFICES ASSUME NEW r \in Reqs, NEW p \in Projects, NEW u \in Users,
                    pc'[r] = "cacheSet", "raced" \notin marks'[r],
                    call'[r].proj = p, call'[r].user = u
             PROVE  local'[r].entity = FindDetailByIdAndOwner(p, u)'
  BY DEF FillsAreFresh
<1>1. CASE FindDetail(r)
  <2>1. /\ call'[r] = call[r]
        /\ local'[r].entity = FindDetailByIdAndOwner(call[r].proj, call[r].user)
    BY <1>1 DEF FindDetail, Finish, Goto, TypeOK, ReqTypeOK
  <2>2. UNCHANGED <<projects, tasks>>
    BY <1>1 DEF FindDetail, dbVars
  <2>3. FindDetailByIdAndOwner(p, u)' = FindDetailByIdAndOwner(p, u)
    BY <2>2 DEF FindDetailByIdAndOwner, FindByIdAndOwner, TasksOf,
                FindByIdAndProject
  <2>4. QED BY <2>1, <2>3
<1>2. CASE SameSlot(r) /\ marks[r] \subseteq marks'[r]
  <2>1. /\ pc[r] = "cacheSet" /\ "raced" \notin marks[r]
        /\ call[r].proj = p /\ call[r].user = u
    BY <1>2 DEF SameSlot
  <2>2. local'[r].entity = FindDetailByIdAndOwner(p, u)
    BY <1>2, <2>1 DEF SameSlot, FillsAreFresh
  <2>3. creator[p] # Absent
    BY <2>1, FillIsOwn, AbsentIsNoValue
  <2>4. ASSUME NEW q \in Reqs, CommitOn(q, p) PROVE FALSE
    <3>1. r \in Overtaken(p)
      BY <2>1 DEF Overtaken
    <3>2. "raced" \in marks'[r]
      BY <2>4, <3>1 DEF CommitOn, MarkCommit
    <3>3. QED BY <3>2
  <2>5. FindDetailByIdAndOwner(p, u)' = FindDetailByIdAndOwner(p, u)
    BY <2>3, <2>4, DetailChanges
  <2>6. QED BY <2>2, <2>5
<1>3. QED BY <1>1, <1>2, CacheSetSteps

Pending(u, p) ==
  \E r \in Reqs : /\ pc[r] = "invalidate"
                  /\ call[r].user = u
                  /\ call[r].proj = p

\* A mutation on its way to the invalidation stays on it, or invalidates, or
\* is lost with its instance, which makes what it leaves behind suspect.
LEMMA PendingSteps ==
  ASSUME TypeOK, [Next]_vars, NEW r \in Reqs, pc[r] = "invalidate",
         call[r].proj \in Projects, cache[call[r].user][call[r].proj] # Absent
  PROVE  \/ pc'[r] = "invalidate" /\ call'[r] = call[r]
         \/ Invalidate(r)
         \/ call[r].proj \in suspect'
<1>1. CASE SlotStep(r)
  BY <1>1 DEF SlotStep, Step, Accept, RequireOwnedProject, RequireTask,
       InsertProject, InsertTask, Load, SaveProject, SaveTask, RemoveProject,
       RemoveTask, Publish, CacheGet, FindDetail, CacheSet, Query, Respond,
       DbError, DbLabels
<1>2. ASSUME NEW q \in Reqs, SlotStep(q), q # r PROVE SameSlot(r)
  BY <1>2, OtherSlots
<1>3. ASSUME NEW i \in Instances, Restart(i)
      PROVE  SameSlot(r) \/ call[r].proj \in suspect'
  <2>1. CASE Home[r] = i
    BY <1>3, <2>1 DEF Restart
  <2>2. CASE Home[r] # i
    BY <1>3, <2>2 DEF Restart, SameSlot
  <2>3. QED BY <2>1, <2>2
<1>4. QED BY <1>1, <1>2, <1>3, SlotSteps DEF reqVars, SameSlot

\* A project stops being suspect when the entry goes, or is filled anew.
LEMMA SuspectSteps ==
  ASSUME [Next]_vars, NEW p \in suspect, p \notin suspect'
  PROVE  \/ \E r \in Reqs : Invalidate(r) /\ call[r].proj = p /\ cacheUp[Home[r]]
         \/ \E r \in Reqs : /\ CacheSet(r) /\ call[r].proj = p
                            /\ cacheUp[Home[r]] /\ "raced" \notin marks[r]
         \/ \E u \in Users : Expire(u, p)
<1>1. ASSUME NEW r \in Reqs, SlotStep(r), ~Invalidate(r), ~CacheSet(r)
      PROVE  suspect \subseteq suspect'
  <2>1. ASSUME NEW c, AfterCommit(r, c) PROVE suspect \subseteq suspect'
    BY <2>1 DEF AfterCommit, Doubted
  <2>2. CASE InsertTask(r)
    BY <2>1, <2>2 DEF InsertTask, Reject
  <2>3. CASE SaveProject(r) \/ SaveTask(r)
    BY <2>1, <2>3 DEF SaveProject, SaveTask, Reject
  <2>4. CASE RemoveProject(r) \/ RemoveTask(r)
    BY <2>1, <2>4 DEF RemoveProject, RemoveTask
  <2>5. CASE UNCHANGED suspect
    BY <2>5
  <2>6. QED
    BY <1>1, <2>2, <2>3, <2>4, <2>5 DEF SlotStep, Step, Accept,
       RequireOwnedProject, RequireTask, InsertProject, Load, Publish,
       CacheGet, FindDetail, Query, Respond, DbError, Reject, history
<1>2. ASSUME NEW r \in Reqs, Invalidate(r)
      PROVE  call[r].proj = p /\ cacheUp[Home[r]]
  BY <1>2 DEF Invalidate, Doubted
<1>3. ASSUME NEW r \in Reqs, CacheSet(r)
      PROVE  call[r].proj = p /\ cacheUp[Home[r]] /\ "raced" \notin marks[r]
  BY <1>3 DEF CacheSet
<1>4. ASSUME NEW u \in Users, NEW q \in Projects, Expire(u, q) PROVE q = p
  BY <1>4 DEF Expire
<1>5. ASSUME NEW i \in Instances, DropCacheClient(i) \/ DropQueue(i) \/ Restart(i)
      PROVE  FALSE
  BY <1>5 DEF DropCacheClient, DropQueue, Restart, history
<1>6. CASE UNCHANGED vars
  BY <1>6 DEF vars, history
<1>7. QED BY <1>1, <1>2, <1>3, <1>4, <1>5, <1>6 DEF Next, Environment, SlotStep

\* An entry that a step leaves in place has the owner of its project.
LEMMA StaleStep ==
  ASSUME TypeOK, OwnershipInv, FillsAreFresh, StaleOnlyForACause, [Next]_vars
  PROVE  StaleOnlyForACause'
<1> SUFFICES ASSUME NEW u \in Users, NEW p \in Projects,
                    cache'[u][p] # Absent,
                    cache'[u][p] # FindDetailByIdAndOwner(p, u)'
             PROVE  p \in suspect' \/ Pending(u, p)'
  BY DEF StaleOnlyForACause, Stale, Pending
<1> USE DEF TypeOK, RedisTypeOK
<1>1. CASE \E r \in Reqs : CacheSet(r) /\ cache'[u][p] # cache[u][p]
  <2>1. PICK r \in Reqs : CacheSet(r) /\ cache'[u][p] # cache[u][p]
    BY <1>1
  <2>2. /\ call[r].proj \in Projects /\ call[r].user \in Users
        /\ pc[r] = "cacheSet"
    BY <2>1, FillIsOwn DEF CacheSet
  <2>3. /\ u = call[r].user /\ p = call[r].proj
        /\ cache'[u][p] = local[r].entity
        /\ cacheUp[Home[r]]
    BY <2>1, <2>2 DEF CacheSet, CacheWith
  <2>4. UNCHANGED <<projects, tasks>>
    BY <2>1 DEF CacheSet, dbVars
  <2>5. FindDetailByIdAndOwner(p, u)' = FindDetailByIdAndOwner(p, u)
    BY <2>4 DEF FindDetailByIdAndOwner, FindByIdAndOwner, TasksOf,
                FindByIdAndProject
  <2>6. "raced" \in marks[r]
    BY <2>2, <2>3, <2>5 DEF FillsAreFresh
  <2>7. QED BY <2>1, <2>3, <2>6 DEF CacheSet
<1>2. CASE cache'[u][p] = cache[u][p]
  <2>1. creator[p] = u /\ creator[p] # Absent
    BY <1>2, AbsentIsNoValue DEF OwnershipInv, OwnerIsolation, CacheIsolation
  <2>2. CASE FindDetailByIdAndOwner(p, u)' # FindDetailByIdAndOwner(p, u)
    <3>1. PICK r \in Reqs : DbStep(r) /\ CommitOn(r, p)
      BY <2>1, <2>2, DetailChanges
    <3>2. call[r].user = u
      BY <2>1, <3>1, DbStepMoves, AbsentIsNoValue
      DEF CommitOn, OwnershipInv, ChecksStillHold, PastOwnerCheck, OwnProject
    <3>3. PICK c : c.user = u /\ c.proj = p /\ AfterCommit(r, c)
      BY <3>1, <3>2 DEF CommitOn
    <3>4. CASE suspect' = Doubted(u, p)
      BY <1>2, <3>4 DEF Doubted
    <3>5. CASE pc'[r] = "invalidate" /\ call'[r] = c
      BY <3>3, <3>5 DEF Pending
    <3>6. QED BY <3>3, <3>4, <3>5 DEF AfterCommit, Goto, ReqTypeOK
  <2>3. CASE FindDetailByIdAndOwner(p, u)' = FindDetailByIdAndOwner(p, u)
    <3>1. p \in suspect \/ Pending(u, p)
      BY <1>2, <2>3 DEF StaleOnlyForACause, Stale, Pending
    <3>2. ASSUME NEW r \in Reqs, Invalidate(r), call[r].proj = p,
                 cacheUp[Home[r]]
          PROVE  FALSE
      <4>1. call[r].user = u
        BY <2>1, <3>2, AbsentIsNoValue
        DEF Invalidate, OwnershipInv, ChecksStillHold, PastOwnerCheck, OwnProject
      <4>2. cache'[u][p] = Absent
        BY <3>2, <4>1 DEF Invalidate, CacheWithout
      <4>3. QED BY <4>2
    <3>3. CASE p \in suspect /\ p \notin suspect'
      <4>1. ASSUME NEW r \in Reqs, CacheSet(r), call[r].proj = p,
                   cacheUp[Home[r]], "raced" \notin marks[r]
            PROVE  FALSE
        <5>1. call[r].user = u /\ pc[r] = "cacheSet"
          BY <2>1, <4>1, FillIsOwn DEF CacheSet
        <5>2. cache'[u][p] = local[r].entity
          BY <4>1, <5>1 DEF CacheSet, CacheWith
        <5>3. local[r].entity = FindDetailByIdAndOwner(p, u)
          BY <4>1, <5>1 DEF FillsAreFresh
        <5>4. QED BY <2>3, <5>2, <5>3
      <4>2. ASSUME NEW v \in Users, Expire(v, p) PROVE FALSE
        <5>1. v = u
          BY <2>1, <4>2 DEF Expire, OwnershipInv, OwnerIsolation, CacheIsolation
        <5>2. cache'[u][p] = Absent
          BY <4>2, <5>1 DEF Expire
        <5>3. QED BY <5>2
      <4>3. QED BY <3>2, <3>3, <4>1, <4>2, SuspectSteps
    <3>4. CASE Pending(u, p)
      <4>1. PICK r \in Reqs : /\ pc[r] = "invalidate"
                              /\ call[r].user = u
                              /\ call[r].proj = p
        BY <3>4 DEF Pending
      <4>2. CASE Invalidate(r)
        <5>1. ~cacheUp[Home[r]]
          BY <3>2, <4>1, <4>2
        <5>2. p \in suspect'
          BY <1>2, <4>1, <4>2, <5>1 DEF Invalidate, Doubted
        <5>3. QED BY <5>2
      <4>3. cache[call[r].user][call[r].proj] # Absent
        BY <1>2, <4>1
      <4>4. QED BY <4>1, <4>2, <4>3, PendingSteps DEF Pending
    <3>5. QED BY <3>1, <3>3, <3>4
  <2>4. QED BY <2>2, <2>3
<1>3. CASE cache'[u][p] # cache[u][p] /\ ~\E r \in Reqs : CacheSet(r)
  <2>1. ASSUME NEW r \in Reqs, Invalidate(r) PROVE FALSE
    <3>1. call[r].user \in Users /\ call[r].proj \in Projects
      BY <2>1, AtLabel, CallFields DEF Invalidate, OpsAt
    <3>2. QED BY <1>3, <2>1, <3>1 DEF Invalidate, CacheWithout
  <2>2. ASSUME NEW v \in Users, NEW q \in Projects, Expire(v, q) PROVE FALSE
    BY <1>3, <2>2 DEF Expire
  <2>3. \/ UNCHANGED cache
        \/ \E r \in Reqs : Invalidate(r) \/ CacheSet(r)
        \/ \E v \in Users, q \in Projects : Expire(v, q)
    BY CacheSteps
  <2>4. QED BY <1>3, <2>1, <2>2, <2>3
<1>4. QED BY <1>1, <1>2, <1>3

\* Under every interleaving, and whatever fails, a cached detail differs from
\* the database only while an invalidation is due, or because a commit overtook
\* its read or an invalidation was lost.  No mutation forgets to invalidate.
THEOREM StaleHasACause == Spec => []StaleOnlyForACause
<1>1. Init => FillsAreFresh /\ StaleOnlyForACause
  BY DEF Init, InitCache, FillsAreFresh, StaleOnlyForACause, Stale
<1>2. TypeOK /\ OwnershipInv /\ FillsAreFresh /\ StaleOnlyForACause /\ [Next]_vars
        => FillsAreFresh' /\ StaleOnlyForACause'
  BY FillsAreFreshStep, StaleStep
<1>3. QED BY <1>1, <1>2, TypeCorrect, ChecksHold, PTL DEF Spec

-----------------------------------------------------------------------------
\* While requests do not overlap.

\* One request is handled at a time: a client that waits for each answer.
OneAtATime == \A q, r \in Reqs : pc[q] # "idle" /\ pc[r] # "idle" => q = r

\* What a lone handler does not do itself does not happen to it, nor to the
\* tables.
LEMMA AloneSteps ==
  ASSUME TypeOK, OneAtATime, OneAtATime', [Next]_vars,
         NEW r \in Reqs, pc'[r] # "idle"
  PROVE  \/ SlotStep(r)
         \/ SameSlot(r) /\ UNCHANGED <<dbVars, buried>> /\ marks'[r] = marks[r]
<1>1. ASSUME NEW q \in Reqs, SlotStep(q), q # r PROVE FALSE
  <2>1. pc[r] # "idle" /\ pc'[r] # "idle"
    BY <1>1, OtherSlots DEF SameSlot
  <2>2. pc[q] = "idle" /\ pc'[q] = "idle"
    BY <1>1, <2>1 DEF OneAtATime
  <2>3. Accept(q)
    BY <1>1, <2>2 DEF SlotStep, Step, RequireOwnedProject, RequireTask,
       InsertProject, InsertTask, Load, SaveProject, SaveTask, RemoveProject,
       RemoveTask, Invalidate, Publish, CacheGet, FindDetail, CacheSet, Query,
       Respond, DbError, DbLabels
  <2>4. pc'[q] # "idle"
    BY <2>3 DEF Accept, Goto, FirstCall, TypeOK, ReqTypeOK
  <2>5. QED BY <2>2, <2>4
<1>2. ASSUME NEW i \in Instances, Restart(i)
      PROVE  SameSlot(r) /\ UNCHANGED <<dbVars, buried>> /\ marks'[r] = marks[r]
  BY <1>2 DEF Restart, SameSlot
<1>3. QED BY <1>1, <1>2, SlotSteps DEF reqVars, SameSlot

\* The rows a lone handler has found are there until it changes them, and what
\* save() has loaded is what it overwrites; createTask has no task yet.
RowOf(r) == IF call[r].op = "updateProject" THEN projects[call[r].proj]
                                            ELSE tasks[call[r].task]

InHand(r) ==
  /\ pc[r] \in {"requireTask", "load", "save", "cacheSet"} =>
       projects[call[r].proj] # Absent
  /\ pc[r] = "insert" /\ call[r].op = "createTask" =>
       projects[call[r].proj] # Absent
  /\ pc[r] \in {"load", "save"} => RowOf(r) # Absent
  /\ pc[r] = "save" => local[r].fresh = RowOf(r)
  /\ pc[r] = "requireOwnedProject" /\ call[r].op = "createTask" =>
       call[r].task = Absent

AllInHand == \A r \in Reqs : InHand(r)

LEMMA InHandSlot ==
  ASSUME TypeOK, NEW r \in Reqs, InHand(r), SlotStep(r)
  PROVE  InHand(r)'
<1> USE DEF TypeOK, ReqTypeOK, Goto
<1>1. CASE Accept(r)
  <2>1. PICK c \in Requests : call'[r] = c /\ pc'[r] = FirstCall(c.op)
    BY <1>1 DEF Accept
  <2>2. c.op = "createTask" => c.task = Absent
    BY DEF Requests, CallsOf
  <2>3. QED BY <2>1, <2>2 DEF FirstCall, InHand
<1>2. CASE RequireOwnedProject(r)
  BY <1>2 DEF RequireOwnedProject, Finish, CallAfterOwned, FindByIdAndOwner,
              InHand, RowOf, dbVars
<1>3. CASE RequireTask(r)
  BY <1>3 DEF RequireTask, Finish, FindByIdAndProject, InHand, RowOf, dbVars
<1>4. CASE Load(r)
  BY <1>4 DEF Load, InHand, RowOf, dbVars
<1>5. CASE FindDetail(r)
  BY <1>5 DEF FindDetail, Finish, FindDetailByIdAndOwner, FindByIdAndOwner,
              InHand, dbVars
<1>6. CASE ~(Accept(r) \/ RequireOwnedProject(r) \/ RequireTask(r) \/ Load(r)
             \/ FindDetail(r))
  BY <1>6, ComesFrom DEF InHand
<1>7. QED BY <1>1, <1>2, <1>3, <1>4, <1>5, <1>6

LEMMA InHandStep ==
  ASSUME TypeOK, OneAtATime, OneAtATime', AllInHand, [Next]_vars
  PROVE  AllInHand'
<1> SUFFICES ASSUME NEW r \in Reqs PROVE InHand(r)'
  BY DEF AllInHand
<1>1. CASE pc'[r] = "idle"
  BY <1>1 DEF InHand
<1>2. CASE SlotStep(r)
  BY <1>2, InHandSlot DEF AllInHand
<1>3. CASE SameSlot(r) /\ UNCHANGED <<dbVars, buried>>
  BY <1>3 DEF SameSlot, AllInHand, InHand, RowOf, dbVars
<1>4. QED BY <1>1, <1>2, <1>3, AloneSteps

LEMMA AlwaysInHand == Spec /\ []OneAtATime => []AllInHand
<1>1. Init => AllInHand
  BY DEF Init, AllInHand, InHand
<1>2. TypeOK /\ OneAtATime /\ OneAtATime' /\ AllInHand /\ [Next]_vars => AllInHand'
  BY InHandStep
<1>3. QED BY <1>1, <1>2, TypeCorrect, PTL DEF Spec

\* An update makes an entity that cannot be stored exactly if it assigns null
\* to a NOT NULL column, and save() of it over its own row then fails.
LEMMA NullAssigned ==
  /\ \A row \in ProjectRows, change \in ProjectChanges :
       Storable(Assign(row, change).cols) <=> Storable(change)
  /\ \A row \in TaskRows, change \in TaskChanges :
       Storable(Assign(row, change).cols) <=> Storable(change)
<1>1. ASSUME NEW row \in ProjectRows, NEW change \in ProjectChanges
      PROVE  Storable(Assign(row, change).cols) <=> Storable(change)
  <2>1. /\ row.cols \in [ProjectCols -> Given] /\ Storable(row.cols)
        /\ Assign(row, change).cols = [c \in ProjectCols |->
             IF change[c] = Absent THEN row.cols[c] ELSE change[c]]
    BY DEF ProjectRows, ProjectData, Assign
  <2>2. Null # Absent
    BY AbsentIsNoValue DEF Given
  <2>3. QED BY <2>1, <2>2 DEF Storable, ProjectChanges
<1>2. ASSUME NEW row \in TaskRows, NEW change \in TaskChanges
      PROVE  Storable(Assign(row, change).cols) <=> Storable(change)
  <2>1. /\ row.cols \in [TaskCols -> Given] /\ Storable(row.cols)
        /\ Assign(row, change).cols = [c \in TaskCols |->
             IF change[c] = Absent THEN row.cols[c] ELSE change[c]]
    BY DEF TaskRows, TaskData, Assign
  <2>2. Null # Absent
    BY AbsentIsNoValue DEF Given
  <2>3. QED BY <2>1, <2>2 DEF Storable, TaskChanges
<1>3. QED BY <1>1, <1>2

LEMMA NullSaved ==
  /\ \A row \in ProjectRows, e \in ProjectEntities :
       /\ RowStorable(Flushed(row, e, row)) <=> Storable(e.cols)
       /\ Dirty(e, row) = {} => Storable(e.cols)
  /\ \A row \in TaskRows, e \in TaskEntities :
       /\ RowStorable(Flushed(row, e, row)) <=> Storable(e.cols)
       /\ Dirty(e, row) = {} => Storable(e.cols)
<1>1. ASSUME NEW row, NEW e, NEW columns,
             row.cols \in [columns -> Given], Storable(row.cols),
             e.cols \in [columns -> Given], row # Absent,
             Flushed(row, e, row) # Absent,
             Flushed(row, e, row).cols = [c \in columns |->
               IF c \in Dirty(e, row) THEN e.cols[c] ELSE row.cols[c]]
      PROVE  /\ RowStorable(Flushed(row, e, row)) <=> Storable(e.cols)
             /\ Dirty(e, row) = {} => Storable(e.cols)
  <2>1. Flushed(row, e, row).cols = e.cols
    BY <1>1 DEF Dirty
  <2>2. Dirty(e, row) = {} => e.cols = row.cols
    BY <1>1 DEF Dirty
  <2>3. QED BY <1>1, <2>1, <2>2 DEF RowStorable
<1>2. ASSUME NEW row \in ProjectRows, NEW e \in ProjectEntities
      PROVE  /\ RowStorable(Flushed(row, e, row)) <=> Storable(e.cols)
             /\ Dirty(e, row) = {} => Storable(e.cols)
  <2>1. /\ row.cols \in [ProjectCols -> Given] /\ Storable(row.cols)
        /\ e.cols \in [ProjectCols -> Given]
        /\ row # Absent
    BY AbsentIsNoValue DEF ProjectRows, ProjectData, ProjectEntities
  <2>2. Flushed(row, e, row) # Absent
    BY <2>1, FlushedProject
  <2>3. Flushed(row, e, row).cols = [c \in ProjectCols |->
          IF c \in Dirty(e, row) THEN e.cols[c] ELSE row.cols[c]]
    BY <2>1 DEF Flushed, Overlay, ProjectRows
  <2>4. QED BY <1>1, <2>1, <2>2, <2>3
<1>3. ASSUME NEW row \in TaskRows, NEW e \in TaskEntities
      PROVE  /\ RowStorable(Flushed(row, e, row)) <=> Storable(e.cols)
             /\ Dirty(e, row) = {} => Storable(e.cols)
  <2>1. /\ row.cols \in [TaskCols -> Given] /\ Storable(row.cols)
        /\ e.cols \in [TaskCols -> Given]
        /\ row # Absent
    BY AbsentIsNoValue DEF TaskRows, TaskData, TaskEntities
  <2>2. Flushed(row, e, row) # Absent
    BY <2>1, FlushedTask
  <2>3. Flushed(row, e, row).cols = [c \in TaskCols |->
          IF c \in Dirty(e, row) THEN e.cols[c] ELSE row.cols[c]]
    BY <2>1 DEF Flushed, Overlay, TaskRows
  <2>4. QED BY <1>1, <2>1, <2>2, <2>3
<1>4. QED BY <1>2, <1>3

\* What becomes of a null on its way: the entity shows it until save() fails.
NullKnown(r) ==
  /\ pc[r] \in {"load", "save"} =>
       (Storable(local[r].entity.cols) <=> ~CarriesNull(call[r]))
  /\ pc[r] \in {"invalidate", "publish"} => ~CarriesNull(call[r])
  /\ pc[r] = "done" =>
       /\ reply[r].code = 500 => CarriesNull(call[r])
       /\ CarriesNull(call[r]) => reply[r].code \in {404, 500}

AllNullsKnown == \A r \in Reqs : NullKnown(r)

\* Ways a handler goes on that keep NullKnown.
LEMMA NullFinish ==
  ASSUME TypeOK, NEW r \in Reqs, NEW code, NEW ids, Finish(r, code, ids),
         code = 500 => CarriesNull(call[r]),
         CarriesNull(call[r]) => code \in {404, 500}
  PROVE  NullKnown(r)'
<1>1. pc'[r] = "done" /\ reply'[r].code = code /\ call'[r] = call[r]
  BY DEF Finish, Goto, TypeOK, ReqTypeOK
<1>2. QED BY <1>1 DEF CarriesNull, NullKnown

LEMMA NullCommitted ==
  ASSUME "db" \notin Faults, TypeOK, NEW r \in Reqs, NEW c, AfterCommit(r, c),
         c.change = call[r].change, ~CarriesNull(call[r])
  PROVE  NullKnown(r)'
<1>1. pc'[r] = "invalidate" /\ call'[r] = c
  BY DEF AfterCommit, Goto, TypeOK, ReqTypeOK
<1>2. QED BY <1>1 DEF CarriesNull, NullKnown

LEMMA NullElsewhere ==
  ASSUME NEW r \in Reqs,
         pc'[r] \notin {"load", "save", "invalidate", "publish", "done"}
  PROVE  NullKnown(r)'
  BY DEF NullKnown

\* A handler alone with its rows fails exactly on such a null.
LEMMA NullSlot ==
  ASSUME "db" \notin Faults, TypeOK, NEW r \in Reqs, InHand(r), NullKnown(r),
         SlotStep(r)
  PROVE  NullKnown(r)'
<1> DEFINE c == call[r]
<1>t. /\ pc \in [Reqs -> Labels]
      /\ DOMAIN call = Reqs /\ DOMAIN local = Reqs
  BY DEF TypeOK, ReqTypeOK
<1>c. pc[r] # "idle" =>
        /\ c \in Calls
        /\ c.op \in OpsAt(pc[r])
        /\ c.op = "createProject" => c.change # Absent
        /\ c.op = "createTask" => c.change # Absent
        /\ c.op \in {"updateProject", "updateTask"} => c.change # Absent
        /\ c.op \notin {"createProject", "updateProject",
                        "createTask", "updateTask"} => ~CarriesNull(c)
  BY AtLabel, CallFields, AbsentIsNoValue DEF CarriesNull
<1>1. CASE Accept(r)
  <2>1. PICK a \in Requests : pc'[r] = FirstCall(a.op)
    BY <1>t, <1>1 DEF Accept, Goto
  <2>2. QED BY <2>1, NullElsewhere DEF FirstCall
<1>2. CASE Respond(r)
  BY <1>t, <1>2, NullElsewhere DEF Respond, Vacate
<1>3. CASE RequireOwnedProject(r)
  <2>1. CASE Finish(r, 404, {})
    BY <2>1, NullFinish
  <2>2. CASE ~Finish(r, 404, {}) /\ c.op # "updateProject"
    BY <1>t, <1>3, <2>2, NullElsewhere DEF RequireOwnedProject, Goto, CallAfterOwned
  <2>3. CASE ~Finish(r, 404, {}) /\ c.op = "updateProject"
    <3> DEFINE row == FindByIdAndOwner(c.proj, c.user)
    <3>1. /\ c.proj \in Projects /\ c.change \in ProjectChanges
      BY <1>3, <1>c, <2>3, CallFields DEF RequireOwnedProject
    <3>2. /\ row # Absent
          /\ pc'[r] = "load" /\ call'[r] = c
          /\ local'[r].entity = Assign(row, c.change)
      BY <1>t, <1>3, <2>3 DEF RequireOwnedProject, Goto, CallAfterOwned, TypeOK, ReqTypeOK
    <3>3. row \in ProjectRows
      BY <3>1, <3>2 DEF FindByIdAndOwner, TypeOK, DbTypeOK
    <3>4. Storable(Assign(row, c.change).cols) <=> ~CarriesNull(c)
      BY <1>3, <1>c, <2>3, <3>1, <3>3, NullAssigned DEF CarriesNull, RequireOwnedProject
    <3>5. QED BY <3>2, <3>4 DEF NullKnown, CarriesNull
  <2>4. QED BY <2>1, <2>2, <2>3
<1>4. CASE RequireTask(r)
  <2>1. CASE Finish(r, 404, {})
    BY <2>1, NullFinish
  <2>2. CASE c.op = "getTask" /\ Finish(r, 200, {c.task})
    BY <1>4, <1>c, <2>2, NullFinish DEF RequireTask
  <2>3. CASE Goto(r, "remove")
    BY <1>t, <2>3, NullElsewhere DEF Goto
  <2>4. CASE /\ FindByIdAndProject(c.task, c.proj) # Absent
             /\ c.op = "updateTask"
             /\ Goto(r, "load")
             /\ local' = [local EXCEPT ![r] =
                  [entity |-> Assign(FindByIdAndProject(c.task, c.proj), c.change),
                   fresh  |-> Absent,
                   prev   |-> FindByIdAndProject(c.task, c.proj).cols["status"]]]
             /\ UNCHANGED <<call, reply>>
    <3> DEFINE row == FindByIdAndProject(c.task, c.proj)
    <3>1. /\ c.task \in Tasks /\ c.change \in TaskChanges
      BY <1>4, <1>c, <2>4, CallFields DEF RequireTask
    <3>2. /\ pc'[r] = "load" /\ call'[r] = c
          /\ local'[r].entity = Assign(row, c.change)
      BY <1>t, <2>4 DEF Goto
    <3>3. row \in TaskRows
      BY <2>4, <3>1 DEF FindByIdAndProject, TypeOK, DbTypeOK
    <3>4. Storable(Assign(row, c.change).cols) <=> ~CarriesNull(c)
      BY <1>4, <1>c, <2>4, <3>1, <3>3, NullAssigned DEF CarriesNull, RequireTask
    <3>5. QED BY <3>2, <3>4 DEF NullKnown, CarriesNull
  <2>5. QED BY <1>4, <2>1, <2>2, <2>3, <2>4 DEF RequireTask
<1>5. CASE InsertProject(r)
  <2>1. CarriesNull(c) <=> ~Storable(c.change)
    BY <1>5, <1>c DEF InsertProject, CarriesNull
  <2>2. CASE \E p \in UnusedProjects : Finish(r, 201, {p}) /\ Storable(c.change)
    BY <2>1, <2>2, NullFinish
  <2>3. CASE Finish(r, 500, {}) /\ ~Storable(c.change)
    BY <2>1, <2>3, NullFinish
  <2>4. QED BY <1>5, <2>2, <2>3 DEF InsertProject, Reject
<1>6. CASE InsertTask(r)
  <2>1. /\ CarriesNull(c) <=> ~Storable(c.change)
        /\ ParentExists(c.proj)
    BY <1>6, <1>c DEF InsertTask, CarriesNull, InHand, ParentExists
  <2>2. CASE Storable(c.change)
    <3>1. PICK t \in Tasks : AfterCommit(r, [c EXCEPT !.task = t])
      BY <1>6, <2>1, <2>2 DEF InsertTask, UnusedTasks
    <3>2. [c EXCEPT !.task = t].change = c.change
      BY <1>6, <1>c, SavedCall DEF InsertTask
    <3>3. QED BY <2>1, <2>2, <3>1, <3>2, NullCommitted
  <2>3. CASE ~Storable(c.change)
    BY <1>6, <2>1, <2>3, NullFinish DEF InsertTask, Reject
  <2>4. QED BY <2>2, <2>3
<1>7. CASE Load(r)
  <2>1. pc[r] = "load" /\ RowOf(r) # Absent
    BY <1>7 DEF Load, InHand
  <2>2. /\ HoldsProject(r) \/ HoldsTask(r)
        /\ c.op = "updateProject" => c.proj \in Projects
        /\ c.op = "updateTask" => c.task \in Tasks
    BY <1>c, <2>1, AtLabel, CallFields DEF HandlerOK
  <2>3. NothingToSave(local[r].entity, RowOf(r)) => Storable(local[r].entity.cols)
    <3>1. CASE HoldsProject(r)
      BY <2>1, <2>2, <3>1, NullSaved
      DEF HoldsProject, NothingToSave, RowOf, TypeOK, DbTypeOK
    <3>2. CASE HoldsTask(r)
      BY <2>1, <2>2, <3>2, NullSaved
      DEF HoldsTask, NothingToSave, RowOf, TypeOK, DbTypeOK
    <3>3. QED BY <2>2, <3>1, <3>2
  <2>4. CASE /\ NothingToSave(local[r].entity, RowOf(r))
             /\ Goto(r, "invalidate")
             /\ UNCHANGED call
    <3>1. pc'[r] = "invalidate" /\ call'[r] = c
      BY <1>t, <2>4 DEF Goto
    <3>2. QED BY <2>1, <2>3, <2>4, <3>1 DEF NullKnown, CarriesNull
  <2>5. CASE /\ Goto(r, "save")
             /\ local' = [local EXCEPT ![r].fresh = RowOf(r)]
             /\ UNCHANGED call
    <3>1. pc'[r] = "save" /\ call'[r] = c /\ local'[r].entity = local[r].entity
      BY <1>t, <2>5 DEF Goto, TypeOK, ReqTypeOK
    <3>2. QED BY <2>1, <3>1 DEF NullKnown, CarriesNull
  <2>6. QED BY <1>7, <2>4, <2>5 DEF Load, RowOf
<1>8. CASE SaveProject(r)
  <2> DEFINE e == local[r].entity
             f == local[r].fresh
  <2>1. /\ pc[r] = "save" /\ c.op = "updateProject"
        /\ c.proj \in Projects
        /\ e \in ProjectEntities
        /\ f = projects[c.proj] /\ f # Absent
    BY <1>8, <1>c, AtLabel, CallFields
    DEF SaveProject, HandlerOK, HoldsProject, HoldsTask, InHand, RowOf
  <2>2. f \in ProjectRows
    BY <2>1 DEF TypeOK, DbTypeOK
  <2>3. ProjectFlushAccepted(c.proj, e, f) <=> ~CarriesNull(c)
    BY <2>1, <2>2, NullSaved DEF ProjectFlushAccepted, NullKnown
  <2>4. QED BY <1>8, <2>3, NullCommitted, NullFinish DEF SaveProject, Reject
<1>9. CASE SaveTask(r)
  <2> DEFINE e == local[r].entity
             f == local[r].fresh
  <2>1. /\ pc[r] = "save" /\ c.op = "updateTask"
        /\ c.task \in Tasks
        /\ e \in TaskEntities
        /\ f = tasks[c.task] /\ f # Absent
    BY <1>9, <1>c, AtLabel, CallFields
    DEF SaveTask, HandlerOK, HoldsProject, HoldsTask, InHand, RowOf
  <2>2. f \in TaskRows
    BY <2>1 DEF TypeOK, DbTypeOK
  <2>3. TaskFlushAccepted(c.task, e, f) <=> ~CarriesNull(c)
    BY <2>1, <2>2, NullSaved DEF TaskFlushAccepted, NullKnown
  <2>4. QED BY <1>9, <2>3, NullCommitted, NullFinish DEF SaveTask, Reject
<1>10. CASE RemoveProject(r) \/ RemoveTask(r)
  BY <1>10, <1>c, NullCommitted DEF RemoveProject, RemoveTask
<1>11. CASE Invalidate(r)
  <2>1. pc[r] = "invalidate" /\ ~CarriesNull(c)
    BY <1>11 DEF Invalidate, NullKnown
  <2>2. CASE Goto(r, "publish") /\ UNCHANGED call
    <3>1. pc'[r] = "publish" /\ call'[r] = c
      BY <1>t, <2>2 DEF Goto
    <3>2. QED BY <2>1, <3>1 DEF NullKnown, CarriesNull
  <2>3. CASE Succeed(r)
    BY <2>1, <2>3, NullFinish DEF Succeed
  <2>4. QED BY <1>11, <2>2, <2>3 DEF Invalidate
<1>12. CASE Publish(r)
  BY <1>12, NullFinish DEF Publish, Succeed, NullKnown
<1>13. CASE CacheGet(r) \/ FindDetail(r) \/ CacheSet(r) \/ Query(r)
  <2>1. ~CarriesNull(c)
    BY <1>13, <1>c DEF CacheGet, FindDetail, CacheSet, Query, OpsAt
  <2>2. CASE Goto(r, "findDetail") \/ Goto(r, "cacheSet")
    BY <1>t, <2>2, NullElsewhere DEF Goto
  <2>3. ASSUME NEW code \in {200, 404}, NEW ids, Finish(r, code, ids)
        PROVE  NullKnown(r)'
    BY <2>1, <2>3, NullFinish
  <2>4. QED BY <1>13, <2>2, <2>3 DEF CacheGet, FindDetail, CacheSet, Query
<1>14. CASE DbError(r)
  BY <1>14 DEF DbError
<1>15. QED
  BY <1>1, <1>2, <1>3, <1>4, <1>5, <1>6, <1>7, <1>8, <1>9, <1>10, <1>11, <1>12,
     <1>13, <1>14
  DEF SlotStep, Step

LEMMA NullStep ==
  ASSUME "db" \notin Faults, TypeOK, OneAtATime, OneAtATime', AllInHand,
         AllNullsKnown, [Next]_vars
  PROVE  AllNullsKnown'
<1> SUFFICES ASSUME NEW r \in Reqs PROVE NullKnown(r)'
  BY DEF AllNullsKnown
<1>1. CASE pc'[r] = "idle"
  BY <1>1, NullElsewhere
<1>2. CASE SlotStep(r)
  BY <1>2, NullSlot DEF AllInHand, AllNullsKnown
<1>3. CASE SameSlot(r)
  BY <1>3 DEF SameSlot, AllNullsKnown, NullKnown, CarriesNull
<1>4. QED BY <1>1, <1>2, <1>3, AloneSteps

\* While requests do not overlap and no statement fails by itself, a request is
\* answered with 500 exactly for a null it assigns to a NOT NULL column, unless
\* a check answers 404 first; also after Redis, the queue or an instance failed.
THEOREM NoErrorAlone ==
  ASSUME "db" \notin Faults
  PROVE  Spec /\ []OneAtATime => []OnlyNullGets500
<1>1. Init => AllNullsKnown
  BY DEF Init, AllNullsKnown, NullKnown
<1>2. /\ TypeOK /\ OneAtATime /\ OneAtATime' /\ AllInHand /\ AllNullsKnown
      /\ [Next]_vars
      => AllNullsKnown'
  BY NullStep
<1>3. AllNullsKnown => OnlyNullGets500
  BY DEF AllNullsKnown, NullKnown, OnlyNullGets500
<1>4. QED BY <1>1, <1>2, <1>3, TypeCorrect, AlwaysInHand, PTL DEF Spec

\* What save() makes of the status of a task nobody else writes.
LEMMA StatusSaved ==
  ASSUME NEW row \in TaskRows, NEW change \in TaskChanges,
         NEW e, e = Assign(row, change)
  PROVE  /\ e.cols["status"] = IF change["status"] = Absent
                               THEN row.cols["status"] ELSE change["status"]
         /\ Dirty(e, row) = {} => e.cols["status"] = row.cols["status"]
         /\ Flushed(row, e, row).cols["status"] = e.cols["status"]
         /\ row # Absent /\ Flushed(row, e, row) # Absent
<1>1. row # Absent
  BY AbsentIsNoValue
<1>2. row.cols \in TaskData /\ "status" \in DOMAIN row.cols
  BY StatusIsAColumn DEF TaskRows, TaskData
<1>3. e \in TaskEntities /\ e.cols \in [TaskCols -> Given]
  BY AssignTask DEF TaskEntities
<1>4. e.cols["status"] = IF change["status"] = Absent
                         THEN row.cols["status"] ELSE change["status"]
  BY <1>2 DEF Assign, TaskRows
<1>5. "status" \in DOMAIN e.cols
  BY <1>3, StatusIsAColumn
<1>6. Dirty(e, row) = {} => e.cols["status"] = row.cols["status"]
  BY <1>5 DEF Dirty
<1>7. Flushed(row, e, row) = Overlay(row, e, Dirty(e, row))
  BY <1>1 DEF Flushed
<1>8. Overlay(row, e, Dirty(e, row)).cols["status"] = e.cols["status"]
  BY <1>2, <1>5 DEF Overlay, Dirty, TaskRows
<1>9. Flushed(row, e, row) # Absent
  BY <1>1, <1>3, FlushedTask
<1>10. QED BY <1>1, <1>4, <1>6, <1>7, <1>8, <1>9

\* How a lone task update stands: what it holds, and whether its commit moved
\* the status.
News(r) ==
  /\ pc[r] \in {"requireOwnedProject", "requireTask", "load", "save"} =>
       {"moved", "told"} \cap marks[r] = {}
  /\ pc[r] \in {"load", "save"} =>
       /\ local[r].entity = Assign(tasks[call[r].task], call[r].change)
       /\ local[r].prev = tasks[call[r].task].cols["status"]
  /\ pc[r] \in {"invalidate", "publish"} =>
       /\ "told" \notin marks[r]
       /\ "moved" \in marks[r] <=> StatusChanged(r)
  /\ pc[r] = "publish" => StatusChanged(r)
  /\ pc[r] = "done" /\ reply[r].code = 200 =>
       ("told" \in marks[r] <=> "moved" \in marks[r])

Updating(r) == pc[r] # "idle" /\ call[r].op = "updateTask"

AllNews == \A r \in Reqs : Updating(r) => News(r)

\* The task a lone update works on.
LEMMA UpdatedTask ==
  ASSUME TypeOK, NEW r \in Reqs, Updating(r), InHand(r),
         pc[r] \in {"load", "save"}
  PROVE  /\ tasks[call[r].task] \in TaskRows
         /\ call[r].change \in TaskChanges
         /\ RowOf(r) = tasks[call[r].task]
<1>1. call[r].task \in Tasks /\ call[r].change \in TaskChanges
  BY AtLabel, CallFields DEF Updating
<1>2. RowOf(r) = tasks[call[r].task]
  BY DEF RowOf, Updating
<1>3. QED BY <1>1, <1>2 DEF InHand, TypeOK, DbTypeOK

\* The commit of a lone update moves the status as the request asks.
LEMMA SaveTaskNews ==
  ASSUME TypeOK, NEW r \in Reqs, InHand(r), News(r), Updating(r), SaveTask(r)
  PROVE  News(r)'
<1> DEFINE row == tasks[call[r].task]
           e == local[r].entity
           after == Flushed(row, e, local[r].fresh)
<1>1. pc[r] = "save" /\ call[r].op = "updateTask"
  BY DEF SaveTask
<1>2. /\ row \in TaskRows /\ call[r].change \in TaskChanges
      /\ local[r].fresh = row
  BY <1>1, UpdatedTask DEF InHand
<1>3. /\ e = Assign(row, call[r].change)
      /\ local[r].prev = row.cols["status"]
      /\ "moved" \notin marks[r] /\ "told" \notin marks[r]
  BY <1>1 DEF News
<1>4. /\ e.cols["status"] = IF call[r].change["status"] = Absent
                            THEN row.cols["status"] ELSE call[r].change["status"]
      /\ after.cols["status"] = e.cols["status"]
      /\ row # Absent /\ after # Absent
  BY <1>2, <1>3, StatusSaved
<1>5. StatusOf(after) # StatusOf(row) <=> StatusChanged(r)
  BY <1>1, <1>3, <1>4 DEF StatusOf, StatusChanged
<1>6. \/ /\ MarkCommit(r, call[r].proj,
                IF StatusOf(after) # StatusOf(row) THEN {"moved"} ELSE {})
         /\ AfterCommit(r, call[r])
      \/ Finish(r, 500, {})
  BY DEF SaveTask, Reject
<1>7. ~Finish(r, 500, {}) =>
        marks'[r] = marks[r] \cup (IF StatusChanged(r) THEN {"moved"} ELSE {})
  BY <1>1, <1>5, <1>6 DEF MarkCommit, Overtaken
<1>8. CASE /\ ~Finish(r, 500, {})
           /\ pc'[r] = "invalidate" /\ call'[r] = call[r] /\ local'[r] = local[r]
  <2>1. StatusChanged(r)' <=> StatusChanged(r)
    BY <1>8 DEF StatusChanged
  <2>2. QED BY <1>3, <1>7, <1>8, <2>1 DEF News
<1>9. CASE pc'[r] = "done" /\ reply'[r].code = 500
  BY <1>9 DEF News
<1>10. QED BY <1>6, <1>8, <1>9 DEF AfterCommit, Finish, Goto, TypeOK, ReqTypeOK

LEMMA LoadNews ==
  ASSUME TypeOK, NEW r \in Reqs, InHand(r), News(r), Updating(r), Load(r)
  PROVE  News(r)'
<1> DEFINE row == tasks[call[r].task]
           e == local[r].entity
<1>1. /\ pc[r] = "load"
      /\ row \in TaskRows /\ call[r].change \in TaskChanges
      /\ e = Assign(row, call[r].change)
      /\ local[r].prev = row.cols["status"]
      /\ "moved" \notin marks[r] /\ "told" \notin marks[r]
      /\ {"moved", "told"} \cap marks[r] = {}
  BY UpdatedTask DEF Load, News
<1>2. UNCHANGED <<dbVars, call, marks>>
  BY DEF Load, history
<1>3. CASE NothingToSave(e, row)
  <2>1. e.cols["status"] = row.cols["status"]
    BY <1>1, <1>3, StatusSaved DEF NothingToSave
  <2>2. e.cols["status"] = IF call[r].change["status"] = Absent
                           THEN row.cols["status"] ELSE call[r].change["status"]
    BY <1>1, StatusSaved
  <2>3. ~StatusChanged(r)
    BY <1>1, <2>1, <2>2 DEF StatusChanged
  <2>4. pc'[r] = "invalidate" /\ local'[r] = local[r]
    BY <1>3 DEF Load, Updating, Goto, TypeOK, ReqTypeOK
  <2>5. ~StatusChanged(r)'
    BY <1>2, <2>3, <2>4 DEF StatusChanged
  <2>6. QED BY <1>1, <1>2, <2>4, <2>5 DEF News
<1>4. CASE ~NothingToSave(e, row)
  <2>1. /\ pc'[r] = "save"
        /\ local'[r].entity = e /\ local'[r].prev = local[r].prev
    BY <1>4 DEF Load, Updating, Goto, TypeOK, ReqTypeOK
  <2>2. tasks'[call'[r].task] = row /\ call'[r] = call[r] /\ marks'[r] = marks[r]
    BY <1>2 DEF dbVars
  <2>3. QED BY <1>1, <2>1, <2>2 DEF News
<1>5. QED BY <1>3, <1>4

LEMMA RequireTaskNews ==
  ASSUME TypeOK, NEW r \in Reqs, News(r), Updating(r), RequireTask(r)
  PROVE  News(r)'
<1> DEFINE row == tasks[call[r].task]
<1>1. {"moved", "told"} \cap marks[r] = {} /\ marks' = marks /\ tasks' = tasks
  BY DEF RequireTask, News, history, dbVars
<1>2. CASE pc'[r] = "done" /\ reply'[r].code = 404
  BY <1>2 DEF News
<1>3. CASE /\ pc'[r] = "load" /\ call' = call
           /\ local'[r].entity = Assign(row, call[r].change)
           /\ local'[r].prev = row.cols["status"]
  BY <1>1, <1>3 DEF News
<1>4. QED
  BY <1>2, <1>3 DEF RequireTask, Updating, FindByIdAndProject, Finish, Goto,
                    TypeOK, ReqTypeOK

LEMMA NewsSlot ==
  ASSUME TypeOK, NEW r \in Reqs, InHand(r), Updating(r) => News(r),
         SlotStep(r), Updating(r)'
  PROVE  News(r)'
<1> USE DEF TypeOK, ReqTypeOK, Goto
<1>1. ASSUME NEW code, NEW ids, code # 200, Finish(r, code, ids) PROVE News(r)'
  BY <1>1 DEF Finish, News
<1>2. CASE Accept(r)
  <2>1. pc'[r] = "requireOwnedProject"
    BY <1>2 DEF Accept, FirstCall, Updating
  <2>2. marks'[r] \subseteq {"late"}
    BY <1>2 DEF Accept, HistoryTypeOK
  <2>3. QED BY <2>1, <2>2 DEF News
<1>3. CASE ~Accept(r) /\ ~InsertTask(r) /\ ~Respond(r)
  <2>1. pc[r] # "idle" /\ call' [r] = call[r]
    <3>1. ASSUME NEW code, NEW ids, Finish(r, code, ids) PROVE call' = call
      BY <3>1 DEF Finish
    <3>2. ASSUME AfterCommit(r, call[r]) PROVE call'[r] = call[r]
      BY <3>1, <3>2 DEF AfterCommit
    <3>3. CASE RequireOwnedProject(r) \/ RequireTask(r)
      BY <3>1, <3>3 DEF RequireOwnedProject, RequireTask
    <3>4. CASE InsertProject(r) \/ Load(r) \/ DbError(r)
      BY <3>1, <3>4 DEF InsertProject, Load, DbError, DbLabels, Reject
    <3>5. CASE SaveProject(r) \/ SaveTask(r)
      BY <3>1, <3>2, <3>5 DEF SaveProject, SaveTask, Reject
    <3>6. CASE RemoveProject(r) \/ RemoveTask(r)
      BY <3>2, <3>6 DEF RemoveProject, RemoveTask
    <3>7. CASE Invalidate(r) \/ Publish(r)
      BY <3>1, <3>7 DEF Invalidate, Publish, Succeed
    <3>8. CASE CacheGet(r) \/ FindDetail(r) \/ CacheSet(r) \/ Query(r)
      BY <3>1, <3>8 DEF CacheGet, FindDetail, CacheSet, Query
    <3>9. QED
      BY <1>3, <3>3, <3>4, <3>5, <3>6, <3>7, <3>8 DEF SlotStep, Step
  <2>2. Updating(r) /\ News(r)
    BY <2>1 DEF Updating
  <2>3. pc[r] \in {"requireOwnedProject", "requireTask", "load", "save",
                   "invalidate", "publish", "done"}
    BY <2>2, AtLabel DEF Updating, OpsAt, Labels, AllOps
  <2>4. CASE RequireOwnedProject(r)
    <3>1. marks' = marks /\ {"moved", "told"} \cap marks[r] = {}
      BY <2>2, <2>4 DEF RequireOwnedProject, history, News
    <3>2. \/ pc'[r] = "requireTask"
          \/ pc'[r] = "done" /\ reply'[r].code = 404
      BY <2>2, <2>4 DEF RequireOwnedProject, Finish, CallAfterOwned, Updating
    <3>3. QED BY <3>1, <3>2 DEF News
  <2>5. CASE RequireTask(r) \/ Load(r) \/ SaveTask(r)
    BY <2>2, <2>5, RequireTaskNews, LoadNews, SaveTaskNews
  <2>6. CASE Invalidate(r)
    <3>1. /\ marks' = marks /\ "told" \notin marks[r]
          /\ "moved" \in marks[r] <=> StatusChanged(r)
          /\ NeedsEvent(r) <=> StatusChanged(r)
      BY <2>2, <2>6 DEF Invalidate, News, NeedsEvent, Updating
    <3>2. CASE NeedsEvent(r)
      <4>1. /\ pc'[r] = "publish" /\ call'[r] = call[r]
            /\ local'[r] = local[r]
        BY <2>6, <3>2 DEF Invalidate
      <4>2. StatusChanged(r)'
        BY <3>1, <3>2, <4>1 DEF StatusChanged
      <4>3. QED BY <3>1, <3>2, <4>1, <4>2 DEF News
    <3>3. CASE ~NeedsEvent(r)
      <4>1. pc'[r] = "done"
        BY <2>6, <3>3 DEF Invalidate, Succeed, Finish
      <4>2. QED BY <3>1, <3>3, <4>1 DEF News
    <3>4. QED BY <3>2, <3>3
  <2>7. CASE Publish(r)
    <3>1. /\ pc'[r] = "done"
          /\ marks'[r] = marks[r] \cup {"told"}
      BY <2>7 DEF Publish, Mark, HistoryTypeOK, Succeed, Finish
    <3>2. "moved" \in marks[r]
      BY <2>2, <2>7 DEF Publish, News
    <3>3. QED BY <3>1, <3>2 DEF News
  <2>8. CASE DbError(r)
    BY <1>1, <2>8 DEF DbError, Reject
  <2>9. CASE InsertProject(r) \/ SaveProject(r) \/ RemoveProject(r)
             \/ RemoveTask(r)
    BY <2>2, <2>9 DEF InsertProject, SaveProject, RemoveProject, RemoveTask,
                      Updating
  <2>10. CASE CacheGet(r) \/ FindDetail(r) \/ CacheSet(r) \/ Query(r)
    BY <2>3, <2>10 DEF CacheGet, FindDetail, CacheSet, Query
  <2>11. QED
    BY <1>3, <2>4, <2>5, <2>6, <2>7, <2>8, <2>9, <2>10 DEF SlotStep, Step
<1>4. CASE InsertTask(r)
  <2>1. call[r] \in Calls /\ call[r].op = "createTask"
    BY <1>4, AtLabel DEF InsertTask
  <2>2. call'[r].op # "updateTask"
    <3>1. \/ call'[r] = call[r]
          \/ \E t \in UnusedTasks : call'[r] = [call[r] EXCEPT !.task = t]
      BY <1>4 DEF InsertTask, AfterCommit, Reject, Finish
    <3>2. CASE call'[r] = call[r]
      BY <2>1, <3>2
    <3>3. ASSUME NEW t \in UnusedTasks, call'[r] = [call[r] EXCEPT !.task = t]
          PROVE  call'[r].op # "updateTask"
      <4>1. t \in Tasks
        BY DEF UnusedTasks
      <4>2. QED BY <2>1, <3>3, <4>1, SavedCall
    <3>4. QED BY <3>1, <3>2, <3>3
  <2>3. QED BY <2>2 DEF Updating
<1>5. CASE Respond(r)
  BY <1>5 DEF Respond, Vacate, Updating
<1>6. QED BY <1>2, <1>3, <1>4, <1>5

LEMMA NewsStep ==
  ASSUME TypeOK, OneAtATime, OneAtATime', AllInHand, AllNews, [Next]_vars
  PROVE  AllNews'
<1> SUFFICES ASSUME NEW r \in Reqs, Updating(r)' PROVE News(r)'
  BY DEF AllNews
<1>1. CASE SlotStep(r)
  BY <1>1, NewsSlot DEF AllInHand, AllNews
<1>2. CASE SameSlot(r) /\ UNCHANGED <<dbVars, buried>> /\ marks'[r] = marks[r]
  <2>1. Updating(r) /\ News(r)
    BY <1>2 DEF SameSlot, Updating, AllNews
  <2>2. StatusChanged(r)' <=> StatusChanged(r)
    BY <1>2 DEF SameSlot, StatusChanged
  <2>3. QED BY <1>2, <2>1, <2>2 DEF SameSlot, News, dbVars
<1>3. QED BY <1>1, <1>2, AloneSteps DEF Updating

\* While requests do not overlap, an update that was answered has announced a
\* change of status exactly if its commit made one, whatever has failed.
THEOREM EventIffMovedAlone ==
  Spec /\ []OneAtATime => []StatusEventIffMoved
<1>1. Init => AllNews
  BY DEF Init, AllNews, Updating
<1>2. TypeOK /\ OneAtATime /\ OneAtATime' /\ AllInHand /\ AllNews /\ [Next]_vars
        => AllNews'
  BY NewsStep
<1>3. AllNews => StatusEventIffMoved
  BY DEF AllNews, News, Updating, StatusEventIffMoved
<1>4. QED BY <1>1, <1>2, <1>3, TypeCorrect, AlwaysInHand, PTL DEF Spec

\* Deleted is deleted: no row and no cache entry under the id, ever.
Gone ==
  /\ \A p \in buried \cap Projects :
       /\ creator[p] # Absent
       /\ projects[p] = Absent
       /\ \A u \in Users : cache[u][p] = Absent
  /\ \A t \in buried \cap Tasks : home[t] # Absent /\ tasks[t] = Absent

\* A DELETE on its way to its answer has deleted its row.
Going(r) ==
  pc[r] = "invalidate" =>
    /\ call[r].op = "deleteProject" => projects[call[r].proj] = Absent
    /\ call[r].op = "deleteTask" => tasks[call[r].task] = Absent

\* A request that came too late gets no further than the check that fails.
LateNotFound(r) ==
  pc[r] # "idle" /\ "late" \in marks[r] =>
    /\ {call[r].proj, call[r].task} \cap buried # {}
    /\ pc[r] \in {"requireOwnedProject", "requireTask", "cacheGet",
                  "findDetail", "done"}
    /\ pc[r] = "requireTask" => call[r].task \in buried
    /\ pc[r] = "done" => reply[r].code = 404

StaysDeleted == Gone /\ \A r \in Reqs : Going(r) /\ LateNotFound(r)

\* Redis and the database answer; a project and a task have different ids.
NothingFails == Faults \cap {"db", "redis"} = {}
IdsDistinct == Projects \cap Tasks = {}

CacheUp == \A i \in Instances : cacheUp[i]

LEMMA CacheUpAlways ==
  ASSUME NothingFails
  PROVE  Spec => []CacheUp
<1>1. Init => CacheUp
  BY DEF Init, CacheUp, NothingFails
<1>2. TypeOK /\ CacheUp /\ [Next]_vars => CacheUp'
  <2> SUFFICES ASSUME TypeOK, CacheUp, [Next]_vars PROVE CacheUp'
    OBVIOUS
  <2>1. ASSUME NEW r \in Reqs, SlotStep(r) PROVE UNCHANGED cacheUp
    BY <2>1 DEF SlotStep, Step, Accept, RequireOwnedProject, RequireTask,
       InsertProject, InsertTask, Load, SaveProject, SaveTask, RemoveProject,
       RemoveTask, Invalidate, Publish, CacheGet, FindDetail, CacheSet, Query,
       Respond, DbError, Reject, redisVars
  <2>2. ASSUME NEW i \in Instances,
               DropCacheClient(i) \/ DropQueue(i) \/ Restart(i)
        PROVE  CacheUp'
    <3>1. "redis" \notin Faults
      BY DEF NothingFails
    <3>2. ~DropCacheClient(i)
      BY <3>1 DEF DropCacheClient
    <3>3. DropQueue(i) => CacheUp'
      BY DEF DropQueue, redisVars, CacheUp
    <3>4. Restart(i) => cacheUp' = [cacheUp EXCEPT ![i] = TRUE]
      BY <3>1 DEF Restart
    <3>5. QED BY <2>2, <3>2, <3>3, <3>4 DEF CacheUp, TypeOK, RedisTypeOK
  <2>3. ASSUME NEW u \in Users, NEW p \in Projects, Expire(u, p)
        PROVE  UNCHANGED cacheUp
    BY <2>3 DEF Expire
  <2>4. QED BY <2>1, <2>2, <2>3
            DEF Next, Environment, SlotStep, vars, redisVars, CacheUp
<1>3. QED BY <1>1, <1>2, TypeCorrect, PTL DEF Spec

\* A lone handler puts nothing back that has been deleted.
LEMMA BuriedRows ==
  ASSUME TypeOK, AllInHand, Gone, [Next]_vars
  PROVE  /\ \A p \in buried \cap Projects :
              creator'[p] # Absent /\ projects'[p] = Absent
         /\ \A t \in buried \cap Tasks :
              home'[t] # Absent /\ tasks'[t] = Absent
<1> USE DEF TypeOK, DbTypeOK, Gone
<1>1. IdsStable
  BY IdsNeverMove
<1>2. ASSUME NEW p \in buried \cap Projects PROVE projects'[p] = Absent
  <2>1. ASSUME NEW r \in Reqs, InsertProject(r) PROVE projects'[p] = Absent
    BY <1>2, <2>1, InsertProjectRows DEF dbVars
  <2>2. ASSUME NEW r \in Reqs, SaveProject(r) PROVE projects'[p] = Absent
    <3>1. projects[call[r].proj] # Absent
      BY <2>2 DEF SaveProject, AllInHand, InHand
    <3>2. QED BY <1>2, <2>2, <3>1, SaveProjectRows DEF dbVars
  <2>3. ASSUME NEW r \in Reqs, InsertTask(r) \/ SaveTask(r)
        PROVE  projects'[p] = Absent
    BY <1>2, <2>3, InsertTaskRows, SaveTaskRows DEF dbVars
  <2>4. ASSUME NEW r \in Reqs, RemoveProject(r) \/ RemoveTask(r)
        PROVE  projects'[p] = Absent
    BY <1>2, <2>4, RemoveRows
  <2>5. QED BY <1>2, <2>1, <2>2, <2>3, <2>4, DbSteps DEF DbStep, dbVars
<1>3. ASSUME NEW t \in buried \cap Tasks PROVE tasks'[t] = Absent
  <2>1. ASSUME NEW r \in Reqs, InsertTask(r) PROVE tasks'[t] = Absent
    BY <1>3, <2>1, InsertTaskRows DEF dbVars
  <2>2. ASSUME NEW r \in Reqs, SaveTask(r) PROVE tasks'[t] = Absent
    <3>1. tasks[call[r].task] # Absent
      BY <2>2 DEF SaveTask, AllInHand, InHand, RowOf
    <3>2. QED BY <1>3, <2>2, <3>1, SaveTaskRows DEF dbVars
  <2>3. ASSUME NEW r \in Reqs, InsertProject(r) \/ SaveProject(r)
        PROVE  tasks'[t] = Absent
    BY <1>3, <2>3, InsertProjectRows, SaveProjectRows DEF dbVars
  <2>4. ASSUME NEW r \in Reqs, RemoveProject(r) \/ RemoveTask(r)
        PROVE  tasks'[t] = Absent
    BY <1>3, <2>4, RemoveRows
  <2>5. QED BY <1>3, <2>1, <2>2, <2>3, <2>4, DbSteps DEF DbStep, dbVars
<1>4. QED BY <1>1, <1>2, <1>3 DEF IdsStable

\* ... nor does it cache it.
LEMMA BuriedEntries ==
  ASSUME TypeOK, AllInHand, Gone, [Next]_vars,
         NEW p \in buried \cap Projects, NEW u \in Users
  PROVE  cache'[u][p] = Absent
<1> USE DEF TypeOK, RedisTypeOK
<1>1. projects[p] = Absent /\ cache[u][p] = Absent
  BY DEF Gone
<1>2. ASSUME NEW r \in Reqs, Invalidate(r) PROVE cache'[u][p] = Absent
  <2>1. call[r].user \in Users /\ call[r].proj \in Projects
    BY <1>2, AtLabel, CallFields DEF Invalidate, OpsAt
  <2>2. QED BY <1>1, <1>2, <2>1 DEF Invalidate, CacheWithout
<1>3. ASSUME NEW r \in Reqs, CacheSet(r) PROVE cache'[u][p] = Absent
  <2>1. call[r].user \in Users /\ call[r].proj \in Projects
    BY <1>3, AtLabel, CallFields DEF CacheSet, OpsAt
  <2>2. call[r].proj # p
    BY <1>1, <1>3 DEF CacheSet, AllInHand, InHand
  <2>3. QED BY <1>1, <1>3, <2>1, <2>2 DEF CacheSet, CacheWith
<1>4. ASSUME NEW v \in Users, NEW q \in Projects, Expire(v, q)
      PROVE  cache'[u][p] = Absent
  BY <1>1, <1>4 DEF Expire
<1>5. QED BY <1>1, <1>2, <1>3, <1>4, CacheSteps

\* What an answered DELETE buries is gone.
LEMMA NewlyBuried ==
  ASSUME NothingFails, IdsDistinct, TypeOK, OwnershipInv, CacheUp,
         NEW r \in Reqs, Going(r), Invalidate(r), NEW x \in Buries(r)
  PROVE  /\ x \in Projects =>
              /\ creator'[x] # Absent /\ projects'[x] = Absent
              /\ \A u \in Users : cache'[u][x] = Absent
         /\ x \in Tasks => home'[x] # Absent /\ tasks'[x] = Absent
<1>1. /\ pc[r] = "invalidate"
      /\ call[r].proj \in Projects /\ call[r].user \in Users
      /\ call[r].op = "deleteTask" => call[r].task \in Tasks
  BY AtLabel, CallFields DEF Invalidate, OpsAt
<1>2. creator[call[r].proj] = call[r].user /\ call[r].user # Absent
  BY <1>1, AbsentIsNoValue
  DEF OwnershipInv, ChecksStillHold, PastOwnerCheck, OwnProject
<1>3. UNCHANGED <<projects, tasks, creator, home>>
  BY DEF Invalidate, dbVars
<1>4. CASE call[r].op = "deleteProject"
  <2>1. x = call[r].proj /\ x \notin Tasks
    BY <1>1, <1>4 DEF Buries, IdsDistinct
  <2>2. projects[x] = Absent
    BY <1>1, <1>4, <2>1 DEF Going
  <2>3. cache' = [cache EXCEPT ![call[r].user][x] = Absent]
    BY <2>1, ApiAssumption DEF Invalidate, CacheWithout, CacheUp
  <2>4. \A u \in Users : cache'[u][x] = Absent
    BY <1>1, <1>2, <2>1, <2>3
    DEF OwnershipInv, OwnerIsolation, CacheIsolation, TypeOK, RedisTypeOK
  <2>5. QED BY <1>2, <1>3, <2>1, <2>2, <2>4
<1>5. CASE call[r].op = "deleteTask"
  <2>1. x = call[r].task /\ x \in Tasks /\ x \notin Projects
    BY <1>1, <1>5 DEF Buries, IdsDistinct
  <2>2. tasks[x] = Absent
    BY <1>1, <1>5, <2>1 DEF Going
  <2>3. home[x] = call[r].proj
    BY <1>1, <2>1, AbsentIsNoValue
    DEF OwnershipInv, ChecksStillHold, PastTaskCheck, OwnTask
  <2>4. QED BY <1>1, <1>3, <2>1, <2>2, <2>3, AbsentIsNoValue
<1>6. CASE Buries(r) = {}
  BY <1>6
<1>7. QED BY <1>4, <1>5, <1>6 DEF Buries

LEMMA BuriedSteps ==
  ASSUME [Next]_vars
  PROVE  \/ buried' = buried
         \/ \E r \in Reqs : Invalidate(r) /\ buried' = buried \cup Buries(r)
<1>1. ASSUME NEW r \in Reqs, SlotStep(r), ~Invalidate(r)
      PROVE  buried' = buried
  BY <1>1 DEF SlotStep, Step, Accept, RequireOwnedProject, RequireTask,
     InsertProject, InsertTask, Load, SaveProject, SaveTask, RemoveProject,
     RemoveTask, Publish, CacheGet, FindDetail, CacheSet, Query, Respond,
     DbError, Reject, history
<1>2. QED BY <1>1, SlotSteps DEF Restart, Invalidate

LEMMA GoneStep ==
  ASSUME NothingFails, IdsDistinct, TypeOK, OwnershipInv, CacheUp, AllInHand,
         StaysDeleted, [Next]_vars
  PROVE  Gone'
<1> USE DEF StaysDeleted
<1>1. CASE buried' = buried
  BY <1>1, BuriedRows, BuriedEntries DEF Gone
<1>2. ASSUME NEW r \in Reqs, Invalidate(r), buried' = buried \cup Buries(r)
      PROVE  Gone'
  <2>1. ASSUME NEW p \in buried' \cap Projects
        PROVE  /\ creator'[p] # Absent /\ projects'[p] = Absent
               /\ \A u \in Users : cache'[u][p] = Absent
    <3>1. CASE p \in buried
      BY <2>1, <3>1, BuriedRows, BuriedEntries
    <3>2. CASE p \in Buries(r)
      BY <1>2, <2>1, <3>2, NewlyBuried
    <3>3. QED BY <1>2, <2>1, <3>1, <3>2
  <2>2. ASSUME NEW t \in buried' \cap Tasks
        PROVE  home'[t] # Absent /\ tasks'[t] = Absent
    <3>1. CASE t \in buried
      BY <2>2, <3>1, BuriedRows
    <3>2. CASE t \in Buries(r)
      BY <1>2, <2>2, <3>2, NewlyBuried
    <3>3. QED BY <1>2, <2>2, <3>1, <3>2
  <2>3. QED BY <2>1, <2>2 DEF Gone
<1>3. QED BY <1>1, <1>2, BuriedSteps

LEMMA GoingStep ==
  ASSUME TypeOK, OneAtATime, OneAtATime', StaysDeleted, [Next]_vars,
         NEW r \in Reqs
  PROVE  Going(r)'
<1> USE DEF TypeOK, DbTypeOK
<1> SUFFICES ASSUME pc'[r] = "invalidate"
             PROVE  /\ call'[r].op = "deleteProject" =>
                         projects'[call'[r].proj] = Absent
                    /\ call'[r].op = "deleteTask" =>
                         tasks'[call'[r].task] = Absent
  BY DEF Going
<1>1. CASE SameSlot(r) /\ UNCHANGED <<dbVars, buried>>
  BY <1>1 DEF SameSlot, StaysDeleted, Going, dbVars
<1>2. CASE InsertTask(r)
  <2>1. call[r] \in Calls /\ call[r].op = "createTask"
    BY <1>2, AtLabel DEF InsertTask
  <2>2. PICK t \in UnusedTasks : call'[r] = [call[r] EXCEPT !.task = t]
    BY <1>2 DEF InsertTask, AfterCommit, Reject, Finish, Goto, ReqTypeOK
  <2>3. t \in Tasks
    BY DEF UnusedTasks
  <2>4. QED BY <2>1, <2>2, <2>3, SavedCall
<1>3. CASE (Load(r) \/ SaveProject(r) \/ SaveTask(r)) /\ call'[r] = call[r]
  <2>1. pc[r] \in {"load", "save"}
    BY <1>3 DEF Load, SaveProject, SaveTask
  <2>2. QED BY <1>3, <2>1, AtLabel DEF OpsAt
<1>4. CASE (RemoveProject(r) \/ RemoveTask(r)) /\ call'[r] = call[r]
  <2>1. /\ call[r].proj \in Projects
        /\ call[r].op = "deleteTask" => call[r].task \in Tasks
    BY <1>4, AtLabel, CallFields DEF RemoveProject, RemoveTask
  <2>2. QED BY <1>4, <2>1 DEF RemoveProject, RemoveTask, DeleteProjectRow,
                              DeleteTaskRow
<1>5. QED BY <1>1, <1>2, <1>3, <1>4, AloneSteps, ReachesTheEnd

\* Only the arrival of a request finds out that it is late.
LEMMA NotLateLater ==
  ASSUME TypeOK, NEW r \in Reqs, SlotStep(r), ~Accept(r), "late" \in marks'[r]
  PROVE  "late" \in marks[r]
<1> USE DEF TypeOK, HistoryTypeOK
<1>1. ASSUME NEW p, NEW flags \in {{}, {"moved"}}, MarkCommit(r, p, flags)
      PROVE  "late" \in marks[r]
  BY <1>1 DEF MarkCommit
<1>2. CASE RequireOwnedProject(r) \/ RequireTask(r)
  BY <1>2 DEF RequireOwnedProject, RequireTask, history
<1>3. CASE InsertProject(r) \/ Load(r)
  BY <1>3 DEF InsertProject, Load, Reject, history
<1>4. CASE InsertTask(r) \/ SaveProject(r) \/ SaveTask(r)
  BY <1>1, <1>4 DEF InsertTask, SaveProject, SaveTask, Reject
<1>5. CASE RemoveProject(r) \/ RemoveTask(r)
  BY <1>1, <1>5 DEF RemoveProject, RemoveTask
<1>6. CASE Invalidate(r) \/ Publish(r) \/ Respond(r)
  BY <1>6 DEF Invalidate, Publish, Respond, Mark
<1>7. CASE CacheGet(r) \/ FindDetail(r) \/ CacheSet(r) \/ Query(r) \/ DbError(r)
  BY <1>7 DEF CacheGet, FindDetail, CacheSet, Query, DbError, Reject, history
<1>8. QED BY <1>2, <1>3, <1>4, <1>5, <1>6, <1>7 DEF SlotStep, Step

\* A late request is answered with 404 by the first query that looks for what
\* is gone.
LEMMA LateSlot ==
  ASSUME NothingFails, TypeOK, StaysDeleted, NEW r \in Reqs, InHand(r),
         SlotStep(r)
  PROVE  LateNotFound(r)'
<1> USE DEF TypeOK, ReqTypeOK, HistoryTypeOK, Goto
<1> SUFFICES ASSUME pc'[r] # "idle", "late" \in marks'[r]
             PROVE  LateNotFound(r)'
  BY DEF LateNotFound
<1>1. ASSUME Finish(r, 404, {}),
             {call[r].proj, call[r].task} \cap buried # {}, buried' = buried
      PROVE  LateNotFound(r)'
  BY <1>1 DEF Finish, LateNotFound
<1>2. CASE Accept(r)
  <2>1. PICK c \in Requests :
          /\ call'[r] = c /\ pc'[r] = FirstCall(c.op)
          /\ {c.proj, c.task} \cap buried # {}
    BY <1>2 DEF Accept
  <2>2. c \in Calls
    BY DEF Calls
  <2>3. c.proj # Absent \/ c.task # Absent
    BY <2>1, AbsentIsNoValue
  <2>4. c.op \notin {"createProject", "listProjects"}
    BY <2>2, <2>3, CallFields
  <2>5. pc'[r] \in {"requireOwnedProject", "cacheGet"}
    BY <2>1, <2>4 DEF FirstCall
  <2>6. buried' = buried
    BY <1>2 DEF Accept
  <2>7. QED BY <2>1, <2>5, <2>6 DEF LateNotFound
<1>3. CASE ~Accept(r)
  <2>1. "late" \in marks[r]
    BY <1>3, NotLateLater
  <2>2. pc[r] # "idle"
    BY <1>3 DEF SlotStep, Step, RequireOwnedProject, RequireTask,
       InsertProject, InsertTask, Load, SaveProject, SaveTask, RemoveProject,
       RemoveTask, Invalidate, Publish, CacheGet, FindDetail, CacheSet, Query,
       Respond, DbError, DbLabels
  <2>3. LateNotFound(r)
    BY DEF StaysDeleted
  <2>4. /\ {call[r].proj, call[r].task} \cap buried # {}
        /\ pc[r] \in {"requireOwnedProject", "requireTask", "cacheGet",
                      "findDetail", "done"}
        /\ pc[r] = "requireTask" => call[r].task \in buried
    BY <2>1, <2>2, <2>3 DEF LateNotFound
  <2>5. call[r] \in Calls /\ call[r].op \in OpsAt(pc[r])
    BY <2>2, AtLabel
  <2>6. Gone
    BY DEF StaysDeleted
  <2>7. CASE RequireOwnedProject(r)
    <3>1. call[r].proj \in Projects /\ buried' = buried
      BY <2>5, <2>7, CallFields DEF RequireOwnedProject, OpsAt, history
    <3>2. CASE FindByIdAndOwner(call[r].proj, call[r].user) = Absent
      BY <1>1, <2>4, <2>7, <3>1, <3>2 DEF RequireOwnedProject
    <3>3. CASE FindByIdAndOwner(call[r].proj, call[r].user) # Absent
      <4>1. call[r].proj \notin buried
        BY <2>6, <3>1, <3>3 DEF FindByIdAndOwner, Gone
      <4>2. call[r].task \in buried /\ call[r].task # Absent
        BY <2>4, <4>1, AbsentIsNoValue
      <4>3. call[r].op \in {"createTask", "getTask", "updateTask", "deleteTask"}
        BY <2>5, <4>2, CallFields
      <4>4. call[r].op # "createTask"
        BY <2>7, <4>2 DEF RequireOwnedProject, InHand
      <4>5. pc'[r] = "requireTask" /\ call'[r] = call[r]
        BY <2>7, <3>3, <4>3, <4>4 DEF RequireOwnedProject, CallAfterOwned
      <4>6. QED BY <2>4, <3>1, <4>2, <4>5 DEF LateNotFound
    <3>4. QED BY <3>2, <3>3
  <2>8. CASE RequireTask(r)
    <3>1. call[r].task \in Tasks /\ call[r].task \in buried
      BY <2>4, <2>5, <2>8, CallFields DEF RequireTask, OpsAt
    <3>2. FindByIdAndProject(call[r].task, call[r].proj) = Absent
      BY <2>6, <3>1 DEF FindByIdAndProject, Gone
    <3>3. Finish(r, 404, {}) /\ buried' = buried
      BY <2>8, <3>2 DEF RequireTask, history
    <3>4. QED BY <1>1, <2>4, <3>3
  <2>9. CASE CacheGet(r) \/ FindDetail(r)
    <3>1. /\ call[r].proj \in Projects /\ call[r].user \in Users
          /\ call[r].task = Absent
      BY <2>5, <2>9, CallFields DEF CacheGet, FindDetail, OpsAt
    <3>2. call[r].proj \in buried
      BY <2>4, <3>1, AbsentIsNoValue
    <3>3. /\ CacheValueFor(Home[r], call[r].user, call[r].proj) = Absent
          /\ FindDetailByIdAndOwner(call[r].proj, call[r].user) = Absent
      BY <2>6, <3>1, <3>2
      DEF Gone, CacheValueFor, FindDetailByIdAndOwner, FindByIdAndOwner
    <3>4. CASE CacheGet(r)
      <4>1. pc'[r] = "findDetail" /\ call' = call /\ buried' = buried
        BY <3>3, <3>4 DEF CacheGet, history
      <4>2. QED BY <2>4, <4>1 DEF LateNotFound
    <3>5. CASE FindDetail(r)
      BY <1>1, <2>4, <3>3, <3>5 DEF FindDetail, history
    <3>6. QED BY <2>9, <3>4, <3>5
  <2>10. ~DbError(r) /\ ~Respond(r)
    BY DEF DbError, NothingFails, Respond, Vacate
  <2>11. QED
    BY <1>3, <2>4, <2>7, <2>8, <2>9, <2>10
    DEF SlotStep, Step, InsertProject, InsertTask, Load, SaveProject, SaveTask,
        RemoveProject, RemoveTask, Invalidate, Publish, CacheSet, Query
<1>4. QED BY <1>2, <1>3

LEMMA LateStep ==
  ASSUME NothingFails, TypeOK, OneAtATime, OneAtATime', AllInHand,
         StaysDeleted, [Next]_vars, NEW r \in Reqs
  PROVE  LateNotFound(r)'
<1>1. CASE SlotStep(r)
  BY <1>1, LateSlot DEF AllInHand
<1>2. CASE SameSlot(r) /\ UNCHANGED <<dbVars, buried>> /\ marks'[r] = marks[r]
  BY <1>2 DEF SameSlot, StaysDeleted, LateNotFound
<1>3. CASE pc'[r] = "idle"
  BY <1>3 DEF LateNotFound
<1>4. QED BY <1>1, <1>2, <1>3, AloneSteps

\* While requests do not overlap and neither Redis nor the database fails, what
\* a DELETE was answered for is not found again, by id, by its project or from
\* the cache, also after an instance has crashed.
THEOREM DeletedNotFoundAlone ==
  ASSUME NothingFails, IdsDistinct
  PROVE  Spec /\ []OneAtATime => []DeletedIsNotFound
<1>1. Init => StaysDeleted
  BY DEF Init, StaysDeleted, Gone, Going, LateNotFound
<1>2. TypeOK /\ OwnershipInv /\ CacheUp /\ OneAtATime /\ OneAtATime' /\ AllInHand
        /\ StaysDeleted /\ [Next]_vars => StaysDeleted'
  BY GoneStep, GoingStep, LateStep DEF StaysDeleted
<1>3. StaysDeleted => DeletedIsNotFound
  BY DEF StaysDeleted, LateNotFound, DeletedIsNotFound
<1>4. QED BY <1>1, <1>2, <1>3, TypeCorrect, ChecksHold, CacheUpAlways,
             AlwaysInHand, PTL DEF Spec
=============================================================================
