--------------------------- MODULE TaskActivityQueue ---------------------------
(***************************************************************************)
(* The BullMQ queue "task-activity" and the workers of the instances that  *)
(* share it.  TaskActivityService gives the options and process(); what    *)
(* BullMQ and Redis do with them is external.  A job is named by its event *)
(* id.  A worker takes a job under a lock it renews, runs process(), and   *)
(* reports; between these steps it may crash, lose Redis for good          *)
(* (retryStrategy: () => null) or pause for longer than its lock lasts,    *)
(* and then another worker finds the job stalled.                          *)
(***************************************************************************)
EXTENDS Naturals, Sequences

CONSTANTS
  Events,      \* event ids
  Malformed,   \* those whose payload validateTaskActivityEvent rejects
  Instances,   \* instances of the application, one worker each
  Attempts,    \* defaultJobOptions.attempts: 3
  Keep,        \* removeOnComplete.count, removeOnFail.count: 100
  MaxStalled,  \* BullMQ's default maxStalledCount: 1
  MaxFaults,   \* bound on crashes, lost connections and pauses
  Absent

ASSUME QueueAssumption ==
  /\ Malformed \subseteq Events
  /\ Attempts \in Nat \ {0}
  /\ Keep \in Nat \ {0}
  /\ MaxStalled \in Nat
  /\ MaxFaults \in Nat
  /\ Absent \notin Events \cup Instances

VARIABLES
  place,     \* the BullMQ structure a job is in, "none" if it has none
  wait,      \* the order of the waiting jobs, next first
  done,      \* the jobs in "completed" and "failed", oldest first
  lock,      \* the instance whose worker's lock on a job has not run out
  attempts,  \* attemptsMade: the failures of a job that were reported
  stalls,    \* how often a job stalled, counted up to MaxStalled + 1
  worker,    \* the worker of an instance
  linked,    \* whether its connection to Redis is there
  job,       \* the job it has taken
  stage,     \* how far it is with that job
  faults,    \* how many faults there have been
  runs       \* history: how often a job was taken to be processed

jobVars == <<place, wait, done, lock, attempts, stalls>>
workerVars == <<worker, linked, job, stage>>
vars == <<jobVars, workerVars, faults, runs>>

Places == {"none", "wait", "active", "delayed", "completed", "failed"}
Finished == {"completed", "failed"}

-----------------------------------------------------------------------------
\* The structures in Redis.

\* The list after e finished, and what retention removes with all its keys.
Retained(list, e) ==
  IF Len(list) < Keep
  THEN [list |-> Append(list, e), gone |-> {}]
  ELSE [list |-> Append(Tail(list), e), gone |-> {Head(list)}]

\* A job that finishes gives up its lock; jobs that are removed lose their
\* counters, and their ids can be added again.
MoveToFinished(e, kind) ==
  LET kept == Retained(done[kind], e)
  IN /\ done' = [done EXCEPT ![kind] = kept.list]
     /\ place' = [d \in Events |-> IF d \in kept.gone THEN "none"
                                   ELSE IF d = e THEN kind ELSE place[d]]
     /\ lock' = [lock EXCEPT ![e] = Absent]
     /\ UNCHANGED wait

\* Mutant: only a job that is not finished keeps its id from being added.
BugForgetsFinished(e) == place[e] \in {"none", "completed"}

\* The event id is the job id: add() of an id that has a job changes nothing.
Addable(e) == place[e] = "none"

\* publish(): without a queue, or when add() rejects, nothing happens.  The
\* queue has a connection of its own.
Publish(i, e) ==
  /\ worker[i] = "up"
  /\ Addable(e)
  /\ place' = [place EXCEPT ![e] = "wait"]
  /\ wait' = Append(wait, e)
  /\ attempts' = [attempts EXCEPT ![e] = 0]
  /\ stalls' = [stalls EXCEPT ![e] = 0]
  /\ runs' = [runs EXCEPT ![e] = 0]
  /\ UNCHANGED <<done, lock, workerVars, faults>>

-----------------------------------------------------------------------------
\* Workers.

\* initialize() has created queue, events and worker, and all are ready.
Start(i) ==
  /\ worker[i] = "off"
  /\ worker' = [worker EXCEPT ![i] = "up"]
  /\ linked' = [linked EXCEPT ![i] = TRUE]
  /\ UNCHANGED <<jobVars, job, stage, faults, runs>>

\* concurrency: 1.  A job that stalled too often is taken to be failed.
Take(i) ==
  /\ worker[i] = "up"
  /\ linked[i]
  /\ stage[i] = "idle"
  /\ wait # <<>>
  /\ LET e == Head(wait)
     IN /\ wait' = Tail(wait)
        /\ place' = [place EXCEPT ![e] = "active"]
        /\ lock' = [lock EXCEPT ![e] = i]
        /\ job' = [job EXCEPT ![i] = e]
        /\ \/ /\ stalls[e] > MaxStalled
              /\ stage' = [stage EXCEPT ![i] = "stalledOut"]
              /\ UNCHANGED runs
           \/ /\ stalls[e] <= MaxStalled
              /\ stage' = [stage EXCEPT ![i] = "taken"]
              /\ runs' = [runs EXCEPT ![e] = @ + 1]
  /\ UNCHANGED <<done, attempts, stalls, worker, linked, faults>>

\* Mutant: process() logs whatever payload it gets.
BugProcessesAnything(i) ==
  /\ stage[i] = "taken"
  /\ stage' = [stage EXCEPT ![i] = "returned"]
  /\ UNCHANGED <<jobVars, worker, linked, job, faults, runs>>

\* process(): the payload is validated, then logged.
Process(i) ==
  /\ stage[i] = "taken"
  /\ stage' = [stage EXCEPT ![i] =
       IF job[i] \in Malformed THEN "threw" ELSE "returned"]
  /\ UNCHANGED <<jobVars, worker, linked, job, faults, runs>>

Drop(i) ==
  /\ job' = [job EXCEPT ![i] = Absent]
  /\ stage' = [stage EXCEPT ![i] = "idle"]

LastAttempt(e) == attempts[e] + 1 >= Attempts

\* What a report does to the job: completed, delayed for another attempt
\* (exponential backoff), or failed.
Outcome(i, e) ==
  \/ /\ stage[i] = "returned"
     /\ MoveToFinished(e, "completed")
     /\ UNCHANGED <<attempts, stalls>>
  \/ /\ stage[i] = "threw"
     /\ attempts' = [attempts EXCEPT ![e] = @ + 1]
     /\ \/ /\ ~LastAttempt(e)
           /\ place' = [place EXCEPT ![e] = "delayed"]
           /\ lock' = [lock EXCEPT ![e] = Absent]
           /\ UNCHANGED <<wait, done>>
        \/ /\ LastAttempt(e)
           /\ MoveToFinished(e, "failed")
     /\ UNCHANGED stalls
  \/ /\ stage[i] = "stalledOut"
     /\ MoveToFinished(e, "failed")
     /\ UNCHANGED <<attempts, stalls>>

Reportable(i) == stage[i] \in {"returned", "threw", "stalledOut"}

\* Mutant: a report is taken from whoever has had the job.
BugAnyHolder(i) == TRUE

HasLock(i) == lock[job[i]] = i

Report(i) ==
  /\ Reportable(i)
  /\ linked[i]
  /\ HasLock(i)
  /\ Outcome(i, job[i])
  /\ Drop(i)
  /\ UNCHANGED <<worker, linked, faults, runs>>

\* Mutant: a report waits until the connection is back.
BugAwaitsConnection(i) ==
  /\ Reportable(i)
  /\ linked[i]
  /\ ~HasLock(i)
  /\ Drop(i)
  /\ UNCHANGED <<jobVars, worker, linked, faults, runs>>

\* "Missing lock", or no connection: the worker forgets the job.
ReportFails(i) ==
  /\ Reportable(i)
  /\ ~linked[i] \/ ~HasLock(i)
  /\ Drop(i)
  /\ UNCHANGED <<jobVars, worker, linked, faults, runs>>

\* shutdown(): publish() finds no queue from now on, and the worker takes no
\* other job but finishes the one it has.
Close(i) ==
  /\ worker[i] = "up"
  /\ worker' = [worker EXCEPT ![i] = "closing"]
  /\ UNCHANGED <<jobVars, linked, job, stage, faults, runs>>

\* Mutant: the connections are closed without waiting for the active job.
BugClosesAtOnce(i) == TRUE

\* Worker.close() waits for the active job.
JobsFinished(i) == stage[i] = "idle"

Closed(i) ==
  /\ worker[i] = "closing"
  /\ JobsFinished(i)
  /\ worker' = [worker EXCEPT ![i] = "off"]
  /\ linked' = [linked EXCEPT ![i] = FALSE]
  /\ UNCHANGED <<jobVars, job, stage, faults, runs>>

-----------------------------------------------------------------------------
\* Time: the backoff of a job ends, and stalled jobs are found.

Promote(i, e) ==
  /\ worker[i] = "up"
  /\ linked[i]
  /\ place[e] = "delayed"
  /\ place' = [place EXCEPT ![e] = "wait"]
  /\ wait' = Append(wait, e)
  /\ UNCHANGED <<done, lock, attempts, stalls, workerVars, faults, runs>>

\* The worker that renews the lock of e.
Renews(i, e) == worker[i] # "off" /\ linked[i] /\ job[i] = e /\ lock[e] = i

\* Mutant: locks have no end.
BugLockHasNoEnd(e) == FALSE /\ UNCHANGED vars

LockRunsOut(e) ==
  /\ lock[e] # Absent
  /\ ~Renews(lock[e], e)
  /\ lock' = [lock EXCEPT ![e] = Absent]
  /\ UNCHANGED <<place, wait, done, attempts, stalls, workerVars, faults, runs>>

\* Mutant: a stalled job is put back however often it has stalled.
BugStallsUncounted(n) == n

CountStall(n) == IF n > MaxStalled THEN n ELSE n + 1

\* Every worker looks for active jobs without a lock; they go first.
RecoverStalled(i, e) ==
  /\ worker[i] = "up"
  /\ linked[i]
  /\ place[e] = "active"
  /\ lock[e] = Absent
  /\ stalls' = [stalls EXCEPT ![e] = CountStall(@)]
  /\ place' = [place EXCEPT ![e] = "wait"]
  /\ wait' = <<e>> \o wait
  /\ UNCHANGED <<done, lock, attempts, workerVars, faults, runs>>

-----------------------------------------------------------------------------
\* Faults.

Fault == faults < MaxFaults /\ faults' = faults + 1

Crash(i) ==
  /\ Fault
  /\ worker[i] # "off"
  /\ worker' = [worker EXCEPT ![i] = "off"]
  /\ linked' = [linked EXCEPT ![i] = FALSE]
  /\ Drop(i)
  /\ UNCHANGED <<jobVars, runs>>

LoseRedis(i) ==
  /\ Fault
  /\ linked[i]
  /\ linked' = [linked EXCEPT ![i] = FALSE]
  /\ UNCHANGED <<jobVars, worker, job, stage, runs>>

\* The process stands still until its lock has run out.
Pause(e) ==
  /\ Fault
  /\ lock[e] # Absent
  /\ lock' = [lock EXCEPT ![e] = Absent]
  /\ UNCHANGED <<place, wait, done, attempts, stalls, workerVars, runs>>

-----------------------------------------------------------------------------
Init ==
  /\ place = [e \in Events |-> "none"]
  /\ wait = <<>>
  /\ done = [k \in Finished |-> <<>>]
  /\ lock = [e \in Events |-> Absent]
  /\ attempts = [e \in Events |-> 0]
  /\ stalls = [e \in Events |-> 0]
  /\ worker = [i \in Instances |-> "off"]
  /\ linked = [i \in Instances |-> FALSE]
  /\ job = [i \in Instances |-> Absent]
  /\ stage = [i \in Instances |-> "idle"]
  /\ faults = 0
  /\ runs = [e \in Events |-> 0]

Work(i) == Take(i) \/ Process(i) \/ Report(i) \/ ReportFails(i) \/ Closed(i)

Next ==
  \/ \E i \in Instances :
       \/ Start(i) \/ Work(i) \/ Close(i) \/ Crash(i) \/ LoseRedis(i)
       \/ \E e \in Events : Publish(i, e) \/ Promote(i, e) \/ RecoverStalled(i, e)
  \/ \E e \in Events : LockRunsOut(e) \/ Pause(e)

Spec == Init /\ [][Next]_vars

\* A worker goes on with its job and its loop, locks that are not renewed run
\* out, delays end, and the stalled check of any worker is periodic.
Fairness ==
  /\ \A i \in Instances : WF_vars(Work(i))
  /\ \A e \in Events :
       /\ WF_vars(LockRunsOut(e))
       /\ WF_vars(\E i \in Instances : Promote(i, e))
       /\ WF_vars(\E i \in Instances : RecoverStalled(i, e))

FairSpec == Spec /\ Fairness

-----------------------------------------------------------------------------
In(e, list) == \E n \in DOMAIN list : list[n] = e
Distinct(list) == \A a, b \in DOMAIN list : list[a] = list[b] => a = b

\* Every variable has its type; a job fails at most Attempts times and stalls
\* are counted no further than decides.  Finished jobs are lists, not sets.
TypeOK ==
  /\ place \in [Events -> Places]
  /\ wait \in Seq(Events)
  /\ done \in [Finished -> Seq(Events)]
  /\ lock \in [Events -> Instances \cup {Absent}]
  /\ attempts \in [Events -> 0 .. Attempts]
  /\ stalls \in [Events -> 0 .. MaxStalled + 1]
  /\ worker \in [Instances -> {"off", "up", "closing"}]
  /\ linked \in [Instances -> BOOLEAN]
  /\ job \in [Instances -> Events \cup {Absent}]
  /\ stage \in [Instances -> {"idle", "taken", "returned", "threw", "stalledOut"}]
  /\ faults \in 0 .. MaxFaults
  /\ runs \in [Events -> Nat]

\* The lists agree with the places of their jobs, and the lock of a job is
\* held only while it is active.
ListsAgree ==
  /\ Distinct(wait) /\ \A k \in Finished : Distinct(done[k])
  /\ \A e \in Events :
       /\ place[e] = "wait" <=> In(e, wait)
       /\ \A k \in Finished : place[e] = k <=> In(e, done[k])
       /\ lock[e] # Absent => place[e] = "active"

\* A job is run at most Attempts + MaxStalled times, whatever mixture of
\* errors, crashes, lost connections and pauses it meets.
RunsBounded == \A e \in Events : runs[e] <= Attempts + MaxStalled

\* A well-formed event fails only by stalling too often; a malformed one
\* never completes, and fails for its payload only after every attempt.
FailsForAReason ==
  \A e \in Events :
    /\ place[e] = "completed" => e \notin Malformed /\ runs[e] > 0
    /\ place[e] = "failed" =>
         \/ stalls[e] > MaxStalled
         \/ e \in Malformed /\ attempts[e] = Attempts

\* Instances that come and go by shutdown() alone cost no job a stall: what
\* is active is being worked on under a lock.
CleanCloseCostsNothing ==
  faults = 0 =>
    \A e \in Events :
      /\ stalls[e] = 0
      /\ place[e] = "active" => \E i \in Instances : Renews(i, e)

Pending(e) == place[e] \in {"wait", "active", "delayed"}

\* With workers, locks, retries and faults hidden the queue is an EventLog:
\* every event finishes once, is kept for Keep others, and is not accepted
\* again before (runtime.md: the same event id does not make two jobs).
Log == INSTANCE EventLog WITH pending <- {e \in Events : Pending(e)},
                              completed <- done["completed"],
                              failed <- done["failed"]
ImplementsEventLog == Log!Spec

\* While some worker stays and keeps its connection, every accepted event
\* finishes, though others crash with it in their hands.
AcceptedIsFinished ==
  \A i \in Instances :
    <>[](worker[i] = "up" /\ linked[i]) =>
      \A e \in Events : Pending(e) ~> ~Pending(e)

\* shutdown() ends, whatever becomes of the active job.
CloseEnds == \A i \in Instances : worker[i] = "closing" ~> worker[i] = "off"
=============================================================================
