------------------------ MODULE TaskActivityQueueProofs ------------------------
(***************************************************************************)
(* For every number of events, instances, attempts, stalls, kept jobs and  *)
(* faults: the structures of the queue agree, a job is run a bounded       *)
(* number of times and fails for a reason, a clean shutdown costs nothing, *)
(* and the queue implements EventLog.                                      *)
(***************************************************************************)
EXTENDS TaskActivityQueue, TLAPS

USE QueueAssumption
USE DEF vars, jobVars, workerVars

-----------------------------------------------------------------------------
\* Lists.

LEMMA AppendList ==
  ASSUME NEW S, NEW list \in Seq(S), NEW e \in S, Distinct(list), ~In(e, list)
  PROVE  /\ Append(list, e) \in Seq(S)
         /\ Distinct(Append(list, e))
         /\ \A d : In(d, Append(list, e)) <=> In(d, list) \/ d = e
<1>1. /\ Append(list, e) \in Seq(S)
      /\ DOMAIN list = 1 .. Len(list) /\ Len(list) \in Nat
      /\ DOMAIN Append(list, e) = 1 .. Len(list) + 1
      /\ \A n \in 1 .. Len(list) : Append(list, e)[n] = list[n]
      /\ Append(list, e)[Len(list) + 1] = e
  OBVIOUS
<1>2. Distinct(Append(list, e))
  BY <1>1 DEF Distinct, In
<1>3. ASSUME NEW d PROVE In(d, Append(list, e)) <=> In(d, list) \/ d = e
  BY <1>1 DEF In
<1> QED
  BY <1>1, <1>2, <1>3

LEMMA TailList ==
  ASSUME NEW S, NEW list \in Seq(S), list # <<>>, Distinct(list)
  PROVE  /\ Head(list) \in S /\ In(Head(list), list)
         /\ Tail(list) \in Seq(S)
         /\ Distinct(Tail(list))
         /\ \A d : In(d, Tail(list)) <=> In(d, list) /\ d # Head(list)
<1>1. /\ Tail(list) \in Seq(S)
      /\ Len(list) \in Nat \ {0} /\ DOMAIN list = 1 .. Len(list)
      /\ DOMAIN Tail(list) = 1 .. Len(list) - 1
      /\ \A n \in 1 .. Len(list) - 1 : Tail(list)[n] = list[n + 1]
      /\ Head(list) = list[1] /\ 1 \in DOMAIN list
  OBVIOUS
<1>2. Distinct(Tail(list))
  BY <1>1 DEF Distinct
<1>3. ASSUME NEW d PROVE In(d, Tail(list)) <=> In(d, list) /\ d # Head(list)
  <2>1. In(d, Tail(list)) => In(d, list) /\ d # Head(list)
    BY <1>1 DEF In, Distinct
  <2>2. ASSUME NEW n \in DOMAIN list, list[n] = d, d # Head(list)
        PROVE  In(d, Tail(list))
    <3>1. n - 1 \in 1 .. Len(list) - 1 /\ (n - 1) + 1 = n
      BY <1>1, <2>2
    <3> QED
      BY <1>1, <2>2, <3>1 DEF In
  <2> QED
    BY <2>1, <2>2 DEF In
<1>4. Head(list) \in S /\ In(Head(list), list)
  BY <1>1 DEF In
<1> QED
  BY <1>1, <1>2, <1>3, <1>4

LEMMA PrependList ==
  ASSUME NEW S, NEW list \in Seq(S), NEW e \in S, Distinct(list), ~In(e, list)
  PROVE  /\ <<e>> \o list \in Seq(S)
         /\ Distinct(<<e>> \o list)
         /\ \A d : In(d, <<e>> \o list) <=> In(d, list) \/ d = e
<1>1. /\ <<e>> \o list \in Seq(S)
      /\ DOMAIN list = 1 .. Len(list) /\ Len(list) \in Nat
      /\ DOMAIN (<<e>> \o list) = 1 .. Len(list) + 1
      /\ \A n \in 2 .. Len(list) + 1 : (<<e>> \o list)[n] = list[n - 1]
      /\ (<<e>> \o list)[1] = e
  OBVIOUS
<1>2. Distinct(<<e>> \o list)
  BY <1>1 DEF Distinct, In
<1>3. ASSUME NEW d PROVE In(d, <<e>> \o list) <=> In(d, list) \/ d = e
  <2>1. ASSUME NEW n \in DOMAIN list, list[n] = d PROVE In(d, <<e>> \o list)
    <3>1. n + 1 \in 2 .. Len(list) + 1 /\ (n + 1) - 1 = n
      BY <1>1, <2>1
    <3> QED
      BY <1>1, <2>1, <3>1 DEF In
  <2>2. ASSUME NEW n \in DOMAIN (<<e>> \o list), (<<e>> \o list)[n] = d
        PROVE  In(d, list) \/ d = e
    <3>1. n = 1 \/ (n \in 2 .. Len(list) + 1 /\ n - 1 \in 1 .. Len(list))
      BY <1>1, <2>2
    <3> QED
      BY <1>1, <2>2, <3>1 DEF In
  <2>3. In(e, <<e>> \o list)
    BY <1>1 DEF In
  <2> QED
    BY <2>1, <2>2, <2>3 DEF In
<1> QED
  BY <1>1, <1>2, <1>3

\* What retention keeps is the list with e and without what is gone.
LEMMA RetainedList ==
  ASSUME NEW list \in Seq(Events), NEW e \in Events, Distinct(list), ~In(e, list)
  PROVE  /\ Retained(list, e).list \in Seq(Events)
         /\ Distinct(Retained(list, e).list)
         /\ Retained(list, e).gone \subseteq {d \in Events : In(d, list)}
         /\ \A d : In(d, Retained(list, e).list) <=>
                     \/ d = e
                     \/ In(d, list) /\ d \notin Retained(list, e).gone
<1>1. CASE Len(list) < Keep
  BY <1>1, AppendList DEF Retained
<1>2. CASE ~(Len(list) < Keep)
  <2>1. list # <<>>
    BY <1>2
  <2>2. /\ Head(list) \in Events /\ In(Head(list), list)
        /\ Tail(list) \in Seq(Events) /\ Distinct(Tail(list))
        /\ \A d : In(d, Tail(list)) <=> In(d, list) /\ d # Head(list)
    BY <2>1, TailList
  <2>3. ~In(e, Tail(list))
    BY <2>2
  <2>4. /\ Append(Tail(list), e) \in Seq(Events)
        /\ Distinct(Append(Tail(list), e))
        /\ \A d : In(d, Append(Tail(list), e)) <=> In(d, Tail(list)) \/ d = e
    BY <2>2, <2>3, AppendList
  <2>5. Retained(list, e) = [list |-> Append(Tail(list), e), gone |-> {Head(list)}]
    BY <1>2 DEF Retained
  <2> QED
    BY <2>2, <2>4, <2>5
<1> QED
  BY <1>1, <1>2

-----------------------------------------------------------------------------
\* The inductive invariant.

\* A worker is busy exactly while it has a job; what it has come to is what
\* the payload and the stalls of that job make of it, as long as the lock is
\* its own.
WorkerOK(i) ==
  /\ stage[i] = "idle" <=> job[i] = Absent
  /\ worker[i] = "off" => stage[i] = "idle" /\ ~linked[i]
  /\ stage[i] = "returned" => job[i] \notin Malformed
  /\ stage[i] = "threw" => job[i] \in Malformed
  /\ job[i] # Absent =>
       (lock[job[i]] = i =>
          (stage[i] = "stalledOut" <=> stalls[job[i]] > MaxStalled))

\* Every run of a job has been reported as a failure, has ended in a stall
\* that was counted, is under way, or is the one that completed.
RunsOK(e) ==
  /\ place[e] \in {"wait", "delayed"} =>
       runs[e] = attempts[e] + stalls[e] /\ attempts[e] < Attempts
  /\ place[e] = "active" =>
       /\ attempts[e] < Attempts
       /\ runs[e] = attempts[e] + stalls[e]
                      + IF stalls[e] <= MaxStalled THEN 1 ELSE 0
  /\ place[e] = "completed" =>
       /\ attempts[e] < Attempts /\ stalls[e] <= MaxStalled
       /\ runs[e] = attempts[e] + stalls[e] + 1
       /\ e \notin Malformed
  /\ place[e] = "failed" =>
       /\ runs[e] = attempts[e] + stalls[e]
       /\ \/ attempts[e] = Attempts /\ e \in Malformed /\ stalls[e] <= MaxStalled
          \/ attempts[e] < Attempts /\ stalls[e] > MaxStalled
  /\ runs[e] <= Attempts + MaxStalled

WorkersOK == \A i \in Instances : WorkerOK(i)
AllRunsOK == \A e \in Events : RunsOK(e)

\* Without faults a worker that runs is connected.
CleanInv ==
  /\ CleanCloseCostsNothing
  /\ faults = 0 => \A i \in Instances : worker[i] # "off" => linked[i]

QueueInv == TypeOK /\ ListsAgree /\ WorkersOK /\ AllRunsOK

LEMMA InitQueueInv == Init => QueueInv /\ CleanInv
BY DEF Init, QueueInv, CleanInv, TypeOK, ListsAgree, Distinct, In, WorkersOK, WorkerOK,
       AllRunsOK, RunsOK, CleanCloseCostsNothing, Places, Finished

-----------------------------------------------------------------------------
\* The structures.

\* An active job that finishes goes to its list, and only jobs that retention
\* removes from that list change their place with it.
LEMMA Moves ==
  ASSUME TypeOK, ListsAgree, NEW e \in Events, NEW kind \in Finished,
         place[e] = "active", MoveToFinished(e, kind)
  PROVE  /\ place' \in [Events -> Places] /\ place'[e] = kind
         /\ \A d \in Events \ {e} : \/ place'[d] = place[d]
                                    \/ place[d] = kind /\ place'[d] = "none"
         /\ done' \in [Finished -> Seq(Events)]
         /\ lock' \in [Events -> Instances \cup {Absent}]
         /\ lock' = [lock EXCEPT ![e] = Absent]
         /\ ListsAgree'
<1> DEFINE kept == Retained(done[kind], e)
<1>1. /\ done[kind] \in Seq(Events) /\ Distinct(done[kind]) /\ ~In(e, done[kind])
      /\ \A d \in Events : place[d] = kind <=> In(d, done[kind])
  <2>1. done[kind] \in Seq(Events) /\ Distinct(done[kind])
    BY DEF TypeOK, ListsAgree
  <2>2. \A d \in Events : place[d] = kind <=> In(d, done[kind])
    BY DEF ListsAgree
  <2> QED
    BY <2>1, <2>2 DEF Finished
<1>2. /\ kept.list \in Seq(Events) /\ Distinct(kept.list)
      /\ kept.gone \subseteq {d \in Events : In(d, done[kind])}
      /\ \A d : In(d, kept.list) <=>
                  d = e \/ (In(d, done[kind]) /\ d \notin kept.gone)
  BY <1>1, RetainedList
<1>3. /\ done' = [done EXCEPT ![kind] = kept.list]
      /\ place' = [d \in Events |-> IF d \in kept.gone THEN "none"
                                    ELSE IF d = e THEN kind ELSE place[d]]
      /\ lock' = [lock EXCEPT ![e] = Absent] /\ wait' = wait
  BY DEF MoveToFinished
<1> HIDE DEF kept
<1>4. /\ place' \in [Events -> Places] /\ done' \in [Finished -> Seq(Events)]
      /\ lock' \in [Events -> Instances \cup {Absent}]
  BY <1>2, <1>3 DEF TypeOK, Places, Finished
<1>5. /\ place'[e] = kind
      /\ \A d \in Events \ {e} : \/ place'[d] = place[d]
                                 \/ place[d] = kind /\ place'[d] = "none"
  BY <1>1, <1>2, <1>3
<1>6. \A d \in Events : place'[d] = kind <=> In(d, kept.list)
  BY <1>1, <1>2, <1>3 DEF Finished
<1>7. \A k \in Finished \ {kind}, d \in Events :
        place'[d] = k <=> place[d] = k
  BY <1>5 DEF Finished
<1>8. \A d \in Events : place'[d] = "wait" <=> place[d] = "wait"
  BY <1>5 DEF Finished
<1>9. ASSUME NEW d \in Events, lock'[d] # Absent PROVE place'[d] = "active"
  <2>1. d # e /\ place[d] = "active"
    BY <1>3, <1>9 DEF ListsAgree, TypeOK
  <2> QED
    BY <1>5, <2>1 DEF Finished
<1>10. \A k \in Finished : done'[k] = IF k = kind THEN kept.list ELSE done[k]
  BY <1>3 DEF TypeOK
<1>11. ListsAgree'
  <2>1. \A k \in Finished : Distinct(done'[k])
    BY <1>2, <1>10 DEF ListsAgree
  <2>2. \A d \in Events, k \in Finished : place'[d] = k <=> In(d, done'[k])
    BY <1>6, <1>7, <1>10 DEF ListsAgree
  <2>3. \A d \in Events : place'[d] = "wait" <=> In(d, wait')
    BY <1>3, <1>8 DEF ListsAgree
  <2>4. Distinct(wait')
    BY <1>3 DEF ListsAgree
  <2> QED
    BY <1>9, <2>1, <2>2, <2>3, <2>4 DEF ListsAgree
<1> QED
  BY <1>3, <1>4, <1>5, <1>11

\* Who holds the lock of a job is busy with it or has crashed or paused; so
\* no other job is disturbed when a worker gives up its own.
LEMMA ReportEffect ==
  ASSUME QueueInv, NEW i \in Instances, Report(i)
  PROVE  \E e \in Events, kind \in {"completed", "failed", "delayed"} :
           /\ job[i] = e /\ lock[e] = i /\ place[e] = "active"
           /\ place' \in [Events -> Places] /\ place'[e] = kind
           /\ \A d \in Events \ {e} : \/ place'[d] = place[d]
                                      \/ place[d] \in Finished /\ place'[d] = "none"
           /\ done' \in [Finished -> Seq(Events)]
           /\ lock' = [lock EXCEPT ![e] = Absent]
           /\ ListsAgree'
           /\ UNCHANGED <<wait, stalls, worker, linked, faults, runs>>
           /\ job' = [job EXCEPT ![i] = Absent]
           /\ stage' = [stage EXCEPT ![i] = "idle"]
           /\ \/ /\ kind = "completed" /\ stage[i] = "returned"
                 /\ UNCHANGED attempts
              \/ /\ kind \in {"delayed", "failed"} /\ stage[i] = "threw"
                 /\ attempts' = [attempts EXCEPT ![e] = @ + 1]
                 /\ kind = "failed" <=> attempts[e] + 1 >= Attempts
              \/ /\ kind = "failed" /\ stage[i] = "stalledOut"
                 /\ UNCHANGED attempts
<1> DEFINE e == job[i]
<1>1. e \in Events /\ lock[e] = i /\ place[e] = "active"
  BY DEF Report, Reportable, HasLock, QueueInv, TypeOK, ListsAgree, WorkersOK, WorkerOK
<1>2. /\ job' = [job EXCEPT ![i] = Absent] /\ stage' = [stage EXCEPT ![i] = "idle"]
      /\ UNCHANGED <<worker, linked, faults, runs>>
      /\ Outcome(i, e)
  BY DEF Report, Drop
<1>3. ASSUME NEW kind \in Finished, MoveToFinished(e, kind)
      PROVE  /\ place' \in [Events -> Places] /\ place'[e] = kind
             /\ \A d \in Events \ {e} : \/ place'[d] = place[d]
                                        \/ place[d] \in Finished /\ place'[d] = "none"
             /\ done' \in [Finished -> Seq(Events)]
             /\ lock' = [lock EXCEPT ![e] = Absent]
             /\ ListsAgree' /\ UNCHANGED wait
  <2>1. TypeOK /\ ListsAgree /\ UNCHANGED wait
    BY <1>3 DEF QueueInv, MoveToFinished
  <2> HIDE DEF e
  <2> QED
    BY <1>1, <1>3, <2>1, Moves
<1> HIDE DEF e
<1>4. CASE stage[i] = "returned" /\ MoveToFinished(e, "completed") /\ UNCHANGED <<attempts, stalls>>
  BY <1>1, <1>2, <1>3, <1>4 DEF e, Finished
<1>5. CASE /\ stage[i] = "threw" /\ attempts' = [attempts EXCEPT ![e] = @ + 1]
           /\ LastAttempt(e) /\ MoveToFinished(e, "failed") /\ UNCHANGED stalls
  BY <1>1, <1>2, <1>3, <1>5 DEF e, Finished, LastAttempt
<1>6. CASE stage[i] = "stalledOut" /\ MoveToFinished(e, "failed") /\ UNCHANGED <<attempts, stalls>>
  BY <1>1, <1>2, <1>3, <1>6 DEF e, Finished
<1>7. CASE /\ stage[i] = "threw" /\ attempts' = [attempts EXCEPT ![e] = @ + 1]
           /\ ~LastAttempt(e) /\ place' = [place EXCEPT ![e] = "delayed"]
           /\ lock' = [lock EXCEPT ![e] = Absent] /\ UNCHANGED <<wait, done, stalls>>
  <2>1. /\ place' \in [Events -> Places] /\ place'[e] = "delayed"
        /\ \A d \in Events \ {e} : place'[d] = place[d]
        /\ done' \in [Finished -> Seq(Events)]
    BY <1>1, <1>7 DEF QueueInv, TypeOK, Places
  <2>2. ListsAgree'
    BY <1>1, <1>7, <2>1 DEF QueueInv, TypeOK, ListsAgree, Finished
  <2>3. ~(attempts[e] + 1 >= Attempts)
    BY <1>7 DEF LastAttempt
  <2> QED
    BY <1>1, <1>2, <1>7, <2>1, <2>2, <2>3 DEF e
<1> QED
  BY <1>2, <1>4, <1>5, <1>6, <1>7 DEF Outcome

LEMMA ReportKeeps ==
  ASSUME QueueInv, NEW i \in Instances, Report(i)
  PROVE  QueueInv'
<1>1. PICK e \in Events, kind \in {"completed", "failed", "delayed"} :
        /\ job[i] = e /\ lock[e] = i /\ place[e] = "active"
        /\ place' \in [Events -> Places] /\ place'[e] = kind
        /\ \A d \in Events \ {e} : \/ place'[d] = place[d]
                                   \/ place[d] \in Finished /\ place'[d] = "none"
        /\ done' \in [Finished -> Seq(Events)]
        /\ lock' = [lock EXCEPT ![e] = Absent]
        /\ ListsAgree'
        /\ UNCHANGED <<wait, stalls, worker, linked, faults, runs>>
        /\ job' = [job EXCEPT ![i] = Absent]
        /\ stage' = [stage EXCEPT ![i] = "idle"]
        /\ \/ /\ kind = "completed" /\ stage[i] = "returned"
              /\ UNCHANGED attempts
           \/ /\ kind \in {"delayed", "failed"} /\ stage[i] = "threw"
              /\ attempts' = [attempts EXCEPT ![e] = @ + 1]
              /\ kind = "failed" <=> attempts[e] + 1 >= Attempts
           \/ /\ kind = "failed" /\ stage[i] = "stalledOut"
              /\ UNCHANGED attempts
  BY ReportEffect
<1>2. /\ attempts \in [Events -> 0 .. Attempts] /\ stalls \in [Events -> 0 .. MaxStalled + 1]
      /\ runs \in [Events -> Nat]
      /\ attempts[e] < Attempts
      /\ runs[e] = attempts[e] + stalls[e] + IF stalls[e] <= MaxStalled THEN 1 ELSE 0
      /\ runs[e] <= Attempts + MaxStalled
  BY <1>1 DEF QueueInv, TypeOK, AllRunsOK, RunsOK
<1>3. /\ stage[i] = "stalledOut" <=> stalls[e] > MaxStalled
      /\ stage[i] = "returned" => e \notin Malformed
      /\ stage[i] = "threw" => e \in Malformed
  BY <1>1, QueueAssumption DEF QueueInv, WorkersOK, WorkerOK
<1>4. attempts' \in [Events -> 0 .. Attempts]
      /\ \A d \in Events \ {e} : attempts'[d] = attempts[d]
  <2>1. attempts[e] + 1 \in 0 .. Attempts
    BY <1>2
  <2> QED
    BY <1>1, <1>2, <2>1
<1>5. TypeOK'
  BY <1>1, <1>4 DEF QueueInv, TypeOK
<1>6. WorkersOK'
  BY <1>1, <1>5 DEF QueueInv, TypeOK, WorkersOK, WorkerOK
<1>7. RunsOK(e)'
  BY <1>1, <1>2, <1>3 DEF RunsOK
<1>8. ASSUME NEW d \in Events \ {e} PROVE RunsOK(d)'
  <2>1. place'[d] = place[d] \/ place'[d] = "none"
    BY <1>1
  <2>2. runs'[d] = runs[d] /\ attempts'[d] = attempts[d] /\ stalls'[d] = stalls[d]
    BY <1>1, <1>4
  <2> QED
    BY <2>1, <2>2 DEF QueueInv, AllRunsOK, RunsOK
<1> QED
  BY <1>1, <1>5, <1>6, <1>7, <1>8 DEF QueueInv, AllRunsOK

-----------------------------------------------------------------------------
\* Every other action keeps the invariant.

LEMMA PublishKeeps ==
  ASSUME QueueInv, NEW i \in Instances, NEW e \in Events, Publish(i, e)
  PROVE  QueueInv'
<1>1. ~In(e, wait) /\ wait \in Seq(Events) /\ Distinct(wait) /\ lock[e] = Absent
  BY DEF Publish, Addable, QueueInv, TypeOK, ListsAgree
<1>2. /\ wait' \in Seq(Events) /\ Distinct(wait')
      /\ \A d : In(d, wait') <=> In(d, wait) \/ d = e
  BY <1>1, AppendList DEF Publish
<1>3. TypeOK'
  BY <1>2 DEF Publish, QueueInv, TypeOK, Places
<1>4. ListsAgree'
  BY <1>2 DEF Publish, Addable, QueueInv, TypeOK, ListsAgree, Finished
<1>5. WorkersOK'
  BY <1>1 DEF Publish, QueueInv, TypeOK, WorkersOK, WorkerOK
<1>6. AllRunsOK'
  BY DEF Publish, QueueInv, TypeOK, AllRunsOK, RunsOK
<1> QED
  BY <1>3, <1>4, <1>5, <1>6 DEF QueueInv

LEMMA TakeKeeps ==
  ASSUME QueueInv, NEW i \in Instances, Take(i)
  PROVE  QueueInv'
<1>1. wait \in Seq(Events) /\ Distinct(wait) /\ wait # <<>>
  BY DEF Take, QueueInv, TypeOK, ListsAgree
<1>2. PICK e \in Events :
        /\ e = Head(wait) /\ In(e, wait)
        /\ wait' \in Seq(Events) /\ Distinct(wait')
        /\ \A d : In(d, wait') <=> In(d, wait) /\ d # e
  BY <1>1, TailList DEF Take
<1>3. place[e] = "wait" /\ lock[e] = Absent
  BY <1>2 DEF QueueInv, ListsAgree
<1>4. /\ place' = [place EXCEPT ![e] = "active"] /\ lock' = [lock EXCEPT ![e] = i]
      /\ job' = [job EXCEPT ![i] = e] /\ job[i] = Absent
      /\ worker[i] = "up" /\ linked[i]
      /\ UNCHANGED <<done, attempts, stalls, worker, linked, faults>>
      /\ \/ /\ stalls[e] > MaxStalled /\ UNCHANGED runs
            /\ stage' = [stage EXCEPT ![i] = "stalledOut"]
         \/ /\ stalls[e] <= MaxStalled /\ runs' = [runs EXCEPT ![e] = @ + 1]
            /\ stage' = [stage EXCEPT ![i] = "taken"]
  BY <1>2 DEF Take, QueueInv, WorkersOK, WorkerOK
<1>5. TypeOK'
  <2>1. runs \in [Events -> Nat] /\ runs[e] + 1 \in Nat
    BY DEF QueueInv, TypeOK
  <2>2. runs' = runs \/ runs' = [runs EXCEPT ![e] = runs[e] + 1]
    BY <1>4
  <2>3. runs' \in [Events -> Nat]
    BY <2>1, <2>2
  <2> QED
    BY <1>2, <1>4, <2>3 DEF QueueInv, TypeOK, Places
<1>6. ListsAgree'
  BY <1>2, <1>3, <1>4 DEF QueueInv, TypeOK, ListsAgree, Finished
<1>7. WorkersOK'
  BY <1>2, <1>3, <1>4 DEF QueueInv, TypeOK, WorkersOK, WorkerOK
<1>8. stalls[e] \in 0 .. MaxStalled + 1 /\ attempts[e] \in 0 .. Attempts /\ runs[e] \in Nat
  BY <1>2 DEF QueueInv, TypeOK
<1>9. RunsOK(e)'
  <2>1. /\ runs[e] = attempts[e] + stalls[e] /\ attempts[e] < Attempts
        /\ runs[e] <= Attempts + MaxStalled
    BY <1>3 DEF QueueInv, AllRunsOK, RunsOK
  <2>2. place'[e] = "active" /\ stalls'[e] = stalls[e] /\ attempts'[e] = attempts[e]
    BY <1>4 DEF QueueInv, TypeOK
  <2>3. runs'[e] = runs[e] + IF stalls[e] <= MaxStalled THEN 1 ELSE 0
    <3>1. runs \in [Events -> Nat]
      BY DEF QueueInv, TypeOK
    <3> QED
      BY <1>4, <1>8, <3>1
  <2> QED
    BY <1>8, <2>1, <2>2, <2>3 DEF RunsOK
<1>10. ASSUME NEW d \in Events \ {e} PROVE RunsOK(d)'
  BY <1>2, <1>4 DEF QueueInv, TypeOK, AllRunsOK, RunsOK
<1> QED
  BY <1>5, <1>6, <1>7, <1>9, <1>10 DEF QueueInv, AllRunsOK

LEMMA PromoteKeeps ==
  ASSUME QueueInv, NEW i \in Instances, NEW e \in Events, Promote(i, e)
  PROVE  QueueInv'
<1>1. ~In(e, wait) /\ wait \in Seq(Events) /\ Distinct(wait) /\ lock[e] = Absent
  BY DEF Promote, QueueInv, TypeOK, ListsAgree
<1>2. /\ wait' \in Seq(Events) /\ Distinct(wait')
      /\ \A d : In(d, wait') <=> In(d, wait) \/ d = e
  BY <1>1, AppendList DEF Promote
<1>3. TypeOK'
  BY <1>2 DEF Promote, QueueInv, TypeOK, Places
<1>4. ListsAgree'
  BY <1>2 DEF Promote, QueueInv, TypeOK, ListsAgree, Finished
<1>5. WorkersOK'
  BY DEF Promote, QueueInv, TypeOK, WorkersOK, WorkerOK
<1>6. AllRunsOK'
  BY DEF Promote, QueueInv, TypeOK, AllRunsOK, RunsOK
<1> QED
  BY <1>3, <1>4, <1>5, <1>6 DEF QueueInv

LEMMA RecoverKeeps ==
  ASSUME QueueInv, NEW i \in Instances, NEW e \in Events, RecoverStalled(i, e)
  PROVE  QueueInv'
<1>1. ~In(e, wait) /\ wait \in Seq(Events) /\ Distinct(wait) /\ lock[e] = Absent
  BY DEF RecoverStalled, QueueInv, TypeOK, ListsAgree
<1>2. /\ wait' \in Seq(Events) /\ Distinct(wait')
      /\ \A d : In(d, wait') <=> In(d, wait) \/ d = e
  BY <1>1, PrependList DEF RecoverStalled
<1>3. stalls[e] \in 0 .. MaxStalled + 1 /\ CountStall(stalls[e]) \in 0 .. MaxStalled + 1
  BY DEF QueueInv, TypeOK, CountStall
<1>4. TypeOK'
  BY <1>2, <1>3 DEF RecoverStalled, QueueInv, TypeOK, Places
<1>5. ListsAgree'
  BY <1>2 DEF RecoverStalled, QueueInv, TypeOK, ListsAgree, Finished
<1>6. WorkersOK'
  BY <1>1 DEF RecoverStalled, QueueInv, TypeOK, WorkersOK, WorkerOK
<1>7. RunsOK(e)'
  BY <1>3 DEF RecoverStalled, QueueInv, TypeOK, AllRunsOK, RunsOK, CountStall
<1>8. ASSUME NEW d \in Events \ {e} PROVE RunsOK(d)'
  BY DEF RecoverStalled, QueueInv, TypeOK, AllRunsOK, RunsOK
<1> QED
  BY <1>4, <1>5, <1>6, <1>7, <1>8 DEF QueueInv, AllRunsOK

\* These leave the structures alone, or only end a lock.
WorkerStep(i) ==
  Start(i) \/ Process(i) \/ ReportFails(i) \/ Close(i) \/ Closed(i) \/ Crash(i) \/ LoseRedis(i)
LockStep(e) == LockRunsOut(e) \/ Pause(e)

LEMMA WorkerStepKeeps ==
  ASSUME QueueInv, NEW i \in Instances, WorkerStep(i)
  PROVE  QueueInv'
<1>1. UNCHANGED <<jobVars, runs>>
  BY DEF WorkerStep, Start, Process, ReportFails, Close, Closed, Crash, LoseRedis
<1>2. ListsAgree' /\ AllRunsOK'
  BY <1>1 DEF QueueInv, ListsAgree, AllRunsOK, RunsOK
<1>3. TypeOK' /\ WorkersOK'
  <2>1. CASE Start(i)
    BY <1>1, <2>1 DEF Start, QueueInv, TypeOK, WorkersOK, WorkerOK
  <2>2. CASE Process(i)
    BY <1>1, <2>2 DEF Process, QueueInv, TypeOK, WorkersOK, WorkerOK
  <2>3. CASE ReportFails(i)
    BY <1>1, <2>3 DEF ReportFails, Drop, QueueInv, TypeOK, WorkersOK, WorkerOK
  <2>4. CASE Close(i)
    BY <1>1, <2>4 DEF Close, QueueInv, TypeOK, WorkersOK, WorkerOK
  <2>5. CASE Closed(i)
    BY <1>1, <2>5 DEF Closed, JobsFinished, QueueInv, TypeOK, WorkersOK, WorkerOK
  <2>6. CASE Crash(i)
    BY <1>1, <2>6 DEF Crash, Fault, Drop, QueueInv, TypeOK, WorkersOK, WorkerOK
  <2>7. CASE LoseRedis(i)
    BY <1>1, <2>7 DEF LoseRedis, Fault, QueueInv, TypeOK, WorkersOK, WorkerOK
  <2> QED
    BY <2>1, <2>2, <2>3, <2>4, <2>5, <2>6, <2>7 DEF WorkerStep
<1> QED
  BY <1>2, <1>3 DEF QueueInv

LEMMA LockStepKeeps ==
  ASSUME QueueInv, NEW e \in Events, LockStep(e)
  PROVE  QueueInv'
<1>1. /\ UNCHANGED <<place, wait, done, attempts, stalls, workerVars, runs>>
      /\ lock' = [lock EXCEPT ![e] = Absent]
      /\ faults' \in 0 .. MaxFaults
  BY DEF LockStep, LockRunsOut, Pause, Fault, QueueInv, TypeOK
<1>2. TypeOK' /\ ListsAgree' /\ WorkersOK' /\ AllRunsOK'
  BY <1>1 DEF QueueInv, TypeOK, ListsAgree, WorkersOK, WorkerOK, AllRunsOK, RunsOK
<1> QED
  BY <1>2 DEF QueueInv

LEMMA NextCases ==
  ASSUME Next
  PROVE  \/ \E i \in Instances : Take(i) \/ Report(i) \/ WorkerStep(i)
         \/ \E i \in Instances, e \in Events :
              Publish(i, e) \/ Promote(i, e) \/ RecoverStalled(i, e)
         \/ \E e \in Events : LockStep(e)
BY DEF Next, Work, WorkerStep, LockStep

LEMMA NextKeeps == QueueInv /\ [Next]_vars => QueueInv'
<1> SUFFICES ASSUME QueueInv, [Next]_vars PROVE QueueInv'
  OBVIOUS
<1>1. CASE Next
  BY <1>1, NextCases, TakeKeeps, ReportKeeps, WorkerStepKeeps, PublishKeeps,
     PromoteKeeps, RecoverKeeps, LockStepKeeps
<1>2. CASE UNCHANGED vars
  BY <1>2 DEF QueueInv, TypeOK, ListsAgree, WorkersOK, WorkerOK, AllRunsOK, RunsOK
<1> QED
  BY <1>1, <1>2

\* The variables of the queue keep their types, and its lists hold exactly the
\* jobs that are in their structure, a lock only an active one.
THEOREM QueueTypes == Spec => [](TypeOK /\ ListsAgree)
<1>1. QueueInv => TypeOK /\ ListsAgree
  BY DEF QueueInv
<1> QED
  BY InitQueueInv, NextKeeps, <1>1, PTL DEF Spec

\* However errors, crashes, lost connections and pauses mix, a job is run at
\* most Attempts + MaxStalled times (defaultJobOptions.attempts).
THEOREM BoundedRuns == Spec => []RunsBounded
<1>1. QueueInv => RunsBounded
  BY DEF QueueInv, AllRunsOK, RunsOK, RunsBounded
<1> QED
  BY InitQueueInv, NextKeeps, <1>1, PTL DEF Spec

\* A job fails only for a payload that process() rejects, after all attempts,
\* or by stalling too often; one that completes was run and is well-formed.
THEOREM FailuresHaveReasons == Spec => []FailsForAReason
<1>1. QueueInv => FailsForAReason
  <2> SUFFICES ASSUME QueueInv, NEW e \in Events
               PROVE  /\ place[e] = "completed" => e \notin Malformed /\ runs[e] > 0
                      /\ place[e] = "failed" =>
                           \/ stalls[e] > MaxStalled
                           \/ e \in Malformed /\ attempts[e] = Attempts
    BY DEF FailsForAReason
  <2>1. RunsOK(e) /\ attempts[e] \in Nat /\ stalls[e] \in Nat
    BY DEF QueueInv, AllRunsOK, TypeOK
  <2> QED
    BY <2>1 DEF RunsOK
<1> QED
  BY InitQueueInv, NextKeeps, <1>1, PTL DEF Spec

-----------------------------------------------------------------------------
\* Shutdown without faults.

LEMMA CleanKeeps == QueueInv /\ CleanInv /\ [Next]_vars => CleanInv'
<1> SUFFICES ASSUME QueueInv, CleanInv, [Next]_vars, faults' = 0
             PROVE  CleanInv'
  BY DEF CleanInv, CleanCloseCostsNothing
<1> USE DEF CleanInv, CleanCloseCostsNothing, Renews
<1>1. /\ faults = 0
      /\ \A i \in Instances : ~Crash(i) /\ ~LoseRedis(i)
      /\ \A e \in Events : ~Pause(e)
  <2>1. faults \in 0 .. MaxFaults
    BY DEF QueueInv, TypeOK
  <2>2. ASSUME Fault PROVE FALSE
    BY <2>1, <2>2 DEF Fault
  <2>3. /\ \A i \in Instances : ~Crash(i) /\ ~LoseRedis(i)
        /\ \A e \in Events : ~Pause(e)
    BY <2>2 DEF Crash, LoseRedis, Pause
  <2>4. ASSUME NEW i \in Instances,
               Start(i) \/ Take(i) \/ Process(i) \/ Report(i) \/ ReportFails(i)
                 \/ Close(i) \/ Closed(i)
        PROVE  UNCHANGED faults
    BY <2>4 DEF Start, Take, Process, Report, ReportFails, Close, Closed
  <2>5. ASSUME NEW e \in Events, NEW i \in Instances,
               Publish(i, e) \/ Promote(i, e) \/ RecoverStalled(i, e) \/ LockRunsOut(e)
        PROVE  UNCHANGED faults
    BY <2>5 DEF Publish, Promote, RecoverStalled, LockRunsOut
  <2>6. Instances # {} \/ \A e \in Events : ~LockRunsOut(e)
    BY DEF LockRunsOut, QueueInv, TypeOK
  <2> QED
    BY <2>3, <2>4, <2>5, <2>6 DEF Next, Work
<1>2. ASSUME NEW i \in Instances, NEW e \in Events,
             Publish(i, e) \/ Promote(i, e)
      PROVE  CleanInv'
  BY <1>1, <1>2 DEF Publish, Promote, QueueInv, TypeOK
<1>3. ASSUME NEW i \in Instances, NEW e \in Events PROVE ~RecoverStalled(i, e)
  BY <1>1, QueueAssumption DEF RecoverStalled
<1>4. ASSUME NEW e \in Events PROVE ~LockRunsOut(e)
  BY <1>1 DEF LockRunsOut, QueueInv, ListsAgree
<1>5. ASSUME NEW i \in Instances, Take(i) PROVE CleanInv'
  <2>1. wait \in Seq(Events) /\ wait # <<>> /\ Distinct(wait) /\ job[i] = Absent
    BY <1>5 DEF Take, QueueInv, TypeOK, ListsAgree, WorkersOK, WorkerOK
  <2>2. PICK e \in Events : e = Head(wait)
    BY <2>1, TailList
  <2>3. Renews(i, e)' /\ UNCHANGED stalls
    BY <1>5, <2>2 DEF Take, QueueInv, TypeOK
  <2>4. ASSUME NEW d \in Events \ {e}, NEW j \in Instances, Renews(j, d)
        PROVE  Renews(j, d)'
    BY <1>5, <2>1, <2>2, <2>4 DEF Take, QueueInv, TypeOK
  <2>5. \A d \in Events \ {e} : place'[d] = place[d]
    BY <1>5, <2>2 DEF Take, QueueInv, TypeOK
  <2> QED
    BY <1>1, <1>5, <2>3, <2>4, <2>5 DEF Take
<1>6. ASSUME NEW i \in Instances, Report(i) PROVE CleanInv'
  <2>1. PICK e \in Events, kind \in {"completed", "failed", "delayed"} :
          /\ job[i] = e /\ place'[e] = kind
          /\ \A d \in Events \ {e} : \/ place'[d] = place[d]
                                     \/ place[d] \in Finished /\ place'[d] = "none"
          /\ lock' = [lock EXCEPT ![e] = Absent]
          /\ UNCHANGED <<stalls, worker, linked>>
          /\ job' = [job EXCEPT ![i] = Absent]
    BY <1>6, ReportEffect
  <2>2. ASSUME NEW d \in Events \ {e}, NEW j \in Instances, Renews(j, d)
        PROVE  Renews(j, d)'
    BY <2>1, <2>2 DEF QueueInv, TypeOK
  <2> QED
    BY <1>1, <2>1, <2>2
<1>7. ASSUME NEW i \in Instances, ReportFails(i) PROVE CleanInv'
  <2>1. linked[i] /\ lock[job[i]] # i
    BY <1>1, <1>7
       DEF ReportFails, Reportable, HasLock, QueueInv, WorkersOK, WorkerOK
  <2>2. ASSUME NEW d \in Events, NEW j \in Instances, Renews(j, d)
        PROVE  Renews(j, d)'
    BY <1>7, <2>1, <2>2 DEF ReportFails, Drop, QueueInv, TypeOK
  <2> QED
    BY <1>1, <1>7, <2>2 DEF ReportFails
<1>8. ASSUME NEW i \in Instances, Start(i) \/ Process(i) \/ Close(i) \/ Closed(i)
      PROVE  CleanInv'
  <2>1. UNCHANGED <<place, stalls>>
    BY <1>8 DEF Start, Process, Close, Closed
  <2>2. ASSUME NEW d \in Events, NEW j \in Instances, Renews(j, d)
        PROVE  Renews(j, d)'
    <3>1. UNCHANGED <<job, lock>>
      BY <1>8 DEF Start, Process, Close, Closed
    <3>2. worker[j] # "off" /\ linked[j] /\ job[j] = d /\ stage[j] # "idle"
      BY <2>2 DEF QueueInv, TypeOK, WorkersOK, WorkerOK
    <3>3. worker'[j] # "off" /\ linked'[j]
      <4>1. CASE Process(i)
        BY <3>2, <4>1 DEF Process
      <4>2. CASE Start(i)
        BY <3>2, <4>2 DEF Start, QueueInv, TypeOK
      <4>3. CASE Close(i)
        BY <3>2, <4>3 DEF Close, QueueInv, TypeOK
      <4>4. CASE Closed(i)
        BY <3>2, <4>4 DEF Closed, JobsFinished, QueueInv, TypeOK
      <4> QED
        BY <1>8, <4>1, <4>2, <4>3, <4>4
    <3> QED
      BY <2>2, <3>1, <3>3
  <2>3. \A j \in Instances : worker'[j] # "off" => linked'[j]
    <3>1. CASE Process(i)
      BY <1>1, <3>1 DEF Process
    <3>2. CASE Start(i)
      BY <1>1, <3>2 DEF Start, QueueInv, TypeOK
    <3>3. CASE Close(i)
      BY <1>1, <3>3 DEF Close, QueueInv, TypeOK
    <3>4. CASE Closed(i)
      BY <1>1, <3>4 DEF Closed, QueueInv, TypeOK
    <3> QED
      BY <1>8, <3>1, <3>2, <3>3, <3>4
  <2> QED
    BY <1>1, <2>1, <2>2, <2>3
<1>9. CASE UNCHANGED vars
  BY <1>1, <1>9
<1> QED
  BY <1>1, <1>2, <1>3, <1>4, <1>5, <1>6, <1>7, <1>8, <1>9 DEF Next, Work

\* Instances that come and go by shutdown() alone never leave a job behind:
\* what is active is held by a connected worker that renews its lock.
THEOREM CleanCloses == Spec => []CleanCloseCostsNothing
<1>1. CleanInv => CleanCloseCostsNothing
  BY DEF CleanInv
<1> QED
  BY InitQueueInv, NextKeeps, CleanKeeps, <1>1, PTL DEF Spec

-----------------------------------------------------------------------------
\* Refinement.

\* The variables of the abstract specification.
PendingJobs == {e \in Events : Pending(e)}
logVars == <<PendingJobs, done["completed"], done["failed"]>>

LEMMA LogKnown ==
  ASSUME QueueInv, NEW e \in Events
  PROVE  place[e] = "none" <=> e \notin Log!Known
<1>1. /\ \A k \in Finished : place[e] = k <=> In(e, done[k])
      /\ place[e] \in Places
  BY DEF QueueInv, TypeOK, ListsAgree
<1>2. e \in Log!Known <=> Pending(e) \/ In(e, done["completed"]) \/ In(e, done["failed"])
  BY DEF Log!Known, In
<1> QED
  BY <1>1, <1>2 DEF Places, Finished, Pending

\* A step that leaves the lists alone and keeps who is pending is a stutter.
LEMMA LogStutters ==
  ASSUME QueueInv, UNCHANGED done,
         \A e \in Events : Pending(e)' <=> Pending(e)
  PROVE  UNCHANGED logVars
BY DEF logVars, PendingJobs

LEMMA PublishAccepts ==
  ASSUME QueueInv, NEW i \in Instances, NEW e \in Events, Publish(i, e)
  PROVE  Log!Accept(e)
<1>1. e \notin Log!Known
  BY LogKnown DEF Publish, Addable
<1>2. PendingJobs' = PendingJobs \cup {e}
  BY DEF Publish, PendingJobs, Pending, QueueInv, TypeOK
<1>3. UNCHANGED done
  BY DEF Publish
<1> QED
  BY <1>1, <1>2, <1>3 DEF Log!Accept, PendingJobs

LEMMA MoveFinishes ==
  ASSUME QueueInv, NEW e \in Events, NEW kind \in Finished,
         place[e] = "active", MoveToFinished(e, kind)
  PROVE  Log!Finish(e)
<1>1. /\ place' \in [Events -> Places] /\ place'[e] = kind
      /\ \A d \in Events \ {e} : \/ place'[d] = place[d]
                                 \/ place[d] = kind /\ place'[d] = "none"
  BY Moves DEF QueueInv
<1>2. e \in PendingJobs /\ PendingJobs' = PendingJobs \ {e}
  BY <1>1 DEF PendingJobs, Pending, Finished
<1>3. done'[kind] = Log!Remember(done[kind], e)
  BY DEF MoveToFinished, Retained, Log!Remember, QueueInv, TypeOK
<1>4. \A k \in Finished \ {kind} : done'[k] = done[k]
  BY DEF MoveToFinished, QueueInv, TypeOK
<1> QED
  BY <1>2, <1>3, <1>4 DEF Log!Finish, PendingJobs, Finished

LEMMA ReportFinishes ==
  ASSUME QueueInv, NEW i \in Instances, Report(i)
  PROVE  Log!Finish(job[i]) \/ UNCHANGED logVars
<1>1. job[i] \in Events /\ place[job[i]] = "active" /\ Outcome(i, job[i])
  BY DEF Report, Reportable, HasLock, QueueInv, TypeOK, ListsAgree, WorkersOK, WorkerOK
<1>2. CASE place' = [place EXCEPT ![job[i]] = "delayed"] /\ UNCHANGED done
  BY <1>1, <1>2, LogStutters DEF Pending, QueueInv, TypeOK
<1>3. CASE \E kind \in Finished : MoveToFinished(job[i], kind)
  BY <1>1, <1>3, MoveFinishes
<1> QED
  BY <1>1, <1>2, <1>3 DEF Outcome, Finished

LEMMA OthersStutter ==
  ASSUME QueueInv, NEW i \in Instances, NEW e \in Events,
         \/ Take(i) \/ WorkerStep(i) \/ LockStep(e)
         \/ Promote(i, e) \/ RecoverStalled(i, e)
  PROVE  UNCHANGED logVars
<1>1. CASE WorkerStep(i) \/ LockStep(e)
  <2>1. UNCHANGED <<place, done>>
    BY <1>1 DEF WorkerStep, Start, Process, ReportFails, Close, Closed, Crash,
                LoseRedis, LockStep, LockRunsOut, Pause
  <2> QED
    BY <2>1, LogStutters DEF Pending
<1>2. CASE Take(i)
  <2>1. wait \in Seq(Events) /\ wait # <<>> /\ Distinct(wait)
    BY <1>2 DEF Take, QueueInv, TypeOK, ListsAgree
  <2>2. PICK d \in Events : d = Head(wait) /\ In(d, wait)
    BY <2>1, TailList
  <2>3. place[d] = "wait"
    BY <2>2 DEF QueueInv, ListsAgree
  <2>4. place' = [place EXCEPT ![d] = "active"] /\ UNCHANGED done
    BY <1>2, <2>2 DEF Take
  <2> QED
    BY <2>3, <2>4, LogStutters DEF Pending, QueueInv, TypeOK
<1>3. CASE Promote(i, e) \/ RecoverStalled(i, e)
  BY <1>3, LogStutters DEF Promote, RecoverStalled, Pending, QueueInv, TypeOK
<1> QED
  BY <1>1, <1>2, <1>3

LEMMA StepsImplement == QueueInv /\ [Next]_vars => [Log!Next]_logVars
<1> SUFFICES ASSUME QueueInv, [Next]_vars PROVE [Log!Next]_logVars
  OBVIOUS
<1>1. CASE UNCHANGED vars
  BY <1>1 DEF logVars, PendingJobs, Pending
<1>2. ASSUME NEW i \in Instances, Report(i) PROVE [Log!Next]_logVars
  BY <1>2, ReportFinishes
     DEF Log!Next, Report, Reportable, QueueInv, TypeOK, WorkersOK, WorkerOK
<1>3. ASSUME NEW i \in Instances, NEW e \in Events, Publish(i, e)
      PROVE  [Log!Next]_logVars
  BY <1>3, PublishAccepts DEF Log!Next
<1>4. ASSUME Next, \A i \in Instances : ~Report(i),
             \A i \in Instances, e \in Events : ~Publish(i, e)
      PROVE  UNCHANGED logVars
  <2>1. CASE Events = {}
    <3>1. \A i \in Instances : ~Take(i)
      BY <2>1, TailList DEF Take, QueueInv, TypeOK, ListsAgree
    <3>2. UNCHANGED <<place, done>>
      BY <1>4, <2>1, <3>1, NextCases
         DEF WorkerStep, Start, Process, ReportFails, Close, Closed, Crash, LoseRedis
    <3> QED
      BY <3>2 DEF logVars, PendingJobs, Pending
  <2>2. CASE Instances = {}
    <3>1. \A e \in Events : ~LockStep(e)
      BY <2>2 DEF LockStep, LockRunsOut, Pause, QueueInv, TypeOK
    <3> QED
      BY <1>4, <2>2, <3>1, NextCases
  <2> QED
    BY <1>4, <2>1, <2>2, NextCases, OthersStutter
<1> QED
  BY <1>1, <1>2, <1>3, <1>4

\* Workers, locks, retries, stalls and faults only ever make an event pending,
\* finish it once, or change nothing that EventLog sees.
THEOREM QueueIsEventLog == Spec => ImplementsEventLog
<1>1. Init => Log!Init
  BY DEF Init, Log!Init, Pending, Finished
<1>2. QueueInv /\ [Next]_vars => [Log!Next]_<<{e \in Events : Pending(e)}, done["completed"], done["failed"]>>
  BY StepsImplement DEF logVars, PendingJobs
<1> QED
  BY InitQueueInv, NextKeeps, <1>1, <1>2, PTL DEF Spec, ImplementsEventLog, Log!Spec
=============================================================================
