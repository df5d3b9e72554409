----------------------------- MODULE PrivateBoards -----------------------------
(***************************************************************************)
(* What the stored data promises to its users, with no database, cache or  *)
(* handler: every user has a board of projects, each with its tasks.  One  *)
(* step changes one project of one board.  An id belongs for ever to the   *)
(* user (the project) it was first given to, a task only ever appears in   *)
(* a project that is there, and a project takes its tasks with it.         *)
(***************************************************************************)
CONSTANTS Users, Projects, Tasks, ProjectData, TaskData, Absent

VARIABLES
  board,   \* board[u][p]: the project with its tasks, or Absent
  owner,   \* owner[p]: the user the id was given to, or Absent
  parent   \* parent[t]: the project the id was given to, or Absent

NoTasks == [t \in Tasks |-> Absent]

Init ==
  /\ board = [u \in Users |-> [p \in Projects |-> Absent]]
  /\ owner = [p \in Projects |-> Absent]
  /\ parent = [t \in Tasks |-> Absent]

\* A project appears, changes, or comes back.  One that was not there has no
\* tasks.
PutProject(u, p, cols) ==
  /\ owner[p] \in {u, Absent}
  /\ board' = [board EXCEPT ![u][p] =
       [cols |-> cols,
        tasks |-> IF board[u][p] = Absent THEN NoTasks
                                          ELSE board[u][p].tasks]]
  /\ owner' = [owner EXCEPT ![p] = u]
  /\ UNCHANGED parent

DropProject(u, p) ==
  /\ board' = [board EXCEPT ![u][p] = Absent]
  /\ UNCHANGED <<owner, parent>>

PutTask(u, p, t, cols) ==
  /\ board[u][p] # Absent
  /\ parent[t] \in {p, Absent}
  /\ board' = [board EXCEPT ![u][p].tasks[t] = cols]
  /\ parent' = [parent EXCEPT ![t] = p]
  /\ UNCHANGED owner

DropTask(u, p, t) ==
  /\ board[u][p] # Absent
  /\ board' = [board EXCEPT ![u][p].tasks[t] = Absent]
  /\ UNCHANGED <<owner, parent>>

Next ==
  \E u \in Users, p \in Projects :
    \/ \E cols \in ProjectData : PutProject(u, p, cols)
    \/ DropProject(u, p)
    \/ \E t \in Tasks :
         \/ \E cols \in TaskData : PutTask(u, p, t, cols)
         \/ DropTask(u, p, t)

Spec == Init /\ [][Next]_<<board, owner, parent>>
=============================================================================
