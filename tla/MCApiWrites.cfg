CONSTANTS
  u1 = u1  u2 = u2  p1 = p1  p2 = p2  t1 = t1  t2 = t2
  r1 = r1  r2 = r2  i1 = i1  i2 = i2
  Absent = Absent
  Null = Null
  Users = {u1, u2}
  Projects = {p1}
  Tasks = {t1}
  ProjectCols = {}
  TaskCols = {"status"}
  Vals = {"a", "b"}
  Instances = {i1}
  Reqs = {r1, r2}
  Home <- OneInstance
  Ops = {"createProject", "getDetail", "updateProject", "deleteProject", "createTask", "updateTask", "deleteTask"}
  Faults = {}
SYMMETRY Symmetry
SPECIFICATION Spec
INVARIANTS
  NoOrphanTasks
  OwnerIsolation
  CreationsAnnouncedOnce
PROPERTIES
  OnlyOwnersWrite
  ImplementsPrivateBoards
