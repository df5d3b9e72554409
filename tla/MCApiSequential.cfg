CONSTANTS
  u1 = u1  u2 = u2  p1 = p1  p2 = p2  t1 = t1  t2 = t2
  r1 = r1  r2 = r2  i1 = i1  i2 = i2
  Absent = Absent
  Null = Null
  Users = {u1, u2}
  Projects = {p1, p2}
  Tasks = {t1}
  ProjectCols = {"name"}
  TaskCols = {"status"}
  Vals = {"a", "b"}
  Instances = {i1}
  Reqs = {r1}
  Home <- OneInstance
  Ops <- AllOps
  Faults = {"crash"}
SPECIFICATION Spec
INVARIANTS
  TypeOK
  DeletedIsNotFound
  StatusEventIffMoved
  
  EventsAreTrue
