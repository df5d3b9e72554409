SPECIFICATION FairSpec
CONSTANTS
  Ids = {i1, i2, i3}
  Projects = {p1, p2, p3}
  Addresses = {demo}
  Passwords = {w2}
  DemoAddress = demo
  DemoPasswords = {w2}
  Reqs = {r1}
  Ops = {"register", "login", "createProject", "getDetail", "me"}
  Commands = {"seed", "reset"}
  Faults = {"db","redis"}
  Absent = Absent
INVARIANTS
  GoneUserGets401
  LeftoversHaveACause
PROPERTIES
  NobodyWaitsForEver
