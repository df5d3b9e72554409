SPECIFICATION Spec
CONSTANTS
  Ids = {i1, i2, i3}
  Projects = {p1, p2, p3}
  Addresses = {demo, other}
  Passwords = {w1, w2}
  DemoAddress = demo
  DemoPasswords = {w2}
  Reqs = {r1, r2}
  Ops = {"register", "login", "createProject"}
  Commands = {"seed", "reset"}
  Faults = {}
  Absent = Absent
SYMMETRY Symmetry
INVARIANTS
  OneUserPerEmail
  TokenNeedsPassword
  NoOwnerlessProject
PROPERTIES
  OnlyDemoDataTouched
