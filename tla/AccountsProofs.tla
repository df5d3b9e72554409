---------------------------- MODULE AccountsProofs ----------------------------
(***************************************************************************)
(* For every set of users, projects, requests and every interleaving of    *)
(* the API with the demo commands: the variables keep their types, no two  *)
(* users share an email, no project is left without its owner, the demo    *)
(* commands touch the demo user's data only, a login needs the password,   *)
(* a token is worth nothing once its user is gone, and a reset leaves      *)
(* nothing in Redis but what it had no way to know of.                     *)
(***************************************************************************)
EXTENDS Accounts, TLAPS

USE DEF vars, tables, reqVars, demoUnchanged

-----------------------------------------------------------------------------
\* Type correctness.

\* Normalising a spelling gives a spelling, and of the demo email too.
LEMMA NormalType ==
  /\ \A e \in Spellings : normalizeEmail(e) \in Spellings
  /\ DemoEmail \in Spellings
BY AccountsAssumption DEF Spellings, normalizeEmail, DemoEmail

LEMMA InitTypeOK == Init => TypeOK
<1> SUFFICES ASSUME Init PROVE TypeOK
  OBVIOUS
<1>1. demo \in DemoStates /\ demo.step = "idle"
  BY DEF Init, NoDemo, DemoStates
<1>2. \A r \in Reqs : pc[r] = "idle"
  BY DEF Init
<1> QED
  BY <1>1, <1>2
     DEF Init, TypeOK, TablesOK, RequestsOK, RequestOK, DemoOK, Labels,
         TokenLabels, DetailLabels, Replies, NoReply

LEMMA RequestTypes == TablesOK => Requests \subseteq Calls
BY DEF TablesOK, Requests, Calls, RequestsFor, CallsOf

\* An answered request is well typed ...
LEMMA FinishOK ==
  ASSUME RequestsOK, NEW r \in Reqs, pc[r] # "idle",
         NEW code \in {200, 201, 401, 404, 409, 500},
         NEW i \in Ids \cup {Absent},
         Finish(r, code, i), UNCHANGED late
  PROVE  RequestsOK'
<1>1. [code |-> code, user |-> i] \in Replies
  BY DEF Replies
<1>2. RequestOK(r)'
  BY DEF RequestsOK, RequestOK, Finish, Goto, TokenLabels, DetailLabels, Labels
<1>3. ASSUME NEW q \in Reqs, q # r PROVE RequestOK(q)'
  BY <1>3 DEF RequestsOK, RequestOK, Finish, Goto
<1> QED
  BY <1>1, <1>2, <1>3 DEF RequestsOK, Finish, Goto, Labels

\* ... and so is one that goes on to another call, which needs what it needs.
LEMMA GotoOK ==
  ASSUME RequestsOK, NEW r \in Reqs, pc[r] # "idle",
         NEW label \in TokenLabels,
         Goto(r, label), UNCHANGED <<call, found, reply, late>>,
         call[r].sub \in Ids,
         label \in DetailLabels => call[r].proj \in Projects
  PROVE  RequestsOK'
<1>1. RequestOK(r)'
  BY DEF RequestsOK, RequestOK, Goto, TokenLabels, DetailLabels
<1>2. ASSUME NEW q \in Reqs, q # r PROVE RequestOK(q)'
  BY <1>2 DEF RequestsOK, RequestOK, Goto
<1> QED
  BY <1>1, <1>2 DEF RequestsOK, Goto, Labels

LEMMA AcceptOK ==
  ASSUME TablesOK, RequestsOK, NEW r \in Reqs, Accept(r)
  PROVE  RequestsOK'
<1>1. PICK c \in Requests : /\ pc' = [pc EXCEPT ![r] = FirstCall(c.op)]
                            /\ call' = [call EXCEPT ![r] = c]
                            /\ late' = [late EXCEPT ![r] = Gone(c)]
  BY DEF Accept, Goto
<1>2. c \in Calls
  BY RequestTypes
<1>3. Gone(c) \in SUBSET {"user", "project"}
  BY DEF Gone
<1>4. /\ FirstCall(c.op) \in {"create", "findByEmail", "validate"}
      /\ FirstCall(c.op) = "create" => c.op = "register"
      /\ FirstCall(c.op) = "findByEmail" => c.op = "login"
      /\ FirstCall(c.op) = "validate" => c.sub \in Ids
  BY <1>2 DEF FirstCall, Calls, RequestsFor, CallsOf
<1>5. RequestOK(r)'
  BY <1>1, <1>2, <1>4 DEF RequestsOK, RequestOK, TokenLabels, DetailLabels
<1>6. ASSUME NEW q \in Reqs, q # r PROVE RequestOK(q)'
  BY <1>1, <1>6 DEF RequestsOK, RequestOK, Accept
<1> QED
  BY <1>1, <1>2, <1>3, <1>4, <1>5, <1>6
     DEF RequestsOK, Accept, Labels, TokenLabels

LEMMA FindUserOK ==
  ASSUME TablesOK, RequestsOK, NEW r \in Reqs, FindUser(r)
  PROVE  RequestsOK'
<1>1. CASE Finish(r, 401, Absent)
  BY <1>1, FinishOK DEF FindUser
<1>2. CASE ~Finish(r, 401, Absent)
  <2>1. PICK i \in Ids :
          /\ users[i] # Absent
          /\ pc' = [pc EXCEPT ![r] = "compare"]
          /\ found' = [found EXCEPT ![r] =
                         [id |-> i, password |-> users[i].password]]
          /\ UNCHANGED <<call, reply>>
    BY <1>2 DEF FindUser, FindByEmail, Goto
  <2>2. [id |-> i, password |-> users[i].password] \in Found
    BY <2>1 DEF TablesOK, UserRows, Found
  <2>3. RequestOK(r)'
    BY <2>1, <2>2
       DEF FindUser, RequestsOK, RequestOK, TokenLabels, DetailLabels
  <2>4. ASSUME NEW q \in Reqs, q # r PROVE RequestOK(q)'
    BY <2>1, <2>4 DEF RequestsOK, RequestOK
  <2> QED
    BY <2>1, <2>2, <2>3, <2>4 DEF FindUser, RequestsOK, Labels
<1> QED
  BY <1>1, <1>2

LEMMA ValidateOK ==
  ASSUME RequestsOK, NEW r \in Reqs, Validate(r)
  PROVE  RequestsOK'
<1>1. pc[r] = "validate" /\ call[r] \in Calls /\ call[r].sub \in Ids
  BY DEF Validate, RequestsOK, RequestOK, TokenLabels
<1>2. CASE Finish(r, 401, Absent)
  BY <1>1, <1>2, FinishOK DEF Validate
<1>3. CASE Goto(r, CallAfterValidate(call[r].op)) /\ UNCHANGED <<call, found, reply>>
  <2>1. /\ CallAfterValidate(call[r].op) \in {"findById", "insert", "cacheGet"}
        /\ CallAfterValidate(call[r].op) \in DetailLabels =>
             call[r].op \notin {"me", "createProject"}
    BY DEF CallAfterValidate, DetailLabels
  <2>2. CallAfterValidate(call[r].op) \in DetailLabels =>
          call[r].proj \in Projects
    BY <1>1, <2>1, AbsentIsNoRow DEF Calls, RequestsFor, CallsOf
  <2> QED
    BY <1>1, <1>3, <2>1, <2>2, GotoOK DEF Validate, TokenLabels
<1> QED
  BY <1>2, <1>3 DEF Validate

\* No step of a request touches the command, and each keeps the types.
LEMMA RequestStepOK ==
  ASSUME TypeOK, NEW r \in Reqs, Accept(r) \/ Step(r) \/ DbError(r)
  PROVE  TypeOK'
<1> USE DEF TypeOK
<1>1. DemoOK'
  BY DEF Accept, Step, DbError, Create, FindUser, Compare, Validate, FindById,
         InsertProject, CacheGet, FindDetail, CacheSet, Respond, DemoOK
<1>2. CASE Accept(r)
  BY <1>1, <1>2, AcceptOK DEF Accept, TablesOK
<1>3. CASE Create(r)
  <2>1. call[r] \in Calls /\ call[r].op = "register"
    BY <1>3 DEF Create, RequestsOK, RequestOK
  <2>2. call[r].email \in Spellings /\ call[r].password \in Passwords
    BY <2>1 DEF Calls, RequestsFor, CallsOf
  <2>3. [email |-> normalizeEmail(call[r].email),
         password |-> call[r].password] \in UserRows
    BY <2>2, NormalType DEF UserRows
  <2>4. TablesOK'
    BY <1>3, <2>3 DEF Create, InsertUserRow, TablesOK, UserRows
  <2> QED
    BY <1>1, <1>3, <2>4, FinishOK DEF Create
<1>4. CASE FindUser(r)
  BY <1>1, <1>4, FindUserOK DEF FindUser, TablesOK
<1>5. CASE Compare(r)
  <2>1. found[r].id \in Ids
    BY <1>5 DEF Compare, RequestsOK, RequestOK, Found
  <2>2. TablesOK'
    BY <1>5, <2>1 DEF Compare, TablesOK
  <2> QED
    BY <1>1, <1>5, <2>1, <2>2, FinishOK DEF Compare
<1>6. CASE Validate(r)
  BY <1>1, <1>6, ValidateOK DEF Validate, TablesOK
<1>7. ASSUME pc[r] \in TokenLabels PROVE call[r].sub \in Ids
  BY <1>7 DEF RequestsOK, RequestOK
<1>8. ASSUME pc[r] \in DetailLabels PROVE call[r].proj \in Projects
  BY <1>8 DEF RequestsOK, RequestOK
<1>9. CASE FindById(r)
  BY <1>1, <1>7, <1>9, FinishOK DEF FindById, TablesOK, TokenLabels
<1>10. CASE InsertProject(r)
  <2>1. TablesOK'
    BY <1>7, <1>10 DEF InsertProject, TablesOK, TokenLabels
  <2> QED
    BY <1>1, <1>7, <1>10, <2>1, FinishOK DEF InsertProject, TokenLabels
<1>11. CASE CacheGet(r)
  <2>1. CASE Finish(r, 200, call[r].sub)
    BY <1>1, <1>7, <1>11, <2>1, FinishOK DEF CacheGet, TablesOK, TokenLabels
  <2>2. CASE Goto(r, "findDetail") /\ UNCHANGED <<call, found, reply>>
    BY <1>1, <1>7, <1>8, <1>11, <2>2, GotoOK
       DEF CacheGet, TablesOK, TokenLabels, DetailLabels
  <2> QED
    BY <1>11, <2>1, <2>2 DEF CacheGet
<1>12. CASE FindDetail(r)
  <2>1. CASE Finish(r, 404, Absent)
    BY <1>1, <1>12, <2>1, FinishOK DEF FindDetail, TablesOK
  <2>2. CASE Goto(r, "cacheSet") /\ UNCHANGED <<call, found, reply>>
    BY <1>1, <1>7, <1>8, <1>12, <2>2, GotoOK
       DEF FindDetail, TablesOK, TokenLabels, DetailLabels
  <2> QED
    BY <1>12, <2>1, <2>2 DEF FindDetail
<1>13. CASE CacheSet(r)
  <2>1. TablesOK'
    BY <1>7, <1>8, <1>13 DEF CacheSet, TablesOK, TokenLabels, DetailLabels
  <2> QED
    BY <1>1, <1>7, <1>13, <2>1, FinishOK DEF CacheSet, TokenLabels
<1>14. CASE Respond(r)
  <2>1. RequestsOK'
    BY <1>14 DEF Respond, Goto, RequestsOK, RequestOK, NoReply, Replies,
                 Labels, TokenLabels, DetailLabels
  <2> QED
    BY <1>1, <1>14, <2>1 DEF Respond, TablesOK
<1>15. CASE DbError(r)
  BY <1>1, <1>15, FinishOK DEF DbError, TablesOK
<1> QED
  BY <1>2, <1>3, <1>4, <1>5, <1>6, <1>9, <1>10, <1>11, <1>12, <1>13, <1>14,
     <1>15 DEF Step

\* No step of a command touches a request, and each keeps the types.
LEMMA DemoStepOK ==
  ASSUME TypeOK,
         DemoStep \/ DemoFails \/ (\E command \in Commands : StartDemo(command))
  PROVE  TypeOK'
<1> USE DEF TypeOK
<1>1. RequestsOK'
  BY DEF DemoStep, DemoFails, StartDemo, FindDemoUser, SeedUser,
         GetDemoProjectIds, DeleteDemoProjects, SeedCommits, ResetCommits,
         DeleteDemoCacheKeys, RequestsOK, RequestOK
<1>2. DemoOK /\ TablesOK
  OBVIOUS
<1>3. NoDemo \in DemoStates /\ NoDemo.step = "idle"
  BY DEF NoDemo, DemoStates
<1>4. ASSUME NEW command \in Commands, StartDemo(command) PROVE TypeOK'
  <2>1. command \in {"seed", "reset"}
    BY AccountsAssumption
  <2> QED
    BY <1>1, <1>2, <1>4, <2>1 DEF StartDemo, DemoOK, DemoStates, TablesOK
<1>5. CASE FindDemoUser
  <2>1. FindByEmail(DemoEmail) \subseteq Ids
    BY DEF FindByEmail
  <2> QED
    BY <1>1, <1>2, <1>3, <1>5, <2>1
       DEF FindDemoUser, DemoOK, DemoStates, TablesOK
<1>6. ASSUME NEW w \in DemoPasswords, SeedUser(w) PROVE TypeOK'
  <2>1. [email |-> DemoEmail, password |-> w] \in UserRows
    BY NormalType, AccountsAssumption DEF UserRows
  <2> QED
    BY <1>1, <1>2, <1>3, <1>6, <2>1 DEF SeedUser, DemoOK, DemoStates, TablesOK
<1>7. CASE GetDemoProjectIds
  BY <1>1, <1>2, <1>7
     DEF GetDemoProjectIds, ProjectsOf, DemoOK, DemoStates, TablesOK
<1>8. CASE DeleteDemoProjects
  BY <1>1, <1>2, <1>8
     DEF DeleteDemoProjects, ProjectsOf, DemoOK, DemoStates, TablesOK
<1>9. CASE SeedCommits
  <2>1. demo.user \in Ids /\ demo.row \in UserRows
    BY <1>2, <1>9 DEF SeedCommits, DemoOK
  <2>2. demo.doomed \subseteq Projects
    BY <1>2 DEF DemoOK, DemoStates
  <2>3. TablesOK'
    BY <1>2, <1>9, <2>1, <2>2 DEF SeedCommits, InsertUserRow, TablesOK, UserRows
  <2>4. DemoOK'
    BY <1>3, <1>9 DEF SeedCommits, DemoOK
  <2> QED
    BY <1>1, <2>3, <2>4
<1>10. CASE ResetCommits
  <2>1. TablesOK'
    BY <1>2, <1>10 DEF ResetCommits, TablesOK
  <2>2. DemoOK'
    BY <1>2, <1>3, <1>10 DEF ResetCommits, DemoOK, DemoStates
  <2> QED
    BY <1>1, <2>1, <2>2
<1>11. CASE DeleteDemoCacheKeys
  <2>1. demo.ids \subseteq Projects
    BY <1>2 DEF DemoOK, DemoStates
  <2> QED
    BY <1>1, <1>2, <1>3, <1>11, <2>1 DEF DeleteDemoCacheKeys, DemoOK, TablesOK
<1>12. CASE DemoFails
  BY <1>1, <1>2, <1>3, <1>12 DEF DemoFails, DemoOK, TablesOK
<1> QED
  BY <1>4, <1>5, <1>6, <1>7, <1>8, <1>9, <1>10, <1>11, <1>12 DEF DemoStep

\* The variables keep their types: no handler waits for a call without what
\* the call needs, whatever the commands do to its user meanwhile.
THEOREM AccountTypes == Spec => []TypeOK
<1>1. TypeOK /\ [Next]_vars => TypeOK'
  <2> SUFFICES ASSUME TypeOK, [Next]_vars PROVE TypeOK'
    OBVIOUS
  <2>1. CASE \E entry \in Ids \X Projects : Expire(entry)
    BY <2>1 DEF Expire, TypeOK, TablesOK, RequestsOK, RequestOK, DemoOK
  <2>2. CASE UNCHANGED vars
    BY <2>2 DEF TypeOK, TablesOK, RequestsOK, RequestOK, DemoOK
  <2> QED
    BY <2>1, <2>2, RequestStepOK, DemoStepOK DEF Next
<1> QED
  BY InitTypeOK, <1>1, PTL DEF Spec

-----------------------------------------------------------------------------
\* What the rows of the tables have to do with each other.

\* A row that is inserted is a row.
LEMMA RowsArePresent ==
  ASSUME TypeOK
  PROVE  /\ \A r \in Reqs : Create(r) =>
              [email |-> normalizeEmail(call[r].email),
               password |-> call[r].password] # Absent
         /\ SeedCommits => demo.row # Absent /\ demo.user \in Ids
<1>1. ASSUME NEW r \in Reqs, Create(r)
      PROVE  [email |-> normalizeEmail(call[r].email),
              password |-> call[r].password] # Absent
  <2>1. call[r] \in Calls /\ call[r].op = "register"
    BY <1>1 DEF Create, TypeOK, RequestsOK, RequestOK
  <2>2. call[r].email \in Spellings /\ call[r].password \in Passwords
    BY <2>1 DEF Calls, RequestsFor, CallsOf
  <2>3. [email |-> normalizeEmail(call[r].email),
         password |-> call[r].password] \in UserRows
    BY <2>2, NormalType DEF UserRows
  <2> QED
    BY <2>3, AbsentIsNoRow
<1>2. SeedCommits => demo.row # Absent /\ demo.user \in Ids
  BY AbsentIsNoRow DEF SeedCommits, TypeOK, DemoOK
<1> QED
  BY <1>1, <1>2

\* The actions that change users or owner.
LEMMA OtherSteps ==
  ASSUME [Next]_vars,
         \A r \in Reqs : ~Create(r) /\ ~InsertProject(r),
         ~SeedCommits, ~ResetCommits
  PROVE  UNCHANGED <<users, owner, usedIds>>
BY DEF Next, Step, DemoStep, Accept, FindUser, Compare, Validate, FindById,
       CacheGet, FindDetail, CacheSet, Respond, DbError, Expire, StartDemo,
       FindDemoUser, SeedUser, GetDemoProjectIds, DeleteDemoProjects,
       DeleteDemoCacheKeys, DemoFails

\* A demo reset deletes a user together with every project, or nothing,
\* whatever the API creates in between: no project loses its owner.
THEOREM OwnersStay == Spec => []NoOwnerlessProject
<1>1. Init => NoOwnerlessProject
  BY DEF Init, NoOwnerlessProject
<1>2. TypeOK /\ NoOwnerlessProject /\ [Next]_vars => NoOwnerlessProject'
  <2> SUFFICES ASSUME TypeOK, NoOwnerlessProject, [Next]_vars
               PROVE  NoOwnerlessProject'
    OBVIOUS
  <2> USE DEF TypeOK, TablesOK, NoOwnerlessProject
  <2>1. ASSUME NEW r \in Reqs, Create(r) PROVE NoOwnerlessProject'
    BY <2>1, RowsArePresent DEF Create, InsertUserRow
  <2>2. ASSUME NEW r \in Reqs, InsertProject(r) PROVE NoOwnerlessProject'
    BY <2>2 DEF InsertProject, OwnerExists
  <2>3. CASE SeedCommits
    BY <2>3, RowsArePresent DEF SeedCommits, InsertUserRow
  <2>4. CASE ResetCommits
    BY <2>4 DEF ResetCommits, UserDeletable, ProjectsOf
  <2> QED
    BY <2>1, <2>2, <2>3, <2>4, OtherSteps
<1> QED
  BY <1>1, <1>2, AccountTypes, PTL DEF Spec

-----------------------------------------------------------------------------
\* One user per email.

\* Emails are stored normalised and belong to one user, and the transaction
\* of a seed is about to write the demo email: to the user that has it, or
\* to a new one while nobody can take the email.
Seeding == demo.command = "seed" /\ demo.step \in {"ids", "delete", "commit"}

EmailInv ==
  /\ \A i \in Ids : users[i] # Absent =>
       i \in usedIds /\ users[i].email.loud = FALSE
  /\ \A i, j \in Ids :
       users[i] # Absent /\ users[j] # Absent
         /\ users[i].email = users[j].email => i = j
  /\ ~Seeding => demo.claims = Absent
  /\ demo.step \in {"idle", "find"} => demo.user = Absent
  /\ demo.step # "idle" => demo.command \in {"seed", "reset"}
  /\ demo.step = "user" => demo.command = "seed"
  /\ demo.step = "user" /\ demo.user # Absent =>
       users[demo.user] # Absent /\ users[demo.user].email = DemoEmail
  /\ Seeding =>
       /\ demo.row.email = DemoEmail
       /\ demo.claims # Absent => FindByEmail(DemoEmail) = {}
       /\ demo.claims = Absent =>
            users[demo.user] # Absent /\ users[demo.user].email = DemoEmail

LEMMA EmailInvInit == Init => EmailInv
BY DEF Init, EmailInv, NoDemo, Seeding

\* What the invariant says of a spelling it says of an address.
LEMMA EmailInvSuffices == TypeOK /\ EmailInv => OneUserPerEmail
<1> SUFFICES ASSUME TypeOK, EmailInv, NEW i \in Ids, NEW j \in Ids,
                    users[i] # Absent, users[j] # Absent, i # j,
                    users[i].email.address = users[j].email.address
             PROVE  FALSE
  BY DEF OneUserPerEmail
<1>1. users[i].email \in Spellings /\ users[j].email \in Spellings
  BY DEF TypeOK, TablesOK, UserRows
<1>2. users[i].email.loud = users[j].email.loud
  BY DEF EmailInv
<1>3. users[i].email = users[j].email
  BY <1>1, <1>2 DEF Spellings
<1> QED
  BY <1>3 DEF EmailInv

\* A registration cannot take the email an uncommitted seed has claimed.
LEMMA CreateKeepsEmails ==
  ASSUME TypeOK, EmailInv, NEW r \in Reqs, Create(r)
  PROVE  EmailInv'
<1> DEFINE email == normalizeEmail(call[r].email)
<1>1. UNCHANGED demo /\ ~Claimed(email)
  BY DEF Create
<1>2. CASE UNCHANGED <<users, usedIds>>
  BY <1>1, <1>2 DEF EmailInv, Seeding, FindByEmail
<1>3. CASE ~UNCHANGED <<users, usedIds>>
  <2>1. PICK i \in Ids \ (usedIds \cup {demo.claims}) :
          /\ users' = [users EXCEPT ![i] = [email |-> email,
                                           password |-> call[r].password]]
          /\ usedIds' = usedIds \cup {i}
    BY <1>3 DEF Create, InsertUserRow
  <2>2. \A j \in Ids : users[j] # Absent => users[j].email # email
    BY <1>3 DEF Create, EmailTaken, FindByEmail
  <2>3. email.loud = FALSE
    <3>1. call[r].email \in Spellings
      BY DEF Create, TypeOK, RequestsOK, RequestOK, Calls, RequestsFor, CallsOf
    <3> QED
      BY <3>1 DEF normalizeEmail, Spellings
  <2>4. users \in [Ids -> UserRows \cup {Absent}]
    BY DEF TypeOK, TablesOK
  <2>5. \A j \in Ids : users'[j] # Absent =>
          j \in usedIds' /\ users'[j].email.loud = FALSE
    BY <2>1, <2>3, <2>4 DEF EmailInv
  <2>6. \A j, k \in Ids :
          users'[j] # Absent /\ users'[k] # Absent
            /\ users'[j].email = users'[k].email => j = k
    BY <2>1, <2>2, <2>4 DEF EmailInv
  <2>7. demo.claims # Absent /\ Seeding => email # DemoEmail
    BY <1>1 DEF Claimed, EmailInv
  <2>8. Seeding /\ demo.claims # Absent => FindByEmail(DemoEmail)' = {}
    BY <2>1, <2>4, <2>7 DEF EmailInv, FindByEmail
  <2>9. ASSUME demo.user \in Ids, users[demo.user] # Absent
        PROVE  users'[demo.user] = users[demo.user]
    BY <2>1, <2>4, <2>9 DEF EmailInv
  <2>10. demo.step = "user" /\ demo.user # Absent => demo.user \in Ids
    BY DEF TypeOK, DemoOK, DemoStates
  <2>11. Seeding => demo.user \in Ids
    BY DEF Seeding, TypeOK, DemoOK
  <2> QED
    BY <1>1, <2>5, <2>6, <2>8, <2>9, <2>10, <2>11 DEF EmailInv, Seeding
<1> QED
  BY <1>2, <1>3

\* The commit of a seed writes the demo email where EmailInv says it may.
LEMMA SeedKeepsEmails ==
  ASSUME TypeOK, EmailInv, SeedCommits
  PROVE  EmailInv'
<1>1. /\ demo' = NoDemo
      /\ users' = [users EXCEPT ![demo.user] = demo.row]
      /\ usedIds' = usedIds \cup {demo.user}
      /\ Seeding
  BY DEF SeedCommits, InsertUserRow, Seeding
<1>2. users \in [Ids -> UserRows \cup {Absent}] /\ demo.user \in Ids
  BY DEF TypeOK, TablesOK, DemoOK, SeedCommits
<1>3. demo.row.email = DemoEmail /\ DemoEmail.loud = FALSE
  BY <1>1 DEF EmailInv, DemoEmail, normalizeEmail
<1>4. \A j \in Ids : j # demo.user /\ users[j] # Absent =>
        users[j].email # DemoEmail
  <2>1. CASE demo.claims # Absent
    BY <1>1, <2>1 DEF EmailInv, FindByEmail
  <2>2. CASE demo.claims = Absent
    BY <1>1, <1>2, <2>2 DEF EmailInv
  <2> QED
    BY <2>1, <2>2
<1>5. \A j \in Ids : users'[j] # Absent =>
        j \in usedIds' /\ users'[j].email.loud = FALSE
  BY <1>1, <1>2, <1>3 DEF EmailInv
<1>6. \A j, k \in Ids :
        users'[j] # Absent /\ users'[k] # Absent
          /\ users'[j].email = users'[k].email => j = k
  BY <1>1, <1>2, <1>3, <1>4 DEF EmailInv
<1>7. ~Seeding' /\ demo'.claims = Absent /\ demo'.user = Absent
        /\ demo'.step = "idle"
  BY <1>1 DEF Seeding, NoDemo
<1> QED
  BY <1>5, <1>6, <1>7 DEF EmailInv

\* The steps of a command that leave the tables alone.
LEMMA CommandKeepsEmails ==
  ASSUME TypeOK, EmailInv, UNCHANGED <<users, usedIds>>, [Next]_vars
  PROVE  EmailInv'
<1>1. CASE demo' = demo
  BY <1>1 DEF EmailInv, Seeding, FindByEmail
<1>2. CASE demo' = NoDemo
  BY <1>2 DEF EmailInv, Seeding, FindByEmail, NoDemo
<1>3. ASSUME NEW command \in Commands, StartDemo(command) PROVE EmailInv'
  <2>1. demo \in DemoStates
    BY DEF TypeOK, DemoOK
  <2> QED
    BY <1>3, <2>1, AccountsAssumption
       DEF StartDemo, EmailInv, Seeding, FindByEmail, DemoStates
<1>4. CASE FindDemoUser /\ demo' # NoDemo
  <2>1. /\ ~Seeding /\ demo.claims = Absent /\ demo.user = Absent
        /\ demo \in DemoStates /\ demo.command \in {"seed", "reset"}
    BY <1>4 DEF FindDemoUser, Seeding, EmailInv, TypeOK, DemoOK
  <2>2. CASE demo' = [demo EXCEPT !.step = "user"] /\ demo.command # "reset"
    BY <2>1, <2>2 DEF EmailInv, Seeding, DemoStates
  <2>3. CASE ~(demo' = [demo EXCEPT !.step = "user"] /\ demo.command # "reset")
    <3>1. PICK i \in FindByEmail(DemoEmail) :
            demo' = [demo EXCEPT !.user = i,
                       !.step = IF demo.command = "reset" THEN "ids"
                                                          ELSE "user"]
      BY <1>4, <2>3 DEF FindDemoUser
    <3> QED
      BY <2>1, <3>1 DEF EmailInv, Seeding, FindByEmail, DemoStates
  <2> QED
    BY <2>2, <2>3
<1>5. ASSUME NEW w \in DemoPasswords, SeedUser(w), demo' # NoDemo
      PROVE  EmailInv'
  <2> DEFINE row == [email |-> DemoEmail, password |-> w]
  <2>1. /\ demo.claims = Absent /\ demo.command = "seed"
        /\ demo \in DemoStates /\ demo.step = "user"
    BY <1>5 DEF SeedUser, Seeding, EmailInv, TypeOK, DemoOK
  <2>2. CASE demo.user = Absent
    <3>1. PICK i \in Ids : demo' = [demo EXCEPT !.user = i, !.claims = i,
                                              !.row = row, !.step = "ids"]
      BY <1>5, <2>2 DEF SeedUser
    <3>2. FindByEmail(DemoEmail) = {} /\ i # Absent
      BY <1>5, <2>2, AbsentIsNoRow DEF SeedUser, EmailTaken
    <3> QED
      BY <2>1, <3>1, <3>2 DEF EmailInv, Seeding, FindByEmail, DemoStates
  <2>3. CASE demo.user # Absent
    <3>1. demo' = [demo EXCEPT !.row = row, !.step = "ids"]
      BY <1>5, <2>3 DEF SeedUser
    <3> QED
      BY <2>1, <2>3, <3>1 DEF EmailInv, Seeding, DemoStates
  <2> QED
    BY <2>2, <2>3
<1>6. CASE GetDemoProjectIds \/ DeleteDemoProjects
  <2>1. demo \in DemoStates
    BY DEF TypeOK, DemoOK
  <2> QED
    BY <1>6, <2>1 DEF GetDemoProjectIds, DeleteDemoProjects, EmailInv, Seeding,
                      FindByEmail, DemoStates
<1>7. CASE ResetCommits
  BY <1>2, <1>7
     DEF ResetCommits, EmailInv, Seeding, FindByEmail, TypeOK, DemoOK, DemoStates
<1>8. \/ demo' = demo \/ demo' = NoDemo
      \/ \E command \in Commands : StartDemo(command)
      \/ FindDemoUser \/ (\E w \in DemoPasswords : SeedUser(w))
      \/ GetDemoProjectIds \/ DeleteDemoProjects \/ ResetCommits
  <2>1. ASSUME NEW r \in Reqs, Accept(r) \/ Step(r) \/ DbError(r)
        PROVE  demo' = demo
    BY <2>1
       DEF Step, Accept, Create, FindUser, Compare, Validate, FindById,
           InsertProject, CacheGet, FindDetail, CacheSet, Respond, DbError
  <2>2. ASSUME NEW entry \in Ids \X Projects, Expire(entry)
        PROVE  demo' = demo
    BY <2>2 DEF Expire
  <2> QED
    BY <2>1, <2>2
       DEF Next, DemoStep, SeedCommits, DeleteDemoCacheKeys, DemoFails
<1> QED
  BY <1>1, <1>2, <1>3, <1>4, <1>5, <1>6, <1>7, <1>8

LEMMA ResetKeepsEmails ==
  ASSUME TypeOK, EmailInv, ResetCommits, ~UNCHANGED users
  PROVE  EmailInv'
<1>1. /\ demo' = [demo EXCEPT !.step = "purge"]
      /\ users' = [users EXCEPT ![demo.user] = Absent]
      /\ UNCHANGED usedIds
  BY DEF ResetCommits
<1>2. users \in [Ids -> UserRows \cup {Absent}] /\ demo \in DemoStates
  BY DEF TypeOK, TablesOK, DemoOK
<1>3. /\ ~Seeding /\ ~Seeding' /\ demo'.claims = demo.claims
      /\ demo'.step = "purge" /\ demo'.command = "reset"
  BY <1>1, <1>2 DEF ResetCommits, Seeding, DemoStates
<1> QED
  BY <1>1, <1>2, <1>3 DEF EmailInv

LEMMA EmailsAlways == Spec => []EmailInv
<1>1. TypeOK /\ EmailInv /\ [Next]_vars => EmailInv'
  <2> SUFFICES ASSUME TypeOK, EmailInv, [Next]_vars PROVE EmailInv'
    OBVIOUS
  <2>1. ASSUME NEW r \in Reqs, InsertProject(r) PROVE UNCHANGED <<users, usedIds>>
    BY <2>1 DEF InsertProject
  <2> QED
    BY <2>1, CreateKeepsEmails, SeedKeepsEmails, ResetKeepsEmails,
       CommandKeepsEmails, OtherSteps DEF ResetCommits
<1> QED
  BY EmailInvInit, <1>1, AccountTypes, PTL DEF Spec

\* No two users have the same email address, however it is spelled: neither
\* concurrent registrations nor a demo seed that runs beside them make two.
THEOREM UniqueEmails == Spec => []OneUserPerEmail
  BY EmailInvSuffices, EmailsAlways, AccountTypes, PTL

-----------------------------------------------------------------------------
\* The demo commands, and what they may touch.

\* The id a seed has claimed is nobody's, a reset works on the demo user, and
\* what it is about to delete is that user's.
DemoInv ==
  /\ demo.claims # Absent =>
       demo.user = demo.claims /\ demo.claims \notin usedIds
  /\ demo.command = "reset" /\ demo.step \in {"ids", "delete", "commit"} =>
       users[demo.user] # Absent /\ users[demo.user].email = DemoEmail
  /\ \A p \in Projects : owner[p] # Absent => p \in usedProjects
  /\ demo.step = "commit" =>
       \A p \in demo.doomed : p \in usedProjects /\ owner[p] = demo.user

\* Only the steps of a command change what it holds.
LEMMA DemoSteps ==
  ASSUME [Next]_vars
  PROVE  \/ UNCHANGED demo
         \/ UNCHANGED <<users, owner, usedIds, usedProjects>> /\ demo' = NoDemo
         \/ UNCHANGED <<users, owner, usedIds, usedProjects>>
            /\ \/ \E command \in Commands : StartDemo(command)
               \/ FindDemoUser \/ (\E w \in DemoPasswords : SeedUser(w))
               \/ GetDemoProjectIds \/ DeleteDemoProjects
         \/ SeedCommits \/ ResetCommits
<1>1. ASSUME NEW r \in Reqs, Accept(r) \/ Step(r) \/ DbError(r)
      PROVE  UNCHANGED demo
  BY <1>1
     DEF Step, Accept, Create, FindUser, Compare, Validate, FindById,
         InsertProject, CacheGet, FindDetail, CacheSet, Respond, DbError
<1>2. ASSUME NEW entry \in Ids \X Projects, Expire(entry) PROVE UNCHANGED demo
  BY <1>2 DEF Expire
<1> QED
  BY <1>1, <1>2
     DEF Next, DemoStep, DemoFails, DeleteDemoCacheKeys, StartDemo,
         FindDemoUser, SeedUser, GetDemoProjectIds, DeleteDemoProjects

\* A request creates rows under new ids, and leaves those that are there.
LEMMA RequestsOnlyAdd ==
  ASSUME TypeOK, EmailInv, DemoInv, [Next]_vars, UNCHANGED demo
  PROVE  /\ \A i \in Ids : users[i] # Absent => users'[i] = users[i]
         /\ \A p \in usedProjects : owner'[p] = owner[p]
         /\ \A p \in Projects : owner'[p] # Absent => p \in usedProjects'
         /\ demo.claims # Absent /\ demo.claims \notin usedIds =>
              demo.claims \notin usedIds'
         /\ usedProjects \subseteq usedProjects'
<1> USE DEF TypeOK, TablesOK
<1>1. ASSUME NEW r \in Reqs, Create(r)
      PROVE  /\ \A i \in Ids : users[i] # Absent => users'[i] = users[i]
             /\ demo.claims # Absent /\ demo.claims \notin usedIds =>
                  demo.claims \notin usedIds'
             /\ UNCHANGED <<owner, usedProjects>>
  BY <1>1 DEF Create, InsertUserRow, EmailInv
<1>2. ASSUME NEW r \in Reqs, InsertProject(r)
      PROVE  /\ \A p \in usedProjects : owner'[p] = owner[p]
             /\ \A p \in Projects : owner'[p] # Absent => p \in usedProjects'
             /\ UNCHANGED <<users, usedIds>>
             /\ usedProjects \subseteq usedProjects'
  BY <1>2 DEF InsertProject, DemoInv
<1>3. ~SeedCommits /\ ~ResetCommits
  <2>1. SeedCommits => demo.step = "commit" /\ demo' = NoDemo
    BY DEF SeedCommits
  <2>2. ResetCommits => /\ demo.step = "commit"
                        /\ \/ demo' = NoDemo
                           \/ demo' = [demo EXCEPT !.step = "purge"]
    BY DEF ResetCommits
  <2>3. demo \in DemoStates
    BY DEF DemoOK
  <2> QED
    BY <2>1, <2>2, <2>3 DEF NoDemo, DemoStates
<1>4. ASSUME \A r \in Reqs : ~Create(r) /\ ~InsertProject(r)
      PROVE  UNCHANGED <<users, owner, usedIds, usedProjects>>
  BY <1>3, <1>4
     DEF Next, Step, DemoStep, Accept, FindUser, Compare, Validate, FindById,
         CacheGet, FindDetail, CacheSet, Respond, DbError, Expire, StartDemo,
         FindDemoUser, SeedUser, GetDemoProjectIds, DeleteDemoProjects,
         DeleteDemoCacheKeys, DemoFails
<1>5. CASE UNCHANGED <<users, owner, usedIds, usedProjects>>
  BY <1>5 DEF DemoInv
<1> QED
  BY <1>1, <1>2, <1>4, <1>5 DEF DemoInv

LEMMA DemoInvStep ==
  ASSUME TypeOK, EmailInv, DemoInv, [Next]_vars
  PROVE  DemoInv'
<1> USE DEF TypeOK, TablesOK, DemoOK
<1>1. demo \in DemoStates
  OBVIOUS
<1>2. CASE UNCHANGED demo
  <2>1. demo.command = "reset" /\ demo.step \in {"ids", "delete", "commit"} =>
          users'[demo.user] # Absent /\ users'[demo.user].email = DemoEmail
    BY <1>2, RequestsOnlyAdd DEF DemoInv
  <2> QED
    BY <1>2, <2>1, RequestsOnlyAdd DEF DemoInv
<1>3. CASE UNCHANGED <<users, owner, usedIds, usedProjects>> /\ demo' = NoDemo
  BY <1>3 DEF DemoInv, NoDemo
<1>4. CASE UNCHANGED <<users, owner, usedIds, usedProjects>>
           /\ \E command \in Commands : StartDemo(command)
  BY <1>1, <1>4 DEF StartDemo, DemoInv, DemoStates
<1>5. CASE UNCHANGED <<users, owner, usedIds, usedProjects>> /\ FindDemoUser
  <2>1. \A i \in FindByEmail(DemoEmail) :
          i \in Ids /\ users[i] # Absent /\ users[i].email = DemoEmail
    BY DEF FindByEmail
  <2>2. demo.claims = Absent
    BY <1>5 DEF FindDemoUser, EmailInv, Seeding
  <2>3. CASE demo' = NoDemo
    BY <1>3, <1>5, <2>3
  <2>4. CASE demo' = [demo EXCEPT !.step = "user"]
    BY <1>1, <1>5, <2>2, <2>4 DEF DemoInv, DemoStates
  <2>5. ASSUME NEW i \in FindByEmail(DemoEmail),
               demo' = [demo EXCEPT !.user = i,
                          !.step = IF demo.command = "reset" THEN "ids"
                                                             ELSE "user"]
        PROVE  DemoInv'
    BY <1>1, <1>5, <2>1, <2>2, <2>5 DEF DemoInv, DemoStates
  <2> QED
    BY <1>5, <2>3, <2>4, <2>5 DEF FindDemoUser
<1>6. ASSUME UNCHANGED <<users, owner, usedIds, usedProjects>>,
             NEW w \in DemoPasswords, SeedUser(w)
      PROVE  DemoInv'
  <2>1. demo.command = "seed" /\ demo.claims = Absent
    BY <1>6 DEF SeedUser, EmailInv, Seeding
  <2>2. CASE demo' = NoDemo
    BY <1>3, <1>6, <2>2
  <2>3. ASSUME NEW i \in Ids \ usedIds,
               NEW row,
               demo' = [demo EXCEPT !.user = i, !.claims = i, !.row = row,
                                    !.step = "ids"]
        PROVE  DemoInv'
    BY <1>1, <1>6, <2>1, <2>3 DEF DemoInv, DemoStates
  <2>4. ASSUME NEW row, demo' = [demo EXCEPT !.row = row, !.step = "ids"]
        PROVE  DemoInv'
    BY <1>1, <1>6, <2>1, <2>4 DEF DemoInv, DemoStates
  <2>5. \/ demo' = NoDemo
        \/ \E i \in Ids \ usedIds :
             demo' = [demo EXCEPT !.user = i, !.claims = i,
                        !.row = [email |-> DemoEmail, password |-> w],
                        !.step = "ids"]
        \/ demo' = [demo EXCEPT !.row = [email |-> DemoEmail, password |-> w],
                                !.step = "ids"]
    BY <1>6 DEF SeedUser
  <2> QED
    BY <2>2, <2>3, <2>4, <2>5
<1>7. CASE UNCHANGED <<users, owner, usedIds, usedProjects>>
           /\ GetDemoProjectIds
  BY <1>1, <1>7 DEF GetDemoProjectIds, DemoInv, DemoStates
<1>8. CASE UNCHANGED <<users, owner, usedIds, usedProjects>>
           /\ DeleteDemoProjects
  <2>1. demo.user \in Ids /\ demo.user # Absent
    BY <1>8, AbsentIsNoRow DEF DeleteDemoProjects
  <2>2. \A p \in ProjectsOf(demo.user) :
          p \in usedProjects /\ owner[p] = demo.user
    BY <2>1 DEF ProjectsOf, DemoInv
  <2> QED
    BY <1>1, <1>8, <2>2 DEF DeleteDemoProjects, DemoInv, DemoStates
<1>9. CASE SeedCommits
  <2>1. \A p \in Projects : owner'[p] # Absent => p \in usedProjects'
    BY <1>9 DEF SeedCommits, DemoInv
  <2> QED
    BY <1>9, <2>1 DEF SeedCommits, DemoInv, NoDemo
<1>10. CASE ResetCommits
  <2>1. \A p \in Projects : owner'[p] # Absent => p \in usedProjects'
    BY <1>10 DEF ResetCommits, DemoInv
  <2>2. usedIds' = usedIds
    BY <1>10 DEF ResetCommits
  <2>3. CASE demo' = NoDemo
    BY <2>1, <2>3 DEF DemoInv, NoDemo
  <2>4. CASE demo' = [demo EXCEPT !.step = "purge"]
    BY <1>1, <2>1, <2>2, <2>4 DEF DemoInv, DemoStates
  <2> QED
    BY <1>10, <2>3, <2>4 DEF ResetCommits
<1> QED
  BY <1>2, <1>3, <1>4, <1>5, <1>6, <1>7, <1>8, <1>9, <1>10, DemoSteps

LEMMA DemoInvAlways == Spec => []DemoInv
<1>1. Init => DemoInv
  BY DEF Init, DemoInv, NoDemo
<1>2. TypeOK /\ EmailInv /\ DemoInv /\ [Next]_vars => DemoInv'
  BY DemoInvStep
<1> QED
  BY <1>1, <1>2, AccountTypes, EmailsAlways, PTL DEF Spec

\* The rows a commit of a command replaces and writes are the demo user's.
LEMMA DemoRows ==
  ASSUME TypeOK, EmailInv, DemoInv, SeedCommits \/ ResetCommits
  PROVE  /\ demo.user \in Ids
         /\ Demo(users[demo.user])
         /\ SeedCommits => Demo(demo.row)
         /\ \A p \in demo.doomed : owner[p] = demo.user
<1>1. demo.step = "commit" /\ demo.user \in Ids
  BY DEF SeedCommits, ResetCommits, TypeOK, DemoOK
<1>2. DemoEmail.address = DemoAddress
  BY DEF DemoEmail, normalizeEmail
<1>3. CASE SeedCommits
  <2>1. Seeding
    BY <1>3 DEF SeedCommits, Seeding
  <2>2. CASE demo.claims = Absent
    BY <1>1, <1>2, <2>1, <2>2 DEF EmailInv, DemoInv, Demo
  <2>3. CASE demo.claims # Absent
    BY <1>1, <1>2, <2>1, <2>3 DEF EmailInv, DemoInv, Demo
  <2> QED
    BY <1>1, <1>3, <2>2, <2>3
       DEF SeedCommits, ResetCommits, DemoInv
<1>4. CASE ResetCommits
  BY <1>1, <1>2, <1>4 DEF SeedCommits, ResetCommits, DemoInv, Demo
<1> QED
  BY <1>3, <1>4

\* No step of a demo command changes a user other than the demo user, or a
\* project of anybody else, whoever registers, logs in or creates projects
\* between its statements.
THEOREM DemoTouchesItsOwn == Spec => OnlyDemoDataTouched
<1> DEFINE Own ==
      demo' # demo =>
        /\ \A i \in Ids : users'[i] # users[i] => Demo(users[i]) /\ Demo(users'[i])
        /\ \A p \in Projects : owner'[p] # owner[p] =>
             /\ owner[p] # Absent => Demo(users[owner[p]])
             /\ owner'[p] # Absent => Demo(users'[owner'[p]])
<1>1. TypeOK /\ EmailInv /\ DemoInv /\ [Next]_vars => Own
  <2> SUFFICES ASSUME TypeOK, EmailInv, DemoInv, [Next]_vars, demo' # demo
               PROVE  Own
    OBVIOUS
  <2> USE DEF TypeOK, TablesOK
  <2>1. CASE UNCHANGED <<users, owner>>
    BY <2>1
  <2>2. CASE SeedCommits
    <3>1. users' = [users EXCEPT ![demo.user] = demo.row]
      BY <2>2 DEF SeedCommits, InsertUserRow
    <3>2. \A i \in Ids : users'[i] # users[i] => Demo(users[i]) /\ Demo(users'[i])
      BY <2>2, <3>1, DemoRows
    <3>3. PICK p \in Projects \ usedProjects :
            owner' = [q \in Projects |->
              IF q = p THEN demo.user
              ELSE IF q \in demo.doomed THEN Absent ELSE owner[q]]
      BY <2>2 DEF SeedCommits
    <3>4. owner[p] = Absent
      BY <3>3 DEF DemoInv
    <3>5. users'[demo.user] = demo.row /\ Demo(users'[demo.user])
      BY <2>2, <3>1, DemoRows
    <3> QED
      BY <2>2, <3>2, <3>3, <3>4, <3>5, DemoRows
  <2>3. CASE ResetCommits /\ ~UNCHANGED users
    <3>1. /\ users' = [users EXCEPT ![demo.user] = Absent]
          /\ owner' = [q \in Projects |->
               IF q \in demo.doomed THEN Absent ELSE owner[q]]
      BY <2>3 DEF ResetCommits
    <3>2. Demo(users[demo.user]) /\ Demo(Absent)
      BY <2>3, DemoRows DEF Demo
    <3> QED
      BY <2>3, <3>1, <3>2, DemoRows
  <2>4. CASE ResetCommits /\ UNCHANGED users
    <3>1. UNCHANGED owner
      BY <2>4, DemoRows DEF ResetCommits, DemoInv
    <3> QED
      BY <2>4, <3>1
  <2> QED
    BY <2>1, <2>2, <2>3, <2>4, DemoSteps
<1> QED
  BY <1>1, AccountTypes, EmailsAlways, DemoInvAlways, PTL
     DEF Spec, OnlyDemoDataTouched

-----------------------------------------------------------------------------
\* What a token is given for, and what is left of it when its user goes.

\* A step leaves the request of a slot alone, or is one of that request.
LEMMA SlotSteps ==
  ASSUME TypeOK, [Next]_vars, NEW q \in Reqs
  PROVE  \/ UNCHANGED <<pc[q], call[q], found[q], reply[q], late[q]>>
         \/ Accept(q) \/ Step(q) \/ DbError(q)
<1> USE DEF TypeOK, RequestsOK
<1>1. ASSUME NEW r \in Reqs, r # q, Accept(r) \/ Step(r) \/ DbError(r)
      PROVE  UNCHANGED <<pc[q], call[q], found[q], reply[q], late[q]>>
  BY <1>1
     DEF Step, Accept, Create, FindUser, Compare, Validate, FindById,
         InsertProject, CacheGet, FindDetail, CacheSet, Respond, DbError,
         Finish, Goto
<1>2. ASSUME \A r \in Reqs : ~Accept(r) /\ ~Step(r) /\ ~DbError(r)
      PROVE  UNCHANGED <<pc[q], call[q], found[q], reply[q], late[q]>>
  BY <1>2
     DEF Next, Expire, DemoStep, DemoFails, StartDemo, FindDemoUser, SeedUser,
         GetDemoProjectIds, DeleteDemoProjects, SeedCommits, ResetCommits,
         DeleteDemoCacheKeys
<1> QED
  BY <1>1, <1>2

\* A request that is accepted ...
LEMMA Accepted ==
  ASSUME TypeOK, NEW q \in Reqs, Accept(q)
  PROVE  \E c \in Requests :
           /\ c \in Calls
           /\ call'[q] = c /\ late'[q] = Gone(c) /\ pc'[q] = FirstCall(c.op)
           /\ pc'[q] \in {"create", "findByEmail", "validate"}
           /\ c.sub # Absent => c.sub \in tokens /\ pc'[q] = "validate"
<1>1. PICK c \in Requests : /\ pc' = [pc EXCEPT ![q] = FirstCall(c.op)]
                            /\ call' = [call EXCEPT ![q] = c]
                            /\ late' = [late EXCEPT ![q] = Gone(c)]
  BY DEF Accept, Goto
<1>2. c \in Calls
  BY RequestTypes DEF TypeOK
<1>3. c.sub # Absent => c.sub \in tokens /\ FirstCall(c.op) = "validate"
  BY DEF Requests, RequestsFor, CallsOf, FirstCall
<1>4. FirstCall(c.op) \in {"create", "findByEmail", "validate"}
  BY DEF FirstCall
<1> QED
  BY <1>1, <1>2, <1>3, <1>4 DEF TypeOK, RequestsOK

\* ... and one that is answered, or waits for the next call.
LEMMA Finished ==
  ASSUME TypeOK, NEW q \in Reqs, NEW code, NEW i, Finish(q, code, i)
  PROVE  /\ pc'[q] = "done" /\ call'[q] = call[q]
         /\ reply'[q].code = code /\ reply'[q].user = i
BY DEF Finish, Goto, TypeOK, RequestsOK

\* Which call a request that is under way has and had.
LEMMA CallKnown ==
  ASSUME TypeOK, NEW q \in Reqs, pc[q] # "idle"
  PROVE  /\ call[q].op = "login" => call[q].sub = Absent
         /\ pc[q] \in TokenLabels => call[q].sub \in Ids
         /\ pc[q] \in TokenLabels => call[q].sub # Absent
         /\ pc[q] \in DetailLabels => call[q].op # "me"
<1>1. call[q] \in Calls
  BY DEF TypeOK, RequestsOK, RequestOK
<1>2. call[q].op = "login" => call[q].sub = Absent
  BY <1>1 DEF Calls, RequestsFor, CallsOf
<1>3. pc[q] \in TokenLabels => call[q].sub \in Ids
  BY DEF TypeOK, RequestsOK, RequestOK
<1>4. pc[q] \in DetailLabels => call[q].proj \in Projects
  BY DEF TypeOK, RequestsOK, RequestOK
<1>5. call[q].op = "me" => call[q].proj = Absent
  BY <1>1 DEF Calls, RequestsFor, CallsOf
<1> QED
  BY <1>2, <1>3, <1>4, <1>5, AbsentIsNoRow

\* A login is answered with a token where the passwords have matched.
LEMMA LoginAnswered ==
  ASSUME TypeOK, NEW q \in Reqs, Accept(q) \/ Step(q) \/ DbError(q),
         pc'[q] = "done", call'[q].op = "login", reply'[q].code = 200
  PROVE  /\ pc[q] = "compare" /\ call'[q] = call[q]
         /\ found[q].password = call[q].password
         /\ reply'[q].user = found[q].id
<1>1. ~Accept(q)
  BY Accepted
<1>2. ~Respond(q)
  BY DEF Respond, Goto, TypeOK, RequestsOK
<1>3. CASE Compare(q)
  <2>1. ~Finish(q, 401, Absent)
    BY Finished
  <2>2. Finish(q, 200, found[q].id) /\ found[q].password = call[q].password
    BY <1>3, <2>1 DEF Compare
  <2> QED
    BY <1>3, <2>2, Finished DEF Compare
<1>4. ASSUME FindById(q) \/ CacheGet(q) \/ CacheSet(q) PROVE FALSE
  <2>1. pc[q] \in TokenLabels /\ pc[q] # "idle"
    BY <1>4 DEF FindById, CacheGet, CacheSet, TokenLabels
  <2>2. UNCHANGED call
    BY <1>4 DEF FindById, CacheGet, CacheSet, Finish
  <2> QED
    BY <2>1, <2>2, CallKnown
<1>5. ASSUME NEW code \in {201, 401, 404, 409, 500}, NEW i, Finish(q, code, i)
      PROVE  FALSE
  BY <1>5, Finished
<1>6. ASSUME NEW label \in Labels, label # "done", Goto(q, label) PROVE FALSE
  BY <1>6 DEF Goto, TypeOK, RequestsOK
<1>7. ~Create(q) /\ ~InsertProject(q) /\ ~FindDetail(q) /\ ~DbError(q)
  <2>1. FindDetail(q) => Goto(q, "cacheSet") \/ Finish(q, 404, Absent)
    BY DEF FindDetail
  <2>2. "cacheSet" \in Labels
    BY DEF Labels, TokenLabels
  <2> QED
    BY <1>5, <1>6, <2>1, <2>2 DEF Create, InsertProject, DbError
<1>8. ~FindUser(q) /\ ~Validate(q)
  <2>1. "compare" \in Labels /\ CallAfterValidate(call[q].op) \in Labels
          /\ CallAfterValidate(call[q].op) # "done"
    BY DEF Labels, TokenLabels, CallAfterValidate
  <2> QED
    BY <1>5, <1>6, <2>1 DEF FindUser, Validate
<1> QED
  BY <1>1, <1>2, <1>3, <1>4, <1>7, <1>8 DEF Step

\* Every row is, or has been, in the history with its password, and so is
\* the row a login has read, under the email it was read by.
PasswordInv ==
  /\ \A i \in Ids : users[i] # Absent =>
       <<i, users[i].email, users[i].password>> \in had
  /\ \A r \in Reqs : pc[r] = "compare" =>
       <<found[r].id, normalizeEmail(call[r].email), found[r].password>> \in had

LEMMA RowsAreHad ==
  ASSUME TypeOK, PasswordInv, [Next]_vars
  PROVE  /\ had \subseteq had'
         /\ \A i \in Ids : users'[i] # Absent =>
              <<i, users'[i].email, users'[i].password>> \in had'
<1> USE DEF TypeOK, TablesOK, PasswordInv
<1>1. ASSUME NEW i \in Ids, NEW row, InsertUserRow(i, row)
      PROVE  /\ had \subseteq had'
             /\ \A j \in Ids : users'[j] # Absent =>
                  <<j, users'[j].email, users'[j].password>> \in had'
  BY <1>1 DEF InsertUserRow
<1>2. CASE UNCHANGED <<users, had>>
  BY <1>2
<1>3. ASSUME NEW r \in Reqs, Create(r), ~UNCHANGED <<users, had>>
      PROVE  \E i \in Ids : \E row : InsertUserRow(i, row)
  BY <1>3 DEF Create
<1>4. SeedCommits => InsertUserRow(demo.user, demo.row) /\ demo.user \in Ids
  BY DEF SeedCommits, DemoOK
<1>5. CASE ResetCommits
  BY <1>5 DEF ResetCommits
<1>6. ASSUME \A r \in Reqs : ~Create(r), ~SeedCommits, ~ResetCommits
      PROVE  UNCHANGED <<users, had>>
  BY <1>6
     DEF Next, Step, DemoStep, Accept, FindUser, Compare, Validate, FindById,
         InsertProject, CacheGet, FindDetail, CacheSet, Respond, DbError,
         Expire, StartDemo, FindDemoUser, SeedUser, GetDemoProjectIds,
         DeleteDemoProjects, DeleteDemoCacheKeys, DemoFails
<1> QED
  BY <1>1, <1>2, <1>3, <1>4, <1>5, <1>6

\* Only the lookup of a user leads to a comparison ...
LEMMA OnlyFindUserCompares ==
  ASSUME TypeOK, NEW q \in Reqs,
         Accept(q) \/ Step(q) \/ DbError(q), pc'[q] = "compare"
  PROVE  FindUser(q) /\ UNCHANGED <<users, usedIds>>
<1>1. ~Accept(q)
  BY Accepted
<1>2. ~Respond(q)
  BY DEF Respond, Goto, TypeOK, RequestsOK
<1>3. ASSUME NEW code, NEW i, Finish(q, code, i) PROVE FALSE
  BY <1>3, Finished
<1>4. ASSUME NEW label \in TokenLabels, Goto(q, label) PROVE FALSE
  BY <1>4 DEF Goto, TypeOK, RequestsOK, TokenLabels
<1>5. /\ ~Create(q) /\ ~Compare(q) /\ ~FindById(q) /\ ~InsertProject(q)
      /\ ~CacheSet(q) /\ ~DbError(q)
  BY <1>3 DEF Create, Compare, FindById, InsertProject, CacheSet, DbError
<1>6. ~Validate(q) /\ ~CacheGet(q) /\ ~FindDetail(q)
  <2>1. CallAfterValidate(call[q].op) \in TokenLabels
          /\ {"findDetail", "cacheSet"} \subseteq TokenLabels
    BY DEF TokenLabels, CallAfterValidate
  <2> QED
    BY <1>3, <1>4, <2>1 DEF Validate, CacheGet, FindDetail
<1>7. FindUser(q)
  BY <1>1, <1>2, <1>5, <1>6 DEF Step
<1> QED
  BY <1>7 DEF FindUser

\* ... and it waits for that of the row it has just read.
LEMMA CompareBegins ==
  ASSUME TypeOK, PasswordInv, NEW q \in Reqs,
         Accept(q) \/ Step(q) \/ DbError(q), pc'[q] = "compare"
  PROVE  <<found'[q].id, normalizeEmail(call'[q].email), found'[q].password>>
           \in had
<1>1. FindUser(q)
  BY OnlyFindUserCompares
<1>2. ~Finish(q, 401, Absent)
  BY Finished
<1>3. PICK i \in FindByEmail(normalizeEmail(call[q].email)) :
        /\ found' = [found EXCEPT ![q] =
                       [id |-> i, password |-> users[i].password]]
        /\ UNCHANGED call
  BY <1>1, <1>2 DEF FindUser
<1>4. /\ i \in Ids /\ users[i] # Absent
      /\ users[i].email = normalizeEmail(call[q].email)
  BY DEF FindByEmail
<1>5. found'[q].id = i /\ found'[q].password = users[i].password
  BY <1>3 DEF TypeOK, RequestsOK
<1> QED
  BY <1>3, <1>4, <1>5 DEF PasswordInv

LEMMA PasswordStep ==
  ASSUME TypeOK, PasswordInv, TokenNeedsPassword, [Next]_vars
  PROVE  PasswordInv' /\ TokenNeedsPassword'
<1>1. ASSUME NEW q \in Reqs, pc'[q] = "compare"
      PROVE  <<found'[q].id, normalizeEmail(call'[q].email),
               found'[q].password>> \in had'
  <2>1. CASE UNCHANGED <<pc[q], call[q], found[q], reply[q], late[q]>>
    BY <1>1, <2>1, RowsAreHad DEF PasswordInv
  <2>2. CASE Accept(q) \/ Step(q) \/ DbError(q)
    BY <1>1, <2>2, CompareBegins, RowsAreHad
  <2> QED
    BY <2>1, <2>2, SlotSteps
<1>2. ASSUME NEW q \in Reqs, pc'[q] = "done", call'[q].op = "login",
             reply'[q].code = 200
      PROVE  <<reply'[q].user, normalizeEmail(call'[q].email),
               call'[q].password>> \in had'
  <2>1. CASE UNCHANGED <<pc[q], call[q], found[q], reply[q], late[q]>>
    BY <1>2, <2>1, RowsAreHad DEF TokenNeedsPassword
  <2>2. CASE Accept(q) \/ Step(q) \/ DbError(q)
    BY <1>2, <2>2, LoginAnswered, RowsAreHad DEF PasswordInv
  <2> QED
    BY <2>1, <2>2, SlotSteps
<1> QED
  BY <1>1, <1>2, RowsAreHad DEF PasswordInv, TokenNeedsPassword

\* A login is answered with a token only for a user who has had that email
\* and that password, whatever the demo commands or other clients change
\* between the read of the row and the comparison of the hash.
THEOREM TokensNeedPasswords == Spec => []TokenNeedsPassword
<1>1. Init => PasswordInv /\ TokenNeedsPassword
  BY DEF Init, PasswordInv, TokenNeedsPassword
<1>2. TypeOK /\ PasswordInv /\ TokenNeedsPassword /\ [Next]_vars =>
        PasswordInv' /\ TokenNeedsPassword'
  BY PasswordStep
<1> QED
  BY <1>1, <1>2, AccountTypes, PTL DEF Spec

-----------------------------------------------------------------------------
\* A user that is gone stays gone: registrations take new ids, and a seed
\* writes a row that is there or one under the id it has claimed.
LEMMA GoneForGood ==
  ASSUME TypeOK, EmailInv, DemoInv, [Next]_vars
  PROVE  /\ usedIds \subseteq usedIds'
         /\ \A i \in usedIds : users[i] = Absent => users'[i] = Absent
<1> USE DEF TypeOK, TablesOK
<1>1. ASSUME NEW r \in Reqs, Create(r), ~UNCHANGED <<users, usedIds>>
      PROVE  \E i \in Ids \ usedIds : \E row : InsertUserRow(i, row)
  BY <1>1 DEF Create
<1>2. ASSUME NEW i \in Ids \ usedIds, NEW row, InsertUserRow(i, row)
      PROVE  /\ usedIds \subseteq usedIds'
             /\ \A j \in usedIds : users[j] = Absent => users'[j] = Absent
  BY <1>2 DEF InsertUserRow
<1>3. CASE SeedCommits
  <2>1. Seeding /\ InsertUserRow(demo.user, demo.row) /\ demo.user \in Ids
    BY <1>3 DEF SeedCommits, Seeding, DemoOK
  <2>2. CASE demo.claims # Absent
    BY <1>2, <2>1, <2>2 DEF DemoInv
  <2>3. CASE demo.claims = Absent
    <3>1. users[demo.user] # Absent
      BY <2>1, <2>3 DEF EmailInv
    <3> QED
      BY <2>1, <3>1 DEF InsertUserRow
  <2> QED
    BY <2>2, <2>3
<1>4. CASE ResetCommits
  BY <1>4 DEF ResetCommits
<1>5. ASSUME \A r \in Reqs : ~Create(r), ~SeedCommits, ~ResetCommits
      PROVE  UNCHANGED <<users, usedIds>>
  BY <1>5
     DEF Next, Step, DemoStep, Accept, FindUser, Compare, Validate, FindById,
         InsertProject, CacheGet, FindDetail, CacheSet, Respond, DbError,
         Expire, StartDemo, FindDemoUser, SeedUser, GetDemoProjectIds,
         DeleteDemoProjects, DeleteDemoCacheKeys, DemoFails
<1>6. CASE UNCHANGED <<users, usedIds>>
  BY <1>6
<1> QED
  BY <1>1, <1>2, <1>3, <1>4, <1>5, <1>6

\* Tokens are for users that are, or were, there; a request whose user was
\* gone when it came gets no further than the lookup of its user.
KnownUser(r) ==
  /\ pc[r] = "compare" => found[r].id \in usedIds
  /\ pc[r] # "idle" /\ call[r].sub # Absent => call[r].sub \in usedIds

TurnedAway(r) ==
  pc[r] # "idle" /\ "user" \in late[r] =>
    /\ pc[r] \in {"validate", "done"}
    /\ call[r].sub # Absent /\ users[call[r].sub] = Absent
    /\ pc[r] = "done" => reply[r].code = 401

NotFoundIsGone(r) ==
  pc[r] = "done" /\ call[r].op = "me" /\ reply[r].code = 404 =>
    call[r].sub # Absent /\ users[call[r].sub] = Absent

GoneInv ==
  /\ tokens \subseteq usedIds
  /\ \A r \in Reqs : KnownUser(r) /\ TurnedAway(r) /\ NotFoundIsGone(r)

LEMMA TokensKnown ==
  ASSUME TypeOK, EmailInv, DemoInv, GoneInv, [Next]_vars
  PROVE  tokens' \subseteq usedIds'
<1>1. ASSUME NEW r \in Reqs, Compare(r) PROVE tokens' \subseteq usedIds
  BY <1>1 DEF Compare, GoneInv, KnownUser
<1>2. ASSUME \A r \in Reqs : ~Compare(r) PROVE UNCHANGED tokens
  BY <1>2
     DEF Next, Step, DemoStep, Accept, FindUser, Create, Validate, FindById,
         InsertProject, CacheGet, FindDetail, CacheSet, Respond, DbError,
         Expire, StartDemo, FindDemoUser, SeedUser, GetDemoProjectIds,
         DeleteDemoProjects, SeedCommits, ResetCommits, DeleteDemoCacheKeys,
         DemoFails
<1> QED
  BY <1>1, <1>2, GoneForGood DEF GoneInv

\* Once it is accepted, a request keeps its token until it is answered.
LEMMA CallKept ==
  ASSUME TypeOK, NEW q \in Reqs, Step(q) \/ DbError(q), pc'[q] # "idle"
  PROVE  pc[q] # "idle" /\ call'[q] = call[q] /\ late'[q] = late[q]
<1>1. ~Respond(q)
  BY DEF Respond, Goto, TypeOK, RequestsOK
<1>2. UNCHANGED <<call, late>> /\ pc[q] # "idle"
  BY <1>1
     DEF Step, Create, FindUser, Compare, Validate, FindById, InsertProject,
         CacheGet, FindDetail, CacheSet, DbError, Finish
<1> QED
  BY <1>2

LEMMA KnownUserStep ==
  ASSUME TypeOK, EmailInv, DemoInv, GoneInv, [Next]_vars, NEW q \in Reqs
  PROVE  /\ pc'[q] = "compare" => found'[q].id \in usedIds'
         /\ pc'[q] # "idle" /\ call'[q].sub # Absent =>
              call'[q].sub \in usedIds'
<1> USE DEF GoneInv, KnownUser
<1>1. CASE UNCHANGED <<pc[q], call[q], found[q], reply[q], late[q]>>
  BY <1>1, GoneForGood
<1>2. CASE Accept(q)
  BY <1>2, Accepted, GoneForGood
<1>3. CASE Step(q) \/ DbError(q)
  <2>1. pc'[q] # "idle" /\ call'[q].sub # Absent => call'[q].sub \in usedIds'
    BY <1>3, CallKept, GoneForGood
  <2>2. ASSUME pc'[q] = "compare" PROVE found'[q].id \in usedIds'
    <3>1. UNCHANGED usedIds /\ FindUser(q) /\ pc'[q] = "compare"
      BY <1>3, <2>2, OnlyFindUserCompares
    <3>2. PICK i \in FindByEmail(normalizeEmail(call[q].email)) :
            found' = [found EXCEPT ![q] =
                        [id |-> i, password |-> users[i].password]]
      <4>1. ~Finish(q, 401, Absent)
        BY <3>1, Finished
      <4> QED
        BY <3>1, <4>1 DEF FindUser
    <3>3. i \in usedIds
      BY DEF FindByEmail, EmailInv
    <3>4. found'[q].id = i
      BY <3>2 DEF TypeOK, RequestsOK
    <3> QED
      BY <3>1, <3>3, <3>4
  <2> QED
    BY <2>1, <2>2
<1> QED
  BY <1>1, <1>2, <1>3, SlotSteps

LEMMA TurnedAwayStep ==
  ASSUME TypeOK, EmailInv, DemoInv, GoneInv, [Next]_vars, NEW q \in Reqs,
         pc'[q] # "idle", "user" \in late'[q]
  PROVE  /\ pc'[q] \in {"validate", "done"}
         /\ call'[q].sub # Absent /\ users'[call'[q].sub] = Absent
         /\ pc'[q] = "done" => reply'[q].code = 401
<1> USE DEF GoneInv, KnownUser, TurnedAway
<1>1. CASE UNCHANGED <<pc[q], call[q], found[q], reply[q], late[q]>>
  BY <1>1, GoneForGood
<1>2. CASE Accept(q)
  <2>1. PICK c \in Requests :
          /\ call'[q] = c /\ late'[q] = Gone(c)
          /\ c.sub # Absent => c.sub \in tokens /\ pc'[q] = "validate"
    BY <1>2, Accepted
  <2>2. c.sub # Absent /\ users[c.sub] = Absent
    BY <2>1 DEF Gone
  <2> QED
    BY <2>1, <2>2, GoneForGood
<1>3. CASE Step(q) \/ DbError(q)
  <2>1. /\ pc[q] \in {"validate", "done"} /\ call'[q] = call[q]
        /\ call[q].sub # Absent /\ users[call[q].sub] = Absent
        /\ users'[call[q].sub] = Absent
    BY <1>3, CallKept, GoneForGood
  <2>2. ~Respond(q)
    BY DEF Respond, Goto, TypeOK, RequestsOK
  <2>3. Validate(q)
    BY <1>3, <2>1, <2>2
       DEF Step, Create, FindUser, Compare, FindById, InsertProject,
           CacheGet, FindDetail, CacheSet, DbError
  <2>4. Finish(q, 401, Absent)
    BY <2>1, <2>3 DEF Validate
  <2> QED
    BY <2>1, <2>4, Finished
<1> QED
  BY <1>1, <1>2, <1>3, SlotSteps

\* What answers a request with 404.
LEMMA OnlyTwoAreNotFound ==
  ASSUME TypeOK, NEW q \in Reqs, Step(q) \/ DbError(q),
         pc'[q] = "done", reply'[q].code = 404, pc[q] # "done"
  PROVE  FindById(q) \/ FindDetail(q)
<1>1. ASSUME NEW code \in {200, 201, 401, 409, 500}, NEW i, Finish(q, code, i)
      PROVE  FALSE
  BY <1>1, Finished
<1>2. ASSUME NEW label \in Labels, label # "done", Goto(q, label) PROVE FALSE
  BY <1>2 DEF Goto, TypeOK, RequestsOK
<1>3. ~Create(q) /\ ~Compare(q) /\ ~InsertProject(q) /\ ~CacheSet(q)
        /\ ~DbError(q) /\ ~Respond(q)
  BY <1>1 DEF Create, Compare, InsertProject, CacheSet, DbError, Respond
<1>4. ~FindUser(q) /\ ~Validate(q) /\ ~CacheGet(q)
  <2>1. /\ {"compare", "findDetail"} \subseteq Labels
        /\ CallAfterValidate(call[q].op) \in Labels
        /\ CallAfterValidate(call[q].op) # "done"
    BY DEF Labels, TokenLabels, CallAfterValidate
  <2> QED
    BY <1>1, <1>2, <2>1 DEF FindUser, Validate, CacheGet
<1> QED
  BY <1>3, <1>4 DEF Step

LEMMA NotFoundStep ==
  ASSUME TypeOK, EmailInv, DemoInv, GoneInv, [Next]_vars, NEW q \in Reqs,
         pc'[q] = "done", call'[q].op = "me", reply'[q].code = 404
  PROVE  call'[q].sub # Absent /\ users'[call'[q].sub] = Absent
<1> USE DEF GoneInv, KnownUser, NotFoundIsGone
<1>1. CASE UNCHANGED <<pc[q], call[q], found[q], reply[q], late[q]>>
  BY <1>1, GoneForGood
<1>2. CASE Accept(q)
  BY <1>2, Accepted
<1>3. CASE Step(q) \/ DbError(q)
  <2>1. pc[q] # "idle" /\ call'[q] = call[q]
    BY <1>3, CallKept
  <2>2. FindById(q)
    <3>1. ~Respond(q)
      BY DEF Respond, Goto, TypeOK, RequestsOK
    <3>2. pc[q] # "done"
      BY <1>3, <3>1
         DEF Step, Create, FindUser, Compare, Validate, FindById,
             InsertProject, CacheGet, FindDetail, CacheSet, DbError
    <3>3. ~FindDetail(q)
      BY <2>1, CallKnown DEF FindDetail, DetailLabels
    <3> QED
      BY <1>3, <3>2, <3>3, OnlyTwoAreNotFound
  <2>3. call[q].sub # Absent
    BY <2>2, CallKnown DEF FindById, TokenLabels
  <2>4. users[call[q].sub] = Absent /\ UNCHANGED users
    <3>1. ~Finish(q, 200, call[q].sub)
      BY Finished
    <3> QED
      BY <2>2, <3>1 DEF FindById
  <2> QED
    BY <2>1, <2>3, <2>4
<1> QED
  BY <1>1, <1>2, <1>3, SlotSteps

\* A token whose user was gone when the request came is answered with 401,
\* and GET /auth/me with 404 only if the user has gone since.
THEOREM GoneUsersGet401 == Spec => []GoneUserGets401
<1>1. Init => GoneInv
  BY DEF Init, GoneInv, KnownUser, TurnedAway, NotFoundIsGone
<1>2. TypeOK /\ EmailInv /\ DemoInv /\ GoneInv /\ [Next]_vars => GoneInv'
  BY TokensKnown, KnownUserStep, TurnedAwayStep, NotFoundStep
     DEF GoneInv, KnownUser, TurnedAway, NotFoundIsGone
<1>3. GoneInv => GoneUserGets401
  BY DEF GoneInv, TurnedAway, NotFoundIsGone, GoneUserGets401
<1> QED
  BY <1>1, <1>2, <1>3, AccountTypes, EmailsAlways, DemoInvAlways, PTL DEF Spec

-----------------------------------------------------------------------------
\* What is left in Redis of a project that is gone.

\* Which actions change the entries, and which the owners.
LEMMA EntrySteps ==
  ASSUME [Next]_vars
  PROVE  \/ UNCHANGED <<cached, missed>> /\ UNCHANGED <<owner, usedProjects>>
         \/ \E r \in Reqs : InsertProject(r) \/ CacheSet(r)
         \/ \E entry \in Ids \X Projects : Expire(entry)
         \/ SeedCommits \/ ResetCommits \/ DeleteDemoCacheKeys
<1> DEFINE Same == UNCHANGED <<cached, missed, owner, usedProjects>>
<1>1. ASSUME NEW r \in Reqs, Accept(r) \/ Step(r) \/ DbError(r)
      PROVE  Same \/ InsertProject(r) \/ CacheSet(r)
  BY <1>1 DEF Step, Accept, Create, FindUser, Compare, Validate, FindById,
              CacheGet, FindDetail, Respond, DbError
<1>2. ASSUME DemoStep \/ DemoFails \/ \E command \in Commands : StartDemo(command)
      PROVE  Same \/ SeedCommits \/ ResetCommits \/ DeleteDemoCacheKeys
  BY <1>2 DEF DemoStep, DemoFails, StartDemo, FindDemoUser, SeedUser,
              GetDemoProjectIds, DeleteDemoProjects
<1>3. UNCHANGED vars => Same
  OBVIOUS
<1> QED
  BY <1>1, <1>2, <1>3 DEF Next

\* A project keeps its owner or loses it, and its id is not given again.
LEMMA OwnersLost ==
  ASSUME TypeOK, DemoInv, [Next]_vars
  PROVE  /\ usedProjects \subseteq usedProjects' /\ missed \subseteq missed'
         /\ \A p \in usedProjects : owner'[p] = owner[p] \/ owner'[p] = Absent
<1> USE DEF TypeOK, TablesOK
<1>1. ASSUME NEW r \in Reqs, InsertProject(r)
      PROVE  /\ usedProjects \subseteq usedProjects' /\ missed \subseteq missed'
             /\ \A p \in usedProjects : owner'[p] = owner[p]
  BY <1>1 DEF InsertProject
<1>2. CASE SeedCommits
  BY <1>2 DEF SeedCommits
<1>3. CASE ResetCommits
  BY <1>3 DEF ResetCommits
<1>4. CASE DeleteDemoCacheKeys
  BY <1>4 DEF DeleteDemoCacheKeys
<1>5. ASSUME NEW r \in Reqs, CacheSet(r)
      PROVE  UNCHANGED <<owner, usedProjects>> /\ missed \subseteq missed'
  BY <1>5 DEF CacheSet
<1>6. ASSUME NEW entry \in Ids \X Projects, Expire(entry)
      PROVE  UNCHANGED <<owner, usedProjects, missed>>
  BY <1>6 DEF Expire
<1> QED
  BY <1>1, <1>2, <1>3, <1>4, <1>5, <1>6, EntrySteps

\* An entry is kept under the owner of its project, as long as there is one,
\* and so will be the one that a read under way is about to set; the ids of a
\* command are those of the projects it deletes, but for the missed ones.
Reads(r) ==
  /\ pc[r] # "idle" /\ call[r].proj # Absent => call[r].proj \in usedProjects
  /\ pc[r] = "cacheSet" =>
       owner[call[r].proj] = call[r].sub \/ owner[call[r].proj] = Absent

KeysInv ==
  /\ \A i \in Ids, p \in Projects : <<i, p>> \in cached =>
       p \in usedProjects /\ (owner[p] = i \/ owner[p] = Absent)
  /\ \A r \in Reqs : Reads(r)

IdsInv ==
  /\ demo.step = "delete" =>
       \A p \in Projects : owner[p] = demo.user => p \in demo.ids \cup missed
  /\ demo.step = "commit" => demo.doomed \subseteq demo.ids \cup missed

\* Only a read that has found the project waits to set its entry.
LEMMA OnlyFindDetailSets ==
  ASSUME TypeOK, NEW q \in Reqs,
         Accept(q) \/ Step(q) \/ DbError(q), pc'[q] = "cacheSet"
  PROVE  FindDetail(q) /\ owner[call[q].proj] = call[q].sub
<1>1. ~Accept(q)
  BY Accepted
<1>2. ASSUME NEW code, NEW i, Finish(q, code, i) PROVE FALSE
  BY <1>2, Finished
<1>3. ASSUME NEW label, label # "cacheSet", Goto(q, label) PROVE FALSE
  BY <1>3 DEF Goto, TypeOK, RequestsOK
<1>4. /\ ~Create(q) /\ ~Compare(q) /\ ~FindById(q) /\ ~InsertProject(q)
      /\ ~CacheSet(q) /\ ~DbError(q) /\ ~Respond(q)
  BY <1>2, <1>3
     DEF Create, Compare, FindById, InsertProject, CacheSet, DbError, Respond
<1>5. ~FindUser(q) /\ ~Validate(q) /\ ~CacheGet(q)
  BY <1>2, <1>3 DEF FindUser, Validate, CacheGet, CallAfterValidate
<1>6. FindDetail(q)
  BY <1>1, <1>4, <1>5 DEF Step
<1> QED
  BY <1>2, <1>6 DEF FindDetail

LEMMA ReadsStep ==
  ASSUME TypeOK, EmailInv, DemoInv, KeysInv, [Next]_vars, NEW q \in Reqs
  PROVE  /\ pc'[q] # "idle" /\ call'[q].proj # Absent =>
              call'[q].proj \in usedProjects'
         /\ pc'[q] = "cacheSet" => \/ owner'[call'[q].proj] = call'[q].sub
                                   \/ owner'[call'[q].proj] = Absent
<1> USE DEF KeysInv, Reads
<1>1. pc[q] = "cacheSet" => call[q].proj \in Projects /\ call[q].proj # Absent
  BY AbsentIsNoRow DEF TypeOK, RequestsOK, RequestOK, DetailLabels
<1>2. CASE UNCHANGED <<pc[q], call[q], found[q], reply[q], late[q]>>
  BY <1>1, <1>2, OwnersLost
<1>3. CASE Accept(q)
  <2>1. PICK c \in Requests : call'[q] = c /\ pc'[q] # "cacheSet"
    BY <1>3, Accepted
  <2>2. c.proj # Absent => c.proj \in usedProjects
    BY DEF Requests, RequestsFor, CallsOf
  <2> QED
    BY <2>1, <2>2, OwnersLost
<1>4. CASE Step(q) \/ DbError(q)
  <2>1. pc'[q] # "idle" => pc[q] # "idle" /\ call'[q] = call[q]
    BY <1>4, CallKept
  <2>2. ASSUME pc'[q] = "cacheSet"
        PROVE  owner'[call'[q].proj] = call'[q].sub
    <3>1. FindDetail(q) /\ owner[call[q].proj] = call[q].sub
      BY <1>4, <2>2, OnlyFindDetailSets
    <3> QED
      BY <2>1, <2>2, <3>1 DEF FindDetail
  <2> QED
    BY <2>1, <2>2, OwnersLost
<1> QED
  BY <1>2, <1>3, <1>4, SlotSteps

LEMMA KeysStep ==
  ASSUME TypeOK, EmailInv, DemoInv, KeysInv, [Next]_vars
  PROVE  KeysInv'
<1>1. ASSUME NEW i \in Ids, NEW p \in Projects, <<i, p>> \in cached'
      PROVE  p \in usedProjects' /\ (owner'[p] = i \/ owner'[p] = Absent)
  <2>1. CASE <<i, p>> \in cached
    BY <2>1, OwnersLost DEF KeysInv
  <2>2. CASE <<i, p>> \notin cached
    <3>1. PICK r \in Reqs : CacheSet(r)
      BY <1>1, <2>2, EntrySteps
         DEF InsertProject, Expire, SeedCommits, ResetCommits,
             DeleteDemoCacheKeys
    <3>2. p = call[r].proj /\ i = call[r].sub /\ pc[r] = "cacheSet"
      BY <1>1, <2>2, <3>1 DEF CacheSet
    <3>3. p # Absent
      BY AbsentIsNoRow
    <3> QED
      BY <3>2, <3>3, OwnersLost DEF KeysInv, Reads
  <2> QED
    BY <2>1, <2>2
<1> QED
  BY <1>1, ReadsStep DEF KeysInv, Reads

\* The ids of a command stay those of what it deletes: a project that is
\* created between the two statements is missed.
LEMMA IdsStep ==
  ASSUME TypeOK, EmailInv, DemoInv, IdsInv, [Next]_vars
  PROVE  IdsInv'
<1>1. demo \in DemoStates
  BY DEF TypeOK, DemoOK
<1>2. CASE UNCHANGED demo
  <2>1. ASSUME demo.step = "delete", NEW p \in Projects, owner'[p] = demo.user
        PROVE  p \in demo.ids \cup missed'
    <3>1. demo.user # Absent
      BY <2>1, AbsentIsNoRow DEF TypeOK, DemoOK
    <3>2. CASE owner[p] = demo.user
      BY <2>1, <3>2, OwnersLost DEF IdsInv
    <3>3. CASE owner[p] # demo.user
      <4>1. PICK r \in Reqs : InsertProject(r)
        <5>1. SeedCommits \/ ResetCommits => demo.step = "commit"
          BY DEF SeedCommits, ResetCommits
        <5>2. owner' # owner
          BY <2>1, <3>3
        <5> QED
          BY <2>1, <5>1, <5>2, EntrySteps
             DEF CacheSet, Expire, DeleteDemoCacheKeys
      <4>2. PICK n \in Projects \ usedProjects :
              /\ owner' = [owner EXCEPT ![n] = call[r].sub]
              /\ missed' = missed \cup {q \in {n} : demo.step = "delete"}
        BY <2>1, <3>3, <4>1 DEF InsertProject
      <4>3. p = n
        BY <2>1, <3>3, <4>2 DEF TypeOK, TablesOK
      <4> QED
        BY <2>1, <4>2, <4>3
    <3> QED
      BY <3>2, <3>3
  <2> QED
    BY <1>2, <2>1, OwnersLost DEF IdsInv
<1>3. CASE demo' = NoDemo
  BY <1>3 DEF IdsInv, NoDemo
<1>4. CASE UNCHANGED <<users, owner, usedIds, usedProjects>>
           /\ ((\E command \in Commands : StartDemo(command)) \/ FindDemoUser
                 \/ \E w \in DemoPasswords : SeedUser(w))
  <2>1. ASSUME NEW command \in Commands, StartDemo(command)
        PROVE  demo'.step \notin {"delete", "commit"}
    BY <1>1, <2>1 DEF StartDemo, DemoStates
  <2>2. ASSUME FindDemoUser PROVE demo'.step \notin {"delete", "commit"}
    <3>1. ASSUME NEW i, demo' = [demo EXCEPT !.user = i,
                          !.step = IF demo.command = "reset" THEN "ids"
                                                             ELSE "user"]
          PROVE  demo'.step \in {"ids", "user"}
      BY <1>1, <3>1 DEF DemoStates
    <3>2. ASSUME demo' = [demo EXCEPT !.step = "user"] \/ demo' = NoDemo
          PROVE  demo'.step \in {"user", "idle"}
      BY <1>1, <3>2 DEF DemoStates, NoDemo
    <3> QED
      BY <2>2, <3>1, <3>2 DEF FindDemoUser
  <2>3. ASSUME NEW w \in DemoPasswords, SeedUser(w)
        PROVE  demo'.step \notin {"delete", "commit"}
    <3> DEFINE row == [email |-> DemoEmail, password |-> w]
    <3>1. ASSUME NEW i, demo' = [demo EXCEPT !.user = i, !.claims = i,
                                             !.row = row, !.step = "ids"]
          PROVE  demo'.step = "ids"
      BY <1>1, <3>1 DEF DemoStates
    <3>2. ASSUME demo' = [demo EXCEPT !.row = row, !.step = "ids"]
          PROVE  demo'.step = "ids"
      BY <1>1, <3>2 DEF DemoStates
    <3>3. demo' = NoDemo => demo'.step = "idle"
      BY DEF NoDemo
    <3> QED
      BY <2>3, <3>1, <3>2, <3>3 DEF SeedUser
  <2> QED
    BY <1>4, <2>1, <2>2, <2>3 DEF IdsInv
<1>5. CASE GetDemoProjectIds
  BY <1>1, <1>5 DEF GetDemoProjectIds, ProjectsOf, IdsInv, DemoStates
<1>6. CASE DeleteDemoProjects
  BY <1>1, <1>6 DEF DeleteDemoProjects, ProjectsOf, IdsInv, DemoStates
<1>7. CASE SeedCommits
  BY <1>3, <1>7 DEF SeedCommits
<1>8. CASE ResetCommits
  BY <1>1, <1>3, <1>8 DEF ResetCommits, IdsInv, DemoStates
<1> QED
  BY <1>2, <1>3, <1>4, <1>5, <1>6, <1>7, <1>8, DemoSteps

LEMMA LeftoversStep ==
  ASSUME TypeOK, EmailInv, DemoInv, KeysInv, IdsInv, LeftoversHaveACause,
         [Next]_vars
  PROVE  LeftoversHaveACause'
<1> SUFFICES ASSUME NEW i \in Ids, NEW p \in Projects,
                    <<i, p>> \in cached', owner'[p] = Absent, p \notin missed'
             PROVE  demo'.step = "purge" /\ i = demo'.user /\ p \in demo'.ids
  BY DEF LeftoversHaveACause
<1>1. demo \in DemoStates /\ p \notin missed
  BY OwnersLost DEF TypeOK, DemoOK
<1>2. <<i, p>> \in cached
  <2>1. ASSUME NEW r \in Reqs, CacheSet(r), <<i, p>> \notin cached PROVE FALSE
    <3>1. p = call[r].proj /\ owner[p] = Absent
      BY <2>1 DEF CacheSet
    <3> QED
      BY <2>1, <3>1 DEF CacheSet
  <2> QED
    BY <2>1, EntrySteps
       DEF InsertProject, Expire, SeedCommits, ResetCommits, DeleteDemoCacheKeys
<1>3. p \in usedProjects /\ (owner[p] = i \/ owner[p] = Absent)
  BY <1>2 DEF KeysInv
<1>4. CASE owner[p] # Absent
  <2>1. SeedCommits \/ ResetCommits
    <3>1. ASSUME NEW r \in Reqs, InsertProject(r) PROVE owner'[p] = owner[p]
      BY <1>3, <3>1 DEF InsertProject, TypeOK, TablesOK
    <3> QED
      BY <1>4, <3>1, EntrySteps DEF CacheSet, Expire, DeleteDemoCacheKeys
  <2>2. p \in demo.doomed /\ demo.step = "commit"
    BY <1>3, <1>4, <2>1 DEF SeedCommits, ResetCommits, TypeOK, DemoOK
  <2>3. CASE SeedCommits
    BY <2>2, <2>3 DEF SeedCommits
  <2>4. CASE ResetCommits
    <3>1. demo' = [demo EXCEPT !.step = "purge"]
      BY <1>4, <2>4 DEF ResetCommits
    <3>2. p \in demo.ids
      BY <1>1, <2>2 DEF IdsInv
    <3>3. i = demo.user
      BY <1>3, <1>4, <2>2 DEF DemoInv
    <3> QED
      BY <1>1, <3>1, <3>2, <3>3 DEF DemoStates
  <2> QED
    BY <2>1, <2>3, <2>4
<1>5. CASE owner[p] = Absent
  <2>1. demo.step = "purge" /\ i = demo.user /\ p \in demo.ids
    BY <1>1, <1>2, <1>5 DEF LeftoversHaveACause
  <2>2. ~DeleteDemoCacheKeys
    BY <2>1 DEF DeleteDemoCacheKeys
  <2>3. UNCHANGED demo
    <3>1. ASSUME NEW r \in Reqs, Accept(r) \/ Step(r) \/ DbError(r)
          PROVE  UNCHANGED demo
      BY <3>1
         DEF Step, Accept, Create, FindUser, Compare, Validate, FindById,
             InsertProject, CacheGet, FindDetail, CacheSet, Respond, DbError
    <3> QED
      BY <2>1, <2>2, <3>1
         DEF Next, Expire, DemoStep, DemoFails, StartDemo, FindDemoUser,
             SeedUser, GetDemoProjectIds, DeleteDemoProjects, SeedCommits,
             ResetCommits
  <2> QED
    BY <2>1, <2>3
<1> QED
  BY <1>4, <1>5

\* Whatever is created, read and cached while a command runs, the detail of a
\* project that is gone stays in Redis for one of four causes only; the keys
\* that a reset deletes are all the others.
THEOREM LeftoversAreCaused == Spec => []LeftoversHaveACause
<1>1. Init => KeysInv /\ IdsInv /\ LeftoversHaveACause
  BY DEF Init, KeysInv, Reads, IdsInv, NoDemo, LeftoversHaveACause
<1>2. TypeOK /\ EmailInv /\ DemoInv /\ KeysInv /\ IdsInv
        /\ LeftoversHaveACause /\ [Next]_vars =>
          KeysInv' /\ IdsInv' /\ LeftoversHaveACause'
  BY KeysStep, IdsStep, LeftoversStep
<1> QED
  BY <1>1, <1>2, AccountTypes, EmailsAlways, DemoInvAlways, PTL DEF Spec
=============================================================================
