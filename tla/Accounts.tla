------------------------------- MODULE Accounts -------------------------------
(***************************************************************************)
(* Registration, login and what a bearer token lets a client do, while an  *)
(* operator runs the demo-data commands, whose transactions replace or     *)
(* delete an account under the running API.  One action is what a handler  *)
(* or a command does from one await to the next.  A transaction of a       *)
(* command keeps its changes in "demo" until it commits; tasks follow      *)
(* their project by cascade and are left out.                              *)
(***************************************************************************)
EXTENDS Naturals, FiniteSets

CONSTANTS
  Ids,           \* the uuids a user may be given
  Projects,      \* the uuids a project may be given
  Addresses,     \* email addresses, whatever their spelling
  Passwords,
  DemoAddress,   \* DEMO_USER_EMAIL
  DemoPasswords, \* what DEMO_USER_PASSWORD may be set to
  Reqs,          \* the slots in which requests run
  Ops,           \* the operations clients call
  Commands,      \* the demo commands the operator runs: "seed", "reset"
  Faults,        \* what may fail: "db", "redis"
  Absent

ASSUME AccountsAssumption ==
  /\ DemoAddress \in Addresses
  /\ DemoPasswords \subseteq Passwords
  /\ Commands \subseteq {"seed", "reset"}
  /\ Faults \subseteq {"db", "redis"}

VARIABLES
  users,      \* the row of each user id, or Absent
  owner,      \* the owner of each project id; Absent if there is no row
  usedIds,    \* the uuids given to users so far
  usedProjects,
  cached,     \* <<user, project>>: the detail entries in Redis
  tokens,     \* the subjects of the tokens issued so far
  pc, call,   \* the call the handler of a slot waits for, and its request
  found,      \* the user row login read, with its id
  reply,      \* the status code and the user id it answers with
  demo,       \* the demo command that is running
  had,        \* history: <<id, email, password>> a user row has had
  missed,     \* history: projects whose cached detail no command will delete
  late        \* history, per slot: which of "user" and "project", as the
              \* request names them, had lost its row before it came

tables == <<users, owner, usedIds, usedProjects>>
reqVars == <<pc, call, found, reply>>
vars == <<tables, cached, tokens, reqVars, demo, had, missed, late>>

-----------------------------------------------------------------------------
\* Emails and rows.

Spellings == [address : Addresses, loud : BOOLEAN]

\* Mutant: only the surrounding space is removed.
BugTrimOnly(email) == email

\* trim and lower case: one spelling is left of an address.
normalizeEmail(email) == [email EXCEPT !.loud = FALSE]

\* getDemoEmail
DemoEmail == normalizeEmail([address |-> DemoAddress, loud |-> TRUE])

UserRows == [email : Spellings, password : Passwords]

ASSUME AbsentIsNoRow == Absent \notin Ids \cup Projects \cup UserRows

FindByEmail(email) ==
  {i \in Ids : users[i] # Absent /\ users[i].email = email}

\* Mutant: the projects are not looked up by owner.
BugProjectsOfAnyone(i) == {p \in Projects : owner[p] # Absent}

ProjectsOf(i) == {p \in Projects : owner[p] = i}

InsertUserRow(i, row) ==
  /\ users' = [users EXCEPT ![i] = row]
  /\ usedIds' = usedIds \cup {i}
  /\ had' = had \cup {<<i, row.email, row.password>>}

-----------------------------------------------------------------------------
\* Requests.

CallsOf(ops, emails, passwords, subs, ps) ==
  [op : ops \cap Ops, email : emails, password : passwords, sub : subs,
   proj : ps]

RequestsFor(subs, ps) ==
  CallsOf({"register", "login"}, Spellings, Passwords, {Absent}, {Absent})
    \cup CallsOf({"me", "createProject"}, {Absent}, {Absent}, subs, {Absent})
    \cup CallsOf({"getDetail"}, {Absent}, {Absent}, subs, ps)

\* Requests that pass validation, with the email as the client spells it, a
\* token the API has signed and a uuid it has shown.
Requests == RequestsFor(tokens, usedProjects)
Calls == RequestsFor(Ids, Projects)

Replies == [code : {0, 200, 201, 401, 404, 409, 500},
            user : Ids \cup {Absent}]
NoReply == [code |-> 0, user |-> Absent]

Found == [id : Ids, password : Passwords]

FirstCall(op) ==
  CASE op = "register" -> "create"
    [] op = "login" -> "findByEmail"
    [] OTHER -> "validate"

CallAfterValidate(op) ==
  CASE op = "me" -> "findById"
    [] op = "createProject" -> "insert"
    [] OTHER -> "cacheGet"

TokenLabels == {"validate", "findById", "insert", "cacheGet", "findDetail",
                "cacheSet"}
DetailLabels == {"cacheGet", "findDetail", "cacheSet"}
Labels == {"idle", "create", "findByEmail", "compare", "done"} \cup TokenLabels

Goto(r, label) == pc' = [pc EXCEPT ![r] = label]

Finish(r, code, i) ==
  /\ Goto(r, "done")
  /\ reply' = [reply EXCEPT ![r] = [code |-> code, user |-> i]]
  /\ found' = [found EXCEPT ![r] = Absent]
  /\ UNCHANGED call

\* A bound, not a guard of the code: uuids are left for everything under way.
InFlight(op) == {r \in Reqs : pc[r] \notin {"idle", "done"} /\ call[r].op = op}
UuidsLeft ==
  /\ Cardinality(InFlight("register")) + 1 < Cardinality(Ids \ usedIds)
  /\ Cardinality(InFlight("createProject")) + 1 < Cardinality(Projects \ usedProjects)

Gone(c) ==
  {what \in {"user", "project"} :
     \/ what = "user" /\ c.sub # Absent /\ users[c.sub] = Absent
     \/ what = "project" /\ c.proj # Absent /\ owner[c.proj] = Absent}

Accept(r) ==
  /\ pc[r] = "idle"
  /\ \E c \in Requests :
       /\ c.op \in {"register", "createProject"} => UuidsLeft
       /\ Goto(r, FirstCall(c.op))
       /\ call' = [call EXCEPT ![r] = c]
       /\ late' = [late EXCEPT ![r] = Gone(c)]
  /\ UNCHANGED <<tables, cached, tokens, found, reply, demo, had, missed>>

Respond(r) ==
  /\ pc[r] = "done"
  /\ Goto(r, "idle")
  /\ call' = [call EXCEPT ![r] = Absent]
  /\ reply' = [reply EXCEPT ![r] = NoReply]
  /\ late' = [late EXCEPT ![r] = {}]
  /\ UNCHANGED <<tables, cached, tokens, found, demo, had, missed>>

-----------------------------------------------------------------------------
\* Register and login.

\* Mutant: a conflict is retried until the email is free.
BugRetriesConflict(email) ==
  \/ demo.claims # Absent /\ demo.row.email = email
  \/ FindByEmail(email) # {}

\* An uncommitted INSERT of the same email makes this one wait for its end.
Claimed(email) == demo.claims # Absent /\ demo.row.email = email

\* UQ_users_email
EmailTaken(email) == FindByEmail(email) # {}

Create(r) ==
  /\ pc[r] = "create"
  /\ LET email == normalizeEmail(call[r].email)
     IN /\ ~Claimed(email)
        /\ \/ /\ ~EmailTaken(email)
              /\ \E i \in Ids \ (usedIds \cup {demo.claims}) :
                   /\ InsertUserRow(i, [email |-> email,
                                        password |-> call[r].password])
                   /\ Finish(r, 201, i)
           \/ /\ EmailTaken(email)
              /\ Finish(r, 409, Absent)
              /\ UNCHANGED <<users, usedIds, had>>
  /\ UNCHANGED <<owner, usedProjects, cached, tokens, demo, missed, late>>

FindUser(r) ==
  /\ pc[r] = "findByEmail"
  /\ LET matches == FindByEmail(normalizeEmail(call[r].email))
     IN \/ /\ matches = {}
           /\ Finish(r, 401, Absent)
        \/ \E i \in matches :
             /\ Goto(r, "compare")
             /\ found' = [found EXCEPT ![r] =
                            [id |-> i, password |-> users[i].password]]
             /\ UNCHANGED <<call, reply>>
  /\ UNCHANGED <<tables, cached, tokens, demo, had, missed, late>>

\* Mutant: the outcome of compare() is not awaited, and so always truthy.
BugCompareNotAwaited(r) ==
  /\ pc[r] = "compare"
  /\ tokens' = tokens \cup {found[r].id}
  /\ Finish(r, 200, found[r].id)
  /\ UNCHANGED <<tables, cached, demo, had, missed, late>>

\* The row was read before the hash was compared, and may be gone by now.
Compare(r) ==
  /\ pc[r] = "compare"
  /\ \/ /\ found[r].password = call[r].password
        /\ tokens' = tokens \cup {found[r].id}
        /\ Finish(r, 200, found[r].id)
     \/ /\ found[r].password # call[r].password
        /\ Finish(r, 401, Absent)
        /\ UNCHANGED tokens
  /\ UNCHANGED <<tables, cached, demo, had, missed, late>>

-----------------------------------------------------------------------------
\* What a token is for.

\* Mutant: a signed token is enough.
BugTrustsToken(r) ==
  /\ pc[r] = "validate"
  /\ Goto(r, CallAfterValidate(call[r].op))
  /\ UNCHANGED <<tables, cached, tokens, call, found, reply, demo, had, missed, late>>

\* JwtStrategy.validate: whatever goes wrong here is a 401.
Validate(r) ==
  /\ pc[r] = "validate"
  /\ \/ /\ users[call[r].sub] # Absent
        /\ Goto(r, CallAfterValidate(call[r].op))
        /\ UNCHANGED <<call, found, reply>>
     \/ /\ users[call[r].sub] = Absent \/ "db" \in Faults
        /\ Finish(r, 401, Absent)
  /\ UNCHANGED <<tables, cached, tokens, demo, had, missed, late>>

\* GET /auth/me reads the user a second time.
FindById(r) ==
  /\ pc[r] = "findById"
  /\ IF users[call[r].sub] # Absent THEN Finish(r, 200, call[r].sub)
                                    ELSE Finish(r, 404, Absent)
  /\ UNCHANGED <<tables, cached, tokens, demo, had, missed, late>>

\* FK_projects_owner_id_users_id
OwnerExists(i) == users[i] # Absent

InsertProject(r) ==
  /\ pc[r] = "insert"
  /\ LET i == call[r].sub
     IN \/ /\ OwnerExists(i)
           /\ \E p \in Projects \ usedProjects :
                /\ owner' = [owner EXCEPT ![p] = i]
                /\ usedProjects' = usedProjects \cup {p}
                /\ missed' = missed \cup {q \in {p} : demo.step = "delete"}
           /\ Finish(r, 201, i)
        \/ /\ ~OwnerExists(i)
           /\ Finish(r, 500, Absent)
           /\ UNCHANGED <<owner, usedProjects, missed>>
  /\ UNCHANGED <<users, usedIds, cached, tokens, demo, had, late>>

CacheGet(r) ==
  /\ pc[r] = "cacheGet"
  /\ IF <<call[r].sub, call[r].proj>> \in cached
     THEN Finish(r, 200, call[r].sub)
     ELSE Goto(r, "findDetail") /\ UNCHANGED <<call, found, reply>>
  /\ UNCHANGED <<tables, cached, tokens, demo, had, missed, late>>

FindDetail(r) ==
  /\ pc[r] = "findDetail"
  /\ IF owner[call[r].proj] = call[r].sub
     THEN Goto(r, "cacheSet") /\ UNCHANGED <<call, found, reply>>
     ELSE Finish(r, 404, Absent)
  /\ UNCHANGED <<tables, cached, tokens, demo, had, missed, late>>

CacheSet(r) ==
  /\ pc[r] = "cacheSet"
  /\ cached' = cached \cup {<<call[r].sub, call[r].proj>>}
  /\ missed' = missed \cup {p \in {call[r].proj} : owner[p] = Absent}
  /\ Finish(r, 200, call[r].sub)
  /\ UNCHANGED <<tables, tokens, demo, had, late>>

DbError(r) ==
  /\ "db" \in Faults
  /\ pc[r] \in {"create", "findByEmail", "findById", "insert", "findDetail"}
  /\ Finish(r, 500, Absent)
  /\ UNCHANGED <<tables, cached, tokens, demo, had, missed, late>>

\* The TTL of an entry runs out.
Expire(entry) ==
  /\ entry \in cached
  /\ cached' = cached \ {entry}
  /\ UNCHANGED <<tables, tokens, reqVars, demo, had, missed, late>>

-----------------------------------------------------------------------------
\* The demo commands.

NoDemo == [step |-> "idle", command |-> Absent, user |-> Absent,
           claims |-> Absent, row |-> Absent, ids |-> {}, doomed |-> {}]

DemoStates ==
  [step : {"idle", "find", "user", "ids", "delete", "commit", "purge"},
   command : {"seed", "reset", Absent}, user : Ids \cup {Absent},
   claims : Ids \cup {Absent}, row : UserRows \cup {Absent},
   ids : SUBSET Projects, doomed : SUBSET Projects]

demoUnchanged == <<cached, tokens, reqVars, late>>

\* The operator runs one command at a time.
StartDemo(command) ==
  /\ demo.step = "idle"
  /\ UuidsLeft
  /\ demo' = [demo EXCEPT !.step = "find", !.command = command]
  /\ UNCHANGED <<tables, had, missed, demoUnchanged>>

\* findDemoUser; a reset that finds none is done.
FindDemoUser ==
  /\ demo.step = "find"
  /\ LET matches == FindByEmail(DemoEmail)
     IN \/ /\ matches = {}
           /\ demo' = IF demo.command = "reset" THEN NoDemo
                      ELSE [demo EXCEPT !.step = "user"]
        \/ \E i \in matches :
             demo' = [demo EXCEPT !.user = i,
                        !.step = IF demo.command = "reset" THEN "ids"
                                                           ELSE "user"]
  /\ UNCHANGED <<tables, had, missed, demoUnchanged>>

\* seed inserts the user, which UQ_users_email may reject by now, or gives
\* the one it found the configured password.
SeedUser(password) ==
  /\ demo.step = "user"
  /\ LET row == [email |-> DemoEmail, password |-> password]
     IN \/ /\ demo.user = Absent
           /\ ~EmailTaken(DemoEmail)
           /\ \E i \in Ids \ usedIds :
                demo' = [demo EXCEPT !.user = i, !.claims = i, !.row = row,
                                     !.step = "ids"]
        \/ /\ demo.user = Absent
           /\ EmailTaken(DemoEmail)
           /\ demo' = NoDemo
        \/ /\ demo.user # Absent
           /\ demo' = [demo EXCEPT !.row = row, !.step = "ids"]
  /\ UNCHANGED <<tables, had, missed, demoUnchanged>>

\* Mutant: the ids are read once the projects are deleted.
BugIdsOfNothing ==
  /\ demo.step = "ids"
  /\ demo' = [demo EXCEPT !.step = "delete"]
  /\ UNCHANGED <<tables, had, missed, demoUnchanged>>

GetDemoProjectIds ==
  /\ demo.step = "ids"
  /\ demo' = [demo EXCEPT !.ids = ProjectsOf(demo.user), !.step = "delete"]
  /\ UNCHANGED <<tables, had, missed, demoUnchanged>>

DeleteDemoProjects ==
  /\ demo.step = "delete"
  /\ demo' = [demo EXCEPT !.doomed = ProjectsOf(demo.user), !.step = "commit"]
  /\ UNCHANGED <<tables, had, missed, demoUnchanged>>

\* The new projects of a seed are one here; then the transaction commits.  A
\* seed deletes no cache key.
SeedCommits ==
  /\ demo.step = "commit"
  /\ demo.command = "seed"
  /\ InsertUserRow(demo.user, demo.row)
  /\ \E p \in Projects \ usedProjects :
       /\ owner' = [q \in Projects |->
            IF q = p THEN demo.user
            ELSE IF q \in demo.doomed THEN Absent ELSE owner[q]]
       /\ usedProjects' = usedProjects \cup {p}
  /\ missed' = missed \cup demo.doomed
  /\ demo' = NoDemo
  /\ UNCHANGED demoUnchanged

\* Mutant: the foreign key does not restrict.
BugDeletesOwner(i) == TRUE

\* FK_projects_owner_id_users_id ON DELETE RESTRICT: a project the API has
\* committed since the projects were deleted still refers to the user.
UserDeletable(i) == ProjectsOf(i) \subseteq demo.doomed

ResetCommits ==
  /\ demo.step = "commit"
  /\ demo.command = "reset"
  /\ \/ /\ UserDeletable(demo.user)
        /\ users' = [users EXCEPT ![demo.user] = Absent]
        /\ owner' = [q \in Projects |->
             IF q \in demo.doomed THEN Absent ELSE owner[q]]
        /\ demo' = [demo EXCEPT !.step = "purge"]
     \/ /\ ~UserDeletable(demo.user)
        /\ demo' = NoDemo
        /\ UNCHANGED <<users, owner>>
  /\ UNCHANGED <<usedIds, usedProjects, had, missed, demoUnchanged>>

\* deleteDemoCacheKeys, best effort: for the ids read, not those deleted.
DeleteDemoCacheKeys ==
  /\ demo.step = "purge"
  /\ \/ /\ cached' = cached \ ({demo.user} \X demo.ids)
        /\ UNCHANGED missed
     \/ /\ "redis" \in Faults
        /\ missed' = missed \cup demo.ids
        /\ UNCHANGED cached
  /\ demo' = NoDemo
  /\ UNCHANGED <<tables, tokens, reqVars, had, late>>

\* A failed statement or a killed command rolls the transaction back.
DemoFails ==
  /\ "db" \in Faults
  /\ demo.step \notin {"idle", "purge"}
  /\ demo' = NoDemo
  /\ UNCHANGED <<tables, had, missed, demoUnchanged>>

-----------------------------------------------------------------------------
Init ==
  /\ users = [i \in Ids |-> Absent]
  /\ owner = [p \in Projects |-> Absent]
  /\ usedIds = {}
  /\ usedProjects = {}
  /\ cached = {}
  /\ tokens = {}
  /\ pc = [r \in Reqs |-> "idle"]
  /\ call = [r \in Reqs |-> Absent]
  /\ found = [r \in Reqs |-> Absent]
  /\ reply = [r \in Reqs |-> NoReply]
  /\ demo = NoDemo
  /\ had = {}
  /\ missed = {}
  /\ late = [r \in Reqs |-> {}]

Step(r) ==
  \/ Create(r) \/ FindUser(r) \/ Compare(r)
  \/ Validate(r) \/ FindById(r) \/ InsertProject(r)
  \/ CacheGet(r) \/ FindDetail(r) \/ CacheSet(r)
  \/ Respond(r)

DemoStep ==
  \/ FindDemoUser \/ (\E w \in DemoPasswords : SeedUser(w))
  \/ GetDemoProjectIds \/ DeleteDemoProjects
  \/ SeedCommits \/ ResetCommits \/ DeleteDemoCacheKeys

Next ==
  \/ \E r \in Reqs : Accept(r) \/ Step(r) \/ DbError(r)
  \/ \E entry \in Ids \X Projects : Expire(entry)
  \/ (\E command \in Commands : StartDemo(command))
  \/ DemoStep \/ DemoFails

Spec == Init /\ [][Next]_vars

\* Node runs every handler whose awaited call has settled, a command runs to
\* its end, and PostgreSQL wakes the INSERT that waits for a claimed email
\* whenever the claim ends.
Fairness ==
  /\ \A r \in Reqs : WF_vars(Step(r)) /\ SF_vars(Create(r))
  /\ WF_vars(DemoStep)

FairSpec == Spec /\ Fairness

-----------------------------------------------------------------------------
\* Every variable has its type, and a handler waits only for calls of its
\* own operation, with the user and the project they need.
TablesOK ==
  /\ users \in [Ids -> UserRows \cup {Absent}]
  /\ owner \in [Projects -> Ids \cup {Absent}]
  /\ usedIds \subseteq Ids
  /\ usedProjects \subseteq Projects
  /\ cached \subseteq Ids \X Projects
  /\ tokens \subseteq Ids
  /\ had \subseteq Ids \X Spellings \X Passwords
  /\ missed \subseteq Projects

RequestOK(r) ==
  /\ pc[r] # "idle" => call[r] \in Calls
  /\ pc[r] = "create" => call[r].op = "register"
  /\ pc[r] \in {"findByEmail", "compare"} => call[r].op = "login"
  /\ pc[r] \in TokenLabels => call[r].sub \in Ids
  /\ pc[r] \in DetailLabels => call[r].proj \in Projects
  /\ pc[r] = "compare" => found[r] \in Found

RequestsOK ==
  /\ pc \in [Reqs -> Labels]
  /\ call \in [Reqs -> Calls \cup {Absent}]
  /\ found \in [Reqs -> Found \cup {Absent}]
  /\ reply \in [Reqs -> Replies]
  /\ late \in [Reqs -> SUBSET {"user", "project"}]
  /\ \A r \in Reqs : RequestOK(r)

DemoOK ==
  /\ demo \in DemoStates
  /\ demo.step \in {"ids", "delete", "commit", "purge"} => demo.user \in Ids
  /\ demo.step \in {"ids", "delete", "commit"} /\ demo.command = "seed" =>
       demo.row \in UserRows

TypeOK == TablesOK /\ RequestsOK /\ DemoOK

\* At no time do two users have one email address, however it is spelled,
\* whether they come from concurrent registrations or from a demo seed.
OneUserPerEmail ==
  \A i, j \in Ids :
    users[i] # Absent /\ users[j] # Absent /\ i # j =>
      users[i].email.address # users[j].email.address

\* Every project has its owner, though the demo commands delete users while
\* the API creates projects for them: a reset is all or nothing.
NoOwnerlessProject ==
  \A p \in Projects : owner[p] # Absent => users[owner[p]] # Absent

\* A login is answered with a token only for a user who has had that email
\* and that password, though the row may change while the hash is compared.
TokenNeedsPassword ==
  \A r \in Reqs :
    pc[r] = "done" /\ call[r].op = "login" /\ reply[r].code = 200 =>
      <<reply[r].user, normalizeEmail(call[r].email), call[r].password>> \in had

\* A token whose user was gone when the request came is answered with 401,
\* also where the cache still holds that user's details (authentication.md);
\* and as GET /auth/me reads the user twice, it is answered with 404 if the
\* user has gone between the two, but only then.
GoneUserGets401 ==
  \A r \in Reqs : pc[r] = "done" =>
    /\ "user" \in late[r] => reply[r].code = 401
    /\ call[r].op = "me" /\ reply[r].code = 404 => users[call[r].sub] = Absent

\* No step of a demo command changes a user other than the demo user, or a
\* project of somebody else (README: reset deletes only the demo user and
\* that user's projects and tasks).
Demo(row) == row # Absent => row.email.address = DemoAddress
OnlyDemoDataTouched ==
  [][demo' # demo =>
       /\ \A i \in Ids : users'[i] # users[i] => Demo(users[i]) /\ Demo(users'[i])
       /\ \A p \in Projects : owner'[p] # owner[p] =>
            /\ owner[p] # Absent => Demo(users[owner[p]])
            /\ owner'[p] # Absent => Demo(users'[owner'[p]])]_vars

\* Every request is answered, and every demo command ends, though each may
\* have to wait for what the other has not committed.
NobodyWaitsForEver ==
  /\ \A r \in Reqs : pc[r] # "idle" ~> pc[r] = "idle"
  /\ demo.step # "idle" ~> demo.step = "idle"

\* The detail of a project that is gone stays in Redis only if a seed, which
\* deletes no cache key, has replaced the project, if it was created between
\* the two statements that read the ids and delete the rows, if a read that
\* was under way set the entry after the delete, or if Redis failed the purge:
\* all others go with the keys of the reset, which are those of the ids read.
LeftoversHaveACause ==
  \A i \in Ids, p \in Projects :
    <<i, p>> \in cached /\ owner[p] = Absent =>
      \/ p \in missed
      \/ demo.step = "purge" /\ i = demo.user /\ p \in demo.ids
=============================================================================
