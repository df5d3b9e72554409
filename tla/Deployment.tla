------------------------------ MODULE Deployment ------------------------------
(***************************************************************************)
(* Processes that share their environment variables, a PostgreSQL server   *)
(* and a Redis: the API, the end-to-end suites, and the demo commands,     *)
(* which read the raw variables where the API reads the validated ones.    *)
(* NODE_ENV is each process's own: the suites default it to "test" but do  *)
(* not insist.  A variable is Unset, or a text that may be padded with     *)
(* blanks.                                                                 *)
(***************************************************************************)
EXTENDS Naturals

CONSTANTS
  Processes,      \* processes of the application, or test runs
  Projects,       \* ids of demo projects: none is used twice
  Environments,   \* the environment files to look at
  Names,          \* the texts of database names in them
  Namespaces,     \* the texts that match the pattern of REDIS_NAMESPACE
  Unset

Allowed == "nestjs_challenge"
NodeEnvironments == {"development", "test", "production"}
Databases == Names \cup {Allowed, "nestjs_challenge_test"}

Text(set) == {Unset} \cup [text : set, padded : BOOLEAN]

ASSUME DeploymentAssumption ==
  /\ Unset \notin Projects \cup [text : STRING, padded : BOOLEAN] \cup STRING
  /\ Projects \cap {"client", "test"} = {}
  /\ \A e \in Environments :
       /\ e.DATABASE_NAME \in Text(Names)
       /\ e.DATABASE_TEST_NAME \in Text(Names)
       /\ e.REDIS_NAMESPACE \in Text(STRING)

VARIABLES
  env,     \* the shared variables
  mode,    \* the NODE_ENV a process was started with, "off" if it is not up
  suites,  \* the processes that are test runs
  rows,    \* what is in each database: demo projects, and rows of whom
  keys,    \* the cache keys in Redis
  reading, \* the details a process has read and has not yet cached
  purging, \* the reset that has committed, with the ids of its projects
  (* History that no guard but Seed's reads. *)
  purged,    \* the projects whose keys a reset has deleted
  overtaken, \* those of them a process had read and not yet cached
  astray     \* "suite": one ran under another NODE_ENV than "test";
             \* "application": one ran under "test"

history == <<purged, overtaken, astray>>
vars == <<env, mode, suites, rows, keys, reading, purging, history>>

-----------------------------------------------------------------------------
\* environment.validation.ts and database.config.ts.

Plain(text) == [text |-> text, padded |-> FALSE]
Or(value, default) == IF value = Unset THEN default ELSE value
Given(value, default) == Or(value, Plain(default)).text

\* Joi trims the names and reads booleans in any case; NODE_ENV must be exact.
Config(nodeEnv, e) ==
  [nodeEnv   |-> Or(nodeEnv, "development"),
   name      |-> Given(e.DATABASE_NAME, Allowed),
   testName  |-> Given(e.DATABASE_TEST_NAME, "nestjs_challenge_test"),
   namespace |-> Given(e.REDIS_NAMESPACE, "nestjs-challenge"),
   cache     |-> e.CACHE_ENABLED \in {"true", "TRUE"}]

\* "sound" stands for the ports, limits, secret, prefix and CORS origins.
SchemaAccepts(nodeEnv, e) ==
  /\ Or(nodeEnv, "development") \in NodeEnvironments
  /\ e.CACHE_ENABLED \in {Unset, "true", "TRUE", "false"}
  /\ Config(nodeEnv, e).namespace \in Namespaces
  /\ e.sound

validateEnvironment(nodeEnv, e) ==
  LET c == Config(nodeEnv, e)
  IN SchemaAccepts(nodeEnv, e) /\ (c.nodeEnv = "test" => c.testName # c.name)

\* Mutant: tests open the database of the application.
BugOneDatabase(c) == c.name

\* The database buildDataSourceOptions() names ...
Database(c) == IF c.nodeEnv = "test" THEN c.testName ELSE c.name

\* ... unless it throws.
OptionsBuildable(c) == c.nodeEnv = "test" => c.testName # c.name

Startable(nodeEnv) ==
  validateEnvironment(nodeEnv, env) /\ OptionsBuildable(Config(nodeEnv, env))

Opened(nodeEnv) == Database(Config(nodeEnv, env))

\* RedisNamespaceService.base: cache keys and the queue prefix begin with it.
Base(c) == <<Plain(c.namespace), c.nodeEnv>>

-----------------------------------------------------------------------------
\* The processes.

Up(p) == mode[p] # "off"
Conf(p) == Config(mode[p], env)

Run(p, nodeEnv) ==
  /\ ~Up(p)
  /\ Startable(nodeEnv)
  /\ mode' = [mode EXCEPT ![p] = nodeEnv]
  /\ UNCHANGED <<env, rows, keys, reading, purging, purged, overtaken>>

AsTest(nodeEnv) == Or(nodeEnv, "development") = "test"

StartApplication(p, nodeEnv) ==
  /\ Run(p, nodeEnv)
  /\ astray' = IF AsTest(nodeEnv) THEN astray \cup {"application"} ELSE astray
  /\ suites' = suites \ {p}

\* setup-database-env.ts sets NODE_ENV, and the other variables, only where
\* they are missing, and to what the schema defaults the others to.
StartSuite(p, nodeEnv) ==
  /\ Run(p, Or(nodeEnv, "test"))
  /\ suites' = suites \cup {p}
  /\ astray' = IF AsTest(Or(nodeEnv, "test")) THEN astray
                                             ELSE astray \cup {"suite"}

Stop(p) ==
  /\ Up(p)
  /\ mode' = [mode EXCEPT ![p] = "off"]
  /\ suites' = suites \ {p}
  /\ reading' = [reading EXCEPT ![p] = {}]
  /\ UNCHANGED <<env, rows, keys, purging, history>>

\* Rows of clients, or of the suites, whatever NODE_ENV they run under.
Write(p) ==
  /\ Up(p)
  /\ rows' = [rows EXCEPT ![Database(Conf(p))] =
       @ \cup {IF p \in suites THEN "test" ELSE "client"}]
  /\ UNCHANGED <<env, mode, suites, keys, reading, purging, history>>

\* Mutant: the database the suite is connected to is cleaned.
BugCleansWhatIsOpen(current) == TRUE

\* cleanTestDatabase() compares the raw names with current_database();
\* setup-database-env.ts has set the ones that were missing.
Cleanable(current) ==
  /\ Or(env.DATABASE_TEST_NAME, Plain("nestjs_challenge_test")) = Plain(current)
  /\ Or(env.DATABASE_NAME, Plain(Allowed)) # Plain(current)

CleanTestDatabase(p) ==
  /\ Up(p)
  /\ p \in suites
  /\ Cleanable(Database(Conf(p)))
  /\ rows' = [rows EXCEPT ![Database(Conf(p))] = {}]
  /\ UNCHANGED <<env, mode, suites, keys, reading, purging, history>>

\* getDetail() reads a project from the database of its process ...
FindDetail(p, x) ==
  /\ Up(p)
  /\ Conf(p).cache
  /\ x \in rows[Database(Conf(p))]
  /\ reading' = [reading EXCEPT ![p] = @ \cup {x}]
  /\ UNCHANGED <<env, mode, suites, rows, keys, purging, history>>

\* ... and, an await later, puts it under the key its process builds.
CacheDetail(p, x) ==
  /\ x \in reading[p]
  /\ keys' = keys \cup {<<Base(Conf(p)), x>>}
  /\ reading' = [reading EXCEPT ![p] = @ \ {x}]
  /\ UNCHANGED <<env, mode, suites, rows, purging, history>>

-----------------------------------------------------------------------------
\* The demo commands, which data-source.ts keeps from invalid environments.

\* Mutant: what the variables say of the database is believed.
BugTrustsName(nodeEnv) ==
  /\ Startable(nodeEnv)
  /\ nodeEnv # "production"
  /\ Or(env.DATABASE_NAME, Plain(Allowed)) = Plain(Allowed)

\* assertSafeDatabase(): NODE_ENV, the raw name, and current_database().
SafeDatabase(nodeEnv) ==
  /\ Startable(nodeEnv)
  /\ nodeEnv # "production"
  /\ Or(env.DATABASE_NAME, Plain(Allowed)) = Plain(Allowed)
  /\ Opened(nodeEnv) = Allowed

\* No reset waits for its keys to be deleted.  One command runs at a time.
NoReset == [nodeEnv |-> Unset, ids |-> {}]

\* The projects of the seed replace those of the one before.
Seed(nodeEnv, x) ==
  /\ purging = NoReset
  /\ SafeDatabase(nodeEnv)
  /\ x \notin purged \cup UNION {rows[db] : db \in Databases}
  /\ rows' = [rows EXCEPT ![Opened(nodeEnv)] = (@ \ Projects) \cup {x}]
  /\ UNCHANGED <<env, mode, suites, keys, reading, purging, history>>

\* Mutant: NODE_ENV has no default.
BugNoDefault(nodeEnv, x) ==
  <<<<Or(env.REDIS_NAMESPACE, Plain("nestjs-challenge")), nodeEnv>>, x>>

\* projectDetailCacheKey() of the commands, from the raw variables.
DemoKey(nodeEnv, x) ==
  <<<<Or(env.REDIS_NAMESPACE, Plain("nestjs-challenge")),
      Or(nodeEnv, "development")>>, x>>

\* The transaction of a reset has deleted the demo projects; it remembers them.
ResetCommits(nodeEnv) ==
  /\ purging = NoReset
  /\ SafeDatabase(nodeEnv)
  /\ LET db == Opened(nodeEnv)
         gone == rows[db] \cap Projects
     IN /\ gone # {}
        /\ rows' = [rows EXCEPT ![db] = @ \ gone]
        /\ purging' = [nodeEnv |-> nodeEnv, ids |-> gone]
  /\ UNCHANGED <<env, mode, suites, keys, reading, history>>

\* Then it connects to Redis, where the keys are deleted only if CACHE_ENABLED
\* is spelled "true" and Redis answers.
DeleteDemoCacheKeys ==
  /\ purging.ids # {}
  /\ \/ UNCHANGED <<keys, purged, overtaken>>
     \/ /\ env.CACHE_ENABLED = "true"
        /\ keys' = keys \ {DemoKey(purging.nodeEnv, x) : x \in purging.ids}
        /\ purged' = purged \cup purging.ids
        /\ overtaken' = overtaken \cup
             {x \in purging.ids : \E p \in Processes : x \in reading[p]}
  /\ purging' = NoReset
  /\ UNCHANGED <<env, mode, suites, rows, reading, astray>>

-----------------------------------------------------------------------------
NodeEnvs == NodeEnvironments \cup {Unset, "staging"}

Init ==
  /\ env \in Environments
  /\ mode = [p \in Processes |-> "off"]
  /\ suites = {}
  /\ rows = [db \in Databases |-> {}]
  /\ keys = {}
  /\ reading = [p \in Processes |-> {}]
  /\ purging = NoReset
  /\ purged = {}
  /\ overtaken = {}
  /\ astray = {}

Next ==
  \/ \E p \in Processes :
       \/ \E nodeEnv \in NodeEnvs :
            StartApplication(p, nodeEnv) \/ StartSuite(p, nodeEnv)
       \/ Stop(p) \/ Write(p) \/ CleanTestDatabase(p)
       \/ \E x \in Projects : FindDetail(p, x) \/ CacheDetail(p, x)
  \/ \E nodeEnv \in NodeEnvs :
       ResetCommits(nodeEnv) \/ \E x \in Projects : Seed(nodeEnv, x)
  \/ DeleteDemoCacheKeys

Spec == Init /\ [][Next]_vars

-----------------------------------------------------------------------------
\* Every variable has its type; what is up has an environment that the schema
\* and the rules across variables accept.
TypeOK ==
  /\ env \in Environments
  /\ \A p \in Processes :
       Up(p) => mode[p] \in NodeEnvironments \cup {Unset} /\ Startable(mode[p])
  /\ suites \subseteq Processes
  /\ rows \in [Databases -> SUBSET (Projects \cup {"client", "test"})]
  /\ \A entry \in keys : entry[2] \in Projects
  /\ reading \in [Processes -> SUBSET Projects]
  /\ purging \in [nodeEnv : NodeEnvs, ids : SUBSET Projects]
  /\ overtaken \subseteq purged /\ purged \subseteq Projects
  /\ astray \subseteq {"suite", "application"}

ApplicationDatabase == Config(Unset, env).name

\* Whatever NODE_ENV and names the operator has set, demo projects are in the
\* one database the commands are for, and never beside rows of suites -- but
\* for suites that were run under the NODE_ENV of an application.
DemoStaysInItsDatabase ==
  \A db \in Databases : rows[db] \cap Projects # {} =>
    /\ db = Allowed
    /\ "test" \in rows[db] => "suite" \in astray

\* Rows of clients and of suites meet in the application's database only if
\* suites were run under another NODE_ENV than "test", which their setup file
\* does not force, and in another one only if an application was run under
\* "test" (schema.md: validation fails if the names are the same in test mode).
TestRowsApart ==
  \A db \in Databases : {"client", "test"} \subseteq rows[db] =>
    IF db = ApplicationDatabase THEN "suite" \in astray
                                ELSE "application" \in astray

\* Suites that run under another NODE_ENV than "test" beside a padded name.
Misconfigured ==
  /\ env.DATABASE_NAME # Unset /\ env.DATABASE_NAME.padded
  /\ \E p \in suites : Up(p) /\ ~AsTest(mode[p])

\* Nothing deletes the rows of clients: not the demo commands, and not the
\* suites, whatever NODE_ENV they run under, as long as the name is not padded.
\* What an application run under "test" has written is in the suites' database
\* and is theirs to delete.
ClientRowsStay ==
  [][\A db \in Databases : "client" \in rows[db] =>
       \/ "client" \in rows'[db]
       \/ db = ApplicationDatabase /\ Misconfigured
       \/ db # ApplicationDatabase /\ "application" \in astray]_vars

SpelledPlainly ==
  env.REDIS_NAMESPACE # Unset => ~env.REDIS_NAMESPACE.padded

\* When a reset has deleted the keys of its projects, no process of that
\* environment finds one later, though command and service build the key each
\* in its own way -- but for a detail that a process had read before and caches
\* after the keys were deleted, which stays for its TTL.
PurgeReachesTheCache ==
  SpelledPlainly =>
    \A p \in Processes, x \in purged \ overtaken :
      Up(p) /\ Conf(p).nodeEnv = "development" => <<Base(Conf(p)), x>> \notin keys
=============================================================================
