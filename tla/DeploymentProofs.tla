--------------------------- MODULE DeploymentProofs ---------------------------
(***************************************************************************)
(* What validateEnvironment, the names of the databases and the prefixes   *)
(* in Redis keep apart, for any environment files, processes and projects. *)
(* The variables never change while a deployment runs, so its rules give a *)
(* place to every row: the application's database, the suites', and the    *)
(* one the demo commands are for; and a row in another place is that of a  *)
(* process that was started astray.                                        *)
(***************************************************************************)
EXTENDS Deployment, TLAPS

Name == Given(env.DATABASE_NAME, Allowed)
TestName == Given(env.DATABASE_TEST_NAME, "nestjs_challenge_test")
Namespace == Given(env.REDIS_NAMESPACE, "nestjs-challenge")

\* Where the rows of each kind are, and what follows of the names.
TestPlace(db) ==
  \/ db = TestName /\ TestName # Name
  \/ db = Name /\ "suite" \in astray

ClientPlace(db) ==
  \/ db = Name
  \/ db = TestName /\ TestName # Name /\ "application" \in astray

Placed(db) ==
  /\ "test" \in rows[db] => TestPlace(db)
  /\ "client" \in rows[db] => ClientPlace(db)
  /\ rows[db] \cap Projects # {} => db = Allowed /\ Name = Allowed

\* A process runs under the NODE_ENV of its kind, or history says so.
StrayKnown(p) ==
  IF p \in suites THEN AsTest(mode[p]) \/ "suite" \in astray
                  ELSE ~AsTest(mode[p]) \/ "application" \in astray

PlacesInv ==
  /\ env \in Environments
  /\ mode \in [Processes -> NodeEnvironments \cup {Unset, "off"}]
  /\ suites \subseteq Processes
  /\ astray \subseteq {"suite", "application"}
  /\ \A p \in Processes : Up(p) => Startable(mode[p]) /\ StrayKnown(p)
  /\ rows \in [Databases -> SUBSET (Projects \cup {"client", "test"})]
  /\ \A db \in Databases : Placed(db)

\* A project whose keys were deleted is in no database, and in the hands of a
\* process only if it was when they were deleted.
KeysInv ==
  /\ \A entry \in keys : entry[2] \in Projects
  /\ reading \in [Processes -> SUBSET Projects]
  /\ purging \in [nodeEnv : NodeEnvs, ids : SUBSET Projects]
  /\ overtaken \subseteq purged /\ purged \subseteq Projects
  /\ \A db \in Databases : rows[db] \cap (purged \cup purging.ids) = {}
  /\ \A p \in Processes : reading[p] \cap purged \subseteq overtaken
  /\ purging.ids # {} => Or(purging.nodeEnv, "development") = "development"
  /\ SpelledPlainly => \A x \in purged \ overtaken :
       <<<<Plain(Namespace), "development">>, x>> \notin keys

DepInv == PlacesInv /\ KeysInv

-----------------------------------------------------------------------------
\* What an environment comes to.
LEMMA ConfigIs ==
  ASSUME NEW nodeEnv
  PROVE  /\ Config(nodeEnv, env).nodeEnv = Or(nodeEnv, "development")
         /\ Config(nodeEnv, env).name = Name
         /\ Config(nodeEnv, env).testName = TestName
         /\ Config(nodeEnv, env).namespace = Namespace
BY DEF Config, Name, TestName, Namespace

LEMMA NamesAreDatabases ==
  ASSUME env \in Environments
  PROVE  Name \in Databases /\ TestName \in Databases
<1>1. /\ env.DATABASE_NAME \in Text(Names)
      /\ env.DATABASE_TEST_NAME \in Text(Names)
  BY DeploymentAssumption
<1>2. Name \in Names \cup {Allowed}
  BY <1>1 DEF Name, Given, Or, Plain, Text
<1>3. TestName \in Names \cup {"nestjs_challenge_test"}
  BY <1>1 DEF TestName, Given, Or, Plain, Text
<1> QED BY <1>2, <1>3 DEF Databases

\* A process opens the database of the application, or, in tests, that of the
\* suites, which is another one.
LEMMA WhatIsOpened ==
  ASSUME NEW nodeEnv, Startable(nodeEnv)
  PROVE  /\ Or(nodeEnv, "development") \in NodeEnvironments
         /\ \/ /\ Or(nodeEnv, "development") = "test"
               /\ Opened(nodeEnv) = TestName /\ TestName # Name
            \/ /\ Or(nodeEnv, "development") # "test"
               /\ Opened(nodeEnv) = Name
BY ConfigIs DEF Startable, OptionsBuildable, validateEnvironment, SchemaAccepts, Opened,
   Database

\* The same, for a process that is up.
LEMMA WhatAProcessOpened ==
  ASSUME PlacesInv, NEW p \in Processes, Up(p)
  PROVE  /\ Startable(mode[p])
         /\ Database(Conf(p)) = Opened(mode[p])
         /\ Database(Conf(p)) \in Databases
         /\ Conf(p).nodeEnv = Or(mode[p], "development")
<1>1. Startable(mode[p])
  BY DEF PlacesInv
<1>2. Database(Conf(p)) = Opened(mode[p])
  BY DEF Conf, Opened
<1>3. Conf(p).nodeEnv = Or(mode[p], "development")
  BY ConfigIs DEF Conf
<1>4. Opened(mode[p]) \in {Name, TestName}
  BY <1>1, WhatIsOpened
<1> QED BY <1>1, <1>2, <1>3, <1>4, NamesAreDatabases DEF PlacesInv

\* The demo commands work on one database, that of an application in
\* development.
LEMMA WhatACommandOpened ==
  ASSUME NEW nodeEnv, SafeDatabase(nodeEnv)
  PROVE  /\ Opened(nodeEnv) = Allowed /\ Name = Allowed
         /\ Or(nodeEnv, "development") = "development"
<1>1. Startable(nodeEnv) /\ nodeEnv # "production" /\ Opened(nodeEnv) = Allowed
  BY DEF SafeDatabase
<1>2. Name = Allowed
  BY DEF SafeDatabase, Name, Given, Plain
<1>3. Or(nodeEnv, "development") \in {"development", "production"}
  BY <1>1, <1>2, WhatIsOpened DEF NodeEnvironments
<1>4. Or(nodeEnv, "development") # "production"
  BY <1>1 DEF Or
<1> QED BY <1>1, <1>2, <1>3, <1>4

-----------------------------------------------------------------------------
LEMMA PlacesInit == Init => DepInv
<1> SUFFICES ASSUME Init PROVE DepInv
  OBVIOUS
<1>1. PlacesInv
  BY DEF Init, PlacesInv, Placed, Up
<1>2. purging \in [nodeEnv : NodeEnvs, ids : SUBSET Projects] /\ purging.ids = {}
  BY DEF Init, NoReset, NodeEnvs
<1>3. KeysInv
  BY <1>2 DEF Init, KeysInv
<1> QED BY <1>1, <1>3 DEF DepInv

\* Only the rows of one database change, and what comes belongs there.
LEMMA PlacesKept ==
  ASSUME PlacesInv, NEW db \in Databases, NEW new,
         UNCHANGED <<env, mode, suites, astray>>, rows' = [rows EXCEPT ![db] = new],
         new \subseteq Projects \cup {"client", "test"},
         "test" \in new \ rows[db] => TestPlace(db),
         "client" \in new \ rows[db] => ClientPlace(db),
         new \cap Projects # {} /\ rows[db] \cap Projects = {} =>
           db = Allowed /\ Name = Allowed
  PROVE  PlacesInv'
<1>1. rows' \in [Databases -> SUBSET (Projects \cup {"client", "test"})]
  BY DEF PlacesInv
<1>2. \A d \in Databases : rows'[d] = IF d = db THEN new ELSE rows[d]
  BY DEF PlacesInv
<1>3. Name' = Name /\ TestName' = TestName
  BY DEF Name, TestName
<1>4. \A p \in Processes : Up(p)' = Up(p)
  BY DEF Up
<1>5. ASSUME NEW p \in Processes, Up(p) PROVE Startable(mode[p])' /\ StrayKnown(p)'
  BY <1>5 DEF PlacesInv, Startable, StrayKnown
<1>6. ASSUME NEW d \in Databases PROVE Placed(d)'
  BY <1>2, <1>3 DEF PlacesInv, Placed, TestPlace, ClientPlace
<1> QED BY <1>1, <1>4, <1>5, <1>6 DEF PlacesInv

LEMMA PlacesUnchanged ==
  ASSUME PlacesInv, UNCHANGED <<env, mode, suites, astray, rows>>
  PROVE  PlacesInv'
BY DEF PlacesInv, Placed, TestPlace, ClientPlace, Up, Startable, StrayKnown, Name,
   TestName

\* Only processes that the rules permit are started, and those that run under
\* the NODE_ENV of the other kind are remembered.
LEMMA PlacesStart ==
  ASSUME PlacesInv, NEW p \in Processes, UNCHANGED <<env, rows>>,
         NEW m, mode' = [mode EXCEPT ![p] = m],
         m = "off" \/ (Startable(m) /\ StrayKnown(p)'),
         m \in NodeEnvironments \cup {Unset, "off"},
         suites' \ {p} = suites \ {p}, suites' \subseteq Processes,
         astray \subseteq astray', astray' \subseteq {"suite", "application"}
  PROVE  PlacesInv'
<1>1. mode' \in [Processes -> NodeEnvironments \cup {Unset, "off"}]
  BY DEF PlacesInv
<1>2. ASSUME NEW q \in Processes, Up(q)' PROVE Startable(mode[q])' /\ StrayKnown(q)'
  <2>1. CASE q = p
    BY <1>2, <2>1 DEF PlacesInv, Up, Startable
  <2>2. CASE q # p
    <3>1. mode'[q] = mode[q] /\ (q \in suites' <=> q \in suites)
      BY <2>2 DEF PlacesInv
    <3>2. Startable(mode[q]) /\ StrayKnown(q)
      BY <1>2, <3>1 DEF PlacesInv, Up
    <3> QED BY <3>1, <3>2 DEF Startable, StrayKnown
  <2> QED BY <2>1, <2>2
<1>3. ASSUME NEW db \in Databases PROVE Placed(db)'
  BY DEF PlacesInv, Placed, TestPlace, ClientPlace, Name, TestName
<1> QED BY <1>1, <1>2, <1>3 DEF PlacesInv

\* What Run permits.
LEMMA RunPermits ==
  ASSUME PlacesInv, NEW p \in Processes, NEW m \in NodeEnvs, Run(p, m)
  PROVE  /\ Startable(m) /\ m \in NodeEnvironments \cup {Unset, "off"}
         /\ mode' = [mode EXCEPT ![p] = m] /\ mode'[p] = m
         /\ UNCHANGED <<env, rows>>
<1>1. Startable(m) /\ mode' = [mode EXCEPT ![p] = m] /\ UNCHANGED <<env, rows>>
  BY DEF Run
<1>2. Or(m, "development") \in NodeEnvironments
  BY <1>1, WhatIsOpened
<1>3. m \in NodeEnvironments \cup {Unset}
  BY <1>2 DEF Or
<1>4. mode'[p] = m
  BY <1>1 DEF PlacesInv
<1> QED BY <1>1, <1>3, <1>4

LEMMA PlacesApplication ==
  ASSUME PlacesInv, NEW p \in Processes, NEW m \in NodeEnvs, StartApplication(p, m)
  PROVE  PlacesInv'
<1>1. /\ Startable(m) /\ m \in NodeEnvironments \cup {Unset, "off"}
      /\ mode' = [mode EXCEPT ![p] = m] /\ mode'[p] = m
      /\ UNCHANGED <<env, rows>>
  BY RunPermits DEF StartApplication
<1>2. /\ suites' = suites \ {p}
      /\ astray' = IF AsTest(m) THEN astray \cup {"application"} ELSE astray
  BY DEF StartApplication
<1>3. StrayKnown(p)'
  BY <1>1, <1>2 DEF StrayKnown
<1> QED BY <1>1, <1>2, <1>3, PlacesStart DEF PlacesInv

LEMMA PlacesSuite ==
  ASSUME PlacesInv, NEW p \in Processes, NEW nodeEnv \in NodeEnvs,
         StartSuite(p, nodeEnv)
  PROVE  PlacesInv'
<1> DEFINE m == Or(nodeEnv, "test")
<1>1. m \in NodeEnvs
  BY DEF Or, NodeEnvs, NodeEnvironments
<1>2. /\ Run(p, m) /\ suites' = suites \cup {p}
      /\ astray' = IF AsTest(m) THEN astray ELSE astray \cup {"suite"}
  BY DEF StartSuite
<1> HIDE DEF m
<1>3. /\ Startable(m) /\ m \in NodeEnvironments \cup {Unset, "off"}
      /\ mode' = [mode EXCEPT ![p] = m] /\ mode'[p] = m
      /\ UNCHANGED <<env, rows>>
  BY <1>1, <1>2, RunPermits
<1>4. StrayKnown(p)'
  BY <1>2, <1>3 DEF StrayKnown
<1> QED BY <1>2, <1>3, <1>4, PlacesStart DEF PlacesInv

LEMMA PlacesWrite ==
  ASSUME PlacesInv, NEW p \in Processes, Write(p)
  PROVE  PlacesInv'
<1> DEFINE db == Database(Conf(p))
           who == IF p \in suites THEN "test" ELSE "client"
<1>1. /\ Startable(mode[p]) /\ db = Opened(mode[p]) /\ db \in Databases
      /\ StrayKnown(p)
  BY WhatAProcessOpened DEF Write, PlacesInv
<1>2. \/ AsTest(mode[p]) /\ db = TestName /\ TestName # Name
      \/ ~AsTest(mode[p]) /\ db = Name
  BY <1>1, WhatIsOpened DEF AsTest
<1>3. \/ who = "test" /\ TestPlace(db)
      \/ who = "client" /\ ClientPlace(db)
  BY <1>1, <1>2 DEF StrayKnown, TestPlace, ClientPlace
<1>4. /\ rows' = [rows EXCEPT ![db] = rows[db] \cup {who}]
      /\ UNCHANGED <<env, mode, suites, astray>>
  BY DEF Write, history
<1>5. who \notin Projects /\ who \in {"test", "client"}
  BY <1>3, DeploymentAssumption
<1> DEFINE new == rows[db] \cup {who}
<1> HIDE DEF db, who
<1>6. new \subseteq Projects \cup {"client", "test"}
  BY <1>1, <1>5 DEF PlacesInv
<1>7. /\ "test" \in new \ rows[db] => TestPlace(db)
      /\ "client" \in new \ rows[db] => ClientPlace(db)
  BY <1>3
<1>8. new \cap Projects = rows[db] \cap Projects
  BY <1>5
<1> HIDE DEF new
<1>9. rows' = [rows EXCEPT ![db] = new] /\ UNCHANGED <<env, mode, suites, astray>>
  BY <1>4 DEF new
<1> QED BY <1>1, <1>6, <1>7, <1>8, <1>9, PlacesKept

LEMMA PlacesClean ==
  ASSUME PlacesInv, NEW p \in Processes, CleanTestDatabase(p)
  PROVE  PlacesInv'
<1>1. Database(Conf(p)) \in Databases
  BY WhatAProcessOpened DEF CleanTestDatabase
<1> QED BY <1>1, PlacesKept DEF CleanTestDatabase, history

LEMMA PlacesCommand ==
  ASSUME PlacesInv, NEW nodeEnv, SafeDatabase(nodeEnv),
         NEW new, new \subseteq Projects \cup {"client", "test"},
         new \subseteq rows[Allowed] \cup Projects,
         rows' = [rows EXCEPT ![Opened(nodeEnv)] = new],
         UNCHANGED <<env, mode, suites, astray>>
  PROVE  PlacesInv'
<1>1. Opened(nodeEnv) = Allowed /\ Name = Allowed /\ Allowed \in Databases
  BY WhatACommandOpened DEF Databases
<1>2. "test" \notin new \ rows[Allowed] /\ "client" \notin new \ rows[Allowed]
  BY DeploymentAssumption
<1> QED BY <1>1, <1>2, PlacesKept

LEMMA PlacesReset ==
  ASSUME PlacesInv, NEW nodeEnv, ResetCommits(nodeEnv)
  PROVE  PlacesInv'
<1>1. SafeDatabase(nodeEnv) /\ Opened(nodeEnv) = Allowed
  BY WhatACommandOpened DEF ResetCommits
<1>2. rows[Allowed] \subseteq Projects \cup {"client", "test"}
  BY DEF PlacesInv, Databases
<1>3. /\ rows' = [rows EXCEPT ![Opened(nodeEnv)] =
                    rows[Allowed] \ (rows[Allowed] \cap Projects)]
      /\ UNCHANGED <<env, mode, suites, astray>>
  BY <1>1 DEF ResetCommits, history
<1> QED BY <1>1, <1>2, <1>3, PlacesCommand

LEMMA PlacesSeed ==
  ASSUME PlacesInv, NEW nodeEnv, NEW x \in Projects, Seed(nodeEnv, x)
  PROVE  PlacesInv'
<1>1. SafeDatabase(nodeEnv) /\ Opened(nodeEnv) = Allowed
  BY WhatACommandOpened DEF Seed
<1>2. rows[Allowed] \subseteq Projects \cup {"client", "test"}
  BY DEF PlacesInv, Databases
<1>3. /\ rows' = [rows EXCEPT ![Opened(nodeEnv)] = (rows[Allowed] \ Projects) \cup {x}]
      /\ UNCHANGED <<env, mode, suites, astray>>
  BY <1>1 DEF Seed, history
<1> QED BY <1>1, <1>2, <1>3, PlacesCommand

LEMMA PlacesStep == PlacesInv /\ [Next]_vars => PlacesInv'
<1> SUFFICES ASSUME PlacesInv, [Next]_vars PROVE PlacesInv'
  OBVIOUS
<1>1. CASE UNCHANGED vars
  BY <1>1, PlacesUnchanged DEF vars, history
<1>2. ASSUME NEW p \in Processes, NEW nodeEnv \in NodeEnvs,
             StartApplication(p, nodeEnv) \/ StartSuite(p, nodeEnv)
      PROVE  PlacesInv'
  BY <1>2, PlacesApplication, PlacesSuite
<1>3. ASSUME NEW p \in Processes, Stop(p) PROVE PlacesInv'
  <2>1. /\ mode' = [mode EXCEPT ![p] = "off"] /\ suites' = suites \ {p}
        /\ UNCHANGED <<env, rows, astray>>
    BY <1>3 DEF Stop, history
  <2>2. /\ suites' \ {p} = suites \ {p} /\ suites' \subseteq Processes
        /\ astray \subseteq astray' /\ astray' \subseteq {"suite", "application"}
    BY <2>1 DEF PlacesInv
  <2> QED BY <2>1, <2>2, PlacesStart
<1>4. ASSUME NEW p \in Processes, Write(p) PROVE PlacesInv'
  BY <1>4, PlacesWrite
<1>5. ASSUME NEW p \in Processes, CleanTestDatabase(p) PROVE PlacesInv'
  BY <1>5, PlacesClean
<1>6. ASSUME NEW p \in Processes, NEW x \in Projects,
             FindDetail(p, x) \/ CacheDetail(p, x)
      PROVE  PlacesInv'
  BY <1>6, PlacesUnchanged DEF FindDetail, CacheDetail, history
<1>7. ASSUME NEW nodeEnv \in NodeEnvs, ResetCommits(nodeEnv) PROVE PlacesInv'
  BY <1>7, PlacesReset
<1>8. ASSUME NEW nodeEnv \in NodeEnvs, NEW x \in Projects, Seed(nodeEnv, x)
      PROVE  PlacesInv'
  BY <1>8, PlacesSeed
<1>9. CASE DeleteDemoCacheKeys
  BY <1>9, PlacesUnchanged DEF DeleteDemoCacheKeys
<1> QED BY <1>1, <1>2, <1>3, <1>4, <1>5, <1>6, <1>7, <1>8, <1>9 DEF Next

-----------------------------------------------------------------------------
\* A namespace that is not padded is the same raw and validated.
LEMMA RawNamespace ==
  ASSUME env \in Environments, SpelledPlainly
  PROVE  Or(env.REDIS_NAMESPACE, Plain("nestjs-challenge")) = Plain(Namespace)
<1>1. CASE env.REDIS_NAMESPACE = Unset
  BY <1>1 DEF Namespace, Given, Or, Plain
<1>2. CASE env.REDIS_NAMESPACE # Unset
  <2>1. env.REDIS_NAMESPACE \in [text : STRING, padded : BOOLEAN]
    BY <1>2, DeploymentAssumption DEF Text
  <2>2. PICK t \in STRING, b \in BOOLEAN :
          env.REDIS_NAMESPACE = [text |-> t, padded |-> b]
    BY <2>1
  <2>3. env.REDIS_NAMESPACE.padded = b
    BY <2>2
  <2>4. b = FALSE
    <3> SUFFICES ASSUME b = TRUE PROVE FALSE
      OBVIOUS
    <3>1. ~env.REDIS_NAMESPACE.padded
      BY <1>2 DEF SpelledPlainly
    <3>2. env.REDIS_NAMESPACE.padded = TRUE
      BY <2>3
    <3> QED BY <3>1, <3>2
  <2>5. env.REDIS_NAMESPACE = Plain(t)
    BY <2>2, <2>4 DEF Plain
  <2>6. env.REDIS_NAMESPACE.text = t
    BY <2>2
  <2> QED BY <1>2, <2>5, <2>6 DEF Namespace, Given, Or, Plain
<1> QED BY <1>1, <1>2

KeysUntouched == UNCHANGED <<env, keys, purging, purged, overtaken>>

\* A step that brings no purged project to a database or into the hands of a
\* process keeps KeysInv, if it leaves the keys alone.
LEMMA KeysKept ==
  ASSUME KeysInv, KeysUntouched,
         reading' \in [Processes -> SUBSET Projects],
         \A p \in Processes : reading'[p] \cap purged \subseteq overtaken,
         \A db \in Databases : rows'[db] \cap (purged \cup purging.ids) = {}
  PROVE  KeysInv'
BY DEF KeysInv, KeysUntouched, SpelledPlainly, Namespace

LEMMA KeysUnchanged ==
  ASSUME KeysInv, KeysUntouched, UNCHANGED <<rows, reading>>
  PROVE  KeysInv'
BY KeysKept DEF KeysInv

\* Rows that come to a database are of clients or suites, or not purged.
LEMMA KeysRows ==
  ASSUME PlacesInv, KeysInv, NEW db \in Databases, NEW new,
         KeysUntouched, UNCHANGED reading, rows' = [rows EXCEPT ![db] = new],
         (new \ rows[db]) \cap (purged \cup purging.ids) = {}
  PROVE  KeysInv'
<1>1. \A d \in Databases : rows'[d] = IF d = db THEN new ELSE rows[d]
  BY DEF PlacesInv
<1>2. \A d \in Databases : rows'[d] \cap (purged \cup purging.ids) = {}
  BY <1>1 DEF KeysInv
<1> QED BY <1>2, KeysKept DEF KeysInv

\* A detail that is read was in a database.
LEMMA KeysFind ==
  ASSUME PlacesInv, KeysInv, NEW p \in Processes, NEW x \in Projects, FindDetail(p, x)
  PROVE  KeysInv'
<1>1. Database(Conf(p)) \in Databases
  BY WhatAProcessOpened DEF FindDetail
<1>2. x \notin purged
  BY <1>1 DEF FindDetail, KeysInv
<1>3. reading' = [reading EXCEPT ![p] = @ \cup {x}] /\ UNCHANGED rows /\ KeysUntouched
  BY DEF FindDetail, KeysUntouched, history
<1>4. /\ reading' \in [Processes -> SUBSET Projects]
      /\ \A q \in Processes : reading'[q] \cap purged \subseteq overtaken
  BY <1>2, <1>3 DEF KeysInv
<1> QED BY <1>3, <1>4, KeysKept DEF KeysInv

\* The entry that comes is not of a purged project, or of one overtaken.
LEMMA KeysCache ==
  ASSUME KeysInv, NEW p \in Processes, NEW x \in Projects, CacheDetail(p, x)
  PROVE  KeysInv'
<1>1. /\ keys' = keys \cup {<<Base(Conf(p)), x>>}
      /\ reading' = [reading EXCEPT ![p] = @ \ {x}]
      /\ UNCHANGED <<env, rows, purging, purged, overtaken>>
  BY DEF CacheDetail, history
<1>2. x \notin purged \ overtaken
  BY DEF CacheDetail, KeysInv
<1>3. Namespace' = Namespace /\ SpelledPlainly' = SpelledPlainly
  BY <1>1 DEF Namespace, SpelledPlainly
<1>4. ASSUME SpelledPlainly, NEW y \in purged \ overtaken
      PROVE  <<<<Plain(Namespace), "development">>, y>> \notin keys'
  BY <1>1, <1>2, <1>4 DEF KeysInv
<1>5. \A entry \in keys' : entry[2] \in Projects
  BY <1>1 DEF KeysInv
<1>6. /\ reading' \in [Processes -> SUBSET Projects]
      /\ \A q \in Processes : reading'[q] \cap purged \subseteq overtaken
  BY <1>1 DEF KeysInv
<1> QED BY <1>1, <1>3, <1>4, <1>5, <1>6 DEF KeysInv

\* From its commit on the projects of a reset are in no database.
LEMMA KeysReset ==
  ASSUME PlacesInv, KeysInv, NEW nodeEnv \in NodeEnvs, ResetCommits(nodeEnv)
  PROVE  KeysInv'
<1> DEFINE gone == rows[Allowed] \cap Projects
           new == rows[Allowed] \ gone
<1>1. /\ Opened(nodeEnv) = Allowed /\ Allowed \in Databases
      /\ Or(nodeEnv, "development") = "development"
  BY WhatACommandOpened DEF ResetCommits, Databases
<1>2. /\ rows' = [rows EXCEPT ![Allowed] = new]
      /\ purging' = [nodeEnv |-> nodeEnv, ids |-> gone]
      /\ UNCHANGED <<env, keys, reading, purged, overtaken>>
  BY <1>1 DEF ResetCommits, history
<1>3. \A d \in Databases : rows'[d] = IF d = Allowed THEN new ELSE rows[d]
  BY <1>2 DEF PlacesInv
<1>4. ASSUME NEW d \in Databases PROVE rows'[d] \cap (purged' \cup purging'.ids) = {}
  <2>1. CASE d = Allowed
    BY <1>2, <1>3, <2>1 DEF KeysInv
  <2>2. CASE d # Allowed
    BY <1>2, <1>3, <2>2 DEF KeysInv, PlacesInv, Placed
  <2> QED BY <2>1, <2>2
<1>5. /\ purging' \in [nodeEnv : NodeEnvs, ids : SUBSET Projects]
      /\ Or(purging'.nodeEnv, "development") = "development"
  BY <1>1, <1>2
<1>6. Namespace' = Namespace /\ SpelledPlainly' = SpelledPlainly
  BY <1>2 DEF Namespace, SpelledPlainly
<1> QED BY <1>2, <1>4, <1>5, <1>6 DEF KeysInv

\* The keys deleted are those the service builds, if the namespace is plain.
LEMMA KeysPurge ==
  ASSUME PlacesInv, KeysInv, DeleteDemoCacheKeys
  PROVE  KeysInv'
<1>1. /\ purging.ids # {} /\ purging' = NoReset
      /\ UNCHANGED <<env, rows, reading>>
  BY DEF DeleteDemoCacheKeys
<1>2. purging' \in [nodeEnv : NodeEnvs, ids : SUBSET Projects] /\ purging'.ids = {}
  BY <1>1 DEF NoReset, NodeEnvs
<1>3. Namespace' = Namespace /\ SpelledPlainly' = SpelledPlainly
  BY <1>1 DEF Namespace, SpelledPlainly
<1>4. CASE UNCHANGED <<keys, purged, overtaken>>
  BY <1>1, <1>2, <1>3, <1>4 DEF KeysInv
<1>5. CASE /\ keys' = keys \ {DemoKey(purging.nodeEnv, x) : x \in purging.ids}
           /\ purged' = purged \cup purging.ids
           /\ overtaken' = overtaken \cup
                {x \in purging.ids : \E p \in Processes : x \in reading[p]}
  <2>1. /\ \A entry \in keys' : entry[2] \in Projects
        /\ overtaken' \subseteq purged' /\ purged' \subseteq Projects
    BY <1>5 DEF KeysInv
  <2>2. ASSUME NEW d \in Databases PROVE rows'[d] \cap (purged' \cup purging'.ids) = {}
    BY <1>1, <1>2, <1>5 DEF KeysInv
  <2>3. ASSUME NEW p \in Processes PROVE reading'[p] \cap purged' \subseteq overtaken'
    BY <1>1, <1>5 DEF KeysInv
  <2>4. ASSUME SpelledPlainly, NEW x \in purged' \ overtaken'
        PROVE  <<<<Plain(Namespace), "development">>, x>> \notin keys'
    <3>1. CASE x \in purged
      BY <1>5, <2>4, <3>1 DEF KeysInv
    <3>2. CASE x \in purging.ids
      <4>1. Or(purging.nodeEnv, "development") = "development"
        BY <1>1 DEF KeysInv
      <4>2. DemoKey(purging.nodeEnv, x) = <<<<Plain(Namespace), "development">>, x>>
        BY <2>4, <4>1, RawNamespace DEF DemoKey, PlacesInv
      <4> QED BY <1>5, <3>2, <4>2
    <3> QED BY <1>5, <2>4, <3>1, <3>2
  <2> QED BY <1>1, <1>2, <1>3, <2>1, <2>2, <2>3, <2>4 DEF KeysInv
<1> QED BY <1>4, <1>5 DEF DeleteDemoCacheKeys

LEMMA KeysStep == PlacesInv /\ KeysInv /\ [Next]_vars => KeysInv'
<1> SUFFICES ASSUME PlacesInv, KeysInv, [Next]_vars PROVE KeysInv'
  OBVIOUS
<1>1. CASE UNCHANGED vars
  BY <1>1, KeysUnchanged DEF vars, history, KeysUntouched
<1>2. ASSUME NEW p \in Processes, NEW nodeEnv \in NodeEnvs,
             StartApplication(p, nodeEnv) \/ StartSuite(p, nodeEnv)
      PROVE  KeysInv'
  BY <1>2, KeysUnchanged DEF StartApplication, StartSuite, Run, KeysUntouched
<1>3. ASSUME NEW p \in Processes, Stop(p) PROVE KeysInv'
  <2>1. /\ reading' = [reading EXCEPT ![p] = {}] /\ UNCHANGED rows
        /\ KeysUntouched
    BY <1>3 DEF Stop, history, KeysUntouched
  <2>2. /\ reading' \in [Processes -> SUBSET Projects]
        /\ \A q \in Processes : reading'[q] \cap purged \subseteq overtaken
    BY <2>1 DEF KeysInv
  <2> QED BY <2>1, <2>2, KeysKept DEF KeysInv
<1>4. ASSUME NEW p \in Processes, Write(p) PROVE KeysInv'
  <2> DEFINE who == IF p \in suites THEN "test" ELSE "client"
             db == Database(Conf(p))
             new == rows[db] \cup {who}
  <2>1. db \in Databases
    BY <1>4, WhatAProcessOpened DEF Write
  <2>2. who \in {"test", "client"}
    OBVIOUS
  <2>3. rows' = [rows EXCEPT ![db] = new] /\ UNCHANGED reading /\ KeysUntouched
    BY <1>4 DEF Write, history, KeysUntouched
  <2> HIDE DEF who, db
  <2>4. purging.ids \subseteq Projects
    BY DEF KeysInv
  <2>5. (new \ rows[db]) \cap (purged \cup purging.ids) = {}
    BY <2>2, <2>4, DeploymentAssumption DEF KeysInv
  <2> HIDE DEF new
  <2> QED BY <2>1, <2>3, <2>5, KeysRows
<1>5. ASSUME NEW p \in Processes, CleanTestDatabase(p) PROVE KeysInv'
  <2>1. Database(Conf(p)) \in Databases
    BY <1>5, WhatAProcessOpened DEF CleanTestDatabase
  <2>2. /\ rows' = [rows EXCEPT ![Database(Conf(p))] = {}] /\ UNCHANGED reading
        /\ KeysUntouched
    BY <1>5 DEF CleanTestDatabase, history, KeysUntouched
  <2> QED BY <2>1, <2>2, KeysRows
<1>6. ASSUME NEW p \in Processes, NEW x \in Projects,
             FindDetail(p, x) \/ CacheDetail(p, x)
      PROVE  KeysInv'
  BY <1>6, KeysFind, KeysCache
<1>7. ASSUME NEW nodeEnv \in NodeEnvs, ResetCommits(nodeEnv) PROVE KeysInv'
  BY <1>7, KeysReset
<1>8. ASSUME NEW nodeEnv \in NodeEnvs, NEW x \in Projects, Seed(nodeEnv, x)
      PROVE  KeysInv'
  <2> DEFINE new == (rows[Allowed] \ Projects) \cup {x}
  <2>1. Opened(nodeEnv) = Allowed /\ Allowed \in Databases
    BY <1>8, WhatACommandOpened DEF Seed, Databases
  <2>2. /\ rows' = [rows EXCEPT ![Allowed] = new] /\ UNCHANGED reading
        /\ KeysUntouched
    BY <1>8, <2>1 DEF Seed, history, KeysUntouched
  <2>3. purging.ids = {} /\ x \notin purged
    BY <1>8 DEF Seed, NoReset
  <2>4. (new \ rows[Allowed]) \cap (purged \cup purging.ids) = {}
    BY <2>3
  <2> HIDE DEF new
  <2> QED BY <2>1, <2>2, <2>4, KeysRows
<1>9. CASE DeleteDemoCacheKeys
  BY <1>9, KeysPurge
<1> QED BY <1>1, <1>2, <1>3, <1>4, <1>5, <1>6, <1>7, <1>8, <1>9 DEF Next

-----------------------------------------------------------------------------
LEMMA DepStep == DepInv /\ [Next]_vars => DepInv'
BY PlacesStep, KeysStep DEF DepInv

\* Types, and that only processes with a valid environment are up.
THEOREM DeploymentTypes == Spec => []TypeOK
<1>1. DepInv => TypeOK
  BY DEF DepInv, PlacesInv, KeysInv, TypeOK, Up
<1> QED BY <1>1, PlacesInit, DepStep, PTL DEF Spec

\* Demo projects never leave the database the commands are for; suites write
\* there only if one was started under another NODE_ENV than "test", since
\* nestjs_challenge would otherwise have to be the name of both databases.
THEOREM DemoIsConfined == Spec => []DemoStaysInItsDatabase
<1>1. DepInv => DemoStaysInItsDatabase
  BY DEF DepInv, PlacesInv, Placed, TestPlace, DemoStaysInItsDatabase
<1> QED BY <1>1, PlacesInit, DepStep, PTL DEF Spec

LEMMA ApplicationDatabaseIs == ApplicationDatabase = Name
BY ConfigIs DEF ApplicationDatabase

\* Rows of suites and of clients meet only where a suite was started under an
\* application's NODE_ENV, or an application under the suites'.
THEOREM TestsAreApart == Spec => []TestRowsApart
<1>1. DepInv => TestRowsApart
  BY ApplicationDatabaseIs
     DEF DepInv, PlacesInv, Placed, TestPlace, ClientPlace, TestRowsApart
<1> QED BY <1>1, PlacesInit, DepStep, PTL DEF Spec

\* A purge by the raw variables reaches the keys built from the validated ones,
\* where the namespace is not padded and no process held the detail already.
THEOREM PurgesReach == Spec => []PurgeReachesTheCache
<1>1. DepInv => PurgeReachesTheCache
  <2> SUFFICES ASSUME DepInv, SpelledPlainly, NEW p \in Processes,
                      NEW x \in purged \ overtaken,
                      Up(p), Conf(p).nodeEnv = "development"
               PROVE  <<Base(Conf(p)), x>> \notin keys
    BY DEF PurgeReachesTheCache
  <2>1. Base(Conf(p)) = <<Plain(Namespace), "development">>
    BY ConfigIs DEF Base, Conf
  <2> QED BY <2>1 DEF DepInv, KeysInv
<1> QED BY <1>1, PlacesInit, DepStep, PTL DEF Spec

ClientsKept(db) ==
  \/ "client" \in rows'[db]
  \/ db = ApplicationDatabase /\ Misconfigured
  \/ db # ApplicationDatabase /\ "application" \in astray

\* The suites clean the application's database only beside a padded name: the
\* cleaner compares the names as they are spelled.
LEMMA ClientClean ==
  ASSUME PlacesInv, NEW p \in Processes, CleanTestDatabase(p),
         Database(Conf(p)) = Name
  PROVE  Misconfigured
<1> DEFINE open == Database(Conf(p))
<1>1. /\ Up(p) /\ p \in suites /\ Cleanable(open)
      /\ Startable(mode[p]) /\ open = Opened(mode[p])
  BY WhatAProcessOpened DEF CleanTestDatabase
<1> HIDE DEF open
<1>2. ~AsTest(mode[p])
  BY <1>1, WhatIsOpened DEF AsTest, open
<1>3. Or(env.DATABASE_NAME, Plain(Allowed)) # Plain(Name)
  BY <1>1 DEF Cleanable, open
<1>4. env.DATABASE_NAME # Unset
  BY <1>3 DEF Name, Given, Or, Plain
<1>5. env.DATABASE_NAME \in [text : Names, padded : BOOLEAN]
  BY <1>4, DeploymentAssumption DEF Text, PlacesInv
<1>6. PICK t \in Names, b \in BOOLEAN :
        env.DATABASE_NAME = [text |-> t, padded |-> b]
  BY <1>5
<1>7. env.DATABASE_NAME.padded = b /\ env.DATABASE_NAME.text = t
  BY <1>6
<1>8. Name = t
  BY <1>4, <1>7 DEF Name, Given, Or
<1>9. b = TRUE
  <2> SUFFICES ASSUME b = FALSE PROVE FALSE
    OBVIOUS
  <2>1. env.DATABASE_NAME = Plain(t)
    BY <1>6 DEF Plain
  <2> QED BY <1>3, <1>4, <1>8, <2>1 DEF Or
<1> QED BY <1>1, <1>2, <1>4, <1>7, <1>9 DEF Misconfigured

\* No step takes rows of clients out of their database but for the two causes.
LEMMA ClientStep ==
  PlacesInv /\ [Next]_vars =>
    \A db \in Databases : "client" \in rows[db] => ClientsKept(db)
<1> SUFFICES ASSUME PlacesInv, [Next]_vars, NEW db \in Databases,
                    "client" \in rows[db]
             PROVE  ClientsKept(db)
  OBVIOUS
<1>1. ClientPlace(db)
  BY DEF PlacesInv, Placed
<1>2. CASE UNCHANGED rows
  BY <1>2 DEF ClientsKept
<1>3. ASSUME NEW p \in Processes, Write(p) PROVE ClientsKept(db)
  <2>1. Database(Conf(p)) \in Databases
    BY <1>3, WhatAProcessOpened DEF Write
  <2> QED BY <1>3, <2>1 DEF Write, PlacesInv, ClientsKept
<1>4. ASSUME NEW p \in Processes, CleanTestDatabase(p) PROVE ClientsKept(db)
  <2>1. Database(Conf(p)) \in Databases
    BY <1>4, WhatAProcessOpened DEF CleanTestDatabase
  <2>2. rows' = [rows EXCEPT ![Database(Conf(p))] = {}]
    BY <1>4 DEF CleanTestDatabase
  <2>3. CASE Database(Conf(p)) # db
    BY <2>1, <2>2, <2>3 DEF PlacesInv, ClientsKept
  <2>4. CASE Database(Conf(p)) = db /\ db = Name
    BY <1>4, <2>4, ClientClean, ApplicationDatabaseIs DEF ClientsKept
  <2>5. CASE db # Name
    BY <1>1, <2>5, ApplicationDatabaseIs DEF ClientPlace, ClientsKept
  <2> QED BY <2>3, <2>4, <2>5
<1>5. ASSUME NEW nodeEnv \in NodeEnvs, NEW x \in Projects, Seed(nodeEnv, x)
      PROVE  ClientsKept(db)
  <2>1. Opened(nodeEnv) \in Databases
    BY <1>5, WhatACommandOpened DEF Seed, Databases
  <2> QED BY <1>5, <2>1, DeploymentAssumption DEF Seed, PlacesInv, ClientsKept
<1>6. ASSUME NEW nodeEnv \in NodeEnvs, ResetCommits(nodeEnv)
      PROVE  ClientsKept(db)
  <2>1. Opened(nodeEnv) \in Databases
    BY <1>6, WhatACommandOpened DEF ResetCommits, Databases
  <2> QED BY <1>6, <2>1, DeploymentAssumption DEF ResetCommits, PlacesInv, ClientsKept
<1> QED BY <1>2, <1>3, <1>4, <1>5, <1>6
    DEF Next, vars, StartApplication, StartSuite, Run, Stop, FindDetail, CacheDetail,
        DeleteDemoCacheKeys

THEOREM ClientsKeepTheirRows == Spec => ClientRowsStay
<1>1. PlacesInv /\ [Next]_vars =>
        [\A db \in Databases : "client" \in rows[db] =>
           \/ "client" \in rows'[db]
           \/ db = ApplicationDatabase /\ Misconfigured
           \/ db # ApplicationDatabase /\ "application" \in astray]_vars
  BY ClientStep DEF ClientsKept
<1> QED BY <1>1, PlacesInit, DepStep, PTL DEF Spec, ClientRowsStay, DepInv
=============================================================================
