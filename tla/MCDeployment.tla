----------------------------- MODULE MCDeployment -----------------------------
EXTENDS Deployment, TLC

Padded(text) == [text |-> text, padded |-> TRUE]

File(pair, namespace, cacheEnabled, sound) ==
  [DATABASE_NAME |-> pair[1], DATABASE_TEST_NAME |-> pair[2],
   REDIS_NAMESPACE |-> namespace, CACHE_ENABLED |-> cacheEnabled,
   sound |-> sound]

\* Every pair of database names, each unset, plain or padded, without a cache ...
NamePairs ==
  {Unset, Plain(Allowed), Padded(Allowed), Plain("app"), Padded("app")}
    \X {Unset, Plain(Allowed), Plain("app"), Padded("app")}

\* ... and, for names under which demo commands, suites and application all
\* work, spellings of the other variables, good and bad.
WorkingPair == <<Unset, Plain("app")>>

SomeEnvironments ==
  {File(pair, Unset, Unset, TRUE) : pair \in NamePairs}
    \cup {File(WorkingPair, n, c, TRUE) :
            n \in {Unset, Padded("nestjs-challenge"), Plain("other"), Plain("Bad")},
            c \in {"true", "TRUE", "yes"}}
    \cup {File(WorkingPair, Unset, "true", FALSE)}

\* Processes are alike; one that is started draws any NODE_ENV.
Symmetry == Permutations(Processes)
=============================================================================
