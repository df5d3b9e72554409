-------------------------- MODULE ProjectDetailCache --------------------------
(***************************************************************************)
(* The Redis cache of Project Detail responses.  Every instance of the     *)
(* application holds one Redis client for it, connected once at startup    *)
(* and never again: a client that could not connect is null, and one whose *)
(* connection dropped fails every later command.  Both skip the command,   *)
(* which is logged and never reported to the caller.                       *)
(***************************************************************************)
EXTENDS Persistence

CONSTANT Instances  \* the running processes of the application

VARIABLES
  cache,   \* cache[u][p]: the value under the key of user u and project p
  cacheUp  \* whether the cache client of an instance can reach Redis

\* A value that fails to deserialise reads as a miss and so is not told from
\* Absent: the API only ever writes values that deserialise.
CacheValueFor(i, u, p) == IF cacheUp[i] THEN cache[u][p] ELSE Absent

CacheWith(i, u, p, value) ==
  IF cacheUp[i] THEN [cache EXCEPT ![u][p] = value] ELSE cache

\* Mutant: the key is built wrongly, and DEL removes nothing.
BugDeletesOtherKey(i, u, p) == cache

CacheWithout(i, u, p) ==
  IF cacheUp[i] THEN [cache EXCEPT ![u][p] = Absent] ELSE cache

InitCache ==
  /\ cache = [u \in Users |-> [p \in Projects |-> Absent]]
  /\ cacheUp \in [Instances -> BOOLEAN]
=============================================================================
