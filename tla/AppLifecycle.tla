----------------------------- MODULE AppLifecycle -----------------------------
(***************************************************************************)
(* One process of the application from bootstrap to exit: the init and     *)
(* destroy hooks of RedisConnectionManager and TaskActivityService, the    *)
(* HTTP server, and a signal that may arrive while the init hooks are      *)
(* still running -- main.ts turns the shutdown hooks on before it listens. *)
(* Nest awaits the hooks of one module after those of another; the Redis   *)
(* module is global, so its init hook is first and its destroy hook last.  *)
(***************************************************************************)
EXTENDS Naturals

CONSTANT Faults  \* {"redis"} if Redis may fail, {} if not

ASSUME LifecycleAssumption == Faults \subseteq {"redis"}

Concerns == {"cache", "queue"}

VARIABLES
  enabled,    \* the concerns that are configured (CACHE_ENABLED, QUEUE_ENABLED)
  field,      \* cacheClient, queueClient: whether they hold a client
  memo,       \* cacheClientPromise, queueClientPromise: whether they are set
  outcome,    \* what the last connect() of a concern came to
  sockets,    \* ioredis clients of a concern that are not disconnected
  redisInit,  \* RedisConnectionManager.onModuleInit
  taskInit,   \* TaskActivityService.initialize
  queue,      \* queue, queueEvents and worker: whether the fields are set
  bull,       \* the Queue, QueueEvents and Worker themselves
  taskShut,   \* TaskActivityService.shutdownPromise
  redisShut,  \* RedisConnectionManager.shutdownPromise
  toClose,    \* the concerns whose promise shutdown() waits for
  boot,       \* bootstrap: "init", then "up" or "failed"
  listening,  \* the HTTP server accepts requests
  down,       \* how far the handling of the signal is
  proc,       \* "running", or how the process ended
  served      \* history: the signal came when the server was listening

connVars == <<field, memo, outcome, sockets>>
initVars == <<redisInit, taskInit>>
bullVars == <<queue, bull, taskShut>>
closeVars == <<redisShut, toClose>>
nestVars == <<boot, listening, down, proc, served>>
vars == <<enabled, connVars, initVars, bullVars, closeVars, nestVars>>

Running == proc = "running" /\ UNCHANGED enabled

-----------------------------------------------------------------------------
\* Connections.

\* Mutant: acquisition is not single-flight.
BugDialAgain(wanted) ==
  /\ memo' = [c \in Concerns |-> memo[c] \/ c \in wanted \cap enabled]
  /\ outcome' = [c \in Concerns |-> IF c \in wanted \cap enabled
                                    THEN "pending" ELSE outcome[c]]
  /\ sockets' = [c \in Concerns |-> IF c \in wanted \cap enabled
                                    THEN sockets[c] + 1 ELSE sockets[c]]
  /\ UNCHANGED field

\* The connects that asking for clients starts: none for a disabled concern,
\* one that has its client, or one whose promise is there already.
Ensure(wanted) ==
  LET dialled == {c \in wanted \cap enabled : ~field[c] /\ ~memo[c]}
  IN /\ memo' = [c \in Concerns |-> memo[c] \/ c \in dialled]
     /\ outcome' = [c \in Concerns |-> IF c \in dialled THEN "pending"
                                                       ELSE outcome[c]]
     /\ sockets' = [c \in Concerns |-> IF c \in dialled THEN sockets[c] + 1
                                                       ELSE sockets[c]]
     /\ UNCHANGED field

Connected(c) ==
  /\ Running
  /\ outcome[c] = "pending"
  /\ outcome' = [outcome EXCEPT ![c] = "client"]
  /\ field' = [field EXCEPT ![c] = TRUE]
  /\ UNCHANGED <<memo, sockets, initVars, bullVars, closeVars, nestVars>>

ConnectFails(c) ==
  /\ Running
  /\ "redis" \in Faults
  /\ outcome[c] = "pending"
  /\ outcome' = [outcome EXCEPT ![c] = "null"]
  /\ sockets' = [sockets EXCEPT ![c] = @ - 1]
  /\ UNCHANGED <<field, memo, initVars, bullVars, closeVars, nestVars>>

-----------------------------------------------------------------------------
\* Init hooks.

RedisOnModuleInit ==
  /\ Running
  /\ redisInit = "todo"
  /\ Ensure(Concerns)
  /\ redisInit' = "waiting"
  /\ UNCHANGED <<taskInit, bullVars, closeVars, nestVars>>

RedisInitDone ==
  /\ Running
  /\ redisInit = "waiting"
  /\ \A c \in Concerns : outcome[c] # "pending"
  /\ redisInit' = "done"
  /\ UNCHANGED <<connVars, taskInit, bullVars, closeVars, nestVars>>

TaskOnModuleInit ==
  /\ Running
  /\ taskInit = "todo"
  /\ redisInit = "done"
  /\ Ensure({"queue"})
  /\ taskInit' = IF "queue" \in enabled THEN "client" ELSE "done"
  /\ UNCHANGED <<redisInit, bullVars, closeVars, nestVars>>

\* Mutant: without a client initialize() throws.
BugNeedsClient ==
  /\ Running
  /\ taskInit = "client"
  /\ \/ /\ outcome["queue"] = "null"
        /\ taskInit' = "threw"
        /\ UNCHANGED <<queue, bull>>
     \/ /\ outcome["queue"] = "client"
        /\ taskInit' = "ready"
        /\ queue' = TRUE
        /\ bull' = "open"
  /\ UNCHANGED <<connVars, redisInit, taskShut, closeVars, nestVars>>

\* Without a client there is no queue; with one, the fields are set before
\* anything is known to be ready.
CreateQueue ==
  /\ Running
  /\ taskInit = "client"
  /\ \/ /\ outcome["queue"] = "null"
        /\ taskInit' = "done"
        /\ UNCHANGED <<queue, bull>>
     \/ /\ outcome["queue"] = "client"
        /\ taskInit' = "ready"
        /\ queue' = TRUE
        /\ bull' = "open"
  /\ UNCHANGED <<connVars, redisInit, taskShut, closeVars, nestVars>>

QueueReady ==
  /\ Running
  /\ taskInit = "ready"
  /\ taskInit' = "done"
  /\ UNCHANGED <<connVars, redisInit, bullVars, closeVars, nestVars>>

\* Mutant: the fields are reset only when everything is closed.
BugKeepsHandles ==
  IF taskShut = "none"
  THEN /\ taskShut' = "closing"
       /\ bull' = IF queue THEN "closing" ELSE bull
       /\ UNCHANGED queue
  ELSE UNCHANGED bullVars

\* TaskActivityService.shutdown() up to its await.  Only the first call does
\* anything: it takes the handles there are, and resets the fields.
TaskShutdown ==
  IF taskShut = "none"
  THEN /\ taskShut' = "closing"
       /\ bull' = IF queue THEN "closing" ELSE bull
       /\ queue' = FALSE
  ELSE UNCHANGED bullVars

\* waitUntilReady() rejects: Redis went away, or shutdown() is closing it.
QueueNotReady ==
  /\ Running
  /\ taskInit = "ready"
  /\ "redis" \in Faults \/ bull # "open"
  /\ TaskShutdown
  /\ taskInit' = "failing"
  /\ UNCHANGED <<connVars, redisInit, closeVars, nestVars>>

Rethrow ==
  /\ Running
  /\ taskInit = "failing"
  /\ taskShut = "done"
  /\ taskInit' = "threw"
  /\ UNCHANGED <<connVars, redisInit, bullVars, closeVars, nestVars>>

\* bootstrap() is not awaited by anyone: what it rejects with ends the process.
BootstrapRejects ==
  /\ Running
  /\ taskInit = "threw"
  /\ boot' = "failed"
  /\ proc' = "aborted"
  /\ UNCHANGED <<connVars, initVars, bullVars, closeVars, listening, down, served>>

Listen ==
  /\ Running
  /\ boot = "init"
  /\ redisInit = "done"
  /\ taskInit = "done"
  /\ boot' = "up"
  /\ listening' = TRUE
  /\ UNCHANGED <<connVars, initVars, bullVars, closeVars, down, proc, served>>

-----------------------------------------------------------------------------
\* Destroy hooks: Nest 11 runs them in the reverse order of the init hooks,
\* and closes the server after them.

\* A signal is delivered when the event loop turns, first while the Redis
\* init hook waits: enableShutdownHooks() and that hook run in one turn.
Signal ==
  /\ Running
  /\ down = "none"
  /\ redisInit # "todo"
  /\ down' = "hooks"
  /\ served' = listening
  /\ UNCHANGED <<connVars, initVars, bullVars, closeVars, boot, listening, proc>>

TaskOnModuleDestroy ==
  /\ Running
  /\ down = "hooks"
  /\ taskShut = "none"
  /\ TaskShutdown
  /\ UNCHANGED <<connVars, initVars, closeVars, nestVars>>

\* Mutant: shutdown() waits for the initialization to end.
BugAwaitsInitialization ==
  /\ Running
  /\ taskShut = "closing"
  /\ taskInit \in {"todo", "done", "threw"}
  /\ bull' = IF bull = "closing" THEN "closed" ELSE bull
  /\ taskShut' = "done"
  /\ UNCHANGED <<connVars, initVars, queue, closeVars, nestVars>>

\* What was taken has been closed, or its close() was rejected.
TaskClosed ==
  /\ Running
  /\ taskShut = "closing"
  /\ bull' = IF bull = "closing" THEN "closed" ELSE bull
  /\ taskShut' = "done"
  /\ UNCHANGED <<connVars, initVars, queue, closeVars, nestVars>>

\* Mutant: shutdown() forgets the queue client.
BugForgetsQueueClient ==
  /\ Running
  /\ down = "hooks"
  /\ redisShut = "none"
  /\ taskShut = "done"
  /\ redisShut' = "waiting"
  /\ toClose' = {c \in {"cache"} : memo[c]}
  /\ UNCHANGED <<connVars, initVars, bullVars, nestVars>>

RedisOnModuleDestroy ==
  /\ Running
  /\ down = "hooks"
  /\ redisShut = "none"
  /\ taskShut = "done"
  /\ redisShut' = "waiting"
  /\ toClose' = {c \in Concerns : memo[c]}
  /\ UNCHANGED <<connVars, initVars, bullVars, nestVars>>

\* The clients that there are quit and disconnect ...
CloseClients ==
  /\ Running
  /\ redisShut = "waiting"
  /\ \A c \in toClose : outcome[c] # "pending"
  /\ sockets' = [c \in Concerns |->
       IF c \in toClose /\ outcome[c] = "client" THEN sockets[c] - 1
                                                 ELSE sockets[c]]
  /\ redisShut' = "closed"
  /\ UNCHANGED <<field, memo, outcome, initVars, bullVars, toClose, nestVars>>

\* ... or one of them rejects quit(): it is disconnected, but shutdown()
\* rejects without resetting a field, and Nest gives up.
QuitFails(c) ==
  /\ Running
  /\ "redis" \in Faults
  /\ redisShut = "waiting"
  /\ \A d \in toClose : outcome[d] # "pending"
  /\ c \in toClose
  /\ outcome[c] = "client"
  /\ sockets' = [sockets EXCEPT ![c] = @ - 1]
  /\ redisShut' = "failed"
  /\ proc' = "aborted"
  /\ UNCHANGED <<field, memo, outcome, initVars, bullVars, toClose, boot,
                 listening, down, served>>

ResetFields ==
  /\ Running
  /\ redisShut = "closed"
  /\ field' = [c \in Concerns |-> FALSE]
  /\ memo' = [c \in Concerns |-> FALSE]
  /\ redisShut' = "done"
  /\ UNCHANGED <<outcome, sockets, initVars, bullVars, toClose, nestVars>>

StopServer ==
  /\ Running
  /\ down = "hooks"
  /\ taskShut = "done"
  /\ redisShut = "done"
  /\ down' = "server"
  /\ listening' = FALSE
  /\ UNCHANGED <<connVars, initVars, bullVars, closeVars, boot, proc, served>>

\* onApplicationShutdown calls both shutdown() again, which do nothing more.
Exit ==
  /\ Running
  /\ down = "server"
  /\ proc' = "exited"
  /\ listening' = FALSE
  /\ UNCHANGED <<connVars, initVars, bullVars, closeVars, boot, down, served>>

Ended == proc # "running" /\ UNCHANGED vars

-----------------------------------------------------------------------------
Init ==
  /\ enabled \in SUBSET Concerns
  /\ field = [c \in Concerns |-> FALSE]
  /\ memo = [c \in Concerns |-> FALSE]
  /\ outcome = [c \in Concerns |-> "none"]
  /\ sockets = [c \in Concerns |-> 0]
  /\ redisInit = "todo"
  /\ taskInit = "todo"
  /\ queue = FALSE
  /\ bull = "none"
  /\ taskShut = "none"
  /\ redisShut = "none"
  /\ toClose = {}
  /\ boot = "init"
  /\ listening = FALSE
  /\ down = "none"
  /\ proc = "running"
  /\ served = FALSE

Startup ==
  \/ RedisOnModuleInit \/ RedisInitDone
  \/ TaskOnModuleInit \/ CreateQueue \/ QueueReady \/ QueueNotReady
  \/ Rethrow \/ BootstrapRejects \/ Listen

Settles == \E c \in Concerns : Connected(c) \/ ConnectFails(c)

Shutdown ==
  \/ TaskOnModuleDestroy \/ TaskClosed
  \/ RedisOnModuleDestroy \/ CloseClients \/ ResetFields
  \/ (\E c \in Concerns : QuitFails(c))
  \/ StopServer \/ Exit

Next == Startup \/ Settles \/ Signal \/ Shutdown \/ Ended

Spec == Init /\ [][Next]_vars

\* Node runs every hook whose awaited promise has settled; ioredis settles
\* every connect, ping and quit, and BullMQ every waitUntilReady and close.
Fairness ==
  /\ WF_vars(Startup)
  /\ \A c \in Concerns : WF_vars(Connected(c) \/ ConnectFails(c))
  /\ WF_vars(Shutdown)

FairSpec == Spec /\ Fairness

-----------------------------------------------------------------------------
\* Every variable has its type; in particular no client is closed twice.
TypeOK ==
  /\ enabled \subseteq Concerns
  /\ field \in [Concerns -> BOOLEAN]
  /\ memo \in [Concerns -> BOOLEAN]
  /\ outcome \in [Concerns -> {"none", "pending", "client", "null"}]
  /\ sockets \in [Concerns -> Nat]
  /\ redisInit \in {"todo", "waiting", "done"}
  /\ taskInit \in {"todo", "client", "ready", "failing", "threw", "done"}
  /\ queue \in BOOLEAN
  /\ bull \in {"none", "open", "closing", "closed"}
  /\ taskShut \in {"none", "closing", "done"}
  /\ redisShut \in {"none", "waiting", "closed", "failed", "done"}
  /\ toClose \subseteq Concerns
  /\ boot \in {"init", "up", "failed"}
  /\ listening \in BOOLEAN
  /\ down \in {"none", "hooks", "server"}
  /\ proc \in {"running", "exited", "aborted"}
  /\ served \in BOOLEAN

\* Until it is shut down, the manager has at most one client per enabled
\* concern and none for a disabled one, however many callers ask at once
\* (docs: acquisition is single-flight).
OneClientPerConcern ==
  redisShut = "none" =>
    \A c \in Concerns :
      sockets[c] <= IF c \in enabled THEN 1 ELSE 0

\* publish() never meets a queue that is being closed: the field is reset
\* before close() is called.
QueueFieldIsOpen == queue => bull = "open"

Open == {c \in Concerns : sockets[c] > 0 \/ field[c] \/ memo[c]}
NothingOpen == Open = {} /\ ~queue /\ bull \in {"none", "closed"}

\* A process that was signalled while it was serving leaves nothing open.
ServedExitIsClean == proc = "exited" /\ served => NothingOpen

\* Startup fails over the connections BullMQ opens for itself and nothing
\* else: a Redis that cannot be reached when the manager dials never stops it.
OnlyBullFailsStartup == boot = "failed" => bull # "none"

\* Startup comes to an end, and so does shutdown, whatever Redis does and
\* whenever the signal arrives.
StartupEnds == boot = "init" ~> boot # "init" \/ proc # "running"
ShutdownEnds == down # "none" ~> proc # "running"
NoHookWaitsForEver == StartupEnds /\ ShutdownEnds

-----------------------------------------------------------------------------
\* What the operations guide says of startup and shutdown.

\* Whenever the signal arrives, everything is closed when the process exits.
ExitIsClean == proc = "exited" => NothingOpen
=============================================================================
