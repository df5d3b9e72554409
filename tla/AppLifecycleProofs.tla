-------------------------- MODULE AppLifecycleProofs --------------------------
(***************************************************************************)
(* Whatever is configured, whenever Redis fails and whenever the signal    *)
(* arrives: the manager has one client per concern at most, publish()      *)
(* never meets a queue that is being closed, only BullMQ's connections can *)
(* stop a startup, and what served leaves nothing open.                    *)
(***************************************************************************)
EXTENDS AppLifecycle, TLAPS

USE DEF Running

\* The actions that ask for no client, and leave the connections alone.
Elsewhere ==
  \/ CreateQueue \/ QueueReady \/ QueueNotReady \/ Rethrow \/ BootstrapRejects
  \/ Listen \/ Signal \/ TaskOnModuleDestroy \/ TaskClosed \/ StopServer \/ Exit

\* One concern: a socket for every connect that has not failed, until the
\* clients are closed; a promise for every enabled concern, until shutdown()
\* resets it.
ConcernOK(c) ==
  /\ sockets[c] \in {0, 1}
  /\ outcome[c] = "pending" => sockets[c] = 1 /\ memo[c]
  /\ outcome[c] \in {"none", "null"} => sockets[c] = 0
  /\ outcome[c] = "client" /\ redisShut \in {"none", "waiting"} => sockets[c] = 1
  /\ redisShut = "closed" \/ ~memo[c] => sockets[c] = 0
  /\ field[c] => memo[c]
  /\ c \notin enabled => outcome[c] = "none" /\ ~memo[c]
  /\ redisInit = "todo" => outcome[c] = "none" /\ ~memo[c]
  /\ redisInit # "todo" /\ redisShut # "done" => (memo[c] <=> c \in enabled)

\* The signal comes after the Redis hook has begun, and only then is anything
\* closed: the promises shutdown() waits for are all there will be.
ConnectionsOK ==
  /\ \A c \in Concerns : ConcernOK(c)
  /\ down # "none" => redisInit # "todo"
  /\ redisShut # "none" => down # "none"
  /\ redisShut = "waiting" => toClose = enabled

\* The queue is there before it can fail, and goes when its field is reset.
QueueOK ==
  /\ QueueFieldIsOpen
  /\ taskInit \in {"ready", "failing", "threw"} => bull # "none"
  /\ taskShut = "none" /\ ~queue => bull = "none"
  /\ down = "none" /\ taskShut # "none" => taskInit \in {"failing", "threw"}
  /\ OnlyBullFailsStartup

\* Nothing is opened in a process that was signalled while it was serving.
ServedOK ==
  /\ listening \/ boot = "up" \/ served => redisInit = "done" /\ taskInit = "done"
  /\ served => down # "none"
  /\ served /\ taskShut # "none" => ~queue /\ bull # "open"
  /\ served /\ taskShut = "done" => bull # "closing"
  /\ served /\ redisShut = "done" =>
       \A c \in Concerns : sockets[c] = 0 /\ ~field[c] /\ ~memo[c]
  /\ down = "server" => taskShut = "done" /\ redisShut = "done"
  /\ proc = "exited" => down = "server"

LifecycleInv == TypeOK /\ ConnectionsOK /\ QueueOK /\ ServedOK

-----------------------------------------------------------------------------
LEMMA InitInv == Init => LifecycleInv
<1> SUFFICES ASSUME Init PROVE LifecycleInv
  OBVIOUS
<1>1. TypeOK
  BY DEF Init, TypeOK
<1>2. ConnectionsOK
  BY DEF Init, ConnectionsOK, ConcernOK
<1>3. QueueOK /\ ServedOK
  BY DEF Init, QueueOK, QueueFieldIsOpen, OnlyBullFailsStartup, ServedOK
<1> QED
  BY <1>1, <1>2, <1>3 DEF LifecycleInv

\* Types and connections: asking for clients.
LEMMA EnsureOK ==
  ASSUME TypeOK, ConnectionsOK, NEW wanted \in SUBSET Concerns, Ensure(wanted)
  PROVE  /\ memo' \in [Concerns -> BOOLEAN]
         /\ outcome' \in [Concerns -> {"none", "pending", "client", "null"}]
         /\ sockets' \in [Concerns -> Nat]
         /\ field' = field
         /\ \A c \in Concerns :
              \/ /\ c \in wanted \cap enabled /\ ~memo[c]
                 /\ memo'[c] /\ outcome'[c] = "pending" /\ sockets'[c] = 1
              \/ /\ c \in wanted \cap enabled => memo[c]
                 /\ memo'[c] = memo[c] /\ outcome'[c] = outcome[c]
                 /\ sockets'[c] = sockets[c]
<1> DEFINE dialled == {c \in wanted \cap enabled : ~field[c] /\ ~memo[c]}
<1>1. /\ memo' = [c \in Concerns |-> memo[c] \/ c \in dialled]
      /\ outcome' = [c \in Concerns |-> IF c \in dialled THEN "pending" ELSE outcome[c]]
      /\ sockets' = [c \in Concerns |-> IF c \in dialled THEN sockets[c] + 1
                                                          ELSE sockets[c]]
      /\ field' = field
  BY DEF Ensure
<1>2. \A c \in Concerns : c \in dialled <=> c \in wanted \cap enabled /\ ~memo[c]
  BY DEF ConnectionsOK, ConcernOK
<1> HIDE DEF dialled
<1>3. memo' \in [Concerns -> BOOLEAN]
  BY <1>1
<1>4. outcome' \in [Concerns -> {"none", "pending", "client", "null"}]
  BY <1>1 DEF TypeOK
<1>5. sockets' \in [Concerns -> Nat]
  BY <1>1 DEF TypeOK
<1>6. ASSUME NEW c \in Concerns, c \in dialled
      PROVE  /\ c \in wanted \cap enabled /\ ~memo[c]
             /\ memo'[c] /\ outcome'[c] = "pending" /\ sockets'[c] = 1
  <2>1. sockets[c] = 0 /\ ~memo[c] /\ c \in wanted \cap enabled
    BY <1>2, <1>6 DEF ConnectionsOK, ConcernOK
  <2>2. memo'[c] /\ outcome'[c] = "pending" /\ sockets'[c] = sockets[c] + 1
    BY <1>1, <1>6
  <2> QED BY <2>1, <2>2
<1>7. ASSUME NEW c \in Concerns, c \notin dialled
      PROVE  /\ c \in wanted \cap enabled => memo[c]
             /\ memo'[c] = memo[c] /\ outcome'[c] = outcome[c]
             /\ sockets'[c] = sockets[c]
  <2>1. /\ c \in wanted \cap enabled => memo[c]
        /\ outcome'[c] = outcome[c] /\ sockets'[c] = sockets[c]
    BY <1>1, <1>2, <1>7
  <2>2. memo'[c] = (memo[c] \/ c \in dialled) /\ memo[c] \in BOOLEAN
    BY <1>1 DEF TypeOK
  <2>3. memo'[c] = memo[c]
    BY <1>7, <2>2
  <2> QED BY <2>1, <2>3
<1> QED
  BY <1>1, <1>3, <1>4, <1>5, <1>6, <1>7

LEMMA RedisOnModuleInitOK ==
  ASSUME TypeOK, ConnectionsOK, RedisOnModuleInit
  PROVE  TypeOK' /\ ConnectionsOK'
<1>1. TypeOK'
  BY EnsureOK DEF RedisOnModuleInit, TypeOK, bullVars, closeVars, nestVars
<1>2. redisShut = "none" /\ down = "none"
  BY DEF RedisOnModuleInit, ConnectionsOK
<1>3. ASSUME NEW c \in Concerns PROVE ConcernOK(c)'
  BY <1>2, EnsureOK
     DEF RedisOnModuleInit, ConnectionsOK, ConcernOK, closeVars, nestVars
<1> QED
  BY <1>1, <1>2, <1>3
     DEF RedisOnModuleInit, ConnectionsOK, closeVars, nestVars

LEMMA TaskOnModuleInitOK ==
  ASSUME TypeOK, ConnectionsOK, TaskOnModuleInit
  PROVE  TypeOK' /\ ConnectionsOK'
<1>1. TypeOK'
  BY EnsureOK DEF TaskOnModuleInit, TypeOK, bullVars, closeVars, nestVars, Concerns
<1>2. ASSUME NEW c \in Concerns PROVE ConcernOK(c)'
  BY EnsureOK
     DEF TaskOnModuleInit, ConnectionsOK, ConcernOK, closeVars, nestVars, Concerns
<1> QED
  BY <1>1, <1>2 DEF TaskOnModuleInit, ConnectionsOK, closeVars, nestVars

LEMMA SettlesOK ==
  ASSUME TypeOK, ConnectionsOK, NEW c \in Concerns,
         Connected(c) \/ ConnectFails(c)
  PROVE  TypeOK' /\ ConnectionsOK'
<1>1. TypeOK'
  <2> USE DEF TypeOK, initVars, bullVars, closeVars, nestVars
  <2>1. CASE Connected(c)
    BY <2>1 DEF Connected
  <2>2. CASE ConnectFails(c)
    <3>1. sockets[c] - 1 \in Nat
      BY <2>2 DEF ConnectFails, ConnectionsOK, ConcernOK
    <3>2. sockets' \in [Concerns -> Nat]
      BY <2>2, <3>1 DEF ConnectFails
    <3>3. outcome' \in [Concerns -> {"none", "pending", "client", "null"}]
      BY <2>2 DEF ConnectFails
    <3> QED BY <2>2, <3>2, <3>3 DEF ConnectFails
  <2> QED BY <2>1, <2>2
<1>2. ASSUME NEW d \in Concerns PROVE ConcernOK(d)'
  BY DEF Connected, ConnectFails, TypeOK, ConnectionsOK, ConcernOK,
         initVars, closeVars, nestVars
<1> QED
  BY <1>1, <1>2
     DEF Connected, ConnectFails, ConnectionsOK, initVars, closeVars, nestVars

\* Closing them: every promise has settled, and every client has its socket.
LEMMA ClosesOK ==
  ASSUME TypeOK, ConnectionsOK,
         \/ RedisOnModuleDestroy \/ CloseClients \/ ResetFields
         \/ \E c \in Concerns : QuitFails(c)
  PROVE  TypeOK' /\ ConnectionsOK'
<1>1. CASE RedisOnModuleDestroy
  <2>1. TypeOK'
    BY <1>1 DEF RedisOnModuleDestroy, TypeOK, connVars, initVars, bullVars, nestVars
  <2>2. ASSUME NEW c \in Concerns PROVE ConcernOK(c)'
    BY <1>1
       DEF RedisOnModuleDestroy, ConnectionsOK, ConcernOK, connVars, initVars
  <2>3. toClose' = enabled
    BY <1>1 DEF RedisOnModuleDestroy, TypeOK, ConnectionsOK, ConcernOK
  <2> QED
    BY <1>1, <2>1, <2>2, <2>3
       DEF RedisOnModuleDestroy, ConnectionsOK, initVars, nestVars
<1>2. CASE CloseClients
  <2>1. TypeOK'
    BY <1>2 DEF CloseClients, TypeOK, ConnectionsOK, ConcernOK,
                initVars, bullVars, nestVars
  <2>2. ASSUME NEW c \in Concerns PROVE ConcernOK(c)'
    BY <1>2 DEF CloseClients, TypeOK, ConnectionsOK, ConcernOK, initVars
  <2> QED
    BY <1>2, <2>1, <2>2 DEF CloseClients, ConnectionsOK, initVars, nestVars
<1>3. CASE ResetFields
  <2>1. TypeOK'
    BY <1>3 DEF ResetFields, TypeOK, initVars, bullVars, nestVars
  <2>2. ASSUME NEW c \in Concerns PROVE ConcernOK(c)'
    BY <1>3 DEF ResetFields, TypeOK, ConnectionsOK, ConcernOK, initVars
  <2> QED
    BY <1>3, <2>1, <2>2 DEF ResetFields, ConnectionsOK, initVars, nestVars
<1>4. ASSUME NEW c \in Concerns, QuitFails(c) PROVE TypeOK' /\ ConnectionsOK'
  <2>1. TypeOK'
    BY <1>4 DEF QuitFails, TypeOK, ConnectionsOK, ConcernOK, initVars, bullVars
  <2>2. ASSUME NEW d \in Concerns PROVE ConcernOK(d)'
    BY <1>4 DEF QuitFails, TypeOK, ConnectionsOK, ConcernOK, initVars
  <2> QED
    BY <1>4, <2>1, <2>2 DEF QuitFails, ConnectionsOK, initVars
<1> QED
  BY <1>1, <1>2, <1>3, <1>4

LEMMA TaskShutdownOK ==
  ASSUME TypeOK, TaskShutdown
  PROVE  /\ queue' \in BOOLEAN
         /\ bull' \in {"none", "open", "closing", "closed"}
         /\ taskShut' \in {"none", "closing", "done"}
<1> USE DEF TypeOK
<1>1. CASE taskShut = "none"
  <2>1. queue' = FALSE /\ taskShut' = "closing"
    BY <1>1 DEF TaskShutdown
  <2>2. bull' = IF queue THEN "closing" ELSE bull
    BY <1>1 DEF TaskShutdown
  <2> QED BY <2>1, <2>2
<1>2. CASE taskShut # "none"
  BY <1>2 DEF TaskShutdown, bullVars
<1> QED BY <1>1, <1>2

LEMMA ElsewhereOK ==
  ASSUME TypeOK, ConnectionsOK, Elsewhere \/ RedisInitDone
  PROVE  TypeOK' /\ ConnectionsOK'
<1> USE DEF connVars, initVars, bullVars, closeVars, nestVars
<1>1. TypeOK'
  <2> USE DEF TypeOK
  <2>1. CASE CreateQueue
    <3>1. taskInit' \in {"done", "ready"}
      BY <2>1 DEF CreateQueue
    <3>2. queue' \in BOOLEAN /\ bull' \in {"none", "open", "closing", "closed"}
      BY <2>1 DEF CreateQueue
    <3> QED BY <2>1, <3>1, <3>2 DEF CreateQueue
  <2>2. CASE QueueReady \/ Rethrow \/ RedisInitDone
    <3>1. taskInit' \in {"todo", "client", "ready", "failing", "threw", "done"}
      BY <2>2 DEF QueueReady, Rethrow, RedisInitDone
    <3>2. redisInit' \in {"todo", "waiting", "done"}
      BY <2>2 DEF QueueReady, Rethrow, RedisInitDone
    <3>3. UNCHANGED <<enabled, connVars, bullVars, closeVars, nestVars>>
      BY <2>2 DEF QueueReady, Rethrow, RedisInitDone
    <3> QED BY <3>1, <3>2, <3>3
  <2> DEFINE HandlesOK == /\ queue' \in BOOLEAN
                          /\ bull' \in {"none", "open", "closing", "closed"}
                          /\ taskShut' \in {"none", "closing", "done"}
  <2>3. CASE QueueNotReady
    <3>1. HandlesOK /\ taskInit' = "failing"
      BY <2>3, TaskShutdownOK DEF QueueNotReady
    <3>2. UNCHANGED <<enabled, connVars, redisInit, closeVars, nestVars>>
      BY <2>3 DEF QueueNotReady
    <3> QED BY <3>1, <3>2
  <2>4. CASE BootstrapRejects \/ Listen \/ Signal
    <3>1. boot' \in {"init", "up", "failed"} /\ proc' \in {"running", "aborted"}
      BY <2>4 DEF BootstrapRejects, Listen, Signal
    <3>2. listening' \in BOOLEAN /\ served' \in BOOLEAN
      BY <2>4 DEF BootstrapRejects, Listen, Signal
    <3>3. down' \in {"none", "hooks", "server"}
      BY <2>4 DEF BootstrapRejects, Listen, Signal
    <3>4. UNCHANGED <<enabled, connVars, initVars, bullVars, closeVars>>
      BY <2>4 DEF BootstrapRejects, Listen, Signal
    <3> QED BY <3>1, <3>2, <3>3, <3>4
  <2>5. CASE TaskOnModuleDestroy
    <3>1. HandlesOK
      BY <2>5, TaskShutdownOK DEF TaskOnModuleDestroy
    <3>2. UNCHANGED <<enabled, connVars, initVars, closeVars, nestVars>>
      BY <2>5 DEF TaskOnModuleDestroy
    <3> QED BY <3>1, <3>2
  <2>6. CASE TaskClosed
    BY <2>6 DEF TaskClosed
  <2>7. CASE StopServer \/ Exit
    BY <2>7 DEF StopServer, Exit
  <2> QED BY <2>1, <2>2, <2>3, <2>4, <2>5, <2>6, <2>7 DEF Elsewhere
<1>2. /\ UNCHANGED <<enabled, field, memo, outcome, sockets, redisShut, toClose>>
      /\ redisInit' = "todo" <=> redisInit = "todo"
      /\ down' # "none" /\ down = "none" => redisInit # "todo"
      /\ down # "none" => down' # "none"
  BY DEF Elsewhere, RedisInitDone, CreateQueue, QueueReady, QueueNotReady, Rethrow,
         BootstrapRejects, Listen, Signal, TaskOnModuleDestroy, TaskShutdown,
         TaskClosed, StopServer, Exit
<1>3. ASSUME NEW c \in Concerns PROVE ConcernOK(c)'
  BY <1>2 DEF ConnectionsOK, ConcernOK
<1> QED
  BY <1>1, <1>2, <1>3 DEF ConnectionsOK

-----------------------------------------------------------------------------
\* The queue.
LEMMA QueueStepOK ==
  ASSUME TypeOK, QueueOK, Next
  PROVE  QueueOK'
<1> USE DEF QueueOK, QueueFieldIsOpen, OnlyBullFailsStartup, TypeOK,
            connVars, initVars, bullVars, closeVars, nestVars
<1>1. CASE RedisOnModuleInit \/ RedisInitDone \/ TaskOnModuleInit
  BY <1>1 DEF RedisOnModuleInit, RedisInitDone, TaskOnModuleInit
<1>2. CASE CreateQueue
  BY <1>2 DEF CreateQueue
<1>3. CASE QueueReady \/ Rethrow \/ BootstrapRejects \/ Listen
  BY <1>3 DEF QueueReady, Rethrow, BootstrapRejects, Listen
<1>4. CASE QueueNotReady
  BY <1>4 DEF QueueNotReady, TaskShutdown
<1>5. CASE Settles \/ Signal
  BY <1>5 DEF Settles, Connected, ConnectFails, Signal
<1>6. CASE TaskOnModuleDestroy
  BY <1>6 DEF TaskOnModuleDestroy, TaskShutdown
<1>7. CASE TaskClosed
  BY <1>7 DEF TaskClosed
<1>8. CASE RedisOnModuleDestroy \/ CloseClients \/ ResetFields
           \/ \E c \in Concerns : QuitFails(c)
  BY <1>8 DEF RedisOnModuleDestroy, CloseClients, ResetFields, QuitFails
<1>9. CASE StopServer \/ Exit \/ Ended
  BY <1>9 DEF StopServer, Exit, Ended, vars
<1> QED
  BY <1>1, <1>2, <1>3, <1>4, <1>5, <1>6, <1>7, <1>8, <1>9
     DEF Next, Startup, Shutdown

-----------------------------------------------------------------------------
\* What served.
LEMMA ServedStepOK ==
  ASSUME LifecycleInv, Next
  PROVE  ServedOK'
<1> USE DEF LifecycleInv, ServedOK, connVars, initVars, bullVars, closeVars,
            nestVars
<1>1. CASE RedisOnModuleInit \/ RedisInitDone \/ TaskOnModuleInit
  BY <1>1 DEF RedisOnModuleInit, RedisInitDone, TaskOnModuleInit
<1>2. CASE CreateQueue \/ QueueReady \/ Rethrow \/ BootstrapRejects \/ Listen
  BY <1>2 DEF CreateQueue, QueueReady, Rethrow, BootstrapRejects, Listen
<1>3. CASE QueueNotReady
  BY <1>3 DEF QueueNotReady, TaskShutdown
<1>4. ASSUME NEW c \in Concerns, Connected(c) \/ ConnectFails(c) PROVE ServedOK'
  BY <1>4 DEF Connected, ConnectFails, ConnectionsOK, ConcernOK, TypeOK
<1>5. CASE Signal
  BY <1>5 DEF Signal, QueueOK, ConnectionsOK
<1>6. CASE TaskOnModuleDestroy
  BY <1>6 DEF TaskOnModuleDestroy, TaskShutdown, QueueOK, QueueFieldIsOpen
<1>7. CASE TaskClosed
  BY <1>7 DEF TaskClosed
<1>8. CASE RedisOnModuleDestroy \/ CloseClients \/ \E c \in Concerns : QuitFails(c)
  BY <1>8 DEF RedisOnModuleDestroy, CloseClients, QuitFails
<1>9. CASE ResetFields
  BY <1>9 DEF ResetFields, ConnectionsOK, ConcernOK
<1>10. CASE StopServer \/ Exit \/ Ended
  BY <1>10 DEF StopServer, Exit, Ended, vars
<1> QED
  BY <1>1, <1>2, <1>3, <1>4, <1>5, <1>6, <1>7, <1>8, <1>9, <1>10
     DEF Next, Startup, Settles, Shutdown

LEMMA InvStep == LifecycleInv /\ [Next]_vars => LifecycleInv'
<1> SUFFICES ASSUME LifecycleInv, [Next]_vars PROVE LifecycleInv'
  OBVIOUS
<1>1. CASE Next
  <2>1. TypeOK' /\ ConnectionsOK'
    <3>1. CASE RedisOnModuleInit
      BY <3>1, RedisOnModuleInitOK DEF LifecycleInv
    <3>2. CASE TaskOnModuleInit
      BY <3>2, TaskOnModuleInitOK DEF LifecycleInv
    <3>3. CASE Settles
      BY <3>3, SettlesOK DEF LifecycleInv, Settles
    <3>4. CASE \/ RedisOnModuleDestroy \/ CloseClients \/ ResetFields
               \/ \E c \in Concerns : QuitFails(c)
      BY <3>4, ClosesOK DEF LifecycleInv
    <3>5. CASE Elsewhere \/ RedisInitDone
      BY <3>5, ElsewhereOK DEF LifecycleInv
    <3>6. CASE Ended
      BY <3>6 DEF Ended, vars, connVars, initVars, bullVars, closeVars, nestVars,
                  LifecycleInv, TypeOK, ConnectionsOK, ConcernOK
    <3> QED
      BY <1>1, <3>1, <3>2, <3>3, <3>4, <3>5, <3>6
         DEF Next, Startup, Shutdown, Elsewhere
  <2> QED
    BY <1>1, <2>1, QueueStepOK, ServedStepOK DEF LifecycleInv
<1>2. CASE UNCHANGED vars
  BY <1>2 DEF vars, connVars, initVars, bullVars, closeVars, nestVars, LifecycleInv,
              TypeOK, ConnectionsOK, ConcernOK, QueueOK, QueueFieldIsOpen,
              OnlyBullFailsStartup, ServedOK
<1> QED
  BY <1>1, <1>2

LEMMA LifecycleInvariant == Spec => []LifecycleInv
<1> QED
  BY InitInv, InvStep, PTL DEF Spec

-----------------------------------------------------------------------------
\* Every variable of the lifecycle has its type, and no client is closed that
\* is not there.
THEOREM LifecycleTypes == Spec => []TypeOK
<1>1. LifecycleInv => TypeOK
  BY DEF LifecycleInv
<1> QED
  BY <1>1, LifecycleInvariant, PTL

\* Until shutdown(), at most one client per enabled concern, though two hooks
\* ask for them (RedisConnectionManager.ensureQueueClient).
THEOREM SingleFlight == Spec => []OneClientPerConcern
<1>1. LifecycleInv => OneClientPerConcern
  BY DEF LifecycleInv, ConnectionsOK, ConcernOK, OneClientPerConcern
<1> QED
  BY <1>1, LifecycleInvariant, PTL

\* The queue that publish() finds in its field is open.
THEOREM PublishedQueueIsOpen == Spec => []QueueFieldIsOpen
<1>1. LifecycleInv => QueueFieldIsOpen
  BY DEF LifecycleInv, QueueOK
<1> QED
  BY <1>1, LifecycleInvariant, PTL

\* Only a queue that was created, and whose own connections failed, makes
\* bootstrap() reject.
THEOREM RedisNeverStopsStartup == Spec => []OnlyBullFailsStartup
<1>1. LifecycleInv => OnlyBullFailsStartup
  BY DEF LifecycleInv, QueueOK
<1> QED
  BY <1>1, LifecycleInvariant, PTL

\* A process that exits after a signal that found it serving has closed
\* clients, queue and worker.
THEOREM ServedLeavesNothing == Spec => []ServedExitIsClean
<1>1. LifecycleInv => ServedExitIsClean
  BY DEF LifecycleInv, ServedOK, TypeOK, ServedExitIsClean, NothingOpen, Open
<1> QED
  BY <1>1, LifecycleInvariant, PTL
=============================================================================
