---------------------------- MODULE ModbusHandler ----------------------------
(***************************************************************************)
(* The modbus server that came before MQTT                                 *)
(* (src/src/_modbus/modbus_handler.c): a context and a register mapping    *)
(* are allocated by init and freed by release; start creates a server and a*)
(* configuration thread that use them, stop has them end and joins them.   *)
(*                                                                         *)
(* It is built into the program and called by nothing in it.  The caller   *)
(* here keeps to the order of the header's declarations: init, any number  *)
(* of starts and stops, release after a stop; since every function returns *)
(* void it cannot tell whether one has failed.  libmodbus, external,       *)
(* answers a null context with an error.                                   *)
(***************************************************************************)
EXTENDS Integers

CONSTANTS
  MaxInits,      \* bound: calls of init
  MaxStarts      \* bound: calls of start

ASSUME CallAssumption == MaxInits \in Nat /\ MaxStarts \in Nat

VARIABLES
  ctx,           \* what ctx points to: "null", "live", "freed"
  mb_mapping,    \* likewise; never "freed"
  g_task_running,
  serverThread,  \* g_server_task_thread: the start that created it, 0 for none
  configThread,  \* g_config_task_thread
  server,        \* where the server thread of each start is
  config,        \* where the configuration thread of each start is
  at,            \* where the caller is
  inited,        \* whether the caller has to release
  started,       \* whether the caller has to stop
  inits,         \* how often init was called
  starts         \* how often start was called

\* History variables: the first ends the program, the others steer no action.
VARIABLES
  misused,       \* freed memory was used or freed again
  badInit,       \* an init has failed half way
  badStart       \* a start has failed half way

memory  == <<ctx, mb_mapping>>
threads == <<serverThread, configThread, server, config>>
caller  == <<at, inited, started, inits, starts>>
blame   == <<badInit, badStart>>
modbusVars == <<memory, g_task_running, threads, caller, misused, blame>>

\* Inside a call of libmodbus, which was given the context.
InCall == {"listen", "accept", "receive", "reply"}
ServerAt == {"off", "begin", "test", "testClient", "returned"} \cup InCall

\* A thread that was created and has not returned.
Alive(thread) == {n \in DOMAIN thread : thread[n] \notin {"off", "returned"}}

-----------------------------------------------------------------------------
(***************************************************************************)
(* The functions of the header.                                            *)
(***************************************************************************)
\* modbus_handler_init; when there is no mapping the context is freed, not cleared.
HandlerInit ==
  /\ at = "idle" /\ ~inited /\ inits < MaxInits
  /\ inited' = TRUE /\ inits' = inits + 1
  /\ \/ ctx' = "live" /\ mb_mapping' = "live" /\ UNCHANGED badInit
     \/ ctx' = "null" /\ UNCHANGED <<mb_mapping, badInit>>
     \/ ctx' = "freed" /\ mb_mapping' = "null" /\ badInit' = TRUE
  /\ UNCHANGED <<g_task_running, threads, at, started, starts, misused, badStart>>

\* modbus_handler_release
HandlerRelease ==
  /\ at = "idle" /\ inited /\ ~started
  /\ inited' = FALSE
  /\ ctx' = "null" /\ mb_mapping' = "null"
  /\ misused' = \/ ctx = "freed"
                \/ ctx = "live" /\ \E n \in DOMAIN server : server[n] \in InCall
  /\ UNCHANGED <<g_task_running, threads, at, started, inits, starts, blame>>

\* modbus_handler_start, to the first pthread_create.
HandlerStart ==
  /\ at = "idle" /\ inited /\ ~started /\ starts < MaxStarts
  /\ ~g_task_running
  /\ g_task_running' = TRUE
  /\ starts' = starts + 1 /\ started' = TRUE
  /\ at' = "createServer"
  /\ UNCHANGED <<memory, threads, inited, inits, misused, blame>>

\* The server thread runs from here on; without it start gives up.
CreateServer ==
  /\ at = "createServer"
  /\ \/ /\ at' = "createConfig"
        /\ server' = [server EXCEPT ![starts] = "begin"] /\ serverThread' = starts
        /\ UNCHANGED g_task_running
     \/ /\ at' = "idle" /\ g_task_running' = FALSE
        /\ UNCHANGED <<server, serverThread>>
  /\ UNCHANGED <<memory, config, configThread, inited, started, inits, starts, misused,
                 blame>>

\* Without the second thread start gives up too, and leaves the first one alone.
CreateConfig ==
  /\ at = "createConfig" /\ at' = "idle"
  /\ \/ /\ config' = [config EXCEPT ![starts] = "test"] /\ configThread' = starts
        /\ UNCHANGED <<g_task_running, badStart>>
     \/ /\ g_task_running' = FALSE /\ badStart' = TRUE
        /\ UNCHANGED <<config, configThread>>
  /\ UNCHANGED <<memory, server, serverThread, inited, started, inits, starts, misused,
                 badInit>>

\* Mutant of HandlerStop: the threads are not told.
HandlerStopJoinsOnly ==
  /\ at = "idle" /\ started
  /\ at' = IF g_task_running THEN "joinServer" ELSE "idle"
  /\ started' = FALSE
  /\ UNCHANGED <<g_task_running, memory, threads, inited, inits, starts, misused, blame>>

\* modbus_handler_stop, to the first pthread_join.
HandlerStop ==
  /\ at = "idle" /\ started
  /\ at' = IF g_task_running THEN "joinServer" ELSE "idle"
  /\ g_task_running' = FALSE
  /\ started' = FALSE
  /\ UNCHANGED <<memory, threads, inited, inits, starts, misused, blame>>

\* Mutant of JoinServer: the handle is cleared without a join.
JoinServerDetaches ==
  /\ at = "joinServer" /\ at' = "joinConfig"
  /\ serverThread' = 0
  /\ UNCHANGED <<memory, g_task_running, configThread, server, config, inited, started,
                 inits, starts, misused, blame>>

JoinServer ==
  /\ at = "joinServer" /\ server[serverThread] = "returned"
  /\ at' = "joinConfig" /\ serverThread' = 0
  /\ UNCHANGED <<memory, g_task_running, configThread, server, config, inited, started,
                 inits, starts, misused, blame>>

\* Mutant of JoinConfig: this handle is cleared without a join.
JoinConfigDetaches ==
  /\ at = "joinConfig" /\ at' = "idle"
  /\ configThread' = 0
  /\ UNCHANGED <<memory, g_task_running, serverThread, server, config, inited, started,
                 inits, starts, misused, blame>>

JoinConfig ==
  /\ at = "joinConfig" /\ config[configThread] = "returned"
  /\ at' = "idle" /\ configThread' = 0
  /\ UNCHANGED <<memory, g_task_running, serverThread, server, config, inited, started,
                 inits, starts, misused, blame>>

-----------------------------------------------------------------------------
(***************************************************************************)
(* modbus_handler_server_task and modbus_handler_config_task.              *)
(***************************************************************************)
ServerGoto(n, from, to) ==
  /\ server[n] = from /\ server' = [server EXCEPT ![n] = to]
  /\ UNCHANGED <<memory, g_task_running, serverThread, configThread, config, caller,
                 blame>>

\* The thread calls libmodbus with whatever ctx is now.
Call(n, from, call, onError) ==
  /\ ServerGoto(n, from, IF ctx = "null" THEN onError ELSE call)
  /\ misused' = (ctx = "freed")

\* What becomes of a step that makes no call.
Move(n, from, to) == ServerGoto(n, from, to) /\ UNCHANGED misused

\* modbus_tcp_listen; the port may be taken.
Listen(n) ==
  \/ Call(n, "begin", "listen", "returned")
  \/ \E to \in {"test", "returned"} : Move(n, "listen", to)

\* while (g_task_running): the next client, or none, which is waited for with delay(500).
Accept(n) ==
  \/ g_task_running /\ Call(n, "test", "accept", "test")
  \/ ~g_task_running /\ Move(n, "test", "returned")
  \/ \E to \in {"test", "testClient"} : Move(n, "accept", to)

\* The inner while (g_task_running); a call that fails ends it, and closes the client.
ServeClient(n) ==
  \/ g_task_running /\ Call(n, "testClient", "receive", "test")
  \/ ~g_task_running /\ Move(n, "testClient", "test")
  \/ Move(n, "reply", "testClient")

\* modbus_receive returns: with a request, with EAGAIN, or because the client is gone.
\* The client's socket is a blocking one: until then the call does not return.
ClientActs(n) ==
  \/ server[n] = "receive" /\ ctx = "live" /\ Move(n, "receive", "reply")
  \/ \E to \in {"test", "testClient"} : Move(n, "receive", to)

ServerTask(n) == Listen(n) \/ Accept(n) \/ ServeClient(n)

\* One turn a second until g_task_running is cleared.
ConfigTask(n) ==
  /\ config[n] = "test" /\ ~g_task_running
  /\ config' = [config EXCEPT ![n] = "returned"]
  /\ UNCHANGED <<memory, g_task_running, serverThread, configThread, server, caller,
                 misused, blame>>

-----------------------------------------------------------------------------
ModbusInit ==
  /\ ctx = "null" /\ mb_mapping = "null" /\ g_task_running = FALSE
  /\ serverThread = 0 /\ configThread = 0
  /\ server = [n \in 1 .. MaxStarts |-> "off"]
  /\ config = [n \in 1 .. MaxStarts |-> "off"]
  /\ at = "idle" /\ inited = FALSE /\ started = FALSE /\ inits = 0 /\ starts = 0
  /\ misused = FALSE /\ badInit = FALSE /\ badStart = FALSE

\* The rest of a call once the caller has made it.
InsideCall == CreateServer \/ CreateConfig \/ JoinServer \/ JoinConfig

Caller == HandlerInit \/ HandlerRelease \/ HandlerStart \/ HandlerStop \/ InsideCall

\* After a misuse anything may happen, and nothing is said of it.
ModbusNext ==
  /\ ~misused
  /\ \/ Caller
     \/ \E n \in 1 .. MaxStarts : ServerTask(n) \/ ClientActs(n) \/ ConfigTask(n)

ModbusSpec == ModbusInit /\ [][ModbusNext]_modbusVars

\* Threads run; nothing is assumed of clients.
ModbusFairSpec ==
  /\ ModbusSpec
  /\ WF_modbusVars(~misused /\ InsideCall)
  /\ \A n \in 1 .. MaxStarts : /\ WF_modbusVars(~misused /\ ServerTask(n))
                               /\ WF_modbusVars(~misused /\ ConfigTask(n))

-----------------------------------------------------------------------------
(***************************************************************************)
(* Properties.                                                             *)
(***************************************************************************)
\* Every variable has its type, and the mapping is there when the context is.
ModbusTypeOK ==
  /\ ctx \in {"null", "live", "freed"}
  /\ mb_mapping = IF ctx = "live" THEN "live" ELSE "null"
  /\ g_task_running \in BOOLEAN /\ inited \in BOOLEAN /\ started \in BOOLEAN
  /\ serverThread \in 0 .. MaxStarts /\ configThread \in 0 .. MaxStarts
  /\ server \in [1 .. MaxStarts -> ServerAt]
  /\ config \in [1 .. MaxStarts -> {"off", "test", "returned"}]
  /\ at \in {"idle", "createServer", "createConfig", "joinServer", "joinConfig"}
  /\ inits \in 0 .. MaxInits /\ starts \in 0 .. MaxStarts
  /\ misused \in BOOLEAN /\ badInit \in BOOLEAN /\ badStart \in BOOLEAN

\* A caller that keeps to the order never has freed memory used or freed twice,
\* unless an init found no memory for the mapping or a start got only one of its threads
\* (modbus_handler.c:45-50, 100-113, 132-138).
MemorySafe == misused => badInit \/ badStart

\* When stop has returned, no thread of any start is left, except a server whose start
\* got no second thread: nobody joins that one (modbus_handler.c:141-155).
StopLeavesNoThread ==
  at = "idle" /\ ~started => Alive(config) = {} /\ (Alive(server) = {} \/ badStart)

\* A stop returns, unless a client keeps its connection open and sends nothing for ever
\* (modbus_handler.c:149-154, 215-217).
StopReturns ==
  [](at = "joinServer" =>
       <>(misused \/ at = "idle") \/ \E n \in 1 .. MaxStarts : <>[](server[n] = "receive"))

=============================================================================
