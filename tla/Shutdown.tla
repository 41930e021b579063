------------------------------ MODULE Shutdown ------------------------------
(***************************************************************************)
(* The life of the process: main (src/src/main.cpp:88-196) starts the      *)
(* server's thread, loads the log, opens the two semaphores, starts a      *)
(* routine thread per channel, the log worker and the staff reporter, and  *)
(* joins all but the server; a signal handler (522-533) that runs on       *)
(* whatever thread it interrupts pushes two lines to the log and clears    *)
(* g_running, on which every joined thread returns.                        *)
(*                                                                         *)
(* Everybody pushes to one Log, whose mutex Log_lock is not recursive      *)
(* (src/include/config/logHandler.h:43-107); load fills its list without   *)
(* the mutex.  A turn of a channel thread is one step here, with or        *)
(* without a line for the log; ChannelRoutine has the rest of it.  An      *)
(* exception that leaves a thread's function ends the process at once.     *)
(***************************************************************************)
EXTENDS Integers, Sequences, FiniteSets

CONSTANTS
  Channel,         \* the channels, one routine thread each
  Main, LogWorker, StaffWorker,   \* the threads that main joins, and main
  ServerThread,    \* the web server's thread, which nobody joins
  Nobody,          \* owner of a free mutex
  Signals,         \* the signals sent, each once (SIGINT, SIGTERM)
  Permits,         \* initial value of each of the two semaphores (6)
  ReportInterval   \* g_staff_report_interval_sec

Worker == Channel \cup {LogWorker, StaffWorker}
Thread == Worker \cup {Main, ServerThread}

ASSUME ThreadAssumption ==
  /\ Main \notin Worker /\ LogWorker \notin Channel
  /\ StaffWorker \notin Channel \cup {LogWorker}
  /\ ServerThread \notin Worker \cup {Main}
  /\ Nobody \notin Thread
ASSUME NumberAssumption == Permits \in Nat \ {0} /\ ReportInterval \in Nat

VARIABLES
  at,         \* where each thread is
  handling,   \* for each thread, the handlers it runs, the innermost last
  lock,       \* the thread that holds Log_lock, or Nobody
  running,    \* g_running
  sem,        \* the value under each semaphore name of the system
  sent,       \* the signals delivered so far
  naps,       \* the counter of the staff reporter's loop of one-second naps
  exit        \* how the process is doing

vars == <<at, handling, lock, running, sem, sent, naps, exit>>

SemName == {"/get_image", "/inference"}
Absent  == -1

\* What runs before a push has the mutex, and what runs while it has it.
Held == [wantLog |-> "hasLog", wantError |-> "hasError"]

MainAt    == {"serve", "load", "loading", "openImage", "openInference", "wantLog",
              "hasLog", "spawn", "spawnLog", "spawnStaff", "joinChannels", "joinLog",
              "joinStaff", "joinStaffAgain", "failed", "gone"}
WorkerAt  == {"unborn", "start", "test", "turn", "nap", "report", "wantLog",
              "hasLog", "wantError", "hasError", "returned"}
ServerAt  == {"unborn", "listen", "returned"}
HandlerAt == {"want1", "has1", "want2", "has2", "clear"}

Alive == exit = "running"

\* A thread runs its own code only outside signal handlers.
Step(t, from, to) ==
  /\ Alive /\ handling[t] = <<>>
  /\ at[t] = from /\ at' = [at EXCEPT ![t] = to]

\* A step of a thread that changes nothing shared.
Move(t, from, to) ==
  /\ Step(t, from, to)
  /\ UNCHANGED <<handling, lock, running, sem, sent, naps, exit>>

\* Thread t throws in its step `from' and nothing catches it: std::terminate, with
\* the other threads wherever they are.
Throw(t, from) ==
  /\ Alive /\ handling[t] = <<>> /\ at[t] = from
  /\ exit' = "crashed"
  /\ UNCHANGED <<at, handling, lock, running, sem, sent, naps>>

-----------------------------------------------------------------------------
(***************************************************************************)
(* Start: the log and the semaphores.                                      *)
(***************************************************************************)
\* Log::load pushes the saved lines to the list, without Log_lock: a signal
\* handler that pushes meanwhile, on this thread or on the server's, leaves a list
\* that may bring the process down.
ListBreaks ==
  /\ Alive /\ at[Main] = "loading"
  /\ \E t \in Thread : \E i \in DOMAIN handling[t] : handling[t][i] \in {"has1", "has2"}
  /\ exit' = "crashed"
  /\ UNCHANGED <<at, handling, lock, running, sem, sent, naps>>

\* Mutant of OpenSem: no sem_unlink first, so that O_CREAT finds an old name.
OpenSemKept(name, from, to) ==
  /\ Step(Main, from, to)
  /\ sem' = [sem EXCEPT ![name] = IF @ = Absent THEN Permits ELSE @]
  /\ UNCHANGED <<handling, lock, running, sent, naps, exit>>

\* sem_unlink, then sem_open: a new semaphore, whatever an earlier run left.
OpenSem(name, from, to) ==
  /\ Step(Main, from, to)
  /\ sem' = [sem EXCEPT ![name] = Permits]
  /\ UNCHANGED <<handling, lock, running, sent, naps, exit>>

\* sem_unlink works and sem_open does not: main returns 1.
OpenSemFails(name, from) ==
  /\ Step(Main, from, "failed")
  /\ sem' = [sem EXCEPT ![name] = Absent]
  /\ UNCHANGED <<handling, lock, running, sent, naps, exit>>

\* Leaving main destroys server, whose thread was never joined or detached:
\* the destructor of a joinable std::thread calls std::terminate.
DestroyServer ==
  /\ Step(Main, "failed", "gone")
  /\ exit' = "ended"
  /\ UNCHANGED <<handling, lock, running, sem, sent, naps>>

(***************************************************************************)
(* Start and end of the threads.                                           *)
(***************************************************************************)
\* The threads of new start at the first step of their function.
Spawn(new, first, from, to) ==
  /\ Alive /\ handling[Main] = <<>> /\ at[Main] = from
  /\ at' = [t \in Thread |-> IF t = Main THEN to
                             ELSE IF t \in new THEN first ELSE at[t]]
  /\ UNCHANGED <<handling, lock, running, sem, sent, naps, exit>>

\* Mutant of Join: the threads are left to themselves, as detach() would.
JoinNone(old, from, to) ==
  /\ Step(Main, from, to)
  /\ UNCHANGED <<handling, lock, running, sem, sent, naps, exit>>

\* join() of each thread of old.
Join(old, from, to) ==
  /\ \A t \in old : at[t] = "returned"
  /\ Step(Main, from, to)
  /\ UNCHANGED <<handling, lock, running, sem, sent, naps, exit>>

\* The second staff_thread.join(): the thread is not joinable any more, join
\* throws std::system_error, nothing catches it.  What main has left to do, the
\* sem_unlink of both names included, is never reached.
JoinAgain ==
  /\ Step(Main, "joinStaffAgain", "gone")
  /\ exit' = "ended"
  /\ UNCHANGED <<handling, lock, running, sem, sent, naps>>

\* Numbers of the configuration that do not parse throw before the log is loaded,
\* before the semaphores are opened and before the threads are started.
MainThrows == \E from \in {"load", "openImage", "wantLog"} : Throw(Main, from)

MainStep ==
  \/ Spawn({ServerThread}, "listen", "serve", "load")
  \/ Move(Main, "load", "loading") \/ Move(Main, "loading", "openImage")
  \/ MainThrows
  \/ OpenSem("/get_image", "openImage", "openInference")
  \/ OpenSem("/inference", "openInference", "wantLog")
  \/ OpenSemFails("/get_image", "openImage")
  \/ OpenSemFails("/inference", "openInference")
  \/ DestroyServer
  \/ Spawn(Channel, "start", "spawn", "spawnLog")
  \/ Spawn({LogWorker}, "test", "spawnLog", "spawnStaff")
  \/ Spawn({StaffWorker}, "test", "spawnStaff", "joinChannels")
  \/ Join(Channel, "joinChannels", "joinLog")
  \/ Join({LogWorker}, "joinLog", "joinStaff")
  \/ Join({StaffWorker}, "joinStaff", "joinStaffAgain")
  \/ JoinAgain

-----------------------------------------------------------------------------
(***************************************************************************)
(* The workers.                                                            *)
(***************************************************************************)
\* while (g_running)
Test(t, to) == Move(t, "test", IF running THEN to ELSE "returned")

\* Mutant of LogTest: the log worker never looks at g_running.
LogTestNothing == Move(LogWorker, "test", "wantLog")

LogTest == Test(LogWorker, "wantLog")

\* routine: a model that cannot be read is logged and ends the thread; a turn of
\* the loop logs at most once, a raised or a cancelled alarm.  std::stoi of the
\* configuration's numbers throws at the start, cv::resize of a picture that
\* cannot be decoded in a turn.
ChannelStep(ch) ==
  \/ Move(ch, "start", "test") \/ Move(ch, "start", "wantError")
  \/ Test(ch, "turn")
  \/ Move(ch, "turn", "test") \/ Move(ch, "turn", "wantLog")
  \/ Throw(ch, "start") \/ Throw(ch, "turn")

\* Server::loop returns when listen does: the port is taken.
ServerReturns == Move(ServerThread, "listen", "returned")

\* log_worker: save, then five seconds of sleep.
LogStep == LogTest \/ Move(LogWorker, "nap", "test")

\* staff_report_routine: naps of a second until it is time or the program stops.
StaffTest ==
  /\ Step(StaffWorker, "test", IF running THEN "nap" ELSE "returned")
  /\ naps' = 0
  /\ UNCHANGED <<handling, lock, running, sem, sent, exit>>

StaffNap ==
  /\ naps < ReportInterval /\ running
  /\ Step(StaffWorker, "nap", "nap")
  /\ naps' = naps + 1
  /\ UNCHANGED <<handling, lock, running, sem, sent, exit>>

StaffWake ==
  /\ ~(naps < ReportInterval /\ running)
  /\ Move(StaffWorker, "nap", IF running THEN "report" ELSE "returned")

StaffStep == StaffTest \/ StaffNap \/ StaffWake \/ Move(StaffWorker, "report", "test")

(***************************************************************************)
(* Log::push and Log::save.                                                *)
(***************************************************************************)
TakeLock(t) ==
  /\ at[t] \in DOMAIN Held /\ lock = Nobody
  /\ Step(t, at[t], Held[at[t]])
  /\ lock' = t
  /\ UNCHANGED <<handling, running, sem, sent, naps, exit>>

\* Where a thread goes on after its push or save.
AfterLog(t) == CASE t = Main -> "spawn"
                 [] t = LogWorker -> "nap"
                 [] OTHER -> IF at[t] = "hasError" THEN "returned" ELSE "test"

DropLock(t) ==
  /\ at[t] \in {"hasLog", "hasError"}
  /\ Step(t, at[t], AfterLog(t))
  /\ lock' = Nobody
  /\ UNCHANGED <<handling, running, sem, sent, naps, exit>>

-----------------------------------------------------------------------------
(***************************************************************************)
(* The signal handler.                                                     *)
(***************************************************************************)
\* The system may run the handler on any thread of the process.  A signal is
\* blocked while its own handler runs there, the other one is not.
Deliver(signal, t) ==
  /\ Alive /\ signal \in Signals \ sent
  /\ at[t] \notin {"unborn", "returned", "gone"}
  /\ sent' = sent \cup {signal}
  /\ handling' = [handling EXCEPT ![t] = Append(@, "want1")]
  /\ UNCHANGED <<at, lock, running, sem, naps, exit>>

Innermost(t) == handling[t][Len(handling[t])]

Advance(t, to) ==
  handling' = [handling EXCEPT ![t][Len(handling[t])] = to]

\* Mutant of HandlerLocks: pushes whether the mutex is free or not.
HandlerBarges(t) ==
  /\ Alive /\ handling[t] # <<>> /\ Innermost(t) \in {"want1", "want2"}
  /\ Advance(t, IF Innermost(t) = "want1" THEN "has1" ELSE "has2")
  /\ lock' = t
  /\ UNCHANGED <<at, running, sem, sent, naps, exit>>

\* Each of the two pushes waits for the mutex like any other.
HandlerLocks(t) ==
  /\ Alive /\ handling[t] # <<>> /\ Innermost(t) \in {"want1", "want2"}
  /\ lock = Nobody
  /\ Advance(t, IF Innermost(t) = "want1" THEN "has1" ELSE "has2")
  /\ lock' = t
  /\ UNCHANGED <<at, running, sem, sent, naps, exit>>

HandlerUnlocks(t) ==
  /\ Alive /\ handling[t] # <<>> /\ Innermost(t) \in {"has1", "has2"}
  /\ Advance(t, IF Innermost(t) = "has1" THEN "want2" ELSE "clear")
  /\ lock' = Nobody
  /\ UNCHANGED <<at, running, sem, sent, naps, exit>>

\* g_running = false; the handler returns to what it interrupted.
HandlerClears(t) ==
  /\ Alive /\ handling[t] # <<>> /\ Innermost(t) = "clear"
  /\ running' = FALSE
  /\ handling' = [handling EXCEPT ![t] = SubSeq(@, 1, Len(@) - 1)]
  /\ UNCHANGED <<at, lock, sem, sent, naps, exit>>

-----------------------------------------------------------------------------
\* A run starts with whatever semaphores an earlier run, cut short anywhere, left.
Init ==
  /\ at       = [t \in Thread |-> IF t = Main THEN "serve" ELSE "unborn"]
  /\ handling = [t \in Thread |-> <<>>]
  /\ lock     = Nobody
  /\ running  = TRUE
  /\ sem \in [SemName -> {Absent} \cup 0 .. Permits]
  /\ sent     = {}
  /\ naps     = 0
  /\ exit     = "running"

OwnStep(t) == \/ t = Main /\ MainStep
              \/ t \in Channel /\ ChannelStep(t)
              \/ t = LogWorker /\ LogStep
              \/ t = StaffWorker /\ StaffStep
              \/ DropLock(t)

HandlerStep(t) == HandlerUnlocks(t) \/ HandlerClears(t)

Lock(t) == TakeLock(t) \/ HandlerLocks(t)

\* A handler that waits for the mutex of the thread it has interrupted.
SelfDeadlock == /\ lock # Nobody /\ handling[lock] # <<>>
                /\ Innermost(lock) \in {"want1", "want2"}

\* The process is gone, or hangs with what is left of its threads.
Stuck == (~Alive \/ SelfDeadlock) /\ UNCHANGED vars

Next ==
  \/ ListBreaks
  \/ ServerReturns
  \/ \E t \in Thread : OwnStep(t) \/ HandlerStep(t) \/ Lock(t)
  \/ \E signal \in Signals, t \in Thread : Deliver(signal, t)
  \/ Stuck

Spec == Init /\ [][Next]_vars

\* Threads run.  A mutex is not fair, but its users sleep for 50 ms or more
\* between two lines and hold it for one: nobody who wants it fails to get it for
\* ever.  No signal has to come.
FairSpec ==
  /\ Spec
  /\ \A t \in Thread : WF_vars(OwnStep(t) \/ HandlerStep(t)) /\ SF_vars(Lock(t))

-----------------------------------------------------------------------------
(***************************************************************************)
(* Properties.                                                             *)
(***************************************************************************)
\* Every variable has its type.
TypeOK ==
  /\ at \in [Thread -> MainAt \cup WorkerAt \cup ServerAt]
  /\ handling \in [Thread -> Seq(HandlerAt)]
  /\ lock \in Thread \cup {Nobody}
  /\ running \in BOOLEAN
  /\ sem \in [SemName -> {Absent} \cup 0 .. Permits]
  /\ sent \subseteq Signals
  /\ naps \in 0 .. ReportInterval
  /\ exit \in {"running", "ended", "crashed"}

\* Whether thread t is inside the mutex at depth i of its handlers, 0 being its
\* own code.
Inside(t, i) == IF i = 0 THEN at[t] \in {"hasLog", "hasError"}
                         ELSE handling[t][i] \in {"has1", "has2"}

\* Those who hold the mutex are in the list one at a time.
Guarded ==
  /\ \A t \in Thread : \A i \in 0 .. Len(handling[t]) :
       Inside(t, i) =>
         /\ lock = t
         /\ \A j \in 0 .. Len(handling[t]) : Inside(t, j) => j = i
  /\ lock # Nobody => \E i \in 0 .. Len(handling[lock]) : Inside(lock, i)

\* The list of the log is never in two pushes or saves at once, not even in that of
\* a thread and of the handler that interrupted it in the middle, and nobody
\* leaves the mutex locked behind.  Whoever meets main in the middle of load, which
\* takes no mutex, is a signal handler (logHandler.h:65, 83-88, 101;
\* main.cpp:92-93, 109, 526-527).
OneInLog ==
  /\ Guarded
  /\ at[Main] = "loading" =>
       \A t \in Thread : \A i \in 0 .. Len(handling[t]) : Inside(t, i) => i # 0

\* The threads start with all permits, whatever an earlier run that was killed
\* between a sem_wait and a sem_post left under the names (main.cpp:125-138).
PermitsStartFull ==
  (\E t \in Worker : at[t] # "unborn") => \A name \in SemName : sem[name] = Permits

\* Main's own end, which is an abort both ways, does not come under a thread that
\* still uses the channels, the detector or the log: only an exception or a broken
\* list ends the process there.  The web server's thread is not joined and may
\* still be listening (main.cpp:179-195, server.cpp:62).
EndsAfterWorkers ==
  exit = "ended" => \A t \in Worker : at[t] \in {"unborn", "returned"}

\* A signal, wherever and whenever it comes, ends the process; only a handler that
\* waits for its own thread can prevent it (main.cpp:522-533, 179-185).
SignalEndsProcess == (sent # {}) ~> (~Alive \/ SelfDeadlock)

\* main.cpp:524-525 `종료 신호 수신...', `이미 실행된 thread의 종료까지 대기...': a
\* signal received clears g_running.
SignalClearsRunning == (sent # {}) ~> (~running \/ ~Alive)

=============================================================================
