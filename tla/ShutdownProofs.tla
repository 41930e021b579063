--------------------------- MODULE ShutdownProofs ---------------------------
(***************************************************************************)
(* Theorems about Shutdown, for any number of channels and any signals:    *)
(* the list of the log is guarded, and the process outlives its threads.   *)
(***************************************************************************)
EXTENDS Shutdown, SequenceTheorems, TLAPS

-----------------------------------------------------------------------------
(***************************************************************************)
(* The strengthened invariant.                                             *)
(***************************************************************************)
InLog    == {"hasLog", "hasError"}
Loads    == {"serve", "load", "loading"}
NotBegun == Loads \cup {"openImage", "openInference", "wantLog", "hasLog", "spawn",
                        "failed"}
Opened   == MainAt \ (Loads \cup {"openImage", "openInference", "failed", "gone"})

\* How far main is tells what the workers are doing, and the state of the process.
MainInv ==
  /\ at[Main] \in MainAt
  /\ at[ServerThread] \in ServerAt
  /\ \A t \in Worker : at[t] \in WorkerAt
  /\ at[Main] \in NotBegun => \A t \in Worker : at[t] = "unborn"
  /\ at[Main] = "spawnLog" => at[LogWorker] = "unborn"
  /\ at[Main] \in {"spawnLog", "spawnStaff"} => at[StaffWorker] = "unborn"
  /\ at[Main] \in {"joinLog", "joinStaff", "joinStaffAgain"} =>
       \A t \in Channel : at[t] = "returned"
  /\ at[Main] \in {"joinStaff", "joinStaffAgain"} => at[LogWorker] = "returned"
  /\ at[Main] = "joinStaffAgain" => at[StaffWorker] = "returned"
  /\ exit = "ended" => at[Main] = "gone"

\* How far main is tells which semaphores are new.
SemInv ==
  /\ at[Main] = "openInference" => sem["/get_image"] = Permits
  /\ at[Main] \in Opened => \A name \in SemName : sem[name] = Permits

StartInv == MainInv /\ SemInv /\ EndsAfterWorkers /\ PermitsStartFull

IInv == TypeOK /\ Guarded /\ StartInv

\* While main loads the log no thread but it and the server's has been started, so
\* that whoever is in the list is a handler.
LEMMA LoadMeetsHandlers ==
  ASSUME TypeOK, MainInv, at[Main] = "loading", NEW t \in Thread
  PROVE  ~Inside(t, 0)
BY DEF MainInv, NotBegun, Loads, ServerAt, Inside, Thread

\* What a step does to the log: nothing, or one of the six actions that can.
Quiet == /\ UNCHANGED <<handling, lock>>
         /\ \A t \in Thread : at'[t] \in InLog <=> at[t] \in InLog

\* What a step does to main and the workers: nothing, or a worker takes a step.
WorkerMoves == \E t \in Worker : \E to \in WorkerAt :
  /\ at[t] \notin {"unborn", "returned"}
  /\ at' = [at EXCEPT ![t] = to]
  /\ UNCHANGED <<sem, exit>>

-----------------------------------------------------------------------------
(***************************************************************************)
(* Lemmas about sequences.                                                 *)
(***************************************************************************)
\* Popping the last handler leaves the others in place.
LEMMA PopHandler ==
  ASSUME NEW S, NEW s \in Seq(S), s # <<>>
  PROVE  /\ SubSeq(s, 1, Len(s) - 1) \in Seq(S)
         /\ Len(SubSeq(s, 1, Len(s) - 1)) = Len(s) - 1
         /\ \A i \in 1 .. Len(s) - 1 : SubSeq(s, 1, Len(s) - 1)[i] = s[i]
<1>1. Len(s) \in Nat /\ Len(s) > 0
  BY EmptySeq, LenProperties
<1>2. \A i \in 1 .. Len(s) - 1 : s[i] \in S
  BY <1>1, ElementOfSeq
<1> DEFINE n == Len(s) - 1
<1>3. n \in Int /\ 1 \in Int /\ n >= 0
  BY <1>1
<1> HIDE DEF n
<1>4. /\ SubSeq(s, 1, n) \in Seq(S)
      /\ Len(SubSeq(s, 1, n)) = IF 1 <= n THEN n - 1 + 1 ELSE 0
      /\ \A i \in 1 .. n - 1 + 1 : SubSeq(s, 1, n)[i] = s[1 + i - 1]
  BY <1>2, <1>3, SubSeqProperties DEF n
<1>5. /\ Len(SubSeq(s, 1, n)) = n
      /\ \A i \in 1 .. n : SubSeq(s, 1, n)[i] = s[i]
  BY <1>3, <1>4
<1>6. QED
  BY <1>4, <1>5 DEF n

\* Starting a handler leaves the others in place.
LEMMA PushHandler ==
  ASSUME NEW S, NEW s \in Seq(S), NEW e \in S
  PROVE  /\ Append(s, e) \in Seq(S)
         /\ Len(Append(s, e)) = Len(s) + 1
         /\ \A i \in 1 .. Len(s) : Append(s, e)[i] = s[i]
         /\ Append(s, e)[Len(s) + 1] = e
BY AppendProperties

\* Replacing the last handler leaves the others in place.
LEMMA AdvanceHandler ==
  ASSUME NEW S, NEW s \in Seq(S), s # <<>>, NEW e \in S
  PROVE  /\ Len(s) \in 1 .. Len(s)
         /\ [s EXCEPT ![Len(s)] = e] \in Seq(S)
         /\ Len([s EXCEPT ![Len(s)] = e]) = Len(s)
         /\ \A i \in 1 .. Len(s) : [s EXCEPT ![Len(s)] = e][i] =
                                     IF i = Len(s) THEN e ELSE s[i]
<1>1. Len(s) \in Nat /\ Len(s) > 0
  BY EmptySeq, LenProperties
<1>2. QED
  BY <1>1, ExceptSeq

-----------------------------------------------------------------------------
(***************************************************************************)
(* The three things that change handlers, and what they do to the log.     *)
(***************************************************************************)
\* The list of threads, the handlers and the mutex, without the rest.
LogType == /\ handling \in [Thread -> Seq(HandlerAt)]
           /\ at \in [Thread -> MainAt \cup WorkerAt \cup ServerAt]
           /\ lock \in Thread \cup {Nobody}

\* If the frames inside the log are the same ones, it is as guarded as before.
LEMMA SameFrames ==
  ASSUME LogType, Guarded, lock' = lock,
         \A u \in Thread : \A i :
           i \in 0 .. Len(handling'[u]) /\ Inside(u, i)'
             <=> i \in 0 .. Len(handling[u]) /\ Inside(u, i)
  PROVE  Guarded'
BY DEF Guarded, LogType

\* A step that starts, ends or moves no frame into or out of the log.
LEMMA QuietKeeps ==
  ASSUME LogType, Guarded, Quiet
  PROVE  Guarded'
<1>1. \A t \in Thread : \A i : Inside(t, i)' <=> Inside(t, i)
  BY DEF Quiet, Inside, InLog
<1>2. QED
  BY <1>1 DEF Guarded, Quiet, LogType

\* A push or a save outside handlers takes the mutex.
LEMMA TakeKeeps ==
  ASSUME LogType, Guarded, NEW t \in Thread, TakeLock(t)
  PROVE  Guarded'
<1>1. /\ lock = Nobody /\ lock' = t /\ handling' = handling /\ handling[t] = <<>>
      /\ at' = [at EXCEPT ![t] = at'[t]] /\ at'[t] \in InLog
  BY DEF TakeLock, Step, Held, InLog, LogType
<1>2. \A u \in Thread : \A i \in 0 .. Len(handling[u]) : ~Inside(u, i)
  BY <1>1, ThreadAssumption DEF Guarded
<1>3. Len(handling[t]) = 0
  BY <1>1
<1>4. Inside(t, 0)'
  BY <1>1 DEF Inside, InLog, LogType
<1>5. \A u \in Thread \ {t} : \A i \in 0 .. Len(handling[u]) : ~Inside(u, i)'
  BY <1>1, <1>2 DEF Inside, LogType
<1>6. QED
  BY <1>1, <1>3, <1>4, <1>5 DEF Guarded

\* A push or a save outside handlers gives the mutex back.
LEMMA DropKeeps ==
  ASSUME LogType, Guarded, NEW t \in Thread, DropLock(t)
  PROVE  Guarded'
<1>1. /\ lock' = Nobody /\ handling' = handling /\ handling[t] = <<>>
      /\ at' = [at EXCEPT ![t] = AfterLog(t)] /\ at[t] \in InLog
      /\ AfterLog(t) \notin InLog
  BY DEF DropLock, Step, InLog, AfterLog
<1>2. Len(handling[t]) = 0 /\ Inside(t, 0)
  BY <1>1 DEF Inside, InLog
<1>3. lock = t
  BY <1>2 DEF Guarded
<1>4. \A u \in Thread \ {t} : \A i \in 0 .. Len(handling[u]) : ~Inside(u, i)
  BY <1>3 DEF Guarded
<1>5. \A u \in Thread : \A i \in 0 .. Len(handling[u]) : ~Inside(u, i)'
  BY <1>1, <1>2, <1>4 DEF Inside, LogType, InLog
<1>6. QED
  BY <1>1, <1>5 DEF Guarded

\* A handler that starts is not inside yet.
LEMMA DeliverKeeps ==
  ASSUME LogType, Guarded, NEW signal \in Signals, NEW t \in Thread,
         Deliver(signal, t)
  PROVE  Guarded' /\ LogType'
<1> DEFINE s == handling[t]
<1>1. /\ lock' = lock /\ at' = at
      /\ handling' = [handling EXCEPT ![t] = Append(s, "want1")]
  BY DEF Deliver
<1>2. /\ s \in Seq(HandlerAt) /\ Append(s, "want1") \in Seq(HandlerAt)
      /\ Len(s) \in Nat /\ Len(Append(s, "want1")) = Len(s) + 1
      /\ \A i \in 1 .. Len(s) : Append(s, "want1")[i] = s[i]
      /\ Append(s, "want1")[Len(s) + 1] = "want1"
  BY PushHandler, LenProperties DEF LogType, HandlerAt
<1>3. /\ handling'[t] = Append(s, "want1")
      /\ \A u \in Thread \ {t} : handling'[u] = handling[u]
  BY <1>1 DEF LogType
<1>4. ASSUME NEW i \in 0 .. Len(s)
      PROVE  Inside(t, i)' <=> Inside(t, i)
  <2>1. i # 0 => handling'[t][i] = s[i]
    BY <1>2, <1>3
  <2>2. QED
    BY <2>1, <1>1 DEF Inside
<1>5. ASSUME NEW i, i = Len(s) + 1
      PROVE  ~Inside(t, i)'
  BY <1>5, <1>2, <1>3 DEF Inside
<1>6. \A u \in Thread \ {t} : \A i : Inside(u, i)' <=> Inside(u, i)
  BY <1>1, <1>3 DEF Inside
<1>7. \A i : i \in 0 .. Len(handling'[t]) <=> i \in 0 .. Len(s) \/ i = Len(s) + 1
  BY <1>2, <1>3
<1>8. \A i : i \in 0 .. Len(s) => i # Len(s) + 1
  BY <1>2
<1>9. \A u \in Thread : \A i :
        i \in 0 .. Len(handling'[u]) /\ Inside(u, i)'
          <=> i \in 0 .. Len(handling[u]) /\ Inside(u, i)
  BY <1>3, <1>4, <1>5, <1>6, <1>7, <1>8
<1>10. Guarded'
  BY <1>1, <1>9, SameFrames
<1>11. QED
  BY <1>10, <1>1, <1>2 DEF LogType

\* The frames of a thread whose innermost handler moves on: only it changes.
LEMMA AdvanceFrames ==
  ASSUME LogType, NEW t \in Thread, handling[t] # <<>>, NEW to \in HandlerAt,
         Advance(t, to), at' = at
  PROVE  LET n == Len(handling[t])
         IN  /\ n \in Nat \ {0}
             /\ \A u \in Thread : Len(handling'[u]) = Len(handling[u])
             /\ handling' \in [Thread -> Seq(HandlerAt)]
             /\ \A i : i = n => (Inside(t, i)' <=> to \in {"has1", "has2"})
             /\ Inside(t, n) <=> Innermost(t) \in {"has1", "has2"}
             /\ \A u \in Thread : \A i \in 0 .. Len(handling[u]) :
                  (u # t \/ i # n) => (Inside(u, i)' <=> Inside(u, i))
<1> DEFINE s == handling[t]
           n == Len(s)
<1>1. s \in Seq(HandlerAt) /\ n \in Nat \ {0}
  BY EmptySeq DEF LogType
<1>2. handling' = [handling EXCEPT ![t] = [s EXCEPT ![n] = to]]
  BY DEF Advance
<1>3. /\ [s EXCEPT ![n] = to] \in Seq(HandlerAt)
      /\ Len([s EXCEPT ![n] = to]) = n
      /\ \A i \in 1 .. n : [s EXCEPT ![n] = to][i] = IF i = n THEN to ELSE s[i]
  BY <1>1, AdvanceHandler
<1>4. /\ handling'[t] = [s EXCEPT ![n] = to]
      /\ \A u \in Thread \ {t} : handling'[u] = handling[u]
  BY <1>2 DEF LogType
<1>5. handling' \in [Thread -> Seq(HandlerAt)]
  BY <1>2, <1>3 DEF LogType
<1>6. \A i : i = n => handling'[t][i] = to
  BY <1>1, <1>3, <1>4
<1>7. /\ \A i : i = n => (Inside(t, i)' <=> to \in {"has1", "has2"})
      /\ Inside(t, n) <=> Innermost(t) \in {"has1", "has2"}
  BY <1>1, <1>6 DEF Inside, Innermost
<1>8. ASSUME NEW u \in Thread, NEW i \in 0 .. Len(handling[u]), u # t \/ i # n
      PROVE  Inside(u, i)' <=> Inside(u, i)
  <2>1. CASE i = 0
    BY <2>1 DEF Inside
  <2>2. CASE i # 0 /\ u # t
    BY <2>2, <1>4 DEF Inside
  <2>3. CASE i # 0 /\ u = t
    <3>1. i \in 1 .. n /\ i # n
      BY <2>3, <1>8, <1>1
    <3>2. handling'[t][i] = s[i]
      BY <3>1, <1>3, <1>4
    <3>3. QED
      BY <2>3, <3>2 DEF Inside
  <2>4. QED
    BY <2>1, <2>2, <2>3
<1>9. \A u \in Thread : Len(handling'[u]) = Len(handling[u])
  BY <1>3, <1>4
<1>10. QED
  BY <1>1, <1>5, <1>7, <1>8, <1>9

\* A handler's push takes the mutex.
LEMMA HandlerTakeKeeps ==
  ASSUME LogType, Guarded, NEW t \in Thread, HandlerLocks(t)
  PROVE  Guarded' /\ LogType'
<1> DEFINE to == IF Innermost(t) = "want1" THEN "has1" ELSE "has2"
           n  == Len(handling[t])
<1>1. /\ handling[t] # <<>> /\ Advance(t, to) /\ at' = at
      /\ lock = Nobody /\ lock' = t /\ to \in HandlerAt /\ to \in {"has1", "has2"}
  BY DEF HandlerLocks, HandlerAt
<1>2. /\ n \in Nat \ {0}
      /\ \A u \in Thread : Len(handling'[u]) = Len(handling[u])
      /\ handling' \in [Thread -> Seq(HandlerAt)]
      /\ \A i : i = n => Inside(t, i)'
      /\ \A u \in Thread : \A i \in 0 .. Len(handling[u]) :
           (u # t \/ i # n) => (Inside(u, i)' <=> Inside(u, i))
  BY <1>1, AdvanceFrames
<1>3. \A u \in Thread : \A i \in 0 .. Len(handling[u]) : ~Inside(u, i)
  BY <1>1, ThreadAssumption DEF Guarded
<1>4. Guarded'
  BY <1>1, <1>2, <1>3 DEF Guarded
<1>5. QED
  BY <1>1, <1>2, <1>4 DEF LogType

\* A handler's push gives the mutex back.
LEMMA HandlerDropKeeps ==
  ASSUME LogType, Guarded, NEW t \in Thread, HandlerUnlocks(t)
  PROVE  Guarded' /\ LogType'
<1> DEFINE to == IF Innermost(t) = "has1" THEN "want2" ELSE "clear"
           n  == Len(handling[t])
<1>1. /\ handling[t] # <<>> /\ Advance(t, to) /\ at' = at
      /\ lock' = Nobody /\ to \in HandlerAt /\ to \notin {"has1", "has2"}
      /\ Innermost(t) \in {"has1", "has2"}
  BY DEF HandlerUnlocks, HandlerAt
<1>2. /\ n \in Nat \ {0}
      /\ \A u \in Thread : Len(handling'[u]) = Len(handling[u])
      /\ handling' \in [Thread -> Seq(HandlerAt)]
      /\ Inside(t, n) /\ \A i : i = n => ~Inside(t, i)'
      /\ \A u \in Thread : \A i \in 0 .. Len(handling[u]) :
           (u # t \/ i # n) => (Inside(u, i)' <=> Inside(u, i))
  BY <1>1, AdvanceFrames
<1>3. \A u \in Thread : \A i \in 0 .. Len(handling[u]) : ~Inside(u, i)'
  BY <1>2 DEF Guarded
<1>4. Guarded'
  BY <1>1, <1>2, <1>3 DEF Guarded
<1>5. QED
  BY <1>1, <1>2, <1>4 DEF LogType

\* A handler that returns is outside the log.
LEMMA HandlerReturnKeeps ==
  ASSUME LogType, Guarded, NEW t \in Thread, HandlerClears(t)
  PROVE  Guarded' /\ LogType'
<1> DEFINE s == handling[t]
           n == Len(s)
           p == SubSeq(s, 1, n - 1)
<1>1. /\ s # <<>> /\ s \in Seq(HandlerAt) /\ s[n] = "clear"
      /\ lock' = lock /\ at' = at /\ handling' = [handling EXCEPT ![t] = p]
  BY DEF HandlerClears, Innermost, LogType
<1>2. /\ n \in Nat \ {0} /\ p \in Seq(HandlerAt) /\ Len(p) = n - 1
      /\ \A i \in 1 .. n - 1 : p[i] = s[i]
  BY <1>1, PopHandler, EmptySeq
<1>3. handling'[t] = p /\ \A u \in Thread \ {t} : handling'[u] = handling[u]
  BY <1>1 DEF LogType
<1>4. ASSUME NEW i \in 0 .. n - 1
      PROVE  Inside(t, i)' <=> Inside(t, i)
  <2>1. i # 0 => handling'[t][i] = s[i]
    BY <1>2, <1>3
  <2>2. QED
    BY <2>1, <1>1 DEF Inside
<1>5. \A i : i = n => ~Inside(t, i)
  BY <1>1, <1>2 DEF Inside
<1>6. \A u \in Thread \ {t} : \A i : Inside(u, i)' <=> Inside(u, i)
  BY <1>1, <1>3 DEF Inside
<1>7. /\ \A i : i \in 0 .. n <=> i \in 0 .. n - 1 \/ i = n
      /\ Len(handling'[t]) = n - 1
  BY <1>2, <1>3
<1>8. \A u \in Thread : \A i :
        i \in 0 .. Len(handling'[u]) /\ Inside(u, i)'
          <=> i \in 0 .. Len(handling[u]) /\ Inside(u, i)
  BY <1>3, <1>4, <1>5, <1>6, <1>7
<1>9. Guarded'
  BY <1>1, <1>8, SameFrames
<1>10. QED
  BY <1>9, <1>1, <1>2 DEF LogType

-----------------------------------------------------------------------------
(***************************************************************************)
(* Main and the workers: what has been started, opened and joined.         *)
(***************************************************************************)
\* What main does outside the log keeps its part of the invariant, and is quiet.
LEMMA MainKeeps ==
  ASSUME TypeOK, StartInv, MainStep
  PROVE  StartInv' /\ Quiet /\ TypeOK'
<1> USE ThreadAssumption, NumberAssumption
        DEF StartInv, MainInv, SemInv, EndsAfterWorkers, PermitsStartFull,
            NotBegun, Loads, Opened, MainAt, WorkerAt, ServerAt, SemName, Thread, Worker, Alive,
            Quiet, InLog, TypeOK
<1>1. CASE OpenSem("/get_image", "openImage", "openInference")
  BY <1>1 DEF OpenSem, Step
<1>2. CASE OpenSem("/inference", "openInference", "wantLog")
  BY <1>2 DEF OpenSem, Step
<1>3. CASE OpenSemFails("/get_image", "openImage")
  BY <1>3 DEF OpenSemFails, Step
<1>4. CASE OpenSemFails("/inference", "openInference")
  BY <1>4 DEF OpenSemFails, Step
<1>5. CASE DestroyServer
  BY <1>5 DEF DestroyServer, Step
<1>6. CASE Spawn(Channel, "start", "spawn", "spawnLog")
  BY <1>6 DEF Spawn
<1>7. CASE Spawn({LogWorker}, "test", "spawnLog", "spawnStaff")
  BY <1>7 DEF Spawn
<1>8. CASE Spawn({StaffWorker}, "test", "spawnStaff", "joinChannels")
  BY <1>8 DEF Spawn
<1>9. CASE Join(Channel, "joinChannels", "joinLog")
  BY <1>9 DEF Join, Step
<1>10. CASE Join({LogWorker}, "joinLog", "joinStaff")
  BY <1>10 DEF Join, Step
<1>11. CASE Join({StaffWorker}, "joinStaff", "joinStaffAgain")
  BY <1>11 DEF Join, Step
<1>12. CASE JoinAgain
  BY <1>12 DEF JoinAgain, Step
<1>13. CASE Spawn({ServerThread}, "listen", "serve", "load")
  <2>1. /\ at[Main] = "serve" /\ at'[Main] = "load" /\ at'[ServerThread] = "listen"
        /\ \A t \in Worker : at'[t] = at[t]
        /\ UNCHANGED <<handling, lock, running, sem, sent, naps, exit>>
    BY <1>13 DEF Spawn
  <2>2. StartInv'
    BY <2>1
  <2>3. at' \in [Thread -> MainAt \cup WorkerAt \cup ServerAt]
    BY <1>13 DEF Spawn
  <2>4. Quiet /\ TypeOK'
    BY <2>1, <2>3
  <2>5. QED
    BY <2>2, <2>4
<1>14. CASE Move(Main, "load", "loading") \/ Move(Main, "loading", "openImage")
  BY <1>14 DEF Move, Step
<1>15. CASE MainThrows
  BY <1>15 DEF MainThrows, Throw
<1>16. QED
  BY <1>1, <1>2, <1>3, <1>4, <1>5, <1>6, <1>7, <1>8, <1>9, <1>10, <1>11, <1>12,
     <1>13, <1>14, <1>15 DEF MainStep

\* A worker that takes a step has been started, has not returned, and the process
\* is alive; that keeps the invariant.
LEMMA WorkerKeeps ==
  ASSUME TypeOK, StartInv, WorkerMoves
  PROVE  StartInv'
<1>1. PICK t \in Worker, to \in WorkerAt :
        /\ at[t] \notin {"unborn", "returned"}
        /\ at' = [at EXCEPT ![t] = to]
        /\ UNCHANGED <<sem, exit>>
  BY DEF WorkerMoves
<1>2. t \in Thread /\ Main \in Thread /\ at'[Main] = at[Main] /\ at'[t] = to
      /\ \A u \in Worker \ {t} : at'[u] = at[u]
  BY <1>1, ThreadAssumption DEF Thread, Worker, TypeOK
<1>3. MainInv'
  BY <1>1, <1>2, ThreadAssumption
     DEF StartInv, MainInv, Thread, Worker, NotBegun, Loads
<1>4. SemInv'
  BY <1>1, <1>2 DEF StartInv, SemInv, Opened
<1>5. EndsAfterWorkers'
  BY <1>1, <1>2 DEF StartInv, EndsAfterWorkers, Alive
<1>6. PermitsStartFull'
  BY <1>1, <1>2 DEF StartInv, PermitsStartFull
<1>7. QED
  BY <1>3, <1>4, <1>5, <1>6 DEF StartInv

\* Handlers touch neither main's progress nor the workers' nor the semaphores.
LEMMA HandlersKeep ==
  ASSUME StartInv, UNCHANGED <<at, sem, exit>>
  PROVE  StartInv'
BY DEF StartInv, MainInv, SemInv, EndsAfterWorkers, PermitsStartFull, Alive

\* A crash leaves everything where it is.
LEMMA CrashKeeps ==
  ASSUME TypeOK, StartInv, Alive, exit' = "crashed",
         UNCHANGED <<at, handling, lock, running, sem, sent, naps>>
  PROVE  StartInv' /\ Quiet /\ TypeOK'
BY DEF StartInv, MainInv, SemInv, EndsAfterWorkers, PermitsStartFull, Quiet, TypeOK

\* The server's thread comes nowhere near the log of its own.
LEMMA ServerKeeps ==
  ASSUME TypeOK, StartInv, ServerReturns
  PROVE  StartInv' /\ Quiet /\ TypeOK'
<1>1. /\ at[ServerThread] = "listen" /\ at' = [at EXCEPT ![ServerThread] = "returned"]
      /\ UNCHANGED <<handling, lock, running, sem, sent, naps, exit>>
  BY DEF ServerReturns, Move, Step
<1>2. /\ ServerThread \in Thread /\ Main # ServerThread /\ ServerThread \notin Worker
      /\ Worker \subseteq Thread /\ Main \in Thread
  BY ThreadAssumption DEF Thread
<1>3. /\ at'[Main] = at[Main] /\ \A t \in Worker : at'[t] = at[t]
      /\ at'[ServerThread] = "returned"
      /\ LogWorker \in Worker /\ StaffWorker \in Worker /\ Channel \subseteq Worker
  BY <1>1, <1>2 DEF TypeOK, Worker
<1>4. StartInv'
  BY <1>1, <1>3 DEF StartInv, MainInv, SemInv, EndsAfterWorkers, PermitsStartFull,
                    ServerAt
<1>5. Quiet /\ TypeOK'
  BY <1>1, <1>2 DEF Quiet, InLog, TypeOK, ServerAt
<1>6. QED
  BY <1>4, <1>5

\* The steps of the workers outside the log.
LEMMA WorkersStep ==
  ASSUME TypeOK, StartInv, NEW t \in Worker,
         \/ t \in Channel /\ ChannelStep(t)
         \/ t = LogWorker /\ LogStep
         \/ t = StaffWorker /\ StaffStep
  PROVE  (WorkerMoves \/ (StartInv' /\ UNCHANGED at)) /\ Quiet /\ TypeOK'
<1> USE ThreadAssumption, NumberAssumption
        DEF WorkerMoves, Quiet, InLog, TypeOK, Thread, Worker, WorkerAt
<1>1. ASSUME NEW from \in WorkerAt \ (InLog \cup {"unborn", "returned"}),
             NEW to \in WorkerAt \ InLog, Move(t, from, to)
      PROVE  WorkerMoves /\ Quiet /\ TypeOK'
  <2>1. /\ at[t] = from /\ at' = [at EXCEPT ![t] = to]
        /\ UNCHANGED <<handling, lock, running, sem, sent, naps, exit>> /\ Alive
    BY <1>1 DEF Move, Step
  <2>2. WorkerMoves
    BY <1>1, <2>1
  <2>3. \A u \in Thread : at'[u] = IF u = t THEN to ELSE at[u]
    BY <2>1
  <2>4. Quiet
    BY <1>1, <2>1, <2>3
  <2>5. TypeOK'
    BY <1>1, <2>1
  <2>6. QED
    BY <2>2, <2>4, <2>5
<1>2. CASE t \in Channel /\ ChannelStep(t)
  <2>1. CASE Throw(t, "start") \/ Throw(t, "turn")
    <3>1. StartInv' /\ Quiet /\ TypeOK' /\ UNCHANGED at
      BY <2>1, CrashKeeps DEF Throw
    <3>2. QED
      BY <3>1
  <2>2. CASE ~(Throw(t, "start") \/ Throw(t, "turn"))
    BY <1>1, <1>2, <2>2 DEF ChannelStep, Test
  <2>3. QED
    BY <2>1, <2>2
<1>3. CASE t = LogWorker /\ LogStep
  BY <1>1, <1>3 DEF LogStep, LogTest, Test
<1>4. CASE t = StaffWorker /\ StaffStep
  <2>1. ASSUME NEW from \in WorkerAt \ (InLog \cup {"unborn", "returned"}),
               NEW to \in WorkerAt \ InLog, Step(StaffWorker, from, to),
               naps' \in 0 .. ReportInterval,
               UNCHANGED <<handling, lock, running, sem, sent, exit>>
        PROVE  WorkerMoves /\ Quiet /\ TypeOK'
    <3>1. /\ at[StaffWorker] = from /\ at' = [at EXCEPT ![StaffWorker] = to]
          /\ StaffWorker \in Worker
      BY <2>1 DEF Step
    <3>2. WorkerMoves
      BY <2>1, <3>1
    <3>3. QED
      BY <2>1, <3>1, <3>2
  <2>2. CASE StaffTest
    <3>1. naps' \in 0 .. ReportInterval
      BY <2>2 DEF StaffTest
    <3>2. QED
      BY <2>1, <2>2, <3>1 DEF StaffTest
  <2>5. CASE StaffNap
    <3>1. naps' \in 0 .. ReportInterval
      BY <2>5 DEF StaffNap
    <3>2. QED
      BY <2>1, <2>5, <3>1 DEF StaffNap
  <2>3. CASE StaffWake
    BY <1>1, <1>4, <2>3 DEF StaffWake
  <2>4. CASE Move(StaffWorker, "report", "test")
    BY <1>1, <1>4, <2>4
  <2>6. QED
    BY <1>4, <2>2, <2>3, <2>4, <2>5 DEF StaffStep
<1>5. QED
  BY <1>2, <1>3, <1>4

\* Taking and dropping the mutex, seen from main and the workers.
LEMMA LockStep ==
  ASSUME TypeOK, StartInv, NEW t \in Thread, TakeLock(t) \/ DropLock(t)
  PROVE  StartInv' /\ TypeOK'
<1> USE ThreadAssumption
<1>1. /\ Alive /\ at' = [at EXCEPT ![t] = at'[t]]
      /\ UNCHANGED <<handling, running, sem, sent, naps, exit>>
      /\ lock' \in Thread \cup {Nobody}
      /\ at[t] \in {"wantLog", "wantError", "hasLog", "hasError"}
  BY DEF TakeLock, DropLock, Step, Held, TypeOK
<1>2. CASE t = Main
  <2>0. at[Main] \in MainAt /\ at[Main] # "wantError" /\ at[Main] # "hasError"
    BY DEF StartInv, MainInv, MainAt
  <2>1. \/ at[Main] = "wantLog" /\ at'[Main] = "hasLog"
        \/ at[Main] = "hasLog" /\ at'[Main] = "spawn"
    <3>1. CASE TakeLock(t)
      <4>1. at[Main] = "wantLog" /\ Held["wantLog"] = "hasLog"
        BY <1>2, <2>0, <3>1 DEF TakeLock, Held
      <4>2. QED
        BY <1>2, <3>1, <4>1 DEF TakeLock, Step, TypeOK
    <3>2. CASE DropLock(t)
      <4>1. at[Main] = "hasLog" /\ at' = [at EXCEPT ![Main] = AfterLog(Main)]
        BY <1>2, <2>0, <3>2 DEF DropLock, Step
      <4>2. AfterLog(Main) = "spawn"
        BY DEF AfterLog, Worker
      <4>3. QED
        BY <1>2, <4>1, <4>2 DEF TypeOK
    <3>3. QED
      BY <3>1, <3>2
  <2>2. /\ \A u \in Worker : at'[u] = at[u]
        /\ at'[ServerThread] = at[ServerThread]
    BY <1>1, <1>2 DEF TypeOK, Thread
  <2>3. StartInv'
    BY <1>1, <2>1, <2>2 DEF StartInv, MainInv, SemInv, EndsAfterWorkers,
       PermitsStartFull, Alive, NotBegun, Loads, Opened, MainAt
  <2>4. QED
    BY <1>1, <1>2, <2>1, <2>3 DEF TypeOK, MainAt
<1>3. CASE t \in Worker
  <2>1. at'[t] \in WorkerAt
    BY <1>3 DEF TakeLock, DropLock, Step, Held, AfterLog, TypeOK, WorkerAt
  <2>2. WorkerMoves
    BY <1>1, <1>3, <2>1 DEF WorkerMoves
  <2>3. QED
    BY <1>1, <2>1, <2>2, WorkerKeeps DEF TypeOK
<1>4. CASE t = ServerThread
  BY <1>1, <1>4 DEF StartInv, MainInv, ServerAt
<1>5. QED
  BY <1>2, <1>3, <1>4 DEF Thread

-----------------------------------------------------------------------------
(***************************************************************************)
(* The invariant is inductive.                                             *)
(***************************************************************************)
\* The first state.
LEMMA InitInv == Init => IInv
<1> SUFFICES ASSUME Init PROVE IInv
  OBVIOUS
<1> USE ThreadAssumption, NumberAssumption DEF Init
<1>1. TypeOK
  BY EmptySeq DEF TypeOK, MainAt, WorkerAt, Thread, HandlerAt
<1>2. Guarded
  BY EmptySeq DEF Guarded, Inside
<1>3. StartInv
  BY DEF StartInv, MainInv, SemInv, EndsAfterWorkers, PermitsStartFull, Alive,
         NotBegun, Loads, Opened, MainAt, WorkerAt, ServerAt, Thread, Worker
<1>4. QED
  BY <1>1, <1>2, <1>3 DEF IInv

\* Every step, and every stuttering step.
LEMMA Inductive == IInv /\ [Next]_vars => IInv'
<1> SUFFICES ASSUME IInv, [Next]_vars PROVE IInv'
  OBVIOUS
<1>1. TypeOK /\ Guarded /\ StartInv /\ LogType
  BY DEF IInv, TypeOK, LogType
<1>2. ASSUME NEW t \in Thread, OwnStep(t)
      PROVE  IInv'
  <2>1. CASE t = Main /\ MainStep
    BY <1>1, <2>1, MainKeeps, QuietKeeps DEF IInv
  <2>2. CASE \/ t \in Channel /\ ChannelStep(t)
             \/ t = LogWorker /\ LogStep
             \/ t = StaffWorker /\ StaffStep
    <3>1. t \in Worker
      BY <2>2 DEF Worker
    <3>2. QED
      BY <1>1, <2>2, <3>1, WorkersStep, WorkerKeeps, QuietKeeps DEF IInv
  <2>3. CASE DropLock(t)
    BY <1>1, <2>3, LockStep, DropKeeps DEF IInv
  <2>4. QED
    BY <1>2, <2>1, <2>2, <2>3 DEF OwnStep
<1>3. ASSUME NEW t \in Thread, HandlerUnlocks(t)
      PROVE  IInv'
  <2>1. Guarded' /\ LogType'
    BY <1>1, <1>3, HandlerDropKeeps
  <2>2. StartInv'
    BY <1>1, <1>3, HandlersKeep DEF HandlerUnlocks
  <2>3. QED
    BY <1>1, <1>3, <2>1, <2>2 DEF IInv, TypeOK, LogType, HandlerUnlocks
<1>4. ASSUME NEW t \in Thread, HandlerClears(t)
      PROVE  IInv'
  <2>1. Guarded' /\ LogType'
    BY <1>1, <1>4, HandlerReturnKeeps
  <2>2. StartInv'
    BY <1>1, <1>4, HandlersKeep DEF HandlerClears
  <2>3. QED
    BY <1>1, <1>4, <2>1, <2>2 DEF IInv, TypeOK, LogType, HandlerClears
<1>5. ASSUME NEW t \in Thread, TakeLock(t)
      PROVE  IInv'
  BY <1>1, <1>5, LockStep, TakeKeeps DEF IInv
<1>6. ASSUME NEW t \in Thread, HandlerLocks(t)
      PROVE  IInv'
  <2>1. Guarded' /\ LogType'
    BY <1>1, <1>6, HandlerTakeKeeps
  <2>2. StartInv'
    BY <1>1, <1>6, HandlersKeep DEF HandlerLocks
  <2>3. QED
    BY <1>1, <1>6, <2>1, <2>2 DEF IInv, TypeOK, LogType, HandlerLocks
<1>7. ASSUME NEW signal \in Signals, NEW t \in Thread, Deliver(signal, t)
      PROVE  IInv'
  <2>1. Guarded' /\ LogType'
    BY <1>1, <1>7, DeliverKeeps
  <2>2. StartInv'
    BY <1>1, <1>7, HandlersKeep DEF Deliver
  <2>3. QED
    BY <1>1, <1>7, <2>1, <2>2 DEF IInv, TypeOK, LogType, Deliver
<1>8. CASE UNCHANGED vars
  BY <1>8 DEF vars, IInv, TypeOK, Guarded, Inside, StartInv, MainInv, SemInv,
              EndsAfterWorkers, PermitsStartFull, Alive
<1>9. CASE ListBreaks \/ ServerReturns
  <2>1. StartInv' /\ Quiet /\ TypeOK'
    BY <1>1, <1>9, CrashKeeps, ServerKeeps DEF ListBreaks
  <2>2. QED
    BY <1>1, <2>1, QuietKeeps DEF IInv
<1>10. QED
  BY <1>2, <1>3, <1>4, <1>5, <1>6, <1>7, <1>8, <1>9
  DEF Next, HandlerStep, Lock, Stuck

-----------------------------------------------------------------------------
(***************************************************************************)
(* Theorems.                                                               *)
(***************************************************************************)
\* The invariant holds in every reachable state.
LEMMA Always == Spec => []IInv
BY InitInv, Inductive, PTL DEF Spec

\* Every variable keeps its type, with any number of nested handlers.
THEOREM TypeCorrect == Spec => []TypeOK
<1>1. IInv => TypeOK
  BY DEF IInv
<1>2. QED
  BY <1>1, Always, PTL

\* The list of the log is never inside two pushes or saves, those of the handlers
\* included, and its mutex is never left locked by nobody; while main loads the
\* list without the mutex only signal handlers push to it
\* (logHandler.h:65, 83-88, 101; main.cpp:109).
THEOREM LogGuarded == Spec => []OneInLog
<1>1. IInv => OneInLog
  <2> SUFFICES ASSUME IInv PROVE OneInLog
    OBVIOUS
  <2>1. Guarded /\ TypeOK /\ MainInv
    BY DEF IInv, StartInv
  <2>2. at[Main] = "loading" => \A t \in Thread : ~Inside(t, 0)
    BY <2>1, LoadMeetsHandlers
  <2>3. at[Main] = "loading" =>
          \A t \in Thread : \A i \in 0 .. Len(handling[t]) : Inside(t, i) => i # 0
    BY <2>2
  <2>4. QED
    BY <2>1, <2>3 DEF OneInLog
<1>2. QED
  BY <1>1, Always, PTL

\* Threads start only with two full semaphores, whatever an earlier run left in the
\* system (main.cpp:125-138).
THEOREM PermitsFull == Spec => []PermitsStartFull
<1>1. IInv => PermitsStartFull
  BY DEF IInv, StartInv
<1>2. QED
  BY <1>1, Always, PTL

\* Main ends the process only when every thread it has started and joins has
\* returned: only an exception that nobody catches or a list broken while it was
\* loaded ends it under one of them, at any step (main.cpp:179-195).
THEOREM ProcessOutlivesWorkers == Spec => []EndsAfterWorkers
<1>1. IInv => EndsAfterWorkers
  BY DEF IInv, StartInv
<1>2. QED
  BY <1>1, Always, PTL

=============================================================================
