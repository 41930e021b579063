---------------------------- MODULE DataRetention ----------------------------
(***************************************************************************)
(* Training data of one channel: every duration_between_data seconds the   *)
(* routine saves a picture and a label file of the same name, then deletes *)
(* the oldest files of the channel's folder above a limit                  *)
(* (src/src/main.cpp:482-505, src/include/data_save/directory.h:80-133).   *)
(*                                                                         *)
(* The name is the time in seconds, age is what the file system says of the*)
(* last write, and both follow the system's clock, which may be set back;  *)
(* high_resolution_clock, by which the routine waits, is that clock too.   *)
(***************************************************************************)
EXTENDS Integers, FiniteSets

CONSTANTS
  TotalData,   \* total_data_per_channel (9999)
  Duration,    \* duration_between_data (300 s); 0 when a unit of time is longer
  MaxTime,     \* bound: latest time
  MaxFaults    \* bound: writes, scans and removals that fail, crashes, clocks set
               \* back

ASSUME RetentionAssumption ==
  /\ TotalData \in Nat \ {0} /\ Duration \in Nat
  /\ MaxTime \in Nat /\ MaxFaults \in Nat

VARIABLES
  now,         \* the system's clock
  folder,      \* the files of data_gathering_point/<channel>
  at,          \* where the thread is in its turn
  start,       \* local variable start
  filename,    \* local variable filename
  doomed,      \* what delete_oldest_file_threshold has yet to remove
  faults       \* how much has gone wrong

\* History variables: they steer no action.
VARIABLES
  samples,     \* the names of all samples
  setBack      \* TRUE once the clock was set back

clock == <<now, setBack>>
vars == <<now, folder, at, start, filename, doomed, faults, samples, setBack>>

Time == 0 .. MaxTime
File == [name : Time, kind : {"jpg", "txt"}, written : Time]

\* The file of that name and kind is written now, whether it was there or not.
Written(name, kind) ==
  {f \in folder : f.name # name \/ f.kind # kind}
    \cup {[name |-> name, kind |-> kind, written |-> now]}

Goto(from, to) == at = from /\ at' = to

\* Something goes wrong.
Fault == faults < MaxFaults /\ faults' = faults + 1

-----------------------------------------------------------------------------
(***************************************************************************)
(* The end of a turn of the routine.                                       *)
(***************************************************************************)
\* diff.count() > duration_between_data
TakeSample ==
  /\ now - start > Duration
  /\ Goto("idle", "image")
  /\ filename' = now
  /\ samples' = samples \cup {now}
  /\ UNCHANGED <<clock, folder, start, doomed, faults>>

\* cv::imwrite; nobody looks at its result.
SaveImage ==
  /\ Goto("image", "label")
  /\ \/ folder' = Written(filename, "jpg") /\ UNCHANGED faults
     \/ Fault /\ UNCHANGED folder
  /\ UNCHANGED <<clock, start, filename, doomed, samples>>

\* The label is opened; what is written stays in the stream's buffer.
OpenLabel ==
  /\ Goto("label", "delete")
  /\ \/ folder' = Written(filename, "txt") /\ UNCHANGED faults
     \/ Fault /\ UNCHANGED folder
  /\ UNCHANGED <<clock, start, filename, doomed, samples>>

\* Mutant of Excess: the limit counts samples where it should count files.
ExcessOfSamples(files) == IF Cardinality(files) <= TotalData THEN 0
                          ELSE Cardinality(files) - TotalData

\* Mutant of Excess: one file a turn is enough.
ExcessOne(files) == IF Cardinality(files) <= 2 * TotalData THEN 0 ELSE 1

\* num_to_delete
Excess(files) == IF Cardinality(files) <= 2 * TotalData THEN 0
                 ELSE Cardinality(files) - 2 * TotalData

\* Mutant of Oldest: the newest come first.
OldestLast(files, n) ==
  {some \in SUBSET files :
     Cardinality(some) = n /\ \A f \in some, g \in files \ some : f.written >= g.written}

\* The n first files in the order of their last write, in all ways to break ties.
Oldest(files, n) ==
  {some \in SUBSET files :
     Cardinality(some) = n /\ \A f \in some, g \in files \ some : f.written <= g.written}

\* delete_oldest_file_threshold lists and sorts the files and takes what is in excess.
ListOldest ==
  /\ at = "delete"
  /\ doomed' \in Oldest(folder, Excess(folder))
  /\ at' = IF doomed' = {} THEN "close" ELSE "remove"
  /\ UNCHANGED <<clock, folder, start, filename, faults, samples>>

\* The folder cannot be read: nothing is removed.
ListFails ==
  /\ Fault
  /\ Goto("delete", "close")
  /\ UNCHANGED <<clock, folder, start, filename, doomed, samples>>

\* The files go one by one, the oldest first; one that cannot be removed is passed over.
RemoveOldest ==
  /\ at = "remove"
  /\ \E f \in doomed :
       /\ \A g \in doomed : f.written <= g.written
       /\ doomed' = doomed \ {f}
       /\ \/ folder' = folder \ {f} /\ UNCHANGED faults
          \/ Fault /\ UNCHANGED folder
  /\ at' = IF doomed' = {} THEN "close" ELSE "remove"
  /\ UNCHANGED <<clock, start, filename, samples>>

\* The label's stream is flushed and closed at the end of its scope: its file, when it
\* still has a name, is written once more.
CloseLabel ==
  /\ Goto("close", "idle")
  /\ folder' = IF \E f \in folder : f.name = filename /\ f.kind = "txt"
               THEN Written(filename, "txt") ELSE folder
  /\ start' = now
  /\ UNCHANGED <<clock, filename, doomed, faults, samples>>

-----------------------------------------------------------------------------
Tick ==
  /\ now < MaxTime
  /\ now' = now + 1
  /\ UNCHANGED <<folder, at, start, filename, doomed, faults, samples, setBack>>

SetClockBack ==
  /\ Fault
  /\ now' \in 0 .. now - 1
  /\ setBack' = TRUE
  /\ UNCHANGED <<folder, at, start, filename, doomed, samples>>

\* The program ends at any step and is started again.
Restart ==
  /\ Fault
  /\ at' = "idle" /\ start' = now /\ doomed' = {}
  /\ UNCHANGED <<clock, folder, filename, samples>>

Init ==
  /\ now = 0 /\ setBack = FALSE
  /\ folder = {} /\ samples = {} /\ doomed = {}
  /\ at = "idle" /\ start = 0 /\ filename = 0
  /\ faults = 0

Turn == \/ TakeSample \/ SaveImage \/ OpenLabel
        \/ ListOldest \/ ListFails \/ RemoveOldest \/ CloseLabel

Next == Turn \/ Tick \/ SetClockBack \/ Restart

Spec == Init /\ [][Next]_vars

-----------------------------------------------------------------------------
(***************************************************************************)
(* Properties.                                                             *)
(***************************************************************************)
\* Every variable has its type, and no two files the same name and kind.
TypeOK ==
  /\ now \in Time /\ start \in Time /\ filename \in Time
  /\ folder \subseteq File /\ doomed \subseteq folder
  /\ \A f, g \in folder : f.name = g.name /\ f.kind = g.kind => f = g
  /\ at \in {"idle", "image", "label", "delete", "remove", "close"}
  /\ faults \in 0 .. MaxFaults
  /\ samples \subseteq Time /\ setBack \in BOOLEAN

\* The files of a sample.
FilesOf(name) == {f \in folder : f.name = name}

\* The samples of which one file is there without the other, the one in hand excepted.
Halves == {name \in samples : /\ Cardinality(FilesOf(name)) = 1
                              /\ at = "idle" \/ name # filename}

\* While nothing goes wrong the folder holds the newest TotalData samples, each with its
\* picture and its label, and nothing else (directory.h:99-125, main.cpp:502).
NewestSamplesKept ==
  faults = 0 /\ at = "idle" =>
    \A name \in samples :
      Cardinality(FilesOf(name)) =
        IF Cardinality({later \in samples : later > name}) < TotalData THEN 2 ELSE 0

\* A failed write, a failed removal or a crash, also one between two removals, may leave
\* the number of files odd, and from then on every turn may cut a pair in two; still each
\* leaves no more than two halves, but for the pair that is being removed, and the folder
\* does not grow beyond the limit and the pair in hand, but for what each fault has left
\* for the next turn to delete (directory.h:99-130).
FaultsCostLittle ==
  /\ Cardinality(Halves) <= 2 * faults + (IF at = "remove" THEN 1 ELSE 0)
  /\ Cardinality(folder) <= 2 * TotalData + 2 + 2 * faults

\* As long as the clock is not set back, no turn deletes a file of the sample it has
\* just saved (directory.h:108-119, main.cpp:502).
OwnSampleSurvives ==
  [][RemoveOldest /\ ~setBack => {f \in folder : f.name = filename} \subseteq folder']_vars

=============================================================================
