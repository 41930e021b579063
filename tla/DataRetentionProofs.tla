------------------------- MODULE DataRetentionProofs -------------------------
(***************************************************************************)
(* What TLAPS proves of DataRetention, for any limit, any interval and any *)
(* number of faults: its types; that a turn deletes nothing of what it has *)
(* just saved; that the newest samples are kept whole while nothing goes   *)
(* wrong; and what each fault costs at most.                               *)
(***************************************************************************)
EXTENDS DataRetention, FiniteSetTheorems, WellFoundedInduction, TLAPS

\* The folder is finite, so its files can be counted.
FolderFinite == IsFiniteSet(folder)

\* While the clock runs forward a file is written no earlier than its name says and no
\* later than now.
WrittenInOrder == \A f \in folder : f.name <= f.written /\ f.written <= now

\* Between two turns everything was written before the wait for the next sample began;
\* in a turn only the files of the sample in hand are as new as its name, and they are
\* not among those to be removed.
NewestInHand ==
  /\ start <= now
  /\ \A f \in doomed : f.name # filename
  /\ at = "idle" => \A f \in folder : f.written <= start
  /\ at # "idle" => /\ filename <= now
                    /\ \A f \in folder : f.written >= filename => f.name = filename

\* Only the loop over the oldest files has something left to remove.
NothingDoomed == at # "remove" => doomed = {}

IInv ==
  /\ TypeOK
  /\ FolderFinite
  /\ NothingDoomed
  /\ setBack \/ (WrittenInOrder /\ NewestInHand)

-----------------------------------------------------------------------------
LEMMA InitIInv == Init => IInv
<1> SUFFICES ASSUME Init PROVE IInv
  OBVIOUS
<1>1. TypeOK
  <2>1. 0 \in Time /\ 0 \in 0 .. MaxFaults
    BY RetentionAssumption DEF Time
  <2> QED  BY <2>1, Zenon DEF Init, TypeOK
<1>2. FolderFinite
  BY FS_EmptySet DEF Init, FolderFinite
<1>3. WrittenInOrder /\ NewestInHand /\ NothingDoomed
  BY DEF Init, WrittenInOrder, NewestInHand, NothingDoomed
<1> QED  BY <1>1, <1>2, <1>3 DEF IInv

\* A file is added for the one of its name and kind.
LEMMA WrittenType ==
  ASSUME TypeOK, FolderFinite, NEW name \in Time, NEW kind \in {"jpg", "txt"},
         folder' = Written(name, kind)
  PROVE  /\ folder' \subseteq File
         /\ \A f, g \in folder' : f.name = g.name /\ f.kind = g.kind => f = g
         /\ FolderFinite'
         /\ \A f \in folder' : \/ f \in folder
                               \/ f = [name |-> name, kind |-> kind, written |-> now]
<1> DEFINE new  == [name |-> name, kind |-> kind, written |-> now]
           kept == {f \in folder : f.name # name \/ f.kind # kind}
<1>1. folder' = kept \cup {new}
  BY DEF Written
<1>2. new \in File /\ new.name = name /\ new.kind = kind
  BY DEF File, TypeOK
<1>3. kept \in SUBSET folder
  OBVIOUS
<1>4. IsFiniteSet(kept)
  BY <1>3, FS_Subset DEF FolderFinite
<1>5. IsFiniteSet(kept \cup {new})
  BY <1>4, FS_AddElement
<1>6. folder' \subseteq File
  BY <1>1, <1>2, <1>3 DEF TypeOK
<1>7. \A f, g \in folder' : f.name = g.name /\ f.kind = g.kind => f = g
  BY <1>1, <1>2, <1>3 DEF TypeOK
<1> QED  BY <1>1, <1>3, <1>5, <1>6, <1>7 DEF FolderFinite

\* Of a part of a folder everything holds that holds of the whole.
LEMMA SmallerFolder ==
  ASSUME TypeOK, FolderFinite, folder' \subseteq folder
  PROVE  /\ folder' \subseteq File
         /\ \A f, g \in folder' : f.name = g.name /\ f.kind = g.kind => f = g
         /\ FolderFinite'
BY FS_Subset DEF TypeOK, FolderFinite

\* The files of the folder that have been chosen are removed one at a time.
LEMMA RemovedOnly ==
  ASSUME RemoveOldest
  PROVE  /\ at = "remove" /\ at' \in {"remove", "close"}
         /\ doomed' \subseteq doomed /\ (at' # "remove" => doomed' = {})
         /\ folder' \subseteq folder /\ folder \ doomed \subseteq folder'
         /\ doomed \subseteq folder => doomed' \subseteq folder'
         /\ UNCHANGED <<clock, start, filename, samples>>
         /\ UNCHANGED faults \/ Fault
BY DEF RemoveOldest

\* A turn's own files are the newest of the folder, at most two, and at least two files
\* stay when any are deleted.
LEMMA TwoStay ==
  ASSUME FolderFinite, NEW some \in Oldest(folder, Excess(folder)), some # {}
  PROVE  Cardinality(folder \ some) >= 2
<1>1. some \in SUBSET folder /\ Cardinality(some) = Excess(folder)
  BY DEF Oldest
<1>2. IsFiniteSet(some) /\ Cardinality(some) \in Nat /\ Cardinality(folder) \in Nat
  BY <1>1, FS_Subset, FS_CardinalityType DEF FolderFinite
<1>3. Cardinality(some) # 0
  BY <1>2, FS_EmptySet
<1>4. Cardinality(some) = Cardinality(folder) - 2 * TotalData
  BY <1>1, <1>3 DEF Excess
<1>5. Cardinality(folder \ some) = Cardinality(folder) - Cardinality(folder \cap some)
  BY FS_Difference DEF FolderFinite
<1>6. folder \cap some = some
  BY <1>1
<1>7. Cardinality(folder \ some) = Cardinality(folder) - Cardinality(some)
  BY <1>5, <1>6
<1>8. TotalData \in Nat /\ TotalData >= 1
  BY RetentionAssumption
<1> QED  BY <1>2, <1>4, <1>7, <1>8

LEMMA OwnFilesStay ==
  ASSUME IInv, at = "delete", ~setBack, NEW some \in Oldest(folder, Excess(folder))
  PROVE  \A f \in some : f.name # filename
<1>1. some \subseteq folder
  BY DEF Oldest
<1> SUFFICES ASSUME NEW f \in folder, f.name = filename, f \in some PROVE FALSE
  BY <1>1
<1>2. \A g \in folder \ some : g.written >= f.written
  BY DEF Oldest, IInv, TypeOK, File, Time
<1>3. f.written >= filename
  BY DEF IInv, WrittenInOrder, TypeOK, File, Time
<1>4. \A g \in folder \ some : g.name = filename
  BY <1>2, <1>3 DEF IInv, NewestInHand, TypeOK, File, Time
<1>5. \A g \in folder \ some : g.kind # f.kind
  BY <1>4 DEF IInv, TypeOK
<1>6. \A g, h \in folder \ some : g = h
  BY <1>4, <1>5 DEF IInv, TypeOK, File
<1>7. folder \ some # {} => \E g : folder \ some = {g}
  BY <1>6
<1>8. Cardinality(folder \ some) \in {0, 1}
  BY <1>7, FS_EmptySet, FS_Singleton
<1>9. Cardinality(folder \ some) >= 2
  BY TwoStay DEF IInv
<1> QED  BY <1>8, <1>9

LEMMA NextKeeps == IInv /\ [Next]_vars => IInv'
<1> SUFFICES ASSUME IInv, [Next]_vars PROVE IInv'
  OBVIOUS
<1> USE RetentionAssumption DEF IInv, NothingDoomed, clock
<1>1. CASE TakeSample
  <2>1. TypeOK' /\ FolderFinite' /\ NothingDoomed'
    BY <1>1 DEF TakeSample, Goto, TypeOK, FolderFinite, Time, File
  <2>2. setBack' \/ (WrittenInOrder' /\ NewestInHand')
    BY <1>1 DEF TakeSample, Goto, TypeOK, WrittenInOrder, NewestInHand, Time, File
  <2> QED  BY <2>1, <2>2
<1>2. CASE SaveImage
  <2>1. CASE folder' = Written(filename, "jpg")
    <3>1. filename \in Time
      BY DEF TypeOK
    <3>2. TypeOK' /\ FolderFinite' /\ NothingDoomed'
      BY <1>2, <2>1, <3>1, WrittenType DEF SaveImage, Goto, Fault, TypeOK
    <3>3. setBack' \/ (WrittenInOrder' /\ NewestInHand')
      BY <1>2, <2>1, <3>1, WrittenType
         DEF SaveImage, Goto, TypeOK, WrittenInOrder, NewestInHand, Time, File
    <3> QED  BY <3>2, <3>3
  <2>2. CASE Fault /\ UNCHANGED folder
    BY <1>2, <2>2
       DEF SaveImage, Goto, Fault, TypeOK, FolderFinite, WrittenInOrder, NewestInHand
  <2> QED  BY <1>2, <2>1, <2>2 DEF SaveImage
<1>3. CASE OpenLabel
  <2>1. CASE folder' = Written(filename, "txt")
    <3>1. filename \in Time
      BY DEF TypeOK
    <3>2. TypeOK' /\ FolderFinite' /\ NothingDoomed'
      BY <1>3, <2>1, <3>1, WrittenType DEF OpenLabel, Goto, Fault, TypeOK
    <3>3. setBack' \/ (WrittenInOrder' /\ NewestInHand')
      BY <1>3, <2>1, <3>1, WrittenType
         DEF OpenLabel, Goto, TypeOK, WrittenInOrder, NewestInHand, Time, File
    <3> QED  BY <3>2, <3>3
  <2>2. CASE Fault /\ UNCHANGED folder
    BY <1>3, <2>2
       DEF OpenLabel, Goto, Fault, TypeOK, FolderFinite, WrittenInOrder, NewestInHand
  <2> QED  BY <1>3, <2>1, <2>2 DEF OpenLabel
<1>4. CASE ListOldest
  <2>1. at = "delete" /\ doomed' \in Oldest(folder, Excess(folder))
    BY <1>4 DEF ListOldest
  <2>2. doomed' \subseteq folder /\ (setBack \/ \A f \in doomed' : f.name # filename)
    BY <2>1, OwnFilesStay DEF Oldest
  <2> QED
    BY <1>4, <2>2
       DEF ListOldest, TypeOK, FolderFinite, NothingDoomed, WrittenInOrder, NewestInHand
<1>10. CASE ListFails
  BY <1>10 DEF ListFails, Goto, Fault, TypeOK, FolderFinite, NothingDoomed, WrittenInOrder,
               NewestInHand
<1>11. CASE RemoveOldest
  <2>1. /\ at = "remove" /\ at' \in {"remove", "close"}
        /\ doomed' \subseteq doomed /\ (at' # "remove" => doomed' = {})
        /\ folder' \subseteq folder /\ doomed' \subseteq folder'
        /\ UNCHANGED <<clock, start, filename, samples>>
        /\ faults' \in 0 .. MaxFaults
    BY <1>11, RemovedOnly DEF TypeOK, Fault
  <2>2. TypeOK' /\ FolderFinite' /\ NothingDoomed'
    BY <2>1, SmallerFolder DEF TypeOK, NothingDoomed
  <2>3. setBack' \/ (WrittenInOrder' /\ NewestInHand')
    BY <2>1 DEF WrittenInOrder, NewestInHand
  <2> QED  BY <2>2, <2>3
<1>5. CASE CloseLabel
  <2>1. CASE folder' = Written(filename, "txt")
    BY <1>5, <2>1, WrittenType
       DEF CloseLabel, Goto, TypeOK, WrittenInOrder, NewestInHand, Time, File
  <2>2. CASE folder' = folder
    BY <1>5, <2>2
       DEF CloseLabel, Goto, TypeOK, FolderFinite, WrittenInOrder, NewestInHand, Time, File
  <2> QED  BY <1>5, <2>1, <2>2 DEF CloseLabel
<1>6. CASE Tick
  BY <1>6 DEF Tick, TypeOK, FolderFinite, WrittenInOrder, NewestInHand, Time, File
<1>7. CASE SetClockBack
  BY <1>7 DEF SetClockBack, Fault, TypeOK, FolderFinite, Time
<1>8. CASE Restart
  BY <1>8 DEF Restart, Fault, TypeOK, FolderFinite, WrittenInOrder, NewestInHand, Time
<1>9. CASE UNCHANGED vars
  BY <1>9 DEF vars, TypeOK, FolderFinite, WrittenInOrder, NewestInHand
<1> QED  BY <1>1, <1>2, <1>3, <1>4, <1>5, <1>6, <1>7, <1>8, <1>9, <1>10, <1>11 DEF Next, Turn

LEMMA Invariant == Spec => []IInv
BY InitIInv, NextKeeps, PTL DEF Spec

\* Every variable keeps its type, and no two files have the same name and kind
\* (main.cpp:490-500, directory.h:80-133).
THEOREM TypeCorrect == Spec => []TypeOK
BY Invariant, PTL DEF IInv


-----------------------------------------------------------------------------
\* As long as the clock is not set back, no turn deletes a file of the sample it has just
\* saved, whatever writes, removals and restarts have failed before it
\* (directory.h:108-119, main.cpp:482-504).
THEOREM OwnSampleKept == Spec => OwnSampleSurvives
<1>1. IInv /\ [Next]_vars
        => [RemoveOldest /\ ~setBack => {f \in folder : f.name = filename} \subseteq folder']_vars
  BY RemovedOnly DEF IInv, NewestInHand
<1> QED  BY <1>1, Invariant, PTL DEF Spec, OwnSampleSurvives

-----------------------------------------------------------------------------
(***************************************************************************)
(* The samples of the folder.                                              *)
(***************************************************************************)
\* The sample whose files are being written.
Hand == IF at \in {"image", "label", "delete"} THEN {filename} ELSE {}

\* The samples that have a file, and those of earlier turns among them.
Names == {f.name : f \in folder}
Kept  == Names \ Hand

Has(name, kind) == \E f \in folder : f.name = name /\ f.kind = kind

\* The earliest of a set of times.
LEMMA Least ==
  ASSUME NEW T, T \subseteq Nat, T # {}
  PROVE  \E x \in T : \A y \in T : x <= y
<1> DEFINE Less == {ss \in Nat \X Nat : ss[1] < ss[2]}
<1>1. IsWellFoundedOn(Less, Nat)
  BY NatLessThanWellFounded DEF OpToRel
<1>2. PICK x \in T : \A y \in T : <<y, x>> \notin Less
  BY <1>1, WFMin
<1>3. ASSUME NEW y \in T PROVE x <= y
  <2>1. <<y, x>> \in Nat \X Nat
    OBVIOUS
  <2>2. ~(y < x)
    BY <1>2, <2>1
  <2>3. QED BY <2>2
<1>4. QED BY <1>3

\* Names and samples are finite sets of numbers.
LEMMA Sizes ==
  ASSUME IInv
  PROVE  /\ IsFiniteSet(samples) /\ samples \subseteq Nat
         /\ IsFiniteSet(Names) /\ Names \subseteq Nat
         /\ IsFiniteSet(Kept) /\ Cardinality(Kept) \in Nat
         /\ IsFiniteSet(folder) /\ Cardinality(folder) \in Nat
         /\ filename \in Nat /\ now \in Nat /\ start \in Nat
         /\ \A f \in folder : f.name \in Nat /\ f.written \in Nat /\ f.kind \in {"jpg", "txt"}
<1>1. IsFiniteSet(Time) /\ Time \subseteq Nat
  BY RetentionAssumption, FS_Interval DEF Time
<1>2. samples \in SUBSET Time /\ Names \in SUBSET Time
  BY DEF IInv, TypeOK, Names, File
<1>3. IsFiniteSet(samples) /\ IsFiniteSet(Names)
  BY <1>1, <1>2, FS_Subset
<1>4. Kept \in SUBSET Names
  BY DEF Kept
<1>5. IsFiniteSet(Kept)
  BY <1>3, <1>4, FS_Subset
<1>6. IsFiniteSet(folder) /\ \A f \in folder : f \in File
  BY DEF IInv, FolderFinite, TypeOK
<1>7. \A f \in folder : f.name \in Nat /\ f.written \in Nat /\ f.kind \in {"jpg", "txt"}
  BY <1>1, <1>6 DEF File
<1>8. filename \in Nat /\ now \in Nat /\ start \in Nat
  BY <1>1 DEF IInv, TypeOK
<1>9. QED BY <1>1, <1>2, <1>3, <1>5, <1>6, <1>7, <1>8, FS_CardinalityType

-----------------------------------------------------------------------------
(***************************************************************************)
(* While nothing goes wrong a turn deletes just the two files of the       *)
(* oldest sample, or none.  The files are counted as the turn goes on, and *)
(* every sample's files are older than the next sample, so that the two    *)
(* files written first belong together.  What has been chosen for removal  *)
(* is counted as gone, so that the loop over it changes nothing.           *)
(***************************************************************************)
Left == folder \ doomed
LeftNames == {f.name : f \in Left}
LeftKept  == LeftNames \ Hand

Holds(name, kind) == \E f \in Left : f.name = name /\ f.kind = kind

\* Both files of a kept sample are there; of the one in hand, those that the turn has
\* come to.
PairInv ==
  /\ \A f \in Left : f.name \in samples
  /\ \A name \in LeftKept : Holds(name, "jpg") /\ Holds(name, "txt")
  /\ at = "image" => filename \notin LeftNames
  /\ at = "label" => Holds(filename, "jpg") /\ ~Holds(filename, "txt")
  /\ at = "delete" => Holds(filename, "jpg") /\ Holds(filename, "txt")

Extra == IF at = "label" THEN 1 ELSE IF at = "delete" THEN 2 ELSE 0

CountInv ==
  /\ Cardinality(Left) = 2 * Cardinality(LeftKept) + Extra
  /\ Cardinality(LeftKept) <= TotalData

\* What was deleted is older than all that was kept, which is as much as there may be.
OldInv ==
  \A s \in samples \ (LeftNames \cup Hand) :
    Cardinality(LeftKept) = TotalData /\ \A name \in LeftKept : s < name

\* Each sample is later than the last write of the one before.
TimeInv ==
  /\ \A s \in samples : s <= (IF at = "idle" THEN start ELSE filename)
  /\ at # "idle" => filename \in samples
  /\ \A f \in Left, s \in samples : f.name < s => f.written < s

SoundInv == PairInv /\ CountInv /\ OldInv /\ TimeInv

WholeInv == faults = 0 => ~setBack /\ SoundInv

\* What is left is a part of the folder, and all of it while nothing is to be removed.
LEMMA LeftSizes ==
  ASSUME IInv
  PROVE  /\ IsFiniteSet(samples) /\ samples \subseteq Nat
         /\ IsFiniteSet(LeftNames) /\ LeftNames \subseteq Nat
         /\ IsFiniteSet(LeftKept) /\ Cardinality(LeftKept) \in Nat
         /\ Left \subseteq folder /\ (at # "remove" => Left = folder)
         /\ IsFiniteSet(Left) /\ Cardinality(Left) \in Nat
         /\ filename \in Nat /\ now \in Nat /\ start \in Nat
         /\ \A f \in folder : f.name \in Nat /\ f.written \in Nat /\ f.kind \in {"jpg", "txt"}
<1>1. Left \in SUBSET folder /\ (at # "remove" => Left = folder)
  BY DEF Left, IInv, NothingDoomed
<1>2. LeftNames \in SUBSET Names /\ LeftKept \in SUBSET LeftNames
  BY <1>1 DEF LeftNames, LeftKept, Names
<1>3. IsFiniteSet(Left) /\ IsFiniteSet(LeftNames)
  BY <1>1, <1>2, Sizes, FS_Subset
<1>4. IsFiniteSet(LeftKept)
  BY <1>2, <1>3, FS_Subset
<1>5. QED BY <1>1, <1>2, <1>3, <1>4, Sizes, FS_CardinalityType

\* The first write of a file adds it to the Left.
LEMMA AddFile ==
  ASSUME IInv, NEW kind \in {"jpg", "txt"}, ~Holds(filename, kind),
         folder' = Written(filename, kind), at # "remove", UNCHANGED doomed
  PROVE  LET new == [name |-> filename, kind |-> kind, written |-> now] IN
         /\ Left' = Left \cup {new}
         /\ Cardinality(Left') = Cardinality(Left) + 1
         /\ LeftNames' = LeftNames \cup {filename}
<1> DEFINE new == [name |-> filename, kind |-> kind, written |-> now]
<1>1. new.name = filename /\ new.kind = kind
  OBVIOUS
<1>2. Left' = Left \cup {new}
  <2>1. doomed = {} /\ Left = folder /\ Left' = folder'
    BY DEF IInv, NothingDoomed, Left
  <2>2. QED BY <2>1 DEF Written, Holds
<1> HIDE DEF new
<1>3. new \notin Left
  BY <1>1 DEF Holds
<1>4. Cardinality(Left') = Cardinality(Left) + 1
  BY <1>2, <1>3, LeftSizes, FS_AddElement
<1>5. LeftNames' = LeftNames \cup {filename}
  BY <1>1, <1>2 DEF LeftNames
<1>6. QED BY <1>2, <1>4, <1>5 DEF new

LEMMA SoundTake ==
  ASSUME IInv, ~setBack, SoundInv, TakeSample
  PROVE  SoundInv'
<1>1. /\ now > start /\ at = "idle" /\ at' = "image" /\ filename' = now
      /\ samples' = samples \cup {now} /\ Left' = Left
  <2>1. now - start > Duration /\ Duration \in Nat
    BY RetentionAssumption DEF TakeSample
  <2>2. now > start
    BY <2>1, LeftSizes
  <2>3. QED BY <2>2 DEF TakeSample, Goto, Left
<1>2. \A s \in samples : s < now
  BY <1>1, LeftSizes DEF SoundInv, TimeInv
<1>3. now \notin LeftNames
  BY <1>2, LeftSizes DEF SoundInv, PairInv, LeftNames
<1>4. LeftNames' = LeftNames /\ Hand = {} /\ Hand' = {now}
  BY <1>1 DEF LeftNames, Hand
<1>5. LeftKept' = LeftKept /\ LeftKept = LeftNames
  BY <1>3, <1>4 DEF LeftKept
<1>6. PairInv'
  BY <1>1, <1>3, <1>4, <1>5 DEF SoundInv, PairInv, Holds
<1>7. CountInv'
  BY <1>1, <1>5 DEF SoundInv, CountInv, Extra
<1>8. OldInv'
  BY <1>1, <1>4, <1>5 DEF SoundInv, OldInv
<1>9. \A f \in Left : f.written < now
  BY <1>1, LeftSizes DEF IInv, NewestInHand
<1>10. TimeInv'
  BY <1>1, <1>2, <1>9, LeftSizes DEF SoundInv, TimeInv
<1>11. QED BY <1>6, <1>7, <1>8, <1>10 DEF SoundInv

LEMMA SoundImage ==
  ASSUME IInv, SoundInv, SaveImage, folder' = Written(filename, "jpg")
  PROVE  SoundInv'
<1> DEFINE new == [name |-> filename, kind |-> "jpg", written |-> now]
<1>1. /\ at = "image" /\ at' = "label" /\ filename' = filename /\ samples' = samples
      /\ UNCHANGED doomed
  BY DEF SaveImage, Goto
<1>2. filename \notin LeftNames /\ filename \in samples
  BY <1>1 DEF SoundInv, PairInv, TimeInv
<1>3. ~Holds(filename, "jpg") /\ ~Holds(filename, "txt")
  BY <1>2 DEF Holds, LeftNames
<1>4. /\ Left' = Left \cup {new} /\ LeftNames' = LeftNames \cup {filename}
      /\ Cardinality(Left') = Cardinality(Left) + 1
  BY <1>1, <1>3, AddFile
<1>5. new.name = filename /\ new.kind = "jpg"
  OBVIOUS
<1> HIDE DEF new
<1>6. Hand' = {filename} /\ Hand = {filename}
  BY <1>1 DEF Hand
<1>7. LeftKept' = LeftKept
  BY <1>2, <1>4, <1>6 DEF LeftKept
<1>8. PairInv'
  BY <1>1, <1>2, <1>3, <1>4, <1>5, <1>7 DEF SoundInv, PairInv, Holds
<1>9. CountInv'
  BY <1>1, <1>4, <1>7, LeftSizes DEF SoundInv, CountInv, Extra
<1>10. OldInv'
  BY <1>1, <1>4, <1>6, <1>7 DEF SoundInv, OldInv
<1>11. TimeInv'
  BY <1>1, <1>4, <1>5, LeftSizes DEF SoundInv, TimeInv
<1>12. QED BY <1>8, <1>9, <1>10, <1>11 DEF SoundInv

LEMMA SoundLabel ==
  ASSUME IInv, SoundInv, OpenLabel, folder' = Written(filename, "txt")
  PROVE  SoundInv'
<1> DEFINE new == [name |-> filename, kind |-> "txt", written |-> now]
<1>1. /\ at = "label" /\ at' = "delete" /\ filename' = filename /\ samples' = samples
      /\ UNCHANGED doomed
  BY DEF OpenLabel, Goto
<1>2. Holds(filename, "jpg") /\ ~Holds(filename, "txt") /\ filename \in samples
  BY <1>1 DEF SoundInv, PairInv, TimeInv
<1>3. /\ Left' = Left \cup {new} /\ LeftNames' = LeftNames \cup {filename}
      /\ Cardinality(Left') = Cardinality(Left) + 1
  BY <1>1, <1>2, AddFile
<1>4. new.name = filename /\ new.kind = "txt"
  OBVIOUS
<1> HIDE DEF new
<1>5. Hand' = {filename} /\ Hand = {filename}
  BY <1>1 DEF Hand
<1>6. LeftKept' = LeftKept
  BY <1>3, <1>5 DEF LeftKept
<1>7. PairInv'
  BY <1>1, <1>2, <1>3, <1>4, <1>6 DEF SoundInv, PairInv, Holds
<1>8. CountInv'
  BY <1>1, <1>3, <1>6, LeftSizes DEF SoundInv, CountInv, Extra
<1>9. OldInv'
  BY <1>1, <1>3, <1>5, <1>6 DEF SoundInv, OldInv
<1>10. TimeInv'
  BY <1>1, <1>3, <1>4, LeftSizes DEF SoundInv, TimeInv
<1>11. QED BY <1>7, <1>8, <1>9, <1>10 DEF SoundInv

\* The label's file is replaced by itself, written later.
LEMMA SoundClose ==
  ASSUME IInv, ~setBack, SoundInv, CloseLabel
  PROVE  SoundInv'
<1> DEFINE new == [name |-> filename, kind |-> "txt", written |-> now]
<1>1. /\ at = "close" /\ at' = "idle" /\ filename' = filename /\ samples' = samples
      /\ start' = now /\ Left = folder /\ Left' = folder'
  BY DEF CloseLabel, Goto, Left, IInv, NothingDoomed
<1>2. Hand' = {} /\ Hand = {} /\ LeftKept = LeftNames /\ LeftKept' = LeftNames'
  BY <1>1 DEF Hand, LeftKept
<1>3. \A s \in samples : s <= now
  BY <1>1, LeftSizes DEF SoundInv, TimeInv, IInv, NewestInHand
<1>4. CASE Left' = Left
  <2>1. LeftNames' = LeftNames
    BY <1>4 DEF LeftNames
  <2>2. PairInv' /\ OldInv'
    BY <1>1, <1>2, <1>4, <2>1 DEF SoundInv, PairInv, OldInv, Holds
  <2>3. CountInv'
    BY <1>1, <1>2, <1>4, <2>1 DEF SoundInv, CountInv, Extra
  <2>4. TimeInv'
    BY <1>1, <1>3, <1>4 DEF SoundInv, TimeInv
  <2>5. QED BY <2>2, <2>3, <2>4 DEF SoundInv
<1>5. ASSUME NEW old \in Left, old.name = filename, old.kind = "txt",
             folder' = Written(filename, "txt")
      PROVE  SoundInv'
  <2>1. \A f \in Left : f.name = filename /\ f.kind = "txt" => f = old
    BY <1>1, <1>5 DEF IInv, TypeOK
  <2>2. Left' = (Left \ {old}) \cup {new}
    BY <1>1, <1>5, <2>1 DEF Written
  <2>3. new.name = filename /\ new.kind = "txt"
    OBVIOUS
  <2> HIDE DEF new
  <2>4. new \notin Left \ {old}
    BY <2>1, <2>3
  <2>5. Cardinality(Left') = Cardinality(Left)
    <3>1. IsFiniteSet(Left \ {old}) /\ Cardinality(Left \ {old}) = Cardinality(Left) - 1
      BY <1>5, LeftSizes, FS_RemoveElement
    <3>2. Cardinality((Left \ {old}) \cup {new}) = Cardinality(Left \ {old}) + 1
      BY <2>4, <3>1, FS_AddElement
    <3>3. Cardinality(Left) \in Nat
      BY LeftSizes
    <3>4. QED BY <2>2, <3>1, <3>2, <3>3
  <2>6. LeftNames' = LeftNames
    BY <1>5, <2>2, <2>3 DEF LeftNames
  <2>7. \A name, kind : Holds(name, kind) => Holds(name, kind)'
    BY <1>5, <2>2, <2>3 DEF Holds
  <2>8. PairInv' /\ OldInv'
    BY <1>1, <1>2, <1>5, <2>2, <2>3, <2>6, <2>7 DEF SoundInv, PairInv, OldInv
  <2>9. CountInv'
    BY <1>1, <1>2, <2>5, <2>6 DEF SoundInv, CountInv, Extra
  <2>10. \A s \in samples : ~(filename < s)
    BY <1>1, LeftSizes DEF SoundInv, TimeInv
  <2>11. TimeInv'
    BY <1>1, <1>3, <2>2, <2>3, <2>10 DEF SoundInv, TimeInv
  <2>12. QED BY <2>8, <2>9, <2>11 DEF SoundInv
<1>6. QED BY <1>1, <1>4, <1>5 DEF CloseLabel

\* The two files of the oldest sample are chosen when two are to go.
LEMMA OldestPair ==
  ASSUME IInv, ~setBack, SoundInv, at = "delete", Excess(folder) = 2,
         NEW some \in Oldest(folder, Excess(folder))
  PROVE  \E m \in LeftNames : /\ some = {f \in Left : f.name = m}
                          /\ \A name \in LeftNames : m <= name
                          /\ Cardinality(some) = 2
<1>0. Left = folder
  BY LeftSizes
<1>1. some \in SUBSET Left /\ Cardinality(some) = 2 /\ IsFiniteSet(some)
  <2>1. some \in SUBSET Left /\ Cardinality(some) = 2
    BY <1>0 DEF Oldest
  <2>2. QED BY <2>1, LeftSizes, FS_Subset
<1>2. some # {}
  BY <1>1, FS_EmptySet
<1>3. LeftNames # {} /\ LeftNames \subseteq Nat
  BY <1>1, <1>2, LeftSizes DEF LeftNames
<1>4. PICK m \in LeftNames : \A name \in LeftNames : m <= name
  BY <1>3, Least
<1>5. Holds(m, "jpg") /\ Holds(m, "txt")
  BY DEF SoundInv, PairInv, LeftKept, Hand
<1>6. PICK x \in Left, y \in Left :
        x.name = m /\ x.kind = "jpg" /\ y.name = m /\ y.kind = "txt"
  BY <1>5 DEF Holds
<1>7. \A f \in Left : f.name = m => f = x \/ f = y
  BY <1>0, <1>6, LeftSizes DEF IInv, TypeOK
<1>8. \A g \in Left : g.name = m \/ (x.written < g.written /\ y.written < g.written)
  <2>1. ASSUME NEW g \in Left, g.name # m
        PROVE  x.written < g.written /\ y.written < g.written
    <3>1. m < g.name /\ g.name \in samples
      <4>1. g.name \in LeftNames /\ g.name \in samples
        BY DEF LeftNames, SoundInv, PairInv
      <4>2. m <= g.name /\ m \in Nat /\ g.name \in Nat
        BY <1>3, <1>4, <4>1
      <4>3. QED BY <2>1, <4>1, <4>2
    <3>2. x.written < g.name /\ y.written < g.name /\ g.name <= g.written
      BY <1>0, <1>6, <3>1 DEF SoundInv, TimeInv, IInv, WrittenInOrder
    <3>3. QED BY <3>2, LeftSizes
  <2>2. QED BY <2>1
<1>9. \A f \in some, g \in Left \ some : f.written <= g.written
  BY <1>0 DEF Oldest
<1>10. ASSUME NEW z \in {x, y}, z \notin some
       PROVE  FALSE
  <2>1. \A f \in some : f \in {x, y} /\ f # z
    <3>1. ASSUME NEW f \in some PROVE f.name = m
      <4>1. f.written <= z.written /\ f \in Left
        BY <1>1, <1>6, <1>9, <1>10
      <4>2. ~(z.written < f.written)
        BY <1>6, <4>1, LeftSizes
      <4>3. QED BY <1>8, <1>10, <4>1, <4>2
    <3>2. QED BY <1>1, <1>7, <1>10, <3>1
  <2>2. \E w : some = {w}
    BY <1>2, <2>1
  <2>3. Cardinality(some) = 1
    BY <2>2, FS_Singleton
  <2>4. QED BY <1>1, <2>3
<1>11. {x, y} \subseteq some
  BY <1>10
<1>12. x # y
  BY <1>6
<1>13. some \subseteq {x, y}
  <2>1. IsFiniteSet({x}) /\ Cardinality({x}) = 1
    BY FS_Singleton
  <2>2. Cardinality({x} \cup {y}) = 2
    <3>1. y \notin {x}
      BY <1>12
    <3>2. Cardinality({x} \cup {y}) = Cardinality({x}) + 1
      BY <2>1, <3>1, FS_AddElement
    <3>3. QED BY <2>1, <3>2
  <2>3. {x} \cup {y} = {x, y} /\ {x, y} \in SUBSET some
    BY <1>11
  <2>4. {x, y} = some
    BY <1>1, <2>2, <2>3, FS_Subset
  <2>5. QED BY <2>4
<1>14. some = {f \in Left : f.name = m}
  BY <1>6, <1>7, <1>11, <1>13
<1>15. QED BY <1>1, <1>4, <1>14

LEMMA SoundList ==
  ASSUME IInv, ~setBack, SoundInv, ListOldest
  PROVE  SoundInv'
<1>0. /\ at = "delete" /\ doomed' \in Oldest(folder, Excess(folder)) /\ Left' = folder \ doomed'
      /\ Left = folder
  BY LeftSizes DEF ListOldest, Left
<1> DEFINE some == doomed'
<1>1. /\ at = "delete" /\ at' \in {"remove", "close"} /\ filename' = filename /\ samples' = samples
      /\ Left' = Left \ some /\ some \in Oldest(Left, Excess(Left))
  BY <1>0 DEF ListOldest
<1> HIDE DEF some
<1>2. some \in SUBSET Left /\ Cardinality(some) = Excess(Left) /\ IsFiniteSet(some)
  <2>1. some \in SUBSET Left /\ Cardinality(some) = Excess(Left)
    BY <1>1 DEF Oldest
  <2>2. QED BY <2>1, LeftSizes, FS_Subset
<1>3. Hand = {filename} /\ Hand' = {} /\ LeftKept' = LeftNames' /\ LeftKept = LeftNames \ {filename}
  BY <1>1 DEF Hand, LeftKept
<1>4. filename \in LeftNames
  BY <1>1 DEF SoundInv, PairInv, Holds, LeftNames
<1>5. Cardinality(LeftNames) = Cardinality(LeftKept) + 1
  BY <1>3, <1>4, LeftSizes, FS_RemoveElement, FS_CardinalityType
<1>6. /\ Cardinality(Left) = 2 * Cardinality(LeftKept) + 2 /\ Cardinality(LeftKept) <= TotalData
      /\ Cardinality(LeftKept) \in Nat /\ TotalData \in Nat /\ TotalData > 0
  BY <1>1, LeftSizes, RetentionAssumption DEF SoundInv, CountInv, Extra
<1>7. \A name \in LeftNames : Holds(name, "jpg") /\ Holds(name, "txt")
  BY <1>1, <1>3 DEF SoundInv, PairInv
<1>8. TimeInv'
  BY <1>1 DEF SoundInv, TimeInv
<1>9. CASE Cardinality(LeftKept) < TotalData
  <2>1. Excess(Left) = 0
    BY <1>6, <1>9 DEF Excess
  <2>2. some = {} /\ Left' = Left
    BY <1>1, <1>2, <2>1, FS_EmptySet
  <2>3. LeftNames' = LeftNames /\ LeftKept' = LeftNames
    BY <1>3, <2>2 DEF LeftNames
  <2>4. PairInv'
    BY <1>1, <1>7, <2>2, <2>3 DEF SoundInv, PairInv, Holds
  <2>5. CountInv'
    BY <1>1, <1>5, <1>6, <1>9, <2>2, <2>3 DEF CountInv, Extra
  <2>6. OldInv'
    <3>1. samples \ (LeftNames \cup Hand) = {}
      BY <1>6, <1>9 DEF SoundInv, OldInv
    <3>2. samples' \ (LeftNames' \cup Hand') = {}
      BY <1>1, <1>3, <1>4, <2>3, <3>1
    <3>3. QED BY <3>2 DEF OldInv
  <2>7. QED BY <1>8, <2>4, <2>5, <2>6 DEF SoundInv
<1>10. CASE ~(Cardinality(LeftKept) < TotalData)
  <2>1. Cardinality(LeftKept) = TotalData /\ Cardinality(Left) = 2 * TotalData + 2
    BY <1>6, <1>10
  <2>2. Excess(Left) = 2
    BY <1>6, <2>1 DEF Excess
  <2>3. PICK m \in LeftNames : /\ some = {f \in Left : f.name = m}
                           /\ \A name \in LeftNames : m <= name
                           /\ Cardinality(some) = 2
    BY <1>0, <1>1, <2>2, OldestPair
  <2>4. Left' = {f \in Left : f.name # m}
    BY <1>1, <2>3
  <2>5. LeftNames' = LeftNames \ {m} /\ LeftKept' = LeftNames \ {m}
    BY <1>3, <2>4 DEF LeftNames
  <2>6. Cardinality(LeftKept') = TotalData
    <3>1. Cardinality(LeftNames \ {m}) = Cardinality(LeftNames) - 1
      BY <2>3, LeftSizes, FS_RemoveElement
    <3>2. QED BY <1>5, <1>6, <2>1, <2>5, <3>1
  <2>7. Cardinality(Left') = 2 * TotalData
    <3>1. Cardinality(Left \ some) = Cardinality(Left) - Cardinality(Left \cap some)
      BY LeftSizes, FS_Difference
    <3>2. Left \cap some = some
      BY <1>2
    <3>3. Cardinality(Left') = (2 * TotalData + 2) - 2
      BY <1>1, <2>1, <2>3, <3>1, <3>2
    <3>4. QED BY <1>6, <3>3
  <2>8. PairInv'
    <3>1. ASSUME NEW name \in LeftNames \ {m}, NEW kind \in {"jpg", "txt"} PROVE Holds(name, kind)'
      <4>1. PICK f \in Left : f.name = name /\ f.kind = kind
        BY <1>7 DEF Holds
      <4>2. QED BY <2>4, <4>1 DEF Holds
    <3>2. \A f \in Left' : f.name \in samples'
      BY <1>1, <2>4 DEF SoundInv, PairInv
    <3>3. QED BY <1>1, <2>5, <3>1, <3>2 DEF PairInv
  <2>9. CountInv'
    BY <1>1, <1>6, <2>6, <2>7 DEF CountInv, Extra
  <2>10. m # filename
    <3>1. LeftKept # {}
      <4>1. Cardinality({}) = 0
        BY FS_EmptySet
      <4>2. QED BY <1>6, <2>1, <4>1
    <3>2. PICK name \in LeftNames : name # filename
      BY <1>3, <3>1
    <3>3. name <= filename /\ m <= name /\ name \in Nat /\ filename \in Nat
      BY <1>1, <2>3, LeftSizes DEF SoundInv, TimeInv, PairInv, LeftNames
    <3>4. QED BY <3>2, <3>3
  <2>11. OldInv'
    <3>1. ASSUME NEW s \in samples, s \notin LeftNames \ {m}, NEW name \in LeftNames \ {m}
          PROVE  s < name
      <4>1. name \in Nat /\ s \in Nat /\ m \in Nat /\ filename \in Nat
        BY LeftSizes
      <4>2. CASE s = m
        BY <2>3, <4>1, <4>2
      <4>3. CASE s # m
        <5>1. s \in samples \ (LeftNames \cup Hand)
          BY <1>3, <1>4, <3>1, <4>3
        <5>2. CASE name \in LeftKept
          BY <5>1, <5>2 DEF SoundInv, OldInv
        <5>3. CASE name = filename
          <6>1. s <= filename /\ s # filename
            BY <1>1, <1>4, <5>1 DEF SoundInv, TimeInv
          <6>2. QED BY <4>1, <5>3, <6>1
        <5>4. QED BY <1>3, <5>2, <5>3
      <4>4. QED BY <4>2, <4>3
    <3>2. QED BY <1>1, <1>3, <2>5, <2>6, <3>1 DEF OldInv
  <2>12. QED BY <1>8, <2>8, <2>9, <2>11 DEF SoundInv
<1>11. QED BY <1>9, <1>10

LEMMA WholeStep == IInv /\ WholeInv /\ [Next]_vars => WholeInv'
<1> SUFFICES ASSUME IInv, WholeInv, [Next]_vars, faults' = 0
             PROVE  ~setBack' /\ SoundInv'
  BY DEF WholeInv
<1>1. ~Fault
  BY DEF Fault, IInv, TypeOK
<1>2. CASE UNCHANGED <<faults, setBack>>
  <2>1. ~setBack /\ SoundInv /\ ~setBack'
    BY <1>2 DEF WholeInv
  <2>2. CASE TakeSample
    BY <2>1, <2>2, SoundTake
  <2>3. CASE SaveImage
    BY <1>1, <2>1, <2>3, SoundImage DEF SaveImage
  <2>4. CASE OpenLabel
    BY <1>1, <2>1, <2>4, SoundLabel DEF OpenLabel
  <2>5. CASE ListOldest
    BY <2>1, <2>5, SoundList
  <2>10. CASE RemoveOldest
    <3>1. Left' = Left
      BY <1>1, <2>10 DEF RemoveOldest, Left
    <3>2. /\ at = "remove" /\ at' \in {"remove", "close"}
          /\ UNCHANGED <<start, filename, samples>>
      BY <2>10, RemovedOnly
    <3>3. QED
      BY <2>1, <3>1, <3>2 DEF SoundInv, PairInv, CountInv, OldInv, TimeInv, LeftNames, LeftKept, Hand,
                              Holds, Extra
  <2>6. CASE CloseLabel
    BY <2>1, <2>6, SoundClose
  <2>7. CASE UNCHANGED <<folder, doomed, at, start, filename, samples>>
    BY <2>1, <2>7 DEF Left, SoundInv, PairInv, CountInv, OldInv, TimeInv, LeftNames, LeftKept, Hand, Holds, Extra
  <2>8. CASE Tick \/ UNCHANGED vars
    BY <2>7, <2>8 DEF Tick, vars
  <2>9. QED BY <1>1, <2>2, <2>3, <2>4, <2>5, <2>6, <2>8, <2>10
            DEF Next, Turn, SetClockBack, Restart, ListFails
<1>3. UNCHANGED <<faults, setBack>>
  BY <1>1 DEF Next, Turn, TakeSample, SaveImage, OpenLabel, ListOldest, ListFails,
              RemoveOldest, CloseLabel, Tick,
              SetClockBack, Restart, vars, clock
<1>4. QED BY <1>2, <1>3

LEMMA WholeStart == Init => WholeInv
<1> SUFFICES ASSUME Init PROVE ~setBack /\ SoundInv
  BY DEF WholeInv
<1>1. Left = {} /\ samples = {} /\ at = "idle" /\ ~setBack
  BY DEF Init, Left
<1>2. LeftNames = {} /\ LeftKept = {}
  BY <1>1 DEF LeftNames, LeftKept
<1>3. CountInv
  BY <1>1, <1>2, FS_EmptySet, RetentionAssumption DEF CountInv, Extra
<1>4. QED BY <1>1, <1>2, <1>3 DEF SoundInv, PairInv, OldInv, TimeInv

\* Counting the later samples of each sample.
LEMMA WholeFolder ==
  ASSUME IInv, WholeInv
  PROVE  NewestSamplesKept
<1> SUFFICES ASSUME faults = 0, at = "idle", NEW name \in samples
             PROVE  Cardinality(FilesOf(name)) =
                      IF Cardinality({later \in samples : later > name}) < TotalData THEN 2 ELSE 0
  BY DEF NewestSamplesKept
<1> DEFINE Later == {later \in samples : later > name}
<1>1. SoundInv /\ LeftKept = LeftNames /\ Hand = {} /\ Left = folder
  BY LeftSizes DEF WholeInv, LeftKept, Hand
<1>2. /\ samples \subseteq Nat /\ IsFiniteSet(samples) /\ IsFiniteSet(LeftNames) /\ LeftNames \subseteq samples
      /\ Cardinality(LeftNames) \in Nat /\ Cardinality(LeftNames) <= TotalData /\ TotalData \in Nat
  BY <1>1, LeftSizes, RetentionAssumption DEF SoundInv, CountInv, PairInv, LeftNames
<1>3. Later \in SUBSET samples /\ IsFiniteSet(Later) /\ Cardinality(Later) \in Nat
  BY <1>2, FS_Subset, FS_CardinalityType
<1>4. CASE name \in LeftNames
  <2>1. Later \in SUBSET (LeftNames \ {name})
    <3>1. ASSUME NEW s \in samples, s > name PROVE s \in LeftNames
      <4>1. s \notin LeftNames => s < name
        BY <1>1, <1>4, <3>1 DEF SoundInv, OldInv
      <4>2. QED BY <1>2, <3>1, <4>1
    <3>2. name \in Nat /\ ~(name > name)
      BY <1>2
    <3>3. \A s \in Later : s \in LeftNames /\ s # name
      BY <3>1, <3>2
    <3> HIDE DEF Later
    <3>4. QED BY <3>3
  <2>2. /\ IsFiniteSet(LeftNames \ {name})
        /\ Cardinality(LeftNames \ {name}) = Cardinality(LeftNames) - 1
    BY <1>2, <1>4, FS_RemoveElement
  <2>3. Cardinality(Later) <= Cardinality(LeftNames \ {name})
    BY <2>1, <2>2, FS_Subset
  <2>4. Cardinality(Later) < TotalData
    BY <1>2, <1>3, <2>2, <2>3
  <2>5. PICK x \in Left, y \in Left :
          x.name = name /\ x.kind = "jpg" /\ y.name = name /\ y.kind = "txt"
    BY <1>1, <1>4 DEF SoundInv, PairInv, Holds
  <2>6. FilesOf(name) = {x} \cup {y} /\ x # y
    BY <1>1, <2>5, LeftSizes DEF FilesOf, IInv, TypeOK
  <2>7. IsFiniteSet({x}) /\ Cardinality({x}) = 1
    BY FS_Singleton
  <2>8. Cardinality({x} \cup {y}) = 2
    <3>1. y \notin {x}
      BY <2>6
    <3>2. Cardinality({x} \cup {y}) = Cardinality({x}) + 1
      BY <2>7, <3>1, FS_AddElement
    <3>3. QED BY <2>7, <3>2
  <2>9. QED BY <2>4, <2>6, <2>8
<1>5. CASE name \notin LeftNames
  <2>1. Cardinality(LeftNames) = TotalData /\ \A k \in LeftNames : name < k
    BY <1>1, <1>5 DEF SoundInv, OldInv
  <2>2. LeftNames \in SUBSET Later
    BY <1>2, <2>1
  <2>3. Cardinality(LeftNames) <= Cardinality(Later)
    BY <1>3, <2>2, FS_Subset
  <2>4. ~(Cardinality(Later) < TotalData)
    BY <1>2, <1>3, <2>1, <2>3
  <2>5. FilesOf(name) = {}
    BY <1>1, <1>5 DEF FilesOf, LeftNames
  <2>6. QED BY <2>4, <2>5, FS_EmptySet
<1>6. QED BY <1>4, <1>5

\* While nothing goes wrong the Left holds, between two turns, the picture and the label
\* of the newest TotalData samples and of no other (directory.h:99-125, main.cpp:502).
THEOREM NewestKept == Spec => []NewestSamplesKept
<1>1. IInv /\ WholeInv => NewestSamplesKept
  BY WholeFolder
<1>2. QED BY <1>1, WholeStart, WholeStep, Invariant, PTL DEF Spec

-----------------------------------------------------------------------------
(***************************************************************************)
(* What faults cost: a failed removal leaves one file more, a crash the    *)
(* two of the turn it ended, and the next turn that deletes takes all of   *)
(* them.                                                                   *)
(***************************************************************************)
InHand == IF at = "label" THEN 1 ELSE IF at \in {"delete", "remove"} THEN 2 ELSE 0

FolderLimit ==
  /\ Cardinality(folder) <= 2 * TotalData + 2 * faults + InHand
  /\ at = "remove" =>
       Cardinality(folder) <= 2 * TotalData + 2 * faults + Cardinality(doomed)

LEMMA WrittenSize ==
  ASSUME TypeOK, FolderFinite, NEW kind \in {"jpg", "txt"}, folder' = Written(filename, kind)
  PROVE  /\ Cardinality(folder') <= Cardinality(folder) + 1
         /\ Has(filename, kind) => Cardinality(folder') = Cardinality(folder)
         /\ Cardinality(folder') \in Nat
<1> DEFINE new  == [name |-> filename, kind |-> kind, written |-> now]
           rest == {f \in folder : f.name # filename \/ f.kind # kind}
<1>1. folder' = rest \cup {new} /\ new \notin rest
  BY DEF Written
<1>2. IsFiniteSet(folder) /\ rest \in SUBSET folder /\ Cardinality(folder) \in Nat
  BY FS_CardinalityType DEF FolderFinite
<1>3. IsFiniteSet(rest) /\ Cardinality(rest) <= Cardinality(folder) /\ Cardinality(rest) \in Nat
  BY <1>2, FS_Subset, FS_CardinalityType
<1> HIDE DEF new
<1>4. Cardinality(folder') = Cardinality(rest) + 1
  BY <1>1, <1>3, FS_AddElement
<1>5. ASSUME Has(filename, kind) PROVE Cardinality(rest) = Cardinality(folder) - 1
  <2>1. PICK old \in folder : old.name = filename /\ old.kind = kind
    BY <1>5 DEF Has
  <2>2. rest = folder \ {old}
    BY <2>1 DEF TypeOK
  <2>3. QED BY <1>2, <2>1, <2>2, FS_RemoveElement
<1>6. QED BY <1>2, <1>3, <1>4, <1>5

\* What has been chosen can be counted, and one less when it has been dealt with.
LEMMA DoomedSize ==
  ASSUME IInv
  PROVE  /\ IsFiniteSet(doomed) /\ Cardinality(doomed) \in Nat
         /\ \A f \in doomed : /\ Cardinality(doomed \ {f}) = Cardinality(doomed) - 1
                              /\ Cardinality(folder \ {f}) = Cardinality(folder) - 1
<1>1. IsFiniteSet(folder) /\ doomed \in SUBSET folder
  BY DEF IInv, TypeOK, FolderFinite
<1>2. IsFiniteSet(doomed)
  BY <1>1, FS_Subset
<1>3. QED BY <1>1, <1>2, FS_RemoveElement, FS_CardinalityType

\* The limit leaves as many files as it says.
LEMMA ListedSize ==
  ASSUME IInv, ListOldest
  PROVE  /\ at = "delete" /\ doomed' \in Oldest(folder, Excess(folder)) /\ doomed' \subseteq folder
         /\ UNCHANGED <<clock, folder, start, filename, faults, samples>>
         /\ IF Excess(folder) = 0
              THEN at' = "close" /\ Cardinality(folder) <= 2 * TotalData
              ELSE /\ at' = "remove"
                   /\ Cardinality(folder) = 2 * TotalData + Cardinality(doomed')
<1>1. /\ at = "delete" /\ doomed' \in Oldest(folder, Excess(folder)) /\ doomed' \in SUBSET folder
      /\ Cardinality(doomed') = Excess(folder)
      /\ UNCHANGED <<clock, folder, start, filename, faults, samples>>
  BY DEF ListOldest, Oldest
<1>2. IsFiniteSet(folder) /\ Cardinality(folder) \in Nat /\ TotalData \in Nat
  BY Sizes, RetentionAssumption
<1>3. IsFiniteSet(doomed')
  BY <1>1, <1>2, FS_Subset
<1>4. doomed' = {} <=> Excess(folder) = 0
  BY <1>1, <1>3, FS_EmptySet
<1>5. QED BY <1>1, <1>2, <1>4 DEF ListOldest, Excess

LEMMA LimitStep == IInv /\ FolderLimit /\ [Next]_vars => FolderLimit'
<1> SUFFICES ASSUME IInv, FolderLimit, [Next]_vars PROVE FolderLimit'
  OBVIOUS
<1>1. /\ faults \in Nat /\ TotalData \in Nat /\ Cardinality(folder) \in Nat
      /\ TypeOK /\ FolderFinite /\ IsFiniteSet(folder)
      /\ Cardinality(doomed) \in Nat
  BY RetentionAssumption, Sizes, DoomedSize DEF IInv, TypeOK
<1>2. InHand \in 0 .. 2 /\ InHand' \in 0 .. 2
  BY DEF InHand
<1>3. CASE SaveImage \/ OpenLabel
  <2>1. InHand' = InHand + 1 /\ at' # "remove"
    BY <1>3 DEF SaveImage, OpenLabel, Goto, InHand
  <2>2. CASE UNCHANGED folder /\ Fault
    BY <1>1, <1>2, <2>1, <2>2 DEF Fault, FolderLimit
  <2>3. CASE UNCHANGED faults /\ \E kind \in {"jpg", "txt"} : folder' = Written(filename, kind)
    BY <1>1, <1>2, <2>1, <2>3, WrittenSize DEF FolderLimit
  <2>4. QED BY <1>3, <2>2, <2>3 DEF SaveImage, OpenLabel
<1>4. CASE ListOldest
  <2>1. /\ folder' = folder /\ faults' = faults
        /\ \/ at' = "close" /\ Cardinality(folder) <= 2 * TotalData
           \/ at' = "remove" /\ Cardinality(folder) = 2 * TotalData + Cardinality(doomed')
    BY <1>4, ListedSize
  <2>2. InHand = 2 /\ InHand' = IF at' = "remove" THEN 2 ELSE 0
    BY <1>4, <2>1 DEF ListOldest, InHand
  <2>3. Cardinality(folder) <= 2 * TotalData + 2 * faults + 2
    BY <2>2 DEF FolderLimit
  <2>4. Cardinality(doomed') \in Nat
    <3>1. IsFiniteSet(doomed')
      BY <1>1, <1>4, ListedSize, FS_Subset
    <3>2. QED BY <3>1, FS_CardinalityType
  <2>5. CASE at' = "close"
    <3>1. Cardinality(folder') <= 2 * TotalData + 2 * faults' + InHand'
      BY <1>1, <2>1, <2>2, <2>5
    <3>2. QED BY <2>5, <3>1 DEF FolderLimit
  <2>6. CASE at' = "remove"
    <3>1. /\ Cardinality(folder) = 2 * TotalData + Cardinality(doomed')
          /\ Cardinality(doomed') = Cardinality(folder) - 2 * TotalData
      BY <1>1, <2>1, <2>6, <2>4
    <3>2. Cardinality(folder) <= 2 * TotalData + 2 * faults + Cardinality(doomed')
      BY <1>1, <3>1
    <3>3. QED BY <2>1, <2>2, <2>3, <2>6, <3>2 DEF FolderLimit
  <2>7. QED BY <2>1, <2>5, <2>6
<1>5. CASE ListFails
  BY <1>1, <1>5 DEF ListFails, Goto, Fault, FolderLimit, InHand
<1>6. CASE RemoveOldest
  <2>1. PICK f \in doomed :
          /\ doomed' = doomed \ {f}
          /\ \/ folder' = folder \ {f} /\ UNCHANGED faults
             \/ Fault /\ UNCHANGED folder
    BY <1>6 DEF RemoveOldest
  <2>2. /\ Cardinality(doomed') = Cardinality(doomed) - 1
        /\ Cardinality(folder \ {f}) = Cardinality(folder) - 1
    BY <2>1, DoomedSize
  <2>3. /\ at = "remove" /\ InHand = 2
        /\ at' = "remove" => InHand' = 2
        /\ at' = "close" => doomed' = {} /\ InHand' = 0
        /\ at' \in {"remove", "close"}
    BY <1>6 DEF RemoveOldest, InHand
  <2>4. at' = "close" => Cardinality(doomed') = 0
    BY <2>3, FS_EmptySet
  <2>5. /\ Cardinality(folder) <= 2 * TotalData + 2 * faults + 2
        /\ Cardinality(folder) <= 2 * TotalData + 2 * faults + Cardinality(doomed)
    BY <2>3 DEF FolderLimit
  <2>6. /\ Cardinality(folder') <= 2 * TotalData + 2 * faults' + 2
        /\ Cardinality(folder') <= 2 * TotalData + 2 * faults' + Cardinality(doomed')
    <3>1. CASE folder' = folder \ {f} /\ UNCHANGED faults
      BY <1>1, <2>2, <2>5, <3>1
    <3>2. CASE Fault /\ UNCHANGED folder
      BY <1>1, <2>2, <2>5, <3>2 DEF Fault
    <3>3. QED BY <2>1, <3>1, <3>2
  <2>7. CASE at' = "remove"
    BY <2>3, <2>6, <2>7 DEF FolderLimit
  <2>8. CASE at' = "close"
    <3>1. /\ Cardinality(folder') <= 2 * TotalData + 2 * faults' + 0
          /\ InHand' = 0 /\ at' # "remove"
      BY <2>3, <2>4, <2>6, <2>8
    <3>2. QED BY <3>1 DEF FolderLimit
  <2>9. QED BY <2>3, <2>7, <2>8
<1>7. CASE CloseLabel
  <2>1. InHand' = 0 /\ InHand = 0 /\ faults' = faults /\ at' # "remove"
    BY <1>7 DEF CloseLabel, Goto, InHand
  <2>2. Cardinality(folder') = Cardinality(folder)
    BY <1>1, <1>7, WrittenSize DEF CloseLabel, Has
  <2>3. QED BY <2>1, <2>2 DEF FolderLimit
<1>8. CASE TakeSample \/ Tick \/ UNCHANGED vars
  <2>1. folder' = folder /\ faults' = faults /\ InHand' = InHand /\ doomed' = doomed
        /\ (at' = "remove" => at = "remove")
    BY <1>8 DEF TakeSample, Tick, vars, Goto, InHand
  <2>2. QED BY <2>1 DEF FolderLimit
<1>9. CASE SetClockBack \/ Restart
  <2>1. folder' = folder /\ faults' = faults + 1
        /\ (at' = "remove" => at = "remove" /\ doomed' = doomed /\ InHand' = InHand)
    BY <1>9 DEF SetClockBack, Restart, Fault, InHand
  <2>2. QED BY <1>1, <1>2, <2>1 DEF FolderLimit
<1>10. QED BY <1>3, <1>4, <1>5, <1>6, <1>7, <1>8, <1>9 DEF Next, Turn

\* The folder does not grow beyond the limit and the pair in hand, but for two files of
\* each fault that wait for a turn that deletes: failed writes and removals, crashes and a
\* clock that is set back never add up to more (directory.h:99-125).
LEMMA FolderStaysSmall ==
  Spec => [](Cardinality(folder) <= 2 * TotalData + 2 + 2 * faults)
<1>1. Init => FolderLimit
  BY FS_EmptySet, RetentionAssumption DEF Init, FolderLimit, InHand
<1>2. IInv /\ FolderLimit => Cardinality(folder) <= 2 * TotalData + 2 + 2 * faults
  <2> SUFFICES ASSUME IInv, FolderLimit
               PROVE  Cardinality(folder) <= 2 * TotalData + 2 + 2 * faults
    OBVIOUS
  <2>1. /\ faults \in Nat /\ TotalData \in Nat /\ Cardinality(folder) \in Nat /\ InHand \in 0 .. 2
    BY RetentionAssumption, Sizes DEF IInv, TypeOK, InHand
  <2>2. QED BY <2>1 DEF FolderLimit
<1>3. QED BY <1>1, <1>2, LimitStep, Invariant, PTL DEF Spec

-----------------------------------------------------------------------------
(***************************************************************************)
(* How many samples are cut in two.  The samples fall into epochs: one     *)
(* begins with the program, another with each restart and each time the    *)
(* clock is set back during a turn.  A deletion takes the files in the     *)
(* order of their last write, and so at most the oldest sample that an     *)
(* epoch still has is cut, also between two removals.  The sample a fault  *)
(* falls on is exempt.  So there are no more halves than epochs and exempt *)
(* samples, which is one too many; a turn that deletes leaves an even      *)
(* number of files, hence of halves, unless a removal has failed.          *)
(***************************************************************************)
\* The samples of which a file is missing, and those of earlier turns among them.
Single == {name \in Names : ~(Has(name, "jpg") /\ Has(name, "txt"))}
Loose  == Single \ Hand

\* The sample in hand lacks a file that this turn should have written.
Unclean == \/ at = "label" /\ ~Has(filename, "jpg")
           \/ at = "delete" /\ ~(Has(filename, "jpg") /\ Has(filename, "txt"))

\* Within an epoch the files of a sample are all written before those of the next.
Ordered(exempt, epoch) ==
  \A f, g \in folder :
    /\ f.name \in Kept \ exempt /\ g.name \in Kept \ exempt
    /\ epoch[f.name] = epoch[g.name] /\ f.name < g.name
    => f.written < g.written

\* Of an epoch only the oldest sample there is can have lost a file.
OldestCut(exempt, epoch) ==
  \A x \in Loose \ exempt, y \in Kept \ exempt : epoch[x] = epoch[y] => x <= y

\* The samples of the current epoch come before the next one.
BeforeStart(exempt, epoch, last) ==
  \A f \in folder :
    /\ f.name \in Kept \ exempt /\ epoch[f.name] = last
    /\ at # "idle" => f.name # filename
    => f.name <= start /\ f.written <= start

\* What a turn has written so far is newer than all that.
InTurn(exempt, epoch, last) ==
  at # "idle" =>
    /\ start < filename
    /\ filename <= now \/ \A name \in Time : epoch[name] < last
    /\ filename \notin exempt =>
         /\ filename <= now /\ epoch[filename] = last /\ ~Unclean
         /\ \A f \in folder :
              f.name = filename /\ ((f.kind = "jpg" /\ at = "label") \/ at \in {"delete", "remove", "close"})
                => filename <= f.written /\ f.written <= now

\* While files are removed those that were passed over are exempt, and the count will
\* come out even unless one was.
Removing(exempt, last) ==
  at = "remove" =>
    /\ \A f \in doomed, g \in folder \ doomed : f.written <= g.written \/ g.name \in exempt
    /\ \/ Cardinality(folder) = 2 * TotalData + Cardinality(doomed)
       \/ Cardinality(exempt) + last <= 2 * faults

\* Every fault exempts one sample and begins one epoch, or less.
Budget(exempt, last) == Cardinality(exempt) + last <= 2 * faults + 1

Tidy(exempt, epoch, last) ==
  /\ Budget(exempt, last)
  /\ Ordered(exempt, epoch) /\ OldestCut(exempt, epoch)
  /\ BeforeStart(exempt, epoch, last) /\ InTurn(exempt, epoch, last)
  /\ Removing(exempt, last)

LooseFew == /\ Cardinality(Loose) <= 2 * faults + (IF at = "remove" THEN 1 ELSE 0)
            /\ Unclean => Cardinality(Loose) <= 2 * faults - 1

HalvesInv ==
  /\ \E exempt \in SUBSET Time, last \in Nat \ {0} :
       \E epoch \in [Time -> 1 .. last] : Tidy(exempt, epoch, last)
  /\ LooseFew

\* One sample of each epoch, and the exempt ones.
LEMMA OneOfEach ==
  ASSUME NEW S \in SUBSET Time, NEW exempt \in SUBSET Time, NEW last \in Nat,
         NEW epoch \in [Time -> 1 .. last],
         \A x, y \in S \ exempt : epoch[x] = epoch[y] => x = y
  PROVE  Cardinality(S) <= Cardinality(exempt) + last
<1> DEFINE rest == S \ exempt
           both == S \cap exempt
           of == [x \in rest |-> epoch[x]]
<1>1. IsFiniteSet(Time)
  BY RetentionAssumption, FS_Interval DEF Time
<1>2. /\ IsFiniteSet(S) /\ IsFiniteSet(exempt) /\ Cardinality(exempt) \in Nat
      /\ IsFiniteSet(both) /\ Cardinality(both) <= Cardinality(exempt)
      /\ Cardinality(both) \in Nat /\ Cardinality(S) \in Nat
  <2>1. IsFiniteSet(S) /\ IsFiniteSet(exempt)
    BY <1>1, FS_Subset
  <2>2. both \in SUBSET exempt
    OBVIOUS
  <2>3. QED BY <2>1, <2>2, FS_Subset, FS_CardinalityType
<1>3. of \in Injection(rest, 1 .. last)
  <2>1. of \in [rest -> 1 .. last]
    OBVIOUS
  <2>2. IsInjective(of)
    BY DEF IsInjective
  <2>3. QED BY <2>1, <2>2 DEF Injection
<1>4. IsFiniteSet(1 .. last) /\ Cardinality(1 .. last) = last
  BY FS_Interval
<1>5. Cardinality(rest) <= last
  BY <1>3, <1>4, FS_Injection
<1>6. Cardinality(rest) = Cardinality(S) - Cardinality(both)
  BY <1>2, FS_Difference
<1>7. QED BY <1>2, <1>5, <1>6

\* A set of files of one kind has as many files as names.
LEMMA OneKind ==
  ASSUME IInv, NEW kind
  PROVE  LET some == {f \in folder : f.kind = kind}
             of == {name \in Names : Has(name, kind)}
         IN  /\ IsFiniteSet(some) /\ IsFiniteSet(of)
             /\ Cardinality(some) = Cardinality(of) /\ Cardinality(of) \in Nat
<1> DEFINE some == {f \in folder : f.kind = kind}
           of == {name \in Names : Has(name, kind)}
           nameOf == [f \in some |-> f.name]
<1>1. some \in SUBSET folder
  OBVIOUS
<1>2. IsFiniteSet(some)
  BY <1>1, Sizes, FS_Subset
<1>3. nameOf \in [some -> of]
  BY DEF Names, Has
<1>4. IsInjective(nameOf)
  BY DEF IsInjective, IInv, TypeOK
<1>5. \A name \in of : \E f \in some : nameOf[f] = name
  BY DEF Has
<1>6. nameOf \in Bijection(some, of)
  BY <1>3, <1>4, <1>5 DEF Bijection, Injection, Surjection
<1>7. IsFiniteSet(of) /\ Cardinality(of) = Cardinality(some)
  BY <1>2, <1>6, FS_Bijection DEF ExistsBijection
<1>8. QED BY <1>2, <1>7, FS_CardinalityType

\* Two files for each name, but one for each that lacks the other.
TwoFilesEach ==
  /\ Cardinality(folder) = 2 * Cardinality(Names) - Cardinality(Single)
  /\ IsFiniteSet(Single) /\ Cardinality(Single) \in Nat /\ Cardinality(Names) \in Nat

LEMMA TwoOfEach == IInv => TwoFilesEach
<1> SUFFICES ASSUME IInv PROVE TwoFilesEach
  OBVIOUS
<1> DEFINE jpgs == {f \in folder : f.kind = "jpg"}
           txts == {f \in folder : f.kind = "txt"}
           jpgOf == {name \in Names : Has(name, "jpg")}
           txtOf == {name \in Names : Has(name, "txt")}
           whole == jpgOf \cap txtOf
<1>1. /\ IsFiniteSet(jpgs) /\ IsFiniteSet(jpgOf)
      /\ Cardinality(jpgs) = Cardinality(jpgOf) /\ Cardinality(jpgOf) \in Nat
  BY OneKind
<1>2. /\ IsFiniteSet(txts) /\ IsFiniteSet(txtOf)
      /\ Cardinality(txts) = Cardinality(txtOf) /\ Cardinality(txtOf) \in Nat
  BY OneKind
<1>3. folder = jpgs \cup txts /\ jpgs \cap txts = {}
  BY Sizes
<1>4. Cardinality(folder) = Cardinality(jpgOf) + Cardinality(txtOf)
  <2>1. Cardinality(jpgs \cup txts)
          = Cardinality(jpgs) + Cardinality(txts) - Cardinality(jpgs \cap txts)
    BY <1>1, <1>2, FS_Union
  <2>2. Cardinality(jpgs \cap txts) = 0
    BY <1>3, FS_EmptySet
  <2>3. Cardinality(jpgs \cup txts) = Cardinality(folder)
    BY <1>3
  <2> HIDE DEF jpgs, txts, jpgOf, txtOf
  <2>4. QED BY <1>1, <1>2, <2>1, <2>2, <2>3
<1>5. Names = jpgOf \cup txtOf
  BY Sizes DEF Names, Has
<1>6. Cardinality(Names) = Cardinality(jpgOf) + Cardinality(txtOf) - Cardinality(whole)
  BY <1>1, <1>2, <1>5, FS_Union
<1>7. whole \in SUBSET Names /\ Single = Names \ whole /\ Names \cap whole = whole
  BY DEF Single
<1>8. IsFiniteSet(whole) /\ Cardinality(whole) \in Nat /\ Cardinality(Names) \in Nat
  BY <1>7, Sizes, FS_Subset, FS_CardinalityType
<1>9. IsFiniteSet(Single) /\ Cardinality(Single) = Cardinality(Names) - Cardinality(whole)
  <2>1. IsFiniteSet(Names)
    BY Sizes
  <2>2. QED BY <1>7, <2>1, FS_Difference
<1>10. Cardinality(Single) \in Nat
  BY <1>9, FS_CardinalityType
<1> HIDE DEF jpgs, txts, jpgOf, txtOf, whole
<1>11. QED BY <1>1, <1>2, <1>4, <1>6, <1>8, <1>9, <1>10 DEF TwoFilesEach

LEMMA TwoOfEachNext == IInv' => TwoFilesEach'
BY TwoOfEach, PTL

\* One more sample may be exempt.
LEMMA ExemptOne ==
  ASSUME NEW exempt \in SUBSET Time, NEW name \in Time
  PROVE  /\ exempt \cup {name} \in SUBSET Time
         /\ Cardinality(exempt) \in Nat /\ Cardinality(exempt \cup {name}) \in Nat
         /\ Cardinality(exempt \cup {name}) <= Cardinality(exempt) + 1
<1>1. IsFiniteSet(Time)
  BY RetentionAssumption, FS_Interval DEF Time
<1>2. IsFiniteSet(exempt)
  BY <1>1, FS_Subset
<1>3. IsFiniteSet(exempt \cup {name}) /\ Cardinality(exempt) \in Nat
  BY <1>2, FS_AddElement, FS_CardinalityType
<1>4. \/ Cardinality(exempt \cup {name}) = Cardinality(exempt)
      \/ Cardinality(exempt \cup {name}) = Cardinality(exempt) + 1
  BY <1>2, FS_AddElement
<1>5. QED BY <1>3, <1>4, FS_CardinalityType

\* What the bookkeeping is about.
LEMMA Numbers ==
  ASSUME IInv, NEW last \in Nat \ {0}, NEW epoch \in [Time -> 1 .. last]
  PROVE  /\ filename \in Time /\ now \in Time /\ faults \in Nat
         /\ IsFiniteSet(Loose) /\ Cardinality(Loose) \in Nat
         /\ \A f \in folder : f.name \in Names /\ f.name \in Time
         /\ Names \subseteq Time /\ Kept \subseteq Names /\ Loose \subseteq Kept
         /\ \A name \in Time : epoch[name] \in Nat /\ epoch[name] <= last /\ name \in Nat
<1>1. \A name \in Time : name \in Nat
  BY RetentionAssumption DEF Time
<1>2. /\ filename \in Time /\ now \in Time /\ faults \in Nat
      /\ \A f \in folder : f.name \in Names /\ f.name \in Time
      /\ Names \subseteq Time
  BY RetentionAssumption DEF IInv, TypeOK, Names, File
<1>3. Kept \subseteq Names /\ Loose \subseteq Kept
  BY DEF Kept, Loose, Single
<1>4. IsFiniteSet(Loose) /\ Cardinality(Loose) \in Nat
  BY <1>3, Sizes, FS_Subset, FS_CardinalityType
<1>5. QED BY <1>1, <1>2, <1>3, <1>4

\* A turn that writes its files leaves those of other samples alone.
LEMMA OthersAlone ==
  ASSUME Hand = {filename}, Hand' = {filename},
         {f \in folder : f.name # filename} = {f \in folder' : f.name # filename}
  PROVE  /\ Kept' = Kept /\ Loose' = Loose
         /\ \A f \in folder' : f.name \in Kept => f \in folder
<1>1. \A f : f.name # filename => (f \in folder <=> f \in folder')
  OBVIOUS
<1>2. \A name : name # filename => (name \in Names <=> name \in Names')
  BY <1>1 DEF Names
<1>3. \A name, kind : name # filename => (Has(name, kind) <=> Has(name, kind)')
  BY <1>1 DEF Has
<1>4. Kept' = Kept
  BY <1>2 DEF Kept
<1>5. Loose' = Loose
  BY <1>2, <1>3 DEF Loose, Single
<1>6. QED BY <1>1, <1>4, <1>5 DEF Kept

\* What a write of one of the turn's files does.
LEMMA WrittenElse ==
  ASSUME TypeOK, FolderFinite, NEW kind \in {"jpg", "txt"},
         folder' = Written(filename, kind), filename' = filename
  PROVE  /\ {f \in folder : f.name # filename} = {f \in folder' : f.name # filename}
         /\ Has(filename, kind)'
         /\ \A other \in {"jpg", "txt"} :
              other # kind => (Has(filename, other)' <=> Has(filename, other))
         /\ \A f \in folder' : f \in folder \/ (f.name = filename /\ f.kind = kind)
         /\ \A f \in folder' : f.name = filename /\ f.kind = kind => f.written = now
<1> DEFINE new == [name |-> filename, kind |-> kind, written |-> now]
<1>1. folder' = {f \in folder : f.name # filename \/ f.kind # kind} \cup {new}
  BY DEF Written
<1>2. new.name = filename /\ new.kind = kind /\ new.written = now
  OBVIOUS
<1> HIDE DEF new
<1>3. QED BY <1>1, <1>2 DEF Has

\* The picture or the label of the turn is written.
LEMMA WriteTidy ==
  ASSUME IInv, NEW exempt \in SUBSET Time, NEW last \in Nat \ {0},
         NEW epoch \in [Time -> 1 .. last], Tidy(exempt, epoch, last), LooseFew,
         \/ SaveImage /\ folder' = Written(filename, "jpg")
         \/ OpenLabel /\ folder' = Written(filename, "txt"),
         UNCHANGED faults
  PROVE  Tidy(exempt, epoch, last)' /\ LooseFew'
<1>1. /\ UNCHANGED <<now, start, filename, faults>>
      /\ Hand = {filename} /\ Hand' = {filename}
  BY DEF SaveImage, OpenLabel, Goto, Hand, clock
<1>2. PICK kind \in {"jpg", "txt"} :
        /\ folder' = Written(filename, kind)
        /\ \/ kind = "jpg" /\ at = "image" /\ at' = "label"
           \/ kind = "txt" /\ at = "label" /\ at' = "delete"
  BY DEF SaveImage, OpenLabel, Goto
<1>3. /\ {f \in folder : f.name # filename} = {f \in folder' : f.name # filename}
      /\ Has(filename, kind)'
      /\ \A other \in {"jpg", "txt"} :
           other # kind => (Has(filename, other)' <=> Has(filename, other))
      /\ \A f \in folder' : f \in folder \/ (f.name = filename /\ f.kind = kind)
      /\ \A f \in folder' : f.name = filename /\ f.kind = kind => f.written = now
  BY <1>1, <1>2, WrittenElse DEF IInv
<1>4. Kept' = Kept /\ Loose' = Loose /\ \A f \in folder' : f.name \in Kept => f \in folder
  BY <1>1, <1>3, OthersAlone
<1>5. Unclean' => Unclean
  BY <1>1, <1>2, <1>3 DEF Unclean
<1>6. LooseFew' /\ Removing(exempt, last)'
  BY <1>1, <1>2, <1>4, <1>5 DEF LooseFew, Removing
<1>7. /\ Budget(exempt, last)' /\ Ordered(exempt, epoch)' /\ OldestCut(exempt, epoch)'
      /\ BeforeStart(exempt, epoch, last)'
  BY <1>1, <1>2, <1>4 DEF Tidy, Budget, Ordered, OldestCut, BeforeStart
<1>8. InTurn(exempt, epoch, last)'
  <2>1. InTurn(exempt, epoch, last) /\ at # "idle"
    BY <1>2 DEF Tidy
  <2>2. ASSUME filename \notin exempt, NEW f \in folder', f.name = filename,
               (f.kind = "jpg" /\ at' = "label") \/ at' \in {"delete", "remove", "close"}
        PROVE  filename <= f.written /\ f.written <= now
    <3>1. filename <= now /\ now \in Nat /\ f.kind \in {"jpg", "txt"}
      BY <1>2, <1>3, <2>1, <2>2, Sizes DEF InTurn
    <3>2. CASE f.kind = kind
      BY <1>3, <2>2, <3>1, <3>2
    <3>3. CASE f.kind # kind
      BY <1>2, <1>3, <2>1, <2>2, <3>1, <3>3 DEF InTurn
    <3>4. QED BY <3>2, <3>3
  <2>3. QED BY <1>1, <1>5, <2>1, <2>2 DEF InTurn
<1>9. QED BY <1>6, <1>7, <1>8 DEF Tidy

\* Every fault may exempt the sample in hand and begin an epoch; a crash ends the turn, so
\* that its sample is one of those of earlier turns.
LEMMA FaultTidy ==
  ASSUME IInv, NEW exempt \in SUBSET Time, NEW last \in Nat \ {0},
         NEW epoch \in [Time -> 1 .. last], Tidy(exempt, epoch, last), LooseFew,
         SetClockBack \/ Restart
  PROVE  Tidy(exempt \cup {filename}, epoch, last + 1)' /\ LooseFew'
<1> DEFINE more == exempt \cup {filename}
<1>1. /\ faults' = faults + 1 /\ folder' = folder /\ filename' = filename
      /\ at' # "idle" => at' = at /\ start' = start /\ doomed' = doomed
  BY DEF SetClockBack, Restart, Fault
<1>2. Hand \subseteq {filename} /\ Hand' \subseteq {filename}
  BY <1>1 DEF Hand
<1>3. Names' = Names /\ \A name, kind : Has(name, kind)' <=> Has(name, kind)
  BY <1>1 DEF Names, Has
<1>4. Kept' \ {filename} = Kept \ {filename} /\ Loose' \ {filename} = Loose \ {filename}
  BY <1>2, <1>3 DEF Kept, Loose, Single
<1>5. /\ filename \in Time /\ faults \in Nat /\ last \in Nat
      /\ IsFiniteSet(Loose) /\ Cardinality(Loose) \in Nat
      /\ \A f \in folder : f.name \in Time
      /\ \A name \in Time : epoch[name] \in Nat /\ epoch[name] <= last
  BY Numbers
<1>6. Budget(more, last + 1)'
  <2>1. /\ Cardinality(exempt) \in Nat /\ Cardinality(more) \in Nat
        /\ Cardinality(more) <= Cardinality(exempt) + 1
    BY <1>5, ExemptOne
  <2>2. more' = more
    BY <1>1
  <2>3. Cardinality(exempt) + last <= 2 * faults + 1
    BY DEF Tidy, Budget
  <2> HIDE DEF more
  <2>4. QED BY <1>1, <1>5, <2>1, <2>2, <2>3 DEF Budget
<1>7. Ordered(more, epoch)' /\ OldestCut(more, epoch)'
  BY <1>1, <1>4 DEF Tidy, Ordered, OldestCut
<1>8. BeforeStart(more, epoch, last + 1)'
  BY <1>1, <1>5 DEF BeforeStart
<1>9. InTurn(more, epoch, last + 1)'
  BY <1>1, <1>5 DEF Tidy, InTurn
<1>10. LooseFew'
  <2>1. Loose' \in SUBSET (Loose \cup {filename})
    BY <1>4
  <2>2. /\ IsFiniteSet(Loose \cup {filename})
        /\ Cardinality(Loose \cup {filename}) <= Cardinality(Loose) + 1
        /\ Cardinality(Loose \cup {filename}) \in Nat
    <3>1. Loose \in SUBSET Time
      BY Numbers
    <3>2. QED BY <1>5, <3>1, ExemptOne, FS_AddElement
  <2>3. Cardinality(Loose') <= Cardinality(Loose \cup {filename}) /\ Cardinality(Loose') \in Nat
    BY <2>1, <2>2, FS_Subset, FS_CardinalityType
  <2>4. Cardinality(Loose) <= 2 * faults + 1 /\ (at # "remove" => Cardinality(Loose) <= 2 * faults)
    BY <1>5 DEF LooseFew
  <2>5. at' = "remove" => at = "remove"
    BY <1>1
  <2>6. Unclean' => at # "remove"
    BY <1>1 DEF Unclean
  <2>7. QED BY <1>1, <1>5, <2>2, <2>3, <2>4, <2>5, <2>6 DEF LooseFew
<1>11. Removing(more, last + 1)'
  <2>1. /\ Cardinality(exempt) \in Nat /\ Cardinality(more) \in Nat
        /\ Cardinality(more) <= Cardinality(exempt) + 1
    BY <1>5, ExemptOne
  <2>2. more' = more /\ exempt \subseteq more
    BY <1>1
  <2>3. Cardinality(exempt) + last <= 2 * faults => Cardinality(more) + (last + 1) <= 2 * faults'
    BY <1>1, <1>5, <2>1
  <2> HIDE DEF more
  <2>4. QED BY <1>1, <2>2, <2>3 DEF Tidy, Removing
<1>12. QED BY <1>1, <1>6, <1>7, <1>8, <1>9, <1>10, <1>11 DEF Tidy

\* A write that fails exempts the sample in hand.
LEMMA FailTidy ==
  ASSUME IInv, NEW exempt \in SUBSET Time, NEW last \in Nat \ {0},
         NEW epoch \in [Time -> 1 .. last], Tidy(exempt, epoch, last), LooseFew,
         SaveImage \/ OpenLabel, Fault, UNCHANGED folder
  PROVE  Tidy(exempt \cup {filename}, epoch, last)' /\ LooseFew'
<1> DEFINE more == exempt \cup {filename}
<1>1. /\ faults' = faults + 1 /\ UNCHANGED <<now, start, folder, filename>>
      /\ Hand' = Hand /\ at \notin {"idle", "remove"} /\ at' # "remove"
  BY DEF SaveImage, OpenLabel, Goto, Fault, Hand, clock
<1>2. Kept' = Kept /\ Loose' = Loose
  BY <1>1 DEF Kept, Loose, Single, Names, Has
<1>3. /\ filename \in Time /\ faults \in Nat /\ last \in Nat /\ Cardinality(Loose) \in Nat
  BY Numbers
<1>4. Budget(more, last)'
  <2>1. /\ Cardinality(exempt) \in Nat /\ Cardinality(more) \in Nat
        /\ Cardinality(more) <= Cardinality(exempt) + 1
    BY <1>3, ExemptOne
  <2>2. more' = more
    BY <1>1
  <2>3. Cardinality(exempt) + last <= 2 * faults + 1
    BY DEF Tidy, Budget
  <2> HIDE DEF more
  <2>4. QED BY <1>1, <1>3, <2>1, <2>2, <2>3 DEF Budget
<1>5. Ordered(more, epoch)' /\ OldestCut(more, epoch)'
  BY <1>1, <1>2 DEF Tidy, Ordered, OldestCut
<1>6. BeforeStart(more, epoch, last)' /\ InTurn(more, epoch, last)'
  BY <1>1, <1>2 DEF Tidy, BeforeStart, InTurn
<1>7. LooseFew' /\ Removing(more, last)'
  BY <1>1, <1>2, <1>3 DEF LooseFew, Removing
<1>8. QED BY <1>1, <1>4, <1>5, <1>6, <1>7 DEF Tidy

\* A sample is taken in the current epoch.
LEMMA TakeTidy ==
  ASSUME IInv, NEW exempt \in SUBSET Time, NEW last \in Nat \ {0},
         NEW epoch \in [Time -> 1 .. last], Tidy(exempt, epoch, last), LooseFew, TakeSample
  PROVE  Tidy(exempt, [epoch EXCEPT ![now] = last], last)' /\ LooseFew'
<1> DEFINE next == [epoch EXCEPT ![now] = last]
<1>1. /\ UNCHANGED <<now, start, folder, faults>> /\ filename' = now
      /\ at = "idle" /\ at' = "image" /\ start < now
      /\ Hand = {} /\ Hand' = {now}
  BY RetentionAssumption, Sizes DEF TakeSample, Goto, Hand, clock
<1>2. Kept' = Kept \ {now} /\ Loose' = Loose \ {now}
  BY <1>1 DEF Kept, Loose, Single, Names, Has
<1>3. /\ now \in Time /\ faults \in Nat /\ IsFiniteSet(Loose) /\ Cardinality(Loose) \in Nat
      /\ Kept \subseteq Time /\ Loose \subseteq Kept
  BY Numbers
<1>4. next[now] = last /\ \A name \in Kept' : next[name] = epoch[name]
  BY <1>2, <1>3
<1>5. next' = next
  BY <1>1
<1> HIDE DEF next
<1>6. Budget(exempt, last)'
  BY <1>1 DEF Tidy, Budget
<1>7. Ordered(exempt, next)' /\ OldestCut(exempt, next)'
  BY <1>1, <1>2, <1>3, <1>4, <1>5 DEF Tidy, Ordered, OldestCut
<1>8. BeforeStart(exempt, next, last)'
  BY <1>1, <1>2, <1>4, <1>5 DEF Tidy, BeforeStart
<1>9. InTurn(exempt, next, last)'
  BY <1>1, <1>3, <1>4, <1>5, Sizes DEF InTurn, Unclean
<1>10. LooseFew'
  <2>1. Loose' \in SUBSET Loose
    BY <1>2
  <2>2. Cardinality(Loose') <= Cardinality(Loose) /\ Cardinality(Loose') \in Nat
    BY <1>3, <2>1, FS_Subset, FS_CardinalityType
  <2>3. QED BY <1>1, <1>3, <2>2 DEF LooseFew, Unclean
<1>11. Removing(exempt, last)'
  BY <1>1 DEF Removing
<1>12. QED BY <1>6, <1>7, <1>8, <1>9, <1>10, <1>11 DEF Tidy, next

\* The label's file is written once more: its sample's files are the newest of the epoch.
LEMMA CloseTidy ==
  ASSUME IInv, NEW exempt \in SUBSET Time, NEW last \in Nat \ {0},
         NEW epoch \in [Time -> 1 .. last], Tidy(exempt, epoch, last), LooseFew, CloseLabel
  PROVE  Tidy(exempt, epoch, last)' /\ LooseFew'
<1>1. /\ UNCHANGED <<now, filename, faults>> /\ start' = now
      /\ at = "close" /\ at' = "idle" /\ Hand = {} /\ Hand' = {}
  BY DEF CloseLabel, Goto, Hand, clock
<1>2. /\ \A f \in folder' : f \in folder \/ (f.name = filename /\ f.kind = "txt" /\ f.written = now)
      /\ \A name, kind : Has(name, kind)' <=> Has(name, kind)
  <2>1. CASE Has(filename, "txt")
    <3>1. folder' = Written(filename, "txt")
      BY <2>1 DEF CloseLabel, Has
    <3>2. /\ {f \in folder : f.name # filename} = {f \in folder' : f.name # filename}
          /\ Has(filename, "txt")'
          /\ \A other \in {"jpg", "txt"} :
               other # "txt" => (Has(filename, other)' <=> Has(filename, other))
          /\ \A f \in folder' : f \in folder \/ (f.name = filename /\ f.kind = "txt")
          /\ \A f \in folder' : f.name = filename /\ f.kind = "txt" => f.written = now
      BY <1>1, <3>1, WrittenElse DEF IInv
    <3>3. ASSUME NEW name, NEW kind, name # filename PROVE Has(name, kind)' <=> Has(name, kind)
      BY <3>2, <3>3 DEF Has
    <3>4. ASSUME NEW kind PROVE Has(filename, kind)' <=> Has(filename, kind)
      <4>1. CASE kind = "txt"
        BY <2>1, <3>2, <4>1
      <4>2. CASE kind = "jpg"
        BY <3>2, <4>2
      <4>3. CASE kind \notin {"jpg", "txt"}
        BY <3>2, <4>3, Sizes DEF Has
      <4>4. QED BY <4>1, <4>2, <4>3
    <3>5. QED
      <4>1. ASSUME NEW name, NEW kind PROVE Has(name, kind)' <=> Has(name, kind)
        <5>1. CASE name = filename
          BY <1>1, <3>4, <5>1
        <5>2. CASE name # filename
          BY <3>3, <5>2
        <5>3. QED BY <5>1, <5>2
      <4>2. QED BY <3>2, <4>1
  <2>2. CASE ~Has(filename, "txt")
    <3>1. folder' = folder
      BY <2>2 DEF CloseLabel, Has
    <3>2. QED BY <3>1 DEF Has
  <2>3. QED BY <2>1, <2>2
<1>3. Names' = Names
  <2>1. \A name : name \in Names <=> \E kind : Has(name, kind)
    BY DEF Names, Has
  <2>2. \A name : name \in Names' <=> \E kind : Has(name, kind)'
    BY DEF Names, Has
  <2>3. QED BY <1>2, <2>1, <2>2
<1>4. Kept = Names /\ Kept' = Names /\ Loose' = Loose
  BY <1>1, <1>2, <1>3 DEF Kept, Loose, Single
<1>5. /\ \A f \in folder : f.name \in Kept /\ f.name \in Time /\ f.name \in Nat /\ f.written \in Nat
      /\ filename \in Nat /\ now \in Nat /\ start \in Nat /\ last \in Nat
      /\ \A name \in Time : epoch[name] \in Nat
  BY <1>4, Numbers, Sizes
<1>6. /\ start < filename
      /\ \A f \in folder : f.name \notin exempt /\ epoch[f.name] = last /\ f.name # filename
            => f.name <= start /\ f.written <= start /\ filename <= now
      /\ filename \notin exempt =>
           /\ filename <= now /\ epoch[filename] = last
           /\ \A f \in folder : f.name = filename => f.written <= now
  BY <1>1, <1>5 DEF Tidy, BeforeStart, InTurn
<1>7. Ordered(exempt, epoch)'
  <2> SUFFICES ASSUME NEW f \in folder', NEW g \in folder',
                      f.name \notin exempt, g.name \notin exempt,
                      epoch[f.name] = epoch[g.name], f.name < g.name
               PROVE  f.written < g.written
    BY DEF Ordered
  <2>1. CASE f \in folder /\ g \in folder
    BY <1>5, <2>1 DEF Tidy, Ordered
  <2>2. CASE f \notin folder
    <3>1. f.name = filename /\ g \in folder /\ g.name # filename
      BY <1>2, <1>5, <2>2
    <3>2. g.name <= start
      BY <1>6, <3>1
    <3>3. QED BY <1>5, <1>6, <3>1, <3>2
  <2>3. CASE g \notin folder
    <3>1. g.name = filename /\ g.written = now /\ f \in folder /\ f.name # filename
      BY <1>2, <1>5, <2>3
    <3>2. f.written <= start /\ filename <= now
      BY <1>6, <3>1
    <3>3. QED BY <1>5, <1>6, <3>1, <3>2
  <2>4. QED BY <2>1, <2>2, <2>3
<1>8. BeforeStart(exempt, epoch, last)'
  <2> SUFFICES ASSUME NEW f \in folder', f.name \notin exempt, epoch[f.name] = last
               PROVE  f.name <= now /\ f.written <= now
    BY <1>1 DEF BeforeStart
  <2>1. CASE f \in folder /\ f.name # filename
    BY <1>5, <1>6, <2>1
  <2>2. CASE f.name = filename
    BY <1>2, <1>5, <1>6, <2>2
  <2>3. QED BY <1>2, <2>1, <2>2
<1>9. Budget(exempt, last)' /\ OldestCut(exempt, epoch)' /\ InTurn(exempt, epoch, last)'
      /\ Removing(exempt, last)' /\ LooseFew'
  BY <1>1, <1>4 DEF Tidy, Budget, OldestCut, InTurn, Removing, LooseFew, Unclean
<1>10. QED BY <1>7, <1>8, <1>9 DEF Tidy

\* The clock goes on, or nothing happens.
LEMMA TickTidy ==
  ASSUME IInv, NEW exempt \in SUBSET Time, NEW last \in Nat \ {0},
         NEW epoch \in [Time -> 1 .. last], Tidy(exempt, epoch, last), LooseFew,
         Tick \/ UNCHANGED vars
  PROVE  Tidy(exempt, epoch, last)' /\ LooseFew'
<1>1. /\ UNCHANGED <<start, folder, filename, doomed, at, faults>>
      /\ now' \in Nat /\ now \in Nat /\ now <= now'
  BY Sizes DEF Tick, vars, clock
<1>2. Kept' = Kept /\ Loose' = Loose /\ (Unclean' <=> Unclean)
  BY <1>1 DEF Kept, Loose, Single, Names, Has, Hand, Unclean
<1>3. InTurn(exempt, epoch, last)'
  BY <1>1, <1>2, Sizes DEF Tidy, InTurn
<1>4. QED BY <1>1, <1>2, <1>3 DEF Tidy, LooseFew, Budget, Ordered, OldestCut, BeforeStart, Removing

\* When a turn deletes, the sample in hand is in its place among the others.
LEMMA ReadyToDelete ==
  ASSUME IInv, NEW exempt \in SUBSET Time, NEW last \in Nat \ {0},
         NEW epoch \in [Time -> 1 .. last], Tidy(exempt, epoch, last), at \in {"delete", "remove"}
  PROVE  /\ \A f, g \in folder :
              f.name \notin exempt /\ g.name \notin exempt
              /\ epoch[f.name] = epoch[g.name] /\ f.name < g.name => f.written < g.written
         /\ \A x \in Single \ exempt, y \in Names \ exempt : epoch[x] = epoch[y] => x <= y
<1>1. /\ \A f \in folder : f.name \in Names /\ f.name \in Nat /\ f.written \in Nat
      /\ filename \in Nat /\ start \in Nat /\ now \in Nat
      /\ Names \subseteq Nat
  BY Numbers, Sizes
<1>0. CASE at = "remove"
  <2>1. Kept = Names /\ Loose = Single
    BY <1>0 DEF Hand, Kept, Loose
  <2>2. QED BY <1>1, <2>1 DEF Tidy, Ordered, OldestCut
<1> SUFFICES ASSUME at = "delete"
             PROVE  /\ \A f, g \in folder :
                         f.name \notin exempt /\ g.name \notin exempt
                         /\ epoch[f.name] = epoch[g.name] /\ f.name < g.name => f.written < g.written
                    /\ \A x \in Single \ exempt, y \in Names \ exempt : epoch[x] = epoch[y] => x <= y
  BY <1>0
<1>2. Hand = {filename} /\ Kept = Names \ {filename} /\ Loose = Single \ {filename}
  BY DEF Hand, Kept, Loose
<1>3. /\ start < filename
      /\ filename \notin exempt =>
           /\ epoch[filename] = last /\ filename \notin Single
           /\ \A f \in folder : f.name = filename => filename <= f.written
  BY DEF Tidy, InTurn, Unclean, Single
<1>4. \A f \in folder : f.name \notin exempt /\ epoch[f.name] = last /\ f.name # filename
                          => f.name <= start /\ f.written <= start
  BY <1>1, <1>2 DEF Tidy, BeforeStart
<1>5. ASSUME NEW f \in folder, NEW g \in folder, f.name \notin exempt, g.name \notin exempt,
             epoch[f.name] = epoch[g.name], f.name < g.name
      PROVE  f.written < g.written
  <2>1. CASE f.name # filename /\ g.name # filename
    BY <1>1, <1>2, <1>5, <2>1 DEF Tidy, Ordered
  <2>2. CASE f.name = filename
    <3>1. g.name <= start
      BY <1>1, <1>3, <1>4, <1>5, <2>2
    <3>2. QED BY <1>1, <1>3, <1>5, <2>2, <3>1
  <2>3. CASE f.name # filename /\ g.name = filename
    <3>1. f.written <= start
      BY <1>3, <1>4, <1>5, <2>3
    <3>2. QED BY <1>1, <1>3, <1>5, <2>3, <3>1
  <2>4. QED BY <2>1, <2>2, <2>3
<1>6. ASSUME NEW x \in Single \ exempt, NEW y \in Names \ exempt, epoch[x] = epoch[y]
      PROVE  x <= y
  <2>1. x # filename /\ x \in Loose
    BY <1>2, <1>3
  <2>2. CASE y # filename
    BY <1>2, <1>6, <2>1, <2>2 DEF Tidy, OldestCut
  <2>3. CASE y = filename
    <3>1. PICK f \in folder : f.name = x
      BY DEF Single, Names
    <3>2. x <= start
      BY <1>3, <1>4, <1>6, <2>1, <2>3, <3>1
    <3>3. QED BY <1>1, <1>3, <2>3, <3>1, <3>2
  <2>4. QED BY <2>2, <2>3
<1>7. QED BY <1>5, <1>6

\* A deletion, or what there is of it so far, cuts the oldest sample of an epoch, if any.
LEMMA RemovedTidy ==
  ASSUME IInv, NEW exempt \in SUBSET Time, NEW last \in Nat \ {0},
         NEW epoch \in [Time -> 1 .. last], Tidy(exempt, epoch, last),
         at \in {"delete", "remove"}, at' \in {"remove", "close"},
         UNCHANGED <<now, start, filename>>, NEW more \in SUBSET Time, exempt \subseteq more,
         folder' \subseteq folder,
         \A g \in folder \ folder', h \in folder' : g.written <= h.written \/ h.name \in more
  PROVE  /\ Ordered(more, epoch)' /\ OldestCut(more, epoch)'
         /\ BeforeStart(more, epoch, last)' /\ InTurn(more, epoch, last)'
         /\ Cardinality(Single') <= Cardinality(more) + last
<1>1. Hand \subseteq {filename} /\ Hand' = {}
  BY DEF Hand
<1>2. Kept' = Names' /\ Loose' = Single' /\ Names' \subseteq Names
  BY <1>1 DEF Kept, Loose, Names
<1>3. /\ \A f \in folder : f.name \in Names /\ f.name \in Nat /\ f.written \in Nat
      /\ Names \subseteq Time /\ Names \subseteq Nat
  BY Numbers, Sizes
<1>4. \A f, g \in folder :
        f.name \notin exempt /\ g.name \notin exempt
        /\ epoch[f.name] = epoch[g.name] /\ f.name < g.name => f.written < g.written
  BY <1>1, ReadyToDelete
<1>5. \A x \in Single \ exempt, y \in Names \ exempt : epoch[x] = epoch[y] => x <= y
  BY <1>1, ReadyToDelete
<1>6. Ordered(more, epoch)'
  BY <1>1, <1>4 DEF Ordered
<1>7. ASSUME NEW x \in Single' \ more, NEW y \in Names' \ more, epoch[x] = epoch[y]
      PROVE  x <= y
  <2>1. x \in Names /\ y \in Names /\ x \notin exempt /\ y \notin exempt
    BY <1>2 DEF Single
  <2>2. CASE x \in Single
    BY <1>5, <1>7, <2>1, <2>2
  <2>3. CASE x \notin Single /\ y < x
    <3>1. PICK g \in folder : g.name = x /\ g \notin folder'
      <4>1. PICK kind \in {"jpg", "txt"} : ~Has(x, kind)'
        BY DEF Single
      <4>2. Has(x, kind)
        BY <2>1, <2>3 DEF Single
      <4>3. QED BY <4>1, <4>2 DEF Has
    <3>2. PICK h \in folder' : h.name = y
      BY DEF Names
    <3>3. h \in folder /\ g.written <= h.written
      BY <3>1, <3>2
    <3>4. h.written < g.written
      BY <1>4, <1>7, <2>1, <2>3, <3>1, <3>2, <3>3
    <3>5. QED BY <1>3, <3>3, <3>4
  <2>4. QED BY <1>3, <2>1, <2>2, <2>3
<1>8. OldestCut(more, epoch)'
  BY <1>2, <1>7 DEF OldestCut
<1>9. BeforeStart(more, epoch, last)' /\ InTurn(more, epoch, last)'
  BY <1>1, <1>2, <1>3 DEF Tidy, BeforeStart, InTurn, Unclean, Kept
<1>10. Cardinality(Single') <= Cardinality(more) + last
  <2>1. Single' \in SUBSET Time
    BY <1>2, <1>3 DEF Single
  <2>2. \A x, y \in Single' \ more : epoch[x] = epoch[y] => x = y
    <3>1. Single' \subseteq Names' /\ Names' \subseteq Nat
      BY <1>2, <1>3 DEF Single
    <3>2. \A x, y \in Single' \ more :
            epoch[x] = epoch[y] => x <= y /\ y <= x /\ x \in Nat /\ y \in Nat
      BY <1>7, <3>1
    <3>3. QED BY <3>2
  <2>3. QED BY <2>1, <2>2, OneOfEach
<1>11. QED BY <1>6, <1>8, <1>9, <1>10

\* What a turn that lists, or removes a file, starts from.
LEMMA BeforeDelete ==
  ASSUME IInv, NEW exempt \in SUBSET Time, NEW last \in Nat \ {0},
         NEW epoch \in [Time -> 1 .. last], Tidy(exempt, epoch, last)
  PROVE  /\ filename \in Time /\ faults \in Nat /\ last \in Nat /\ TotalData \in Nat
         /\ Cardinality(folder) \in Nat
         /\ IsFiniteSet(Loose) /\ Cardinality(Loose) \in Nat /\ Cardinality(exempt) \in Nat
         /\ \A f \in folder : f.name \in Time
         /\ Cardinality(exempt) + last <= 2 * faults + 1
<1>1. filename \in Time /\ Cardinality(exempt) + last <= 2 * faults + 1
  BY Numbers DEF Tidy, Budget
<1>2. QED BY <1>1, Numbers, Sizes, ExemptOne, RetentionAssumption

\* The files to remove are chosen, if there are too many.
LEMMA ListTidy ==
  ASSUME IInv, NEW exempt \in SUBSET Time, NEW last \in Nat \ {0},
         NEW epoch \in [Time -> 1 .. last], Tidy(exempt, epoch, last), LooseFew,
         ListOldest \/ ListFails
  PROVE  Tidy(exempt, epoch, last)' /\ LooseFew'
<1>1. /\ at = "delete" /\ at' \in {"remove", "close"} /\ folder' = folder
      /\ UNCHANGED <<now, start, filename>> /\ faults' \in {faults, faults + 1}
      /\ Hand = {filename} /\ Hand' = {} /\ ~Unclean'
      /\ (at' = "remove" => ListOldest) /\ (ListFails => faults' = faults + 1)
  BY DEF ListOldest, ListFails, Fault, Goto, Hand, Unclean, clock
<1>2. /\ filename \in Time /\ faults \in Nat /\ last \in Nat
      /\ IsFiniteSet(Loose) /\ Cardinality(Loose) \in Nat /\ Cardinality(exempt) \in Nat
      /\ Cardinality(exempt) + last <= 2 * faults + 1
  BY BeforeDelete
<1>3. /\ Ordered(exempt, epoch)' /\ OldestCut(exempt, epoch)'
      /\ BeforeStart(exempt, epoch, last)' /\ InTurn(exempt, epoch, last)'
      /\ Cardinality(Single') <= Cardinality(exempt) + last
  BY <1>1, RemovedTidy
<1>4. Budget(exempt, last)'
  BY <1>1, <1>2 DEF Budget
<1>5. Removing(exempt, last)'
  <2> SUFFICES ASSUME at' = "remove"
               PROVE  /\ \A f \in doomed', g \in folder \ doomed' : f.written <= g.written
                      /\ Cardinality(folder) = 2 * TotalData + Cardinality(doomed')
    BY <1>1 DEF Removing
  <2>1. doomed' \in Oldest(folder, Excess(folder))
        /\ Cardinality(folder) = 2 * TotalData + Cardinality(doomed')
    BY <1>1, ListedSize
  <2>2. QED BY <2>1 DEF Oldest
<1>6. Loose' = Single /\ Single' = Single
  BY <1>1 DEF Loose, Single, Names, Has
<1>7. Cardinality(Single) \in Nat
  BY TwoOfEach DEF TwoFilesEach
<1>8. CASE at' = "remove"
  <2>1. faults' = faults
    BY <1>1, <1>8 DEF ListOldest
  <2>2. Cardinality(Single) <= 2 * faults + 1
    BY <1>2, <1>3, <1>6, <1>7
  <2>3. QED BY <1>1, <1>3, <1>4, <1>5, <1>6, <1>8, <2>1, <2>2 DEF LooseFew, Tidy
<1>9. CASE at' = "close"
  <2>1. CASE Unclean
    <3>1. Single \in SUBSET (Loose \cup {filename})
      BY <1>1 DEF Loose
    <3>2. /\ IsFiniteSet(Loose \cup {filename})
          /\ Cardinality(Loose \cup {filename}) \in Nat
          /\ Cardinality(Loose \cup {filename}) <= Cardinality(Loose) + 1
      <4>1. Loose \in SUBSET Time
        BY Numbers
      <4>2. QED BY <1>2, <4>1, ExemptOne, FS_AddElement
    <3>3. Cardinality(Single) <= Cardinality(Loose \cup {filename})
      BY <3>1, <3>2, FS_Subset
    <3>4. Cardinality(Loose) <= 2 * faults - 1
      BY <2>1 DEF LooseFew
    <3>5. Cardinality(Single) <= 2 * faults'
      BY <1>1, <1>2, <1>7, <3>2, <3>3, <3>4
    <3>6. QED BY <1>1, <1>2, <1>3, <1>4, <1>5, <1>6, <1>7, <1>9, <3>5 DEF LooseFew, Tidy
  <2>2. CASE ~Unclean
    <3>1. Single = Loose
      BY <1>1, <2>2 DEF Loose, Single, Unclean
    <3>2. Cardinality(Single) <= 2 * faults'
      BY <1>1, <1>2, <3>1 DEF LooseFew
    <3>3. QED BY <1>1, <1>2, <1>3, <1>4, <1>5, <1>6, <1>7, <1>9, <3>2 DEF LooseFew, Tidy
  <2>3. QED BY <2>1, <2>2
<1>10. QED BY <1>1, <1>8, <1>9

\* A file is removed: when it is the last one and none was passed over, an even number is
\* left.
LEMMA RemoveTidy ==
  ASSUME IInv, NEW exempt \in SUBSET Time, NEW last \in Nat \ {0},
         NEW epoch \in [Time -> 1 .. last], Tidy(exempt, epoch, last), RemoveOldest,
         NEW f \in doomed, \A g \in doomed : f.written <= g.written,
         doomed' = doomed \ {f}, folder' = folder \ {f}, UNCHANGED faults
  PROVE  Tidy(exempt, epoch, last)' /\ LooseFew'
<1>1. /\ at = "remove" /\ at' \in {"remove", "close"} /\ (at' = "close" => doomed' = {})
      /\ UNCHANGED <<now, start, filename>> /\ Hand' = {} /\ ~Unclean'
      /\ doomed \subseteq folder
  BY DEF RemoveOldest, Hand, Unclean, clock, IInv, TypeOK
<1>2. /\ faults \in Nat /\ last \in Nat /\ TotalData \in Nat /\ Cardinality(folder) \in Nat
      /\ Cardinality(exempt) \in Nat /\ Cardinality(exempt) + last <= 2 * faults + 1
  BY BeforeDelete
<1>3. \A h \in folder \ doomed : f.written <= h.written \/ h.name \in exempt
  BY <1>1 DEF Tidy, Removing
<1>4. \A g \in folder \ folder', h \in folder' : g.written <= h.written \/ h.name \in exempt
  BY <1>3
<1>5. /\ Ordered(exempt, epoch)' /\ OldestCut(exempt, epoch)'
      /\ BeforeStart(exempt, epoch, last)' /\ InTurn(exempt, epoch, last)'
      /\ Cardinality(Single') <= Cardinality(exempt) + last
  BY <1>1, <1>4, RemovedTidy
<1>6. Budget(exempt, last)'
  BY <1>2 DEF Budget
<1>7. /\ Cardinality(doomed') = Cardinality(doomed) - 1 /\ Cardinality(doomed) \in Nat
      /\ Cardinality(folder') = Cardinality(folder) - 1
  BY DoomedSize
<1>8. \/ Cardinality(folder') = 2 * TotalData + Cardinality(doomed')
      \/ Cardinality(exempt) + last <= 2 * faults
  BY <1>1, <1>2, <1>7 DEF Tidy, Removing
<1>9. Removing(exempt, last)'
  <2>1. folder' \ doomed' = folder \ doomed
    OBVIOUS
  <2>2. QED BY <1>1, <1>8, <2>1 DEF Tidy, Removing
<1>10. Loose' = Single'
  BY <1>1 DEF Loose
<1>11. TwoFilesEach'
  <2>1. IInv'
    BY NextKeeps DEF Next, Turn
  <2>2. QED BY <2>1, TwoOfEachNext
<1>12. Cardinality(Single') \in Nat /\ Cardinality(Single') <= 2 * faults + 1
  BY <1>2, <1>5, <1>11 DEF TwoFilesEach
<1>13. ASSUME at' = "close" PROVE Cardinality(Single') <= 2 * faults
  <2>1. Cardinality(doomed') = 0
    BY <1>1, <1>13, FS_EmptySet
  <2>2. CASE Cardinality(folder') = 2 * TotalData + Cardinality(doomed')
    <3>1. 2 * TotalData = 2 * Cardinality(Names') - Cardinality(Single')
      BY <1>2, <1>11, <2>1, <2>2 DEF TwoFilesEach
    <3>2. Cardinality(Names') \in Nat
      BY <1>11 DEF TwoFilesEach
    <3>3. QED BY <1>2, <1>12, <3>1, <3>2
  <2>3. CASE Cardinality(exempt) + last <= 2 * faults
    BY <1>2, <1>5, <1>12, <2>3
  <2>4. QED BY <1>8, <2>2, <2>3
<1>14. LooseFew'
  BY <1>1, <1>2, <1>10, <1>12, <1>13 DEF LooseFew
<1>15. QED BY <1>5, <1>6, <1>9, <1>14 DEF Tidy

\* A file that cannot be removed is passed over: its sample is exempt.
LEMMA PassTidy ==
  ASSUME IInv, NEW exempt \in SUBSET Time, NEW last \in Nat \ {0},
         NEW epoch \in [Time -> 1 .. last], Tidy(exempt, epoch, last), RemoveOldest,
         NEW f \in doomed, doomed' = doomed \ {f}, Fault, UNCHANGED folder
  PROVE  Tidy(exempt \cup {f.name}, epoch, last)' /\ LooseFew'
<1> DEFINE more == exempt \cup {f.name}
<1>1. /\ at = "remove" /\ at' \in {"remove", "close"} /\ faults' = faults + 1
      /\ UNCHANGED <<now, start, filename>> /\ Hand' = {} /\ ~Unclean'
      /\ doomed \subseteq folder
  BY DEF RemoveOldest, Hand, Unclean, Fault, clock, IInv, TypeOK
<1>2. /\ faults \in Nat /\ last \in Nat
      /\ Cardinality(exempt) \in Nat /\ Cardinality(exempt) + last <= 2 * faults + 1
      /\ f.name \in Time
  BY <1>1, BeforeDelete
<1>3. /\ more \in SUBSET Time /\ Cardinality(more) \in Nat
      /\ Cardinality(more) <= Cardinality(exempt) + 1
      /\ more' = more /\ exempt \subseteq more /\ f.name \in more
  <2>1. more \in SUBSET Time /\ Cardinality(more) \in Nat
        /\ Cardinality(more) <= Cardinality(exempt) + 1
    BY <1>2, ExemptOne
  <2>2. QED BY <2>1
<1> HIDE DEF more
<1>4. /\ Ordered(more, epoch)' /\ OldestCut(more, epoch)'
      /\ BeforeStart(more, epoch, last)' /\ InTurn(more, epoch, last)'
      /\ Cardinality(Single') <= Cardinality(more) + last
  BY <1>1, <1>3, RemovedTidy
<1>5. Cardinality(more) + last <= 2 * faults'
  BY <1>1, <1>2, <1>3
<1>6. Budget(more, last)'
  BY <1>1, <1>2, <1>3, <1>5 DEF Budget
<1>7. Removing(more, last)'
  <2>1. \A g \in folder \ doomed' : g = f \/ g \in folder \ doomed
    OBVIOUS
  <2>2. QED BY <1>1, <1>3, <1>5, <2>1 DEF Tidy, Removing
<1>8. Loose' = Single' /\ Cardinality(Single') \in Nat
  <2>1. TwoFilesEach'
    <3>1. IInv'
      BY NextKeeps DEF Next, Turn
    <3>2. QED BY <3>1, TwoOfEachNext
  <2>2. QED BY <1>1, <2>1 DEF Loose, TwoFilesEach
<1>9. LooseFew'
  BY <1>1, <1>2, <1>3, <1>4, <1>5, <1>8 DEF LooseFew
<1>10. QED BY <1>3, <1>4, <1>6, <1>7, <1>9 DEF Tidy, more

LEMMA HalvesStart == Init => HalvesInv
<1> SUFFICES ASSUME Init PROVE HalvesInv
  OBVIOUS
<1> DEFINE first == [name \in Time |-> 1]
<1>1. /\ folder = {} /\ at = "idle" /\ faults = 0
      /\ Names = {} /\ Kept = {} /\ Loose = {} /\ ~Unclean
  BY DEF Init, Names, Kept, Loose, Single, Unclean
<1>2. Cardinality({}) = 0
  BY FS_EmptySet
<1>3. {} \in SUBSET Time /\ 1 \in Nat \ {0} /\ first \in [Time -> 1 .. 1]
  OBVIOUS
<1> HIDE DEF first
<1>4. Tidy({}, first, 1)
  BY <1>1, <1>2 DEF Tidy, Budget, Ordered, OldestCut, BeforeStart, InTurn, Removing
<1>5. LooseFew
  BY <1>1, <1>2 DEF LooseFew
<1>6. QED BY <1>3, <1>4, <1>5 DEF HalvesInv

LEMMA HalvesStep == IInv /\ HalvesInv /\ [Next]_vars => HalvesInv'
<1> SUFFICES ASSUME IInv, HalvesInv, [Next]_vars PROVE HalvesInv'
  OBVIOUS
<1>1. PICK exempt \in SUBSET Time, last \in Nat \ {0} :
        \E epoch \in [Time -> 1 .. last] : Tidy(exempt, epoch, last)
  BY DEF HalvesInv
<1>2. PICK epoch \in [Time -> 1 .. last] : Tidy(exempt, epoch, last)
  BY <1>1
<1>3. LooseFew /\ filename \in Time /\ exempt \cup {filename} \in SUBSET Time
  BY Numbers DEF HalvesInv
<1>4. CASE SaveImage \/ OpenLabel
  <2>1. CASE Fault /\ UNCHANGED folder
    <3>1. Tidy(exempt \cup {filename}, epoch, last)' /\ LooseFew'
      BY <1>2, <1>3, <1>4, <2>1, FailTidy
    <3>2. (exempt \cup {filename})' = exempt \cup {filename}
      BY <1>4 DEF SaveImage, OpenLabel
    <3>3. QED BY <1>3, <3>1, <3>2 DEF HalvesInv
  <2>2. CASE ~(Fault /\ UNCHANGED folder)
    <3>1. Tidy(exempt, epoch, last)' /\ LooseFew'
      BY <1>2, <1>3, <1>4, <2>2, WriteTidy DEF SaveImage, OpenLabel
    <3>2. QED BY <3>1 DEF HalvesInv
  <2>3. QED BY <2>1, <2>2
<1>5. CASE TakeSample
  <2>1. Tidy(exempt, [epoch EXCEPT ![now] = last], last)' /\ LooseFew'
    BY <1>2, <1>3, <1>5, TakeTidy
  <2>2. [epoch EXCEPT ![now] = last]' = [epoch EXCEPT ![now] = last]
    BY <1>5 DEF TakeSample, clock
  <2>3. last \in 1 .. last
    OBVIOUS
  <2>4. [epoch EXCEPT ![now] = last] \in [Time -> 1 .. last]
    BY <2>3, Zenon
  <2>5. QED BY <2>1, <2>2, <2>4 DEF HalvesInv
<1>6. CASE ListOldest \/ ListFails
  <2>1. Tidy(exempt, epoch, last)' /\ LooseFew'
    BY <1>2, <1>3, <1>6, ListTidy
  <2>2. QED BY <2>1 DEF HalvesInv
<1>11. CASE RemoveOldest
  <2>1. PICK f \in doomed :
          /\ \A g \in doomed : f.written <= g.written
          /\ doomed' = doomed \ {f}
          /\ \/ folder' = folder \ {f} /\ UNCHANGED faults
             \/ Fault /\ UNCHANGED folder
    BY <1>11 DEF RemoveOldest
  <2>2. CASE folder' = folder \ {f} /\ UNCHANGED faults
    <3>1. Tidy(exempt, epoch, last)' /\ LooseFew'
      BY <1>2, <1>11, <2>1, <2>2, RemoveTidy
    <3>2. QED BY <3>1 DEF HalvesInv
  <2>3. CASE Fault /\ UNCHANGED folder
    <3>1. exempt \cup {f.name} \in SUBSET Time
      BY DEF IInv, TypeOK, File
    <3>2. Tidy(exempt \cup {f.name}, epoch, last)' /\ LooseFew'
      BY <1>2, <1>11, <2>1, <2>3, PassTidy
    <3>3. QED BY <3>1, <3>2 DEF HalvesInv
  <2>4. QED BY <2>1, <2>2, <2>3
<1>7. CASE CloseLabel
  <2>1. Tidy(exempt, epoch, last)' /\ LooseFew'
    BY <1>2, <1>3, <1>7, CloseTidy
  <2>2. QED BY <2>1 DEF HalvesInv
<1>8. CASE Tick \/ UNCHANGED vars
  <2>1. Tidy(exempt, epoch, last)' /\ LooseFew'
    BY <1>2, <1>3, <1>8, TickTidy
  <2>2. QED BY <2>1 DEF HalvesInv
<1>9. CASE SetClockBack \/ Restart
  <2>1. Tidy(exempt \cup {filename}, epoch, last + 1)' /\ LooseFew'
    BY <1>2, <1>3, <1>9, FaultTidy
  <2>2. (exempt \cup {filename})' = exempt \cup {filename}
    BY <1>9 DEF SetClockBack, Restart
  <2>3. last + 1 \in Nat \ {0} /\ epoch \in [Time -> 1 .. last + 1]
    OBVIOUS
  <2>4. QED BY <1>3, <2>1, <2>2, <2>3 DEF HalvesInv
<1>10. QED BY <1>4, <1>5, <1>6, <1>7, <1>8, <1>9, <1>11 DEF Next, Turn

\* A half is a sample that lacks a file and is not in hand.
LEMMA HalvesAreLoose ==
  ASSUME IInv, HalvesInv
  PROVE  Cardinality(Halves) <= 2 * faults + (IF at = "remove" THEN 1 ELSE 0)
<1>1. ASSUME NEW name \in Halves PROVE name \in Loose
  <2>1. Cardinality(FilesOf(name)) = 1 /\ (at = "idle" \/ name # filename)
    BY <1>1 DEF Halves
  <2>2. IsFiniteSet(FilesOf(name))
    <3>1. FilesOf(name) \in SUBSET folder
      BY DEF FilesOf
    <3>2. QED BY <3>1, Sizes, FS_Subset
  <2>3. PICK f : FilesOf(name) = {f}
    BY <2>1, <2>2, FS_Singleton
  <2>4. name \in Names
    BY <2>3 DEF FilesOf, Names
  <2>5. ~(Has(name, "jpg") /\ Has(name, "txt"))
    BY <2>3 DEF FilesOf, Has
  <2>6. name \notin Hand
    BY <2>1 DEF Hand
  <2>7. QED BY <2>4, <2>5, <2>6 DEF Loose, Single
<1>2. IsFiniteSet(Loose) /\ Cardinality(Loose) \in Nat /\ faults \in Nat
  <2>1. /\ Loose \in SUBSET Kept /\ IsFiniteSet(Kept)
    BY Sizes DEF Loose, Single, Kept
  <2>2. QED BY <2>1, FS_Subset, FS_CardinalityType DEF IInv, TypeOK
<1>3. Halves \in SUBSET Loose
  BY <1>1
<1>4. Cardinality(Halves) <= Cardinality(Loose) /\ Cardinality(Halves) \in Nat
  BY <1>2, <1>3, FS_Subset, FS_CardinalityType
<1>5. Cardinality(Loose) <= 2 * faults + (IF at = "remove" THEN 1 ELSE 0)
  BY DEF HalvesInv, LooseFew
<1>6. QED BY <1>2, <1>4, <1>5

\* However writes, scans and removals fail, and however often the program is killed, also
\* between two removals, or the clock set back: each of these leaves no more than two
\* samples that have lost a file, but for the one that is being removed, and the folder
\* does not grow beyond the limit and the pair in hand but for two files of each that wait
\* for a turn that deletes (directory.h:99-130, main.cpp:489-502).
THEOREM FaultsCost == Spec => []FaultsCostLittle
<1>1. IInv /\ HalvesInv => Cardinality(Halves) <= 2 * faults + (IF at = "remove" THEN 1 ELSE 0)
  BY HalvesAreLoose
<1>2. Spec => [](Cardinality(Halves)
                     <= 2 * faults + (IF at = "remove" THEN 1 ELSE 0))
  BY <1>1, HalvesStart, HalvesStep, Invariant, PTL DEF Spec
<1>3. /\ Cardinality(Halves) <= 2 * faults + (IF at = "remove" THEN 1 ELSE 0)
      /\ Cardinality(folder) <= 2 * TotalData + 2 + 2 * faults
      => FaultsCostLittle
  BY DEF FaultsCostLittle
<1>4. QED BY <1>2, <1>3, FolderStaysSmall, PTL

=============================================================================
