---------------------------- MODULE AlarmContract ----------------------------
(***************************************************************************)
(* What the alarm manager promises the people who get its notifications,   *)
(* channel by channel, with no word of locks, files, counters or frames:   *)
(*   - a channel is notified at most once in CoolTime seconds;             *)
(*   - every notification is followed by the alarm being held active, with *)
(*     a fresh grace period, before the next one is sent;                  *)
(*   - an alarm is released only once its grace period is over.            *)
(* AlarmManager implements it (AlarmManager!Implements).                   *)
(***************************************************************************)
EXTENDS Integers

CONSTANTS Channel, CoolTime, Grace, MaxRestarts

VARIABLES
  notified,   \* age of the newest notification of each channel, or NoAge
  held,       \* age of each channel's active alarm, or NoAge
  due,        \* the channels with a notification whose alarm is not yet held
  starts      \* how often the program was started again

contractVars == <<notified, held, due, starts>>

NoAge  == -1
MaxAge == IF CoolTime > Grace THEN CoolTime ELSE Grace

Aged(age) == IF age = NoAge THEN NoAge
             ELSE IF age < MaxAge THEN age + 1 ELSE MaxAge

Init ==
  /\ notified = [ch \in Channel |-> NoAge]
  /\ held     = [ch \in Channel |-> NoAge]
  /\ due      = {}
  /\ starts   = 0

Notify(ch) ==
  /\ ch \notin due
  /\ notified[ch] = NoAge \/ notified[ch] >= CoolTime
  /\ notified' = [notified EXCEPT ![ch] = 0]
  /\ due' = due \cup {ch}
  /\ UNCHANGED <<held, starts>>

Hold(ch) ==
  /\ ch \in due
  /\ held' = [held EXCEPT ![ch] = 0]
  /\ due' = due \ {ch}
  /\ UNCHANGED <<notified, starts>>

Release(ch) ==
  /\ ch \notin due
  /\ held[ch] # NoAge
  /\ held[ch] >= Grace
  /\ held' = [held EXCEPT ![ch] = NoAge]
  /\ UNCHANGED <<notified, due, starts>>

Second ==
  /\ notified' = [ch \in Channel |-> Aged(notified[ch])]
  /\ held' = [ch \in Channel |-> Aged(held[ch])]
  /\ UNCHANGED <<due, starts>>

StartAgain ==
  /\ starts < MaxRestarts
  /\ starts'   = starts + 1
  /\ notified' = [ch \in Channel |-> NoAge]
  /\ held'     = [ch \in Channel |-> NoAge]
  /\ due'      = {}

Next == \/ \E ch \in Channel : Notify(ch) \/ Hold(ch) \/ Release(ch)
        \/ Second
        \/ StartAgain

Spec == Init /\ [][Next]_contractVars

=============================================================================
