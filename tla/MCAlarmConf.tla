---------------------------- MODULE MCAlarmConf ----------------------------
(***************************************************************************)
(* Small instances of AlarmConf for TLC.                                   *)
(***************************************************************************)
EXTENDS AlarmConf

Round == <<"(", ")">>
Curly == <<"{", "}">>
Square == <<"[", "]">>

MCClass == {"0", "3", "10"}

Leaves == {Seen("0"), Seen("3"), NotSeen("3"), NotSeen("10")}

\* Every condition on two leaves.
Pairs == {Join(left, word, right, Round) :
            left \in Leaves, right \in Leaves, word \in {"and", "or"}}

\* The two kinds of condition a whole file is made of.
MCRules == {Seen("10"), Join(NotSeen("3"), "or", Seen("0"), Round)}

\* Every condition on up to four leaves with one level of brackets of any kind; one
\* that begins with a square bracket is no condition to read_conf.
MCLongRules ==
  {Join(left, word, right, brackets) :
     left \in Leaves \cup Pairs, right \in Leaves \cup Pairs,
     word \in {"and", "or"}, brackets \in {Round, Curly, Square}}

=============================================================================
