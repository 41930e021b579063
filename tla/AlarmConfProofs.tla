--------------------------- MODULE AlarmConfProofs ---------------------------
(***************************************************************************)
(* Theorems about AlarmConf, for files of any length with any numbers and  *)
(* conditions.  A loop over a sequence is a Run; a part of a condition     *)
(* Compiles when what postfix makes of it puts one value on define_alarm's *)
(* stack, whatever is there before; rules and blocks agree line by line.   *)
(***************************************************************************)
EXTENDS AlarmConf, FiniteSetTheorems, WellFoundedInduction, SequenceTheorems, TLAPS

-----------------------------------------------------------------------------
(***************************************************************************)
(* Places in a set of numbers, and its greatest member.                    *)
(***************************************************************************)
\* The place of b among the members of S.
Rank(S, b) == Cardinality({c \in S : c <= b})

\* A place is a number from 1 to the number of members, which only the greatest has.
LEMMA RankType ==
  ASSUME NEW S \in SUBSET Nat, IsFiniteSet(S), NEW b \in S
  PROVE  /\ IsFiniteSet({c \in S : c <= b}) /\ Rank(S, b) \in Nat
         /\ Cardinality(S) \in Nat /\ Rank(S, b) \in 1 .. Cardinality(S)
         /\ Rank(S, b) = Cardinality(S) => \A c \in S : c <= b
<1> DEFINE upTo == {c \in S : c <= b}
<1>1. upTo \in SUBSET S /\ b \in upTo
  OBVIOUS
<1>2. /\ IsFiniteSet(upTo) /\ Cardinality(upTo) <= Cardinality(S)
      /\ Cardinality(upTo) = Cardinality(S) => upTo = S
  BY <1>1, FS_Subset
<1>3. Cardinality(upTo) \in Nat /\ Cardinality(S) \in Nat
  BY <1>2, FS_CardinalityType
<1>4. Cardinality(upTo) # 0
  BY <1>1, <1>2, FS_EmptySet
<1>5. QED BY <1>2, <1>3, <1>4 DEF Rank

\* No two members have the same place.
LEMMA RankUnique ==
  ASSUME NEW S \in SUBSET Nat, IsFiniteSet(S), NEW b \in S, NEW c \in S,
         Rank(S, b) = Rank(S, c)
  PROVE  b = c
<1> DEFINE AtMost(x) == {d \in S : d <= x}
<1>1. ASSUME NEW x \in S, NEW y \in S, x < y, Rank(S, x) = Rank(S, y) PROVE FALSE
  <2>1. AtMost(x) \in SUBSET AtMost(y) /\ y \in AtMost(y) /\ y \notin AtMost(x)
    <3>1. x \in Nat /\ y \in Nat /\ \A d \in S : d \in Nat
      OBVIOUS
    <3>2. \A d \in S : d <= x => d <= y
      BY <1>1, <3>1
    <3>3. ~(y <= x) /\ y <= y
      BY <1>1, <3>1
    <3>4. QED BY <3>2, <3>3
  <2>2. IsFiniteSet(AtMost(y))
    BY RankType
  <2>3. AtMost(x) = AtMost(y)
    BY <1>1, <2>1, <2>2, FS_Subset DEF Rank
  <2>4. QED BY <2>1, <2>3
<1>2. b \in Nat /\ c \in Nat
  OBVIOUS
<1>3. QED BY <1>1, <1>2

\* A member beyond all others leaves their places and takes the last.
LEMMA RankMore ==
  ASSUME NEW S \in SUBSET Nat, IsFiniteSet(S), NEW m \in Nat, \A c \in S : c < m
  PROVE  /\ \A b \in S : Rank(S \cup {m}, b) = Rank(S, b)
         /\ Rank(S \cup {m}, m) = Cardinality(S) + 1
         /\ IsFiniteSet(S \cup {m}) /\ Cardinality(S \cup {m}) = Cardinality(S) + 1
<1>1. ASSUME NEW b \in S PROVE Rank(S \cup {m}, b) = Rank(S, b)
  <2>1. {c \in S \cup {m} : c <= b} = {c \in S : c <= b}
    OBVIOUS
  <2>2. QED BY <2>1 DEF Rank
<1>2. {c \in S \cup {m} : c <= m} = S \cup {m}
  <2>1. \A c \in S \cup {m} : c <= m
    OBVIOUS
  <2>2. QED BY <2>1
<1>3. m \notin S
  OBVIOUS
<1>4. IsFiniteSet(S \cup {m}) /\ Cardinality(S \cup {m}) = Cardinality(S) + 1
  BY <1>3, FS_AddElement
<1>5. QED BY <1>1, <1>2, <1>4 DEF Rank

\* A set of numbers that has a bound has a greatest member.
LEMMA MaxIsThere ==
  ASSUME NEW S \in SUBSET Nat, S # {}, NEW m \in Nat, \A x \in S : x <= m
  PROVE  Max(S) \in S /\ \A x \in S : x <= Max(S)
<1> DEFINE Less == {ss \in Nat \X Nat : ss[1] < ss[2]}
           below == {m - x : x \in S}
<1>1. below \in SUBSET Nat /\ below # {}
  <2>1. \A x \in S : x \in Nat /\ m - x \in Nat
    OBVIOUS
  <2>2. QED BY <2>1
<1>2. IsWellFoundedOn(Less, Nat)
  BY NatLessThanWellFounded DEF OpToRel
<1>3. PICK d \in below : \A e \in below : <<e, d>> \notin Less
  BY <1>1, <1>2, WFMin
<1>4. PICK x \in S : d = m - x
  OBVIOUS
<1>5. ASSUME NEW y \in S PROVE x >= y
  <2>1. m - y \in below /\ <<m - y, d>> \in Nat \X Nat
    BY <1>1
  <2>2. ~(m - y < d)
    BY <1>3, <2>1
  <2>3. QED BY <1>4, <2>2
<1>6. QED BY <1>5 DEF Max

\* A member that is no less than any other is the greatest.
LEMMA MaxUnique ==
  ASSUME NEW S \in SUBSET Nat, NEW m \in S, \A x \in S : x <= m
  PROVE  Max(S) = m
<1>1. Max(S) \in S /\ \A x \in S : Max(S) >= x
  BY DEF Max
<1>2. Max(S) <= m /\ m <= Max(S) /\ Max(S) \in Nat /\ m \in Nat
  BY <1>1
<1>3. QED BY <1>2

-----------------------------------------------------------------------------
(***************************************************************************)
(* Loops over a sequence, and what they make of two in a row.              *)
(***************************************************************************)
\* What holds of 0 and is handed on from each number to the next holds up to N.
LEMMA UpTo ==
  ASSUME NEW N \in Nat, NEW P, 0 \in P, \A n \in 1 .. N : n - 1 \in P => n \in P
  PROVE  \A n \in 0 .. N : n \in P
<1> DEFINE Less == {ss \in Nat \X Nat : ss[1] < ss[2]}
           bad == {n \in 0 .. N : n \notin P}
<1> SUFFICES ASSUME bad # {} PROVE FALSE
  OBVIOUS
<1>1. IsWellFoundedOn(Less, Nat)
  BY NatLessThanWellFounded DEF OpToRel
<1>2. PICK n \in bad : \A m \in bad : <<m, n>> \notin Less
  <2>1. bad \subseteq Nat
    OBVIOUS
  <2>2. QED BY <1>1, <2>1, WFMin
<1>3. n # 0 /\ n \in 1 .. N
  OBVIOUS
<1>4. <<n - 1, n>> \in Less
  BY <1>3
<1>5. n - 1 \notin bad
  BY <1>2, <1>4
<1>6. QED BY <1>3, <1>5

IsBody(F, S, T) == \A s \in S, t \in T : F[<<s, t>>] \in S

\* The values h has before and after each turn of the loop with body F on w, from s.
Follows(h, F, s, w) == h[0] = s /\ \A n \in 1 .. Len(w) : h[n] = F[<<h[n - 1], w[n]>>]

\* Where the loop ends.
Run(F, S, s, w) == (CHOOSE g \in [0 .. Len(w) -> S] : Follows(g, F, s, w))[Len(w)]

\* The values of a loop exist, and its end is the last of them.
LEMMA RunIsThere ==
  ASSUME NEW S, NEW T, NEW F, IsBody(F, S, T), NEW s \in S, NEW w \in Seq(T)
  PROVE  \E g \in [0 .. Len(w) -> S] : Follows(g, F, s, w) /\ Run(F, S, s, w) = g[Len(w)]
<1> DEFINE Is(g, m) == /\ g \in [0 .. m -> S] /\ g[0] = s
                       /\ \A n \in 1 .. m : g[n] = F[<<g[n - 1], w[n]>>]
           P == {m \in 0 .. Len(w) : \E g : Is(g, m)}
<1>1. Len(w) \in Nat /\ \A n \in 1 .. Len(w) : w[n] \in T
  BY LenProperties, ElementOfSeq
<1>2. 0 \in P
  <2>1. [n \in 0 .. 0 |-> s] \in [0 .. 0 -> S] /\ [n \in 0 .. 0 |-> s][0] = s
    OBVIOUS
  <2>2. Is([n \in 0 .. 0 |-> s], 0)
    BY <2>1
  <2>3. 0 \in 0 .. Len(w)
    BY <1>1
  <2>4. QED BY <2>2, <2>3
<1>3. ASSUME NEW n \in 1 .. Len(w), n - 1 \in P PROVE n \in P
  <2>1. PICK g : Is(g, n - 1)
    BY <1>3
  <2>2. n - 1 \in 0 .. n - 1 /\ g[n - 1] \in S /\ n \in Nat
    BY <1>1, <2>1
  <2>3. DEFINE h == [i \in 0 .. n |-> IF i = n THEN F[<<g[n - 1], w[n]>>] ELSE g[i]]
  <2>4. F[<<g[n - 1], w[n]>>] \in S
    BY <1>1, <2>2 DEF IsBody
  <2>5. h \in [0 .. n -> S]
    <3>1. \A i \in 0 .. n : i # n => i \in 0 .. n - 1
      BY <2>2
    <3>2. QED BY <2>1, <2>4, <3>1
  <2>6. h[0] = s
    BY <2>1, <2>2
  <2>7. ASSUME NEW i \in 1 .. n PROVE h[i] = F[<<h[i - 1], w[i]>>]
    <3>1. i \in 0 .. n /\ i - 1 \in 0 .. n /\ i - 1 # n
      BY <2>2
    <3>2. CASE i = n
      BY <2>2, <3>1, <3>2
    <3>3. CASE i # n
      <4>1. i \in 1 .. n - 1
        BY <2>2, <3>3
      <4>2. h[i] = g[i] /\ h[i - 1] = g[i - 1]
        BY <3>1, <3>3
      <4>3. QED BY <2>1, <4>1, <4>2
    <3>4. QED BY <3>2, <3>3
  <2> HIDE DEF h
  <2>8. Is(h, n)
    BY <2>5, <2>6, <2>7
  <2>9. QED BY <1>1, <1>3, <2>8
<1> HIDE DEF P
<1>4. \A n \in 0 .. Len(w) : n \in P
  BY <1>1, <1>2, <1>3, UpTo
<1>5. Len(w) \in P
  BY <1>1, <1>4
<1>6. \E g \in [0 .. Len(w) -> S] : Follows(g, F, s, w)
  BY <1>5 DEF P, Follows
<1>7. QED BY <1>6 DEF Run

\* It is the last value of any function that follows the loop.
LEMMA RunIs ==
  ASSUME NEW S, NEW T, NEW F, IsBody(F, S, T), NEW s \in S, NEW w \in Seq(T),
         NEW h, Follows(h, F, s, w)
  PROVE  Run(F, S, s, w) = h[Len(w)] /\ Run(F, S, s, w) \in S
<1>1. PICK g \in [0 .. Len(w) -> S] : Follows(g, F, s, w) /\ Run(F, S, s, w) = g[Len(w)]
  BY RunIsThere
<1>2. Len(w) \in Nat
  BY LenProperties
<1>3. DEFINE P == {n \in 0 .. Len(w) : g[n] = h[n]}
<1>4. 0 \in P
  BY <1>1, <1>2 DEF Follows
<1>5. ASSUME NEW n \in 1 .. Len(w), n - 1 \in P PROVE n \in P
  <2>1. n \in 0 .. Len(w) /\ g[n - 1] = h[n - 1]
    BY <1>2, <1>5
  <2>2. g[n] = h[n]
    BY <1>1, <2>1 DEF Follows
  <2>3. QED BY <2>1, <2>2
<1> HIDE DEF P
<1>6. \A n \in 0 .. Len(w) : n \in P
  BY <1>2, <1>4, <1>5, UpTo
<1>7. Len(w) \in P
  BY <1>2, <1>6
<1>8. QED BY <1>1, <1>2, <1>7 DEF P

\* A loop on no word ends where it starts.
LEMMA RunEmpty ==
  ASSUME NEW S, NEW T, NEW F, IsBody(F, S, T), NEW s \in S
  PROVE  Run(F, S, s, <<>>) = s
<1>1. PICK w \in Seq(T) : w = <<>> /\ Len(w) = 0
  <2>1. <<>> \in Seq(T) /\ Len(<<>>) = 0
    BY EmptySeq
  <2>2. QED BY <2>1
<1>2. PICK g \in [0 .. Len(w) -> S] : Follows(g, F, s, w) /\ Run(F, S, s, w) = g[Len(w)]
  BY RunIsThere
<1>3. QED BY <1>1, <1>2 DEF Follows

\* A loop on one word is one turn.
LEMMA RunOne ==
  ASSUME NEW S, NEW T, NEW F, IsBody(F, S, T), NEW s \in S, NEW t \in T
  PROVE  Run(F, S, s, <<t>>) = F[<<s, t>>]
<1>1. PICK w \in Seq(T) : w = <<t>> /\ Len(w) = 1 /\ w[1] = t
  <2>1. <<t>> \in Seq(T) /\ Len(<<t>>) = 1 /\ <<t>>[1] = t
    OBVIOUS
  <2>2. QED BY <2>1
<1>2. PICK g \in [0 .. Len(w) -> S] : Follows(g, F, s, w) /\ Run(F, S, s, w) = g[Len(w)]
  BY RunIsThere
<1>3. g[0] = s /\ g[1] = F[<<g[1 - 1], t>>]
  BY <1>1, <1>2 DEF Follows
<1>4. QED BY <1>1, <1>2, <1>3

\* A loop on two sequences in a row goes on with the second from where the first ends.
LEMMA RunConcat ==
  ASSUME NEW S, NEW T, NEW F, IsBody(F, S, T), NEW s \in S,
         NEW v \in Seq(T), NEW w \in Seq(T)
  PROVE  /\ Run(F, S, s, v) \in S
         /\ Run(F, S, s, v \o w) = Run(F, S, Run(F, S, s, v), w)
<1>1. /\ v \o w \in Seq(T) /\ Len(v \o w) = Len(v) + Len(w)
      /\ \A n \in 1 .. Len(v) : (v \o w)[n] = v[n]
      /\ \A n \in 1 .. Len(w) : (v \o w)[Len(v) + n] = w[n]
      /\ Len(v) \in Nat /\ Len(w) \in Nat
  BY ConcatProperties, LenProperties
<1>2. PICK g \in [0 .. Len(v \o w) -> S] :
        Follows(g, F, s, v \o w) /\ Run(F, S, s, v \o w) = g[Len(v \o w)]
  <2>1. PICK u \in Seq(T) : u = v \o w
    BY <1>1
  <2>2. \E g \in [0 .. Len(u) -> S] : Follows(g, F, s, u) /\ Run(F, S, s, u) = g[Len(u)]
    BY RunIsThere
  <2>3. QED BY <2>1, <2>2
<1>3. /\ g \in [0 .. Len(v) + Len(w) -> S] /\ g[0] = s
      /\ \A n \in 1 .. Len(v) + Len(w) : g[n] = F[<<g[n - 1], (v \o w)[n]>>]
  BY <1>1, <1>2 DEF Follows
<1>4. Run(F, S, s, v) = g[Len(v)] /\ Run(F, S, s, v) \in S
  <2>1. Follows(g, F, s, v)
    BY <1>1, <1>3 DEF Follows
  <2>2. QED BY <2>1, RunIs
<1>5. Run(F, S, g[Len(v)], w) = g[Len(v) + Len(w)]
  <2>1. DEFINE h == [n \in 0 .. Len(w) |-> g[Len(v) + n]]
  <2>2. h[0] = g[Len(v)] /\ h[Len(w)] = g[Len(v) + Len(w)] /\ g[Len(v)] \in S
    BY <1>1, <1>3
  <2>3. ASSUME NEW n \in 1 .. Len(w) PROVE h[n] = F[<<h[n - 1], w[n]>>]
    <3>1. /\ Len(v) + n \in 1 .. Len(v) + Len(w) /\ (Len(v) + n) - 1 = Len(v) + (n - 1)
          /\ n \in 0 .. Len(w) /\ n - 1 \in 0 .. Len(w)
      BY <1>1
    <3>2. g[Len(v) + n] = F[<<g[Len(v) + (n - 1)], w[n]>>]
      BY <1>1, <1>3, <3>1
    <3>3. QED BY <3>1, <3>2
  <2> HIDE DEF h
  <2>4. Follows(h, F, g[Len(v)], w)
    BY <2>2, <2>3 DEF Follows
  <2>5. QED BY <2>2, <2>4, RunIs
<1>6. QED BY <1>1, <1>2, <1>4, <1>5

\* What tells the signs of a condition from its classes.
LEMMA SignsAre ==
  /\ Range(Opening) = {"(", "{", "["} /\ DOMAIN Opening = {")", "}", "]"}
  /\ Opening[")"] = "(" /\ Opening["}"] = "{" /\ Opening["]"] = "["
  /\ Signs = {"not", "and", "or", "(", "{", "["} /\ Words = Class \cup Signs
  /\ Class \cap {"not", "and", "or", "(", "{", "[", ")", "}", "]"} = {}
<1>1. /\ DOMAIN Opening = {")", "}", "]"}
      /\ Opening[")"] = "(" /\ Opening["}"] = "{" /\ Opening["]"] = "["
  BY DEF Opening
<1>2. Range(Opening) = {"(", "{", "["}
  BY <1>1 DEF Range
<1>3. QED BY <1>1, <1>2, ConditionAssumption DEF Signs, Words

\* What a reversed sequence is made of.
LEMMA ReverseType ==
  ASSUME NEW S, NEW s \in Seq(S)
  PROVE  /\ Reverse(s) \in Seq(S) /\ Len(Reverse(s)) = Len(s)
         /\ \A i \in 1 .. Len(s) : Reverse(s)[i] = s[Len(s) - i + 1]
<1>1. Len(s) \in Nat /\ \A i \in 1 .. Len(s) : s[i] \in S /\ Len(s) - i + 1 \in 1 .. Len(s)
  BY LenProperties, ElementOfSeq
<1>2. Reverse(s) \in [1 .. Len(s) -> S]
  BY <1>1 DEF Reverse
<1>3. QED BY <1>1, <1>2 DEF Reverse

\* Two sequences in a row, reversed.
LEMMA ReverseConcat ==
  ASSUME NEW S, NEW s \in Seq(S), NEW t \in Seq(S)
  PROVE  Reverse(s \o t) = Reverse(t) \o Reverse(s)
<1>1. /\ s \o t \in Seq(S) /\ Len(s \o t) = Len(s) + Len(t)
      /\ Reverse(s \o t) \in Seq(S) /\ Len(Reverse(s \o t)) = Len(s) + Len(t)
      /\ Len(s) \in Nat /\ Len(t) \in Nat
  BY ConcatProperties, ReverseType, LenProperties, ZenonT(40)
<1>2. /\ Reverse(s) \in Seq(S) /\ Reverse(t) \in Seq(S)
      /\ Len(Reverse(s)) = Len(s) /\ Len(Reverse(t)) = Len(t)
  BY ReverseType
<1>3. /\ Reverse(t) \o Reverse(s) \in Seq(S)
      /\ Len(Reverse(t) \o Reverse(s)) = Len(s) + Len(t)
  <2>1. PICK u \in Seq(S), v \in Seq(S) : u = Reverse(t) /\ v = Reverse(s)
    BY <1>2
  <2>2. u \o v \in Seq(S) /\ Len(u \o v) = Len(u) + Len(v)
    BY ConcatProperties
  <2>3. QED BY <1>1, <1>2, <2>1, <2>2
<1>4. ASSUME NEW i \in 1 .. Len(s) + Len(t)
      PROVE  Reverse(s \o t)[i] = (Reverse(t) \o Reverse(s))[i]
  <2> DEFINE j == Len(s) + Len(t) - i + 1
  <2>1. j \in 1 .. Len(s) + Len(t) /\ i \in Int
    BY <1>1
  <2>2. Reverse(s \o t)[i] = IF j <= Len(s) THEN s[j] ELSE t[j - Len(s)]
    <3>1. Reverse(s \o t)[i] = (s \o t)[j]
      <4>1. PICK u \in Seq(S) : u = s \o t
        BY <1>1
      <4>2. Reverse(u)[i] = u[Len(u) - i + 1]
        BY <1>1, <4>1, ReverseType
      <4>3. QED BY <1>1, <4>1, <4>2
    <3>2. QED BY <2>1, <3>1, ConcatProperties
  <2>3. (Reverse(t) \o Reverse(s))[i]
           = IF i <= Len(t) THEN Reverse(t)[i] ELSE Reverse(s)[i - Len(t)]
    BY <1>1, <1>2, ConcatProperties
  <2>4. CASE i <= Len(t)
    <3>1. i \in 1 .. Len(t) /\ ~(j <= Len(s)) /\ j - Len(s) = Len(t) - i + 1
      BY <1>1, <2>4
    <3>2. Reverse(t)[i] = t[j - Len(s)]
      BY <3>1, ReverseType
    <3>3. QED BY <2>2, <2>3, <2>4, <3>1, <3>2
  <2>5. CASE ~(i <= Len(t))
    <3>1. i - Len(t) \in 1 .. Len(s) /\ j <= Len(s) /\ j = Len(s) - (i - Len(t)) + 1
      BY <1>1, <2>5
    <3>2. Reverse(s)[i - Len(t)] = s[j]
      BY <3>1, ReverseType
    <3>3. QED BY <2>2, <2>3, <2>5, <3>1, <3>2
  <2>6. QED BY <2>4, <2>5
<1>5. QED BY <1>1, <1>3, <1>4, SeqEqual

\* One element, reversed.
LEMMA ReverseOne == \A x : Reverse(<<x>>) = <<x>>
<1> TAKE x
<1>1. Len(<<x>>) = 1
  OBVIOUS
<1>2. Reverse(<<x>>) = [i \in 1 .. 1 |-> <<x>>[(1 - i) + 1]]
  BY <1>1 DEF Reverse
<1>3. QED BY <1>2

-----------------------------------------------------------------------------
(***************************************************************************)
(* make_space: the words of two lines in a row, and of one put in brackets.*)
(***************************************************************************)
\* F is concatenation, and e the empty sequence.
Glues(F, S, e, T) ==
  /\ S = Seq(T) /\ e \in S /\ e = <<>> /\ IsBody(F, S, S)
  /\ \A x, y \in S : F[<<x, y>>] = x \o y /\ x \o y \in S
  /\ \A x, y, z \in S : x \o (y \o z) = (x \o y) \o z

\* What the body does with two of the sequences.
LEMMA GluedOnce ==
  ASSUME NEW F, NEW S, NEW e, NEW T, Glues(F, S, e, T), NEW x \in S, NEW y \in S
  PROVE  F[<<x, y>>] = x \o y
<1>1. \A p, q \in S : F[<<p, q>>] = p \o q /\ p \o q \in S
  BY DEF Glues
<1>2. QED BY <1>1

\* Concatenation of sequences of any kind is the body of a loop.
LEMMA GlueIsThere == \A T : \E F, S, e : Glues(F, S, e, T)
<1> TAKE T
<1> DEFINE S == Seq(T)
           F == [p \in S \X S |-> p[1] \o p[2]]
<1>1. \A x, y \in S : x \o y \in S
  BY ConcatProperties
<1>2. \A x, y \in S : F[<<x, y>>] = x \o y
  OBVIOUS
<1>3. <<>> \in S
  BY EmptySeq
<1>4. \A x, y, z \in S : x \o (y \o z) = (x \o y) \o z
  BY ConcatAssociative, SMTT(40)
<1> HIDE DEF F
<1>5. Glues(F, S, <<>>, T)
  BY <1>1, <1>2, <1>3, <1>4, ZenonT(40) DEF Glues, IsBody
<1>6. QED BY <1>5

\* make_space is the loop that glues each word to those before it.
LEMMA FlattenIsRun ==
  ASSUME NEW T, NEW w \in Seq(Seq(T)), NEW F, NEW S, NEW e, Glues(F, S, e, T)
  PROVE  FlattenSeq(w) = Run(F, S, e, w) /\ FlattenSeq(w) \in S
<1>1. PICK g \in [0 .. Len(w) -> S] : Follows(g, F, e, w) /\ Run(F, S, e, w) = g[Len(w)]
  <2>1. e \in S /\ IsBody(F, S, S) /\ w \in Seq(S)
    BY DEF Glues
  <2>2. QED BY <2>1, RunIsThere
<1>2. Len(w) \in Nat /\ \A n \in 1 .. Len(w) : w[n] \in S
  BY LenProperties, ElementOfSeq DEF Glues
<1>3. CASE Len(w) = 0
  <2>1. w = <<>>
    BY <1>2, <1>3, EmptySeq
  <2>2. QED BY <1>1, <1>3, <2>1 DEF FlattenSeq, Follows, Glues
<1>4. CASE Len(w) # 0
  <2> DEFINE Is(f) == f = [i \in 1 .. Len(w) |-> IF i = 1 THEN w[i] ELSE f[i - 1] \o w[i]]
             h == [i \in 1 .. Len(w) |-> g[i]]
             flatten == CHOOSE f : Is(f)
  <2>1. ASSUME NEW i \in 1 .. Len(w) PROVE g[i - 1] \in S /\ g[i] = g[i - 1] \o w[i]
    <3>1. i - 1 \in 0 .. Len(w) /\ w[i] \in S
      BY <1>2
    <3>2. g[i - 1] \in S /\ g[i] = F[<<g[i - 1], w[i]>>]
      BY <1>1, <3>1 DEF Follows
    <3>3. QED BY <3>1, <3>2, ZenonT(40) DEF Glues
  <2>2. g[1] = w[1]
    <3>1. 1 \in 1 .. Len(w) /\ 1 - 1 = 0
      BY <1>2, <1>4
    <3>2. g[1] = <<>> \o w[1] /\ w[1] \in Seq(T)
      <4>1. g[1] = g[0] \o w[1]
        BY <2>1, <3>1
      <4>2. QED BY <1>1, <1>2, <3>1, <4>1 DEF Follows, Glues
    <3>3. QED BY <3>2, ConcatEmptySeq
  <2>3. Is(h)
    <3>1. ASSUME NEW i \in 1 .. Len(w) PROVE h[i] = IF i = 1 THEN w[i] ELSE h[i - 1] \o w[i]
      <4>1. CASE i = 1
        BY <2>2, <4>1
      <4>2. CASE i # 1
        <5>1. i - 1 \in 1 .. Len(w)
          BY <1>2, <4>2
        <5>2. QED BY <2>1, <4>2, <5>1
      <4>3. QED BY <4>1, <4>2
    <3>2. h = [i \in 1 .. Len(w) |-> h[i]]
      OBVIOUS
    <3> HIDE DEF h
    <3>3. QED BY <3>1, <3>2
  <2>4. Is(flatten)
    BY <2>3
  <2>5. FlattenSeq(w) = flatten[Len(w)]
    BY <1>4 DEF FlattenSeq
  <2> HIDE DEF flatten
  <2>6. DEFINE P == {i \in 0 .. Len(w) : i # 0 => flatten[i] = g[i]}
  <2>7. 0 \in P
    BY <1>2
  <2>8. ASSUME NEW i \in 1 .. Len(w), i - 1 \in P PROVE i \in P
    <3>1. i \in 0 .. Len(w) /\ i - 1 \in 0 .. Len(w)
      BY <1>2
    <3>2. CASE i = 1
      BY <2>2, <2>4, <3>1, <3>2
    <3>3. CASE i # 1
      <4>1. flatten[i - 1] = g[i - 1]
        BY <1>2, <2>8, <3>3
      <4>2. flatten[i] = flatten[i - 1] \o w[i]
        BY <2>4, <3>3
      <4>3. QED BY <2>1, <3>1, <4>1, <4>2
    <3>4. QED BY <3>2, <3>3
  <2> HIDE DEF P
  <2>9. \A i \in 0 .. Len(w) : i \in P
    BY <1>2, <2>7, <2>8, UpTo
  <2>10. flatten[Len(w)] = g[Len(w)] /\ g[Len(w)] \in S
    BY <1>2, <1>4, <2>9 DEF P
  <2>11. QED BY <1>1, <2>5, <2>10
<1>5. QED BY <1>3, <1>4

\* It puts out what the words are made of.
LEMMA FlattenType ==
  ASSUME NEW T, NEW w \in Seq(Seq(T))
  PROVE  FlattenSeq(w) \in Seq(T)
<1>1. PICK F, S, e : Glues(F, S, e, T)
  BY GlueIsThere
<1>2. FlattenSeq(w) \in S
  BY <1>1, FlattenIsRun
<1>3. QED BY <1>1, <1>2 DEF Glues

\* The words of two lines in a row.
LEMMA FlattenConcat ==
  ASSUME NEW T, NEW v \in Seq(Seq(T)), NEW w \in Seq(Seq(T))
  PROVE  FlattenSeq(v \o w) = FlattenSeq(v) \o FlattenSeq(w)
<1>1. PICK F, S, e : Glues(F, S, e, T)
  BY GlueIsThere
<1>2. e \in S /\ IsBody(F, S, S) /\ v \in Seq(S) /\ w \in Seq(S)
  BY <1>1 DEF Glues
<1>3. PICK g \in [0 .. Len(w) -> S] : Follows(g, F, e, w) /\ Run(F, S, e, w) = g[Len(w)]
  BY <1>2, RunIsThere
<1>4. /\ FlattenSeq(w) = g[Len(w)]
      /\ FlattenSeq(v) \in S /\ FlattenSeq(v) = Run(F, S, e, v)
  BY <1>1, <1>3, FlattenIsRun
<1>5. FlattenSeq(v \o w) = Run(F, S, FlattenSeq(v), w)
  <2>1. PICK u \in Seq(Seq(T)) : u = v \o w
    BY ConcatProperties
  <2>2. Run(F, S, e, v \o w) = Run(F, S, Run(F, S, e, v), w)
    <3>1. PICK x \in Seq(S), y \in Seq(S) : x = v /\ y = w
      BY <1>2
    <3>2. Run(F, S, e, x \o y) = Run(F, S, Run(F, S, e, x), y)
      BY <1>2, <3>1, RunConcat
    <3>3. QED BY <3>1, <3>2
  <2>3. FlattenSeq(u) = Run(F, S, e, u)
    BY <1>1, FlattenIsRun
  <2>4. QED BY <1>4, <2>1, <2>2, <2>3
<1>6. PICK f \in S : f = FlattenSeq(v)
  BY <1>4
<1>7. Len(w) \in Nat /\ \A n \in 1 .. Len(w) : w[n] \in S
  BY LenProperties, ElementOfSeq, <1>1 DEF Glues
<1>8. DEFINE h == [n \in 0 .. Len(w) |-> f \o g[n]]
<1>9. h[0] = f
  <2>1. g[0] = <<>> /\ f \in Seq(T)
    BY <1>1, <1>3, <1>6 DEF Follows, Glues
  <2>2. QED BY <1>7, <2>1, ConcatEmptySeq
<1>10. ASSUME NEW n \in 1 .. Len(w) PROVE h[n] = F[<<h[n - 1], w[n]>>]
  <2>1. n \in 0 .. Len(w) /\ n - 1 \in 0 .. Len(w) /\ w[n] \in S /\ g[n - 1] \in S
    <3>1. n \in 0 .. Len(w) /\ n - 1 \in 0 .. Len(w) /\ w[n] \in S
      BY <1>7
    <3>2. QED BY <1>3, <3>1
  <2>2. g[n] = g[n - 1] \o w[n]
    BY <1>1, <1>3, <2>1, ZenonT(40) DEF Follows, Glues
  <2>3. h[n] = f \o (g[n - 1] \o w[n]) /\ h[n - 1] = f \o g[n - 1]
    BY <2>1, <2>2
  <2>4. f \o (g[n - 1] \o w[n]) = (f \o g[n - 1]) \o w[n]
    <3>1. PICK x \in S, y \in S : x = g[n - 1] /\ y = w[n]
      BY <2>1
    <3>2. \A p, q, r \in S : p \o (q \o r) = (p \o q) \o r
      BY <1>1 DEF Glues
    <3>3. f \o (x \o y) = (f \o x) \o y
      BY <3>2
    <3>4. QED BY <3>1, <3>3
  <2>5. h[n - 1] \in S
    BY <1>1, <2>1, <2>3 DEF Glues
  <2>6. F[<<h[n - 1], w[n]>>] = h[n - 1] \o w[n]
    <3> HIDE DEF h
    <3>1. w[n] \in S BY <2>1
    <3>2. \A p, q \in S : F[<<p, q>>] = p \o q
      BY <1>1, GluedOnce
    <3>3. QED BY <2>5, <3>1, <3>2
  <2> HIDE DEF h
  <2>7. QED BY <2>3, <2>4, <2>6
<1>11. h[Len(w)] = f \o g[Len(w)]
  BY <1>7
<1> HIDE DEF h
<1>12. Run(F, S, f, w) = h[Len(w)]
  <2>1. Follows(h, F, f, w)
    BY <1>9, <1>10 DEF Follows
  <2>2. QED BY <1>2, <2>1, RunIs
<1>13. QED BY <1>4, <1>5, <1>6, <1>11, <1>12

\* The words of a line that is one word, or empty.
LEMMA FlattenOne ==
  ASSUME NEW T, NEW x \in Seq(T)
  PROVE  FlattenSeq(<<x>>) = x /\ FlattenSeq(<<>>) = <<>>
<1>1. PICK F, S, e : Glues(F, S, e, T)
  BY GlueIsThere
<1>2. x \in S /\ e \in S /\ e = <<>> /\ IsBody(F, S, S)
  BY <1>1 DEF Glues
<1>3. Run(F, S, e, <<x>>) = F[<<e, x>>]
  BY <1>2, RunOne
<1>4. F[<<e, x>>] = x
  <2>1. F[<<e, x>>] = e \o x
    BY <1>1, <1>2 DEF Glues
  <2>2. QED BY <1>2, <2>1, ConcatEmptySeq
<1>5. PICK w \in Seq(Seq(T)) : w = <<x>>
  <2>1. <<x>> \in Seq(Seq(T))
    OBVIOUS
  <2>2. QED BY <2>1
<1>6. FlattenSeq(w) = Run(F, S, e, w)
  BY <1>1, FlattenIsRun
<1>7. FlattenSeq(<<>>) = <<>>
  <2>1. Len(<<>>) = 0
    OBVIOUS
  <2>2. QED BY <2>1 DEF FlattenSeq
<1>8. QED BY <1>2, <1>3, <1>4, <1>5, <1>6, <1>7

\* A line in brackets is made of its words with the brackets before and behind.
LEMMA FlattenBracketed ==
  ASSUME NEW T, NEW w \in Seq(Seq(T)), w # <<>>, NEW open \in T, NEW close \in T,
         NEW part, part.line = w
  PROVE  /\ Bracketed(open, part, close) \in Seq(Seq(T)) \ {<<>>}
         /\ FlattenSeq(Bracketed(open, part, close)) = (<<open>> \o FlattenSeq(w)) \o <<close>>
<1>1. PICK F, S, e : Glues(F, S, e, T)
  BY GlueIsThere
<1>2. /\ e \in S /\ IsBody(F, S, S) /\ w \in Seq(S) /\ e = <<>>
      /\ \A x \in S : e \o x = x /\ x \o e = x
  <2>1. \A x \in Seq(T) : <<>> \o x = x /\ x \o <<>> = x
    BY ConcatEmptySeq
  <2>2. QED BY <1>1, <2>1 DEF Glues
<1>3. PICK g \in [0 .. Len(w) -> S] : Follows(g, F, e, w) /\ Run(F, S, e, w) = g[Len(w)]
  BY <1>2, RunIsThere
<1>4. \A x, y \in S : F[<<x, y>>] = x \o y
  BY <1>1, ZenonT(40) DEF Glues
<1>5. \A x, y \in S : x \o y \in S
  BY <1>1 DEF Glues
<1>6. \A x, y, z \in S : x \o (y \o z) = (x \o y) \o z
  BY <1>1 DEF Glues
<1>7. Len(w) \in Nat \ {0} /\ DOMAIN w = 1 .. Len(w) /\ \A n \in 1 .. Len(w) : w[n] \in S
  BY EmptySeq, LenProperties, ElementOfSeq, <1>1 DEF Glues
<1>8. PICK o \in S, c \in S : o = <<open>> /\ c = <<close>>
  <2>1. <<open>> \in Seq(T) /\ <<close>> \in Seq(T)
    OBVIOUS
  <2>2. QED BY <1>1, <2>1 DEF Glues
<1>9. DEFINE b == Bracketed(open, part, close)
             first(i) == IF i = 1 THEN o ELSE e
             last(i) == IF i = Len(w) THEN c ELSE e
<1>10. ASSUME NEW i \in 1 .. Len(w)
      PROVE  /\ b[i] = (first(i) \o w[i]) \o last(i)
             /\ b[i] \in S
  <2>1. b[i] = (first(i) \o w[i]) \o last(i)
    BY <1>2, <1>7, <1>8 DEF Bracketed
  <2>2. first(i) \in S /\ w[i] \in S /\ last(i) \in S
    BY <1>2, <1>7, <1>8
  <2> HIDE DEF b, first, last
  <2>3. QED BY <1>5, <2>1, <2>2
<1>11. b \in [1 .. Len(w) -> S]
  BY <1>7, <1>10 DEF Bracketed
<1>12. b \in Seq(S) /\ Len(b) = Len(w) /\ b # <<>>
  BY <1>7, <1>11, SMTT(30)
<1> HIDE DEF b
<1>13. DEFINE h == [i \in 0 .. Len(w) |-> IF i = 0 THEN e ELSE (o \o g[i]) \o last(i)]
<1>14. ASSUME NEW i \in 1 .. Len(w) PROVE h[i] = F[<<h[i - 1], b[i]>>]
  <2>1. /\ i \in 0 .. Len(w) /\ i - 1 \in 0 .. Len(w) /\ w[i] \in S /\ i # 0
        /\ i - 1 # Len(w) /\ (i # 1 => i - 1 # 0)
    BY <1>7
  <2>2. g[i - 1] \in S /\ g[i] \in S
    BY <1>3, <2>1
  <2>3. g[i] = g[i - 1] \o w[i]
    BY <1>4, <1>3, <2>1, <2>2 DEF Follows
  <2>4. PICK q \in S : q = last(i)
    BY <1>2, <1>8
  <2>5. h[i] = (o \o g[i]) \o q
    BY <2>1, <2>4
  <2>6. h[i - 1] \in S /\ h[i] = h[i - 1] \o b[i]
    <3>1. CASE i = 1
      <4>1. g[0] = e
        BY <1>3 DEF Follows
      <4>2. g[i] = w[i]
        BY <1>2, <2>1, <2>3, <3>1, <4>1
      <4>3. h[i - 1] = e /\ b[i] = (o \o w[i]) \o q
        BY <1>10, <2>1, <2>4, <3>1
      <4>4. e \o b[i] = b[i]
        BY <1>2, <1>10
      <4>5. PICK y : y = b[i]
        OBVIOUS
      <4>6. h[i] = y
        BY <2>5, <4>2, <4>3, <4>5
      <4>7. h[i - 1] \o b[i] = y
        <5>1. h[i - 1] \o b[i] = e \o b[i]
          BY <4>3
        <5>2. QED BY <4>4, <4>5, <5>1
      <4>8. h[i - 1] \in S
        BY <1>2, <4>3
      <4> HIDE DEF h
      <4>9. QED BY <4>6, <4>7, <4>8
    <3>2. CASE i # 1
      <4>1. PICK x \in S, y \in S : x = g[i - 1] /\ y = w[i]
        BY <2>1, <2>2
      <4>2. h[i - 1] = (o \o x) \o e
        BY <1>7, <2>1, <3>2, <4>1
      <4>3. o \o x \in S
        BY <1>5
      <4>4. h[i - 1] = o \o x
        BY <1>2, <4>2, <4>3
      <4>5. b[i] = y \o q
        <5>1. b[i] = (e \o y) \o q
          BY <1>10, <2>4, <3>2, <4>1
        <5>2. QED BY <1>2, <5>1
      <4>6. h[i] = (o \o (x \o y)) \o q
        BY <2>3, <2>5, <4>1
      <4>7. o \o (x \o y) = (o \o x) \o y
        BY <1>6, SMTT(40)
      <4>8. ((o \o x) \o y) \o q = (o \o x) \o (y \o q)
        BY <1>6, <4>3, SMTT(40)
      <4> HIDE DEF h
      <4>9. QED BY <4>3, <4>4, <4>5, <4>6, <4>7, <4>8
    <3>3. QED BY <3>1, <3>2
  <2> HIDE DEF h
  <2>7. QED BY <1>4, <1>10, <2>6
<1>15. h[0] = e /\ h[Len(w)] = (o \o g[Len(w)]) \o c
  BY <1>7
<1> HIDE DEF h
<1>16. Run(F, S, e, b) = h[Len(b)]
  <2>1. Follows(h, F, e, b)
    BY <1>12, <1>14, <1>15 DEF Follows
  <2>2. QED BY <1>2, <1>12, <2>1, RunIs
<1>17. FlattenSeq(b) = Run(F, S, e, b) /\ FlattenSeq(w) = Run(F, S, e, w)
  <2>1. b \in Seq(Seq(T))
    BY <1>1, <1>12 DEF Glues
  <2>2. e = <<>>
    BY <1>2
  <2>3. QED BY <1>1, <2>1, FlattenIsRun
<1>18. QED
  <2>1. b \in Seq(Seq(T)) \ {<<>>}
    BY <1>1, <1>12 DEF Glues
  <2>2. FlattenSeq(b) = (<<open>> \o FlattenSeq(w)) \o <<close>>
    BY <1>3, <1>8, <1>12, <1>15, <1>16, <1>17
  <2>3. QED BY <2>1, <2>2 DEF b

-----------------------------------------------------------------------------
(***************************************************************************)
(* postfix: the operators that wait and the words already put out.         *)
(***************************************************************************)
OpWords == {"and", "or"} \cup Range(Opening)
PostState == [op : Seq(OpWords), output : Seq(Words)]

\* A place in the stack, or 0.
LEMMA TopmostIs ==
  ASSUME NEW T, NEW stack \in Seq(T), NEW x
  PROVE  Topmost(stack, x) \in 0 .. Len(stack)
<1> DEFINE at == {0} \cup {i \in DOMAIN stack : stack[i] = x}
<1>1. Len(stack) \in Nat /\ DOMAIN stack = 1 .. Len(stack)
  BY LenProperties
<1>2. at \in SUBSET Nat /\ at # {} /\ \A i \in at : i <= Len(stack)
  BY <1>1
<1>3. Max(at) \in at
  BY <1>1, <1>2, MaxIsThere
<1>4. QED BY <1>1, <1>2, <1>3 DEF Topmost

\* Every word keeps the state well formed, one that means nothing included.
LEMMA PostfixWordType ==
  ASSUME NEW s \in PostState, NEW word
  PROVE  PostfixWord(s, word) \in PostState
<1>1. /\ s = [op |-> s.op, output |-> s.output] /\ s.op \in Seq(OpWords) /\ s.output \in Seq(Words)
      /\ OpWords \subseteq Words
  BY SignsAre DEF PostState, OpWords
<1>2. CASE word \in Class \cup {"not"}
  <2>1. word \in Words
    BY <1>2, SignsAre
  <2>2. Append(s.output, word) \in Seq(Words)
    BY <1>1, <2>1
  <2>3. PostfixWord(s, word) = [op |-> s.op, output |-> Append(s.output, word)]
    BY <1>1, <1>2, SignsAre DEF PostfixWord
  <2>4. QED BY <1>1, <2>2, <2>3 DEF PostState
<1>3. CASE word \in OpWords
  <2>1. Append(s.op, word) \in Seq(OpWords)
    BY <1>1, <1>3
  <2>2. PostfixWord(s, word) = [op |-> Append(s.op, word), output |-> s.output]
    BY <1>1, <1>3, SignsAre DEF PostfixWord, OpWords
  <2>3. QED BY <1>1, <2>1, <2>2 DEF PostState
<1>4. CASE word \in DOMAIN Opening
  <2> DEFINE open == Topmost(s.op, Opening[word])
             keep == SubSeq(s.op, 1, IF word = ")" THEN open - 1 ELSE open)
             take == SubSeq(s.op, open + 1, Len(s.op))
  <2>1. /\ open \in 0 .. Len(s.op) /\ Len(s.op) \in Nat
        /\ \A i \in 1 .. Len(s.op) : s.op[i] \in OpWords
    BY <1>1, TopmostIs, LenProperties, ElementOfSeq
  <2>2. keep \in Seq(OpWords)
    <3>1. PICK k \in Int : k = (IF word = ")" THEN open - 1 ELSE open) /\ k <= Len(s.op)
      BY <2>1
    <3>2. \A i \in 1 .. k : s.op[i] \in OpWords
      BY <2>1, <3>1
    <3>3. SubSeq(s.op, 1, k) \in Seq(OpWords)
      BY <3>1, <3>2, SubSeqProperties
    <3>4. QED BY <3>1, <3>3
  <2>3. take \in Seq(OpWords)
    <3>1. PICK k \in Int : k = open + 1 /\ k >= 1
      BY <2>1
    <3>2. \A i \in k .. Len(s.op) : s.op[i] \in OpWords
      BY <2>1, <3>1
    <3>3. SubSeq(s.op, k, Len(s.op)) \in Seq(OpWords)
      BY <2>1, <3>1, <3>2, SubSeqProperties
    <3>4. QED BY <3>1, <3>3
  <2>4. PostfixWord(s, word) = [op |-> keep, output |-> s.output \o Reverse(take)]
    BY <1>4, SignsAre DEF PostfixWord
  <2> HIDE DEF open, keep, take
  <2>5. Reverse(take) \in Seq(Words)
    BY <1>1, <2>3, ReverseType, SeqMonotonic
  <2>6. s.output \o Reverse(take) \in Seq(Words)
    BY <1>1, <2>5, ConcatProperties
  <2>7. QED BY <2>2, <2>4, <2>6 DEF PostState
<1>5. CASE word \notin Class \cup {"not"} \cup OpWords \cup DOMAIN Opening
  <2>1. PostfixWord(s, word) = s
    BY <1>5 DEF PostfixWord, OpWords
  <2>2. QED BY <2>1
<1>6. QED BY <1>2, <1>3, <1>4, <1>5

\* F is one turn of postfix's loop, on the words T.
Converts(F, T) == \A s \in PostState, word \in T : F[<<s, word>>] = PostfixWord(s, word)

\* One turn of postfix, whatever the words, is the body of a loop that keeps the state well
\* formed.
LEMMA TurnIsThere == \A T : \E F : Converts(F, T) /\ IsBody(F, PostState, T)
<1> TAKE T
<1> DEFINE F == [p \in PostState \X T |-> PostfixWord(p[1], p[2])]
<1>1. \A s \in PostState, word \in T : F[<<s, word>>] = PostfixWord(s, word)
  OBVIOUS
<1> HIDE DEF F
<1>2. Converts(F, T) /\ IsBody(F, PostState, T)
  BY <1>1, PostfixWordType DEF Converts, IsBody
<1>3. QED BY <1>2

\* The loop of postfix ends where a loop with that body does.
LEMMA TurnsAreRun ==
  ASSUME NEW T, NEW F, Converts(F, T), IsBody(F, PostState, T),
         NEW s \in PostState, NEW w \in Seq(T)
  PROVE  Turns(s, w) = Run(F, PostState, s, w) /\ Turns(s, w) \in PostState
<1> DEFINE Is(f) == f = [n \in 0 .. Len(w) |-> IF n = 0 THEN s ELSE PostfixWord(f[n - 1], w[n])]
           turn == CHOOSE f : Is(f)
<1>1. PICK g \in [0 .. Len(w) -> PostState] :
        Follows(g, F, s, w) /\ Run(F, PostState, s, w) = g[Len(w)]
  BY RunIsThere
<1>2. Len(w) \in Nat /\ \A n \in 1 .. Len(w) : w[n] \in T
  BY LenProperties, ElementOfSeq
<1>3. ASSUME NEW n \in 1 .. Len(w) PROVE g[n] = PostfixWord(g[n - 1], w[n])
  <2>1. n - 1 \in 0 .. Len(w) /\ w[n] \in T
    BY <1>2
  <2>2. g[n - 1] \in PostState /\ g[n] = F[<<g[n - 1], w[n]>>]
    BY <1>1, <2>1 DEF Follows
  <2>3. QED BY <2>1, <2>2 DEF Converts
<1>4. Is(g)
  <2>1. g[0] = s /\ g = [n \in 0 .. Len(w) |-> g[n]]
    BY <1>1 DEF Follows
  <2>2. \A n \in 0 .. Len(w) : n # 0 => n \in 1 .. Len(w)
    BY <1>2
  <2>3. QED BY <1>3, <2>1, <2>2
<1>5. Is(turn)
  BY <1>4
<1>6. Turns(s, w) = turn[Len(w)]
  BY DEF Turns
<1> HIDE DEF turn
<1>7. turn[0] = s /\ \A n \in 1 .. Len(w) : turn[n] = PostfixWord(turn[n - 1], w[n])
  BY <1>2, <1>5
<1>8. DEFINE P == {n \in 0 .. Len(w) : turn[n] = g[n]}
<1>9. 0 \in P
  BY <1>1, <1>2, <1>7 DEF Follows
<1>10. ASSUME NEW n \in 1 .. Len(w), n - 1 \in P PROVE n \in P
  BY <1>2, <1>3, <1>7, <1>10
<1> HIDE DEF P
<1>11. \A n \in 0 .. Len(w) : n \in P
  BY <1>2, <1>9, <1>10, UpTo
<1>12. turn[Len(w)] = g[Len(w)] /\ g[Len(w)] \in PostState
  BY <1>2, <1>11 DEF P
<1>13. QED BY <1>1, <1>6, <1>12

\* Whatever the words are.
LEMMA TurnsType ==
  ASSUME NEW T, NEW s \in PostState, NEW w \in Seq(T)
  PROVE  Turns(s, w) \in PostState
<1>1. PICK F : Converts(F, T) /\ IsBody(F, PostState, T)
  BY TurnIsThere
<1>2. QED BY <1>1, TurnsAreRun

\* What make_space makes words of.
Atoms == Words \cup DOMAIN Opening

\* No word, one, or the words of two parts.
LEMMA TurnsLaws ==
  ASSUME NEW s \in PostState
  PROVE  /\ Turns(s, <<>>) = s
         /\ \A word \in Atoms : Turns(s, <<word>>) = PostfixWord(s, word)
         /\ \A v, w \in Seq(Atoms) : /\ Turns(s, v) \in PostState
                                 /\ Turns(s, v \o w) = Turns(Turns(s, v), w)
<1>1. PICK F : Converts(F, Atoms) /\ IsBody(F, PostState, Atoms)
  BY TurnIsThere
<1>2. \A z \in PostState, w \in Seq(Atoms) :
        Turns(z, w) = Run(F, PostState, z, w) /\ Turns(z, w) \in PostState
  BY <1>1, TurnsAreRun
<1>3. Turns(s, <<>>) = s
  <2>1. Run(F, PostState, s, <<>>) = s
    BY <1>1, RunEmpty
  <2>2. <<>> \in Seq(Atoms)
    BY EmptySeq
  <2>3. QED BY <1>2, <2>1, <2>2
<1>4. ASSUME NEW word \in Atoms PROVE Turns(s, <<word>>) = PostfixWord(s, word)
  <2>1. Run(F, PostState, s, <<word>>) = F[<<s, word>>]
    BY <1>1, RunOne
  <2>2. <<word>> \in Seq(Atoms)
    OBVIOUS
  <2>3. QED BY <1>1, <1>2, <2>1, <2>2 DEF Converts
<1>5. ASSUME NEW v \in Seq(Atoms), NEW w \in Seq(Atoms)
      PROVE  Turns(s, v) \in PostState /\ Turns(s, v \o w) = Turns(Turns(s, v), w)
  <2>1. Run(F, PostState, s, v \o w) = Run(F, PostState, Run(F, PostState, s, v), w)
    BY <1>1, RunConcat
  <2>2. v \o w \in Seq(Atoms)
    BY ConcatProperties
  <2>3. QED BY <1>2, <2>1, <2>2
<1>6. QED BY <1>3, <1>4, <1>5

-----------------------------------------------------------------------------
(***************************************************************************)
(* define_alarm: the values of the parts.                                  *)
(***************************************************************************)
EvalState == [values : Seq(BOOLEAN), isNot : BOOLEAN]

\* An operator leaves truth values on the stack, even when it finds too few.
LEMMA OperateType ==
  ASSUME NEW values \in Seq(BOOLEAN), NEW word
  PROVE  Operate(values, word) \in Seq(BOOLEAN)
<1>1. Len(values) \in Nat /\ \A i \in 1 .. Len(values) : values[i] \in BOOLEAN
  BY LenProperties, ElementOfSeq
<1>2. SubSeq(values, 1, Len(values) - 2) \in Seq(BOOLEAN)
  <2>1. PICK k \in Int : k = Len(values) - 2
    BY <1>1
  <2>2. \A i \in 1 .. k : values[i] \in BOOLEAN
    BY <1>1, <2>1
  <2>3. SubSeq(values, 1, k) \in Seq(BOOLEAN)
    BY <2>1, <2>2, SubSeqProperties
  <2>4. QED BY <2>1, <2>3
<1>3. PICK n : n = Len(values)
  OBVIOUS
<1>4. (IF word = "and" THEN values[n - 1] /\ values[n] ELSE values[n - 1] \/ values[n]) \in BOOLEAN
  OBVIOUS
<1>5. QED BY <1>2, <1>3, <1>4 DEF Operate

\* What an operator makes of two values.
Result(word, x, y) == IF word = "and" THEN x /\ y ELSE x \/ y

\* What an operator says of two conditions is what the joined condition says.
LEMMA ResultIs ==
  /\ \A word, x, y : Result(word, x, y) \in BOOLEAN
  /\ \A picture, hl, hr :
       /\ Result("and", picture \in hl, picture \in hr) = (picture \in hl \cap hr)
       /\ Result("or", picture \in hl, picture \in hr) = (picture \in hl \cup hr)
<1>1. \A word, x, y : Result(word, x, y) \in BOOLEAN
  BY DEF Result
<1>2. ASSUME NEW picture, NEW hl, NEW hr
      PROVE  /\ Result("and", picture \in hl, picture \in hr) = (picture \in hl \cap hr)
             /\ Result("or", picture \in hl, picture \in hr) = (picture \in hl \cup hr)
  BY DEF Result
<1>3. QED BY <1>1, <1>2

\* The two topmost values become one.
LEMMA OperateIs ==
  ASSUME NEW values \in Seq(BOOLEAN), NEW x \in BOOLEAN, NEW y \in BOOLEAN, NEW word
  PROVE  Operate((values \o <<x>>) \o <<y>>, word)
           = values \o <<Result(word, x, y)>>
<1> DEFINE n == Len(values)
           one == values \o <<x>>
           more == one \o <<y>>
           z == Result(word, x, y)
<1>1. /\ n \in Nat /\ z \in BOOLEAN
      /\ <<x>> \in Seq(BOOLEAN) /\ Len(<<x>>) = 1 /\ <<x>>[1] = x
      /\ <<y>> \in Seq(BOOLEAN) /\ Len(<<y>>) = 1 /\ <<y>>[1] = y
  BY LenProperties, ResultIs
<1>2. /\ one \in Seq(BOOLEAN) /\ Len(one) = n + 1 /\ one[n + 1] = x
      /\ \A i \in 1 .. n : one[i] = values[i]
  BY <1>1, ConcatProperties
<1> HIDE DEF one
<1>3. /\ more \in Seq(BOOLEAN) /\ Len(more) = n + 2
      /\ \A i \in 1 .. n : more[i] = values[i]
      /\ more[n + 1] = x /\ more[n + 2] = y
  <2>1. /\ more \in Seq(BOOLEAN) /\ Len(more) = Len(one) + Len(<<y>>)
        /\ \A i \in 1 .. Len(one) + Len(<<y>>) :
             more[i] = IF i <= Len(one) THEN one[i] ELSE <<y>>[i - Len(one)]
    BY <1>2, <1>1, ConcatProperties
  <2>2. \A i \in 1 .. n : i \in 1 .. Len(one) + Len(<<y>>) /\ i <= Len(one)
    BY <1>2, <1>1
  <2>3. /\ n + 1 \in 1 .. Len(one) + Len(<<y>>) /\ n + 1 <= Len(one)
        /\ n + 2 \in 1 .. Len(one) + Len(<<y>>) /\ ~(n + 2 <= Len(one)) /\ (n + 2) - Len(one) = 1
    BY <1>2, <1>1
  <2> HIDE DEF more
  <2>4. QED BY <1>2, <1>1, <2>1, <2>2, <2>3
<1> HIDE DEF more
<1>4. SubSeq(more, 1, n) = values
  <2>1. \A i \in 1 .. n : more[i] \in BOOLEAN
    BY <1>1, <1>3, ElementOfSeq
  <2>2. /\ SubSeq(more, 1, n) \in Seq(BOOLEAN) /\ Len(SubSeq(more, 1, n)) = n
        /\ \A i \in 1 .. n : SubSeq(more, 1, n)[i] = more[i]
    BY <1>1, <2>1, SubSeqProperties
  <2>3. QED BY <1>1, <1>3, <2>2, SeqEqual
<1>5. Operate(more, word) = Append(values, z)
  <2>1. (n + 2) - 2 = n /\ (n + 2) - 1 = n + 1
    BY <1>1
  <2>2. QED BY <1>3, <1>4, <2>1 DEF Operate, Result
<1>6. Append(values, z) = values \o <<z>>
  BY <1>1, AppendIsConcat
<1>7. QED BY <1>5, <1>6 DEF more, one

\* A word keeps the state of define_alarm well formed.
LEMMA EvalWordType ==
  ASSUME NEW s \in EvalState, NEW word, NEW picture
  PROVE  EvalWord(s, word, picture) \in EvalState
<1>1. /\ s = [values |-> s.values, isNot |-> s.isNot]
      /\ s.values \in Seq(BOOLEAN) /\ s.isNot \in BOOLEAN
  BY DEF EvalState
<1>2. CASE word \in Class
  <2>1. EvalWord(s, word, picture)
          = [values |-> Append(s.values, (word \in picture) # s.isNot), isNot |-> FALSE]
    BY <1>2, SignsAre DEF EvalWord, Operand
  <2>2. ((word \in picture) # s.isNot) \in BOOLEAN
    OBVIOUS
  <2>3. QED BY <1>1, <2>1, <2>2 DEF EvalState
<1>3. CASE word \in {"and", "or"}
  <2>1. EvalWord(s, word, picture) = [values |-> Operate(s.values, word), isNot |-> s.isNot]
    BY <1>1, <1>3, SignsAre DEF EvalWord
  <2>2. QED BY <1>1, <2>1, OperateType DEF EvalState
<1>4. CASE word = "not"
  <2>1. EvalWord(s, word, picture) = [values |-> s.values, isNot |-> TRUE]
    BY <1>1, <1>4, SignsAre DEF EvalWord
  <2>2. QED BY <1>1, <2>1 DEF EvalState
<1>5. CASE word \notin Class \cup {"and", "or", "not"}
  <2>1. EvalWord(s, word, picture) = s
    BY <1>5 DEF EvalWord
  <2>2. QED BY <2>1
<1>6. QED BY <1>2, <1>3, <1>4, <1>5

\* F is one turn of define_alarm's loop on this picture, on the words T.
Evals(F, T, picture) ==
  \A s \in EvalState, word \in T : F[<<s, word>>] = EvalWord(s, word, picture)

\* One turn of define_alarm is the body of a loop that keeps the state well formed.
LEMMA EvalIsThere == \A T, picture : \E F : Evals(F, T, picture) /\ IsBody(F, EvalState, T)
<1> TAKE T, picture
<1> DEFINE F == [p \in EvalState \X T |-> EvalWord(p[1], p[2], picture)]
<1>1. \A s \in EvalState, word \in T : F[<<s, word>>] = EvalWord(s, word, picture)
  OBVIOUS
<1> HIDE DEF F
<1>2. Evals(F, T, picture) /\ IsBody(F, EvalState, T)
  BY <1>1, EvalWordType DEF Evals, IsBody
<1>3. QED BY <1>2

\* The loop of define_alarm ends where a loop with that body does.
LEMMA EvaluateIsRun ==
  ASSUME NEW T, NEW picture, NEW F, Evals(F, T, picture), IsBody(F, EvalState, T),
         NEW s \in EvalState, NEW w \in Seq(T)
  PROVE  Evaluate(s, w, picture) = Run(F, EvalState, s, w) /\ Evaluate(s, w, picture) \in EvalState
<1> DEFINE Is(f) == f = [n \in 0 .. Len(w) |-> IF n = 0 THEN s
                                              ELSE EvalWord(f[n - 1], w[n], picture)]
           turn == CHOOSE f : Is(f)
<1>1. PICK g \in [0 .. Len(w) -> EvalState] :
        Follows(g, F, s, w) /\ Run(F, EvalState, s, w) = g[Len(w)]
  BY RunIsThere
<1>2. Len(w) \in Nat /\ \A n \in 1 .. Len(w) : w[n] \in T
  BY LenProperties, ElementOfSeq
<1>3. ASSUME NEW n \in 1 .. Len(w) PROVE g[n] = EvalWord(g[n - 1], w[n], picture)
  <2>1. n - 1 \in 0 .. Len(w) /\ w[n] \in T
    BY <1>2
  <2>2. g[n - 1] \in EvalState /\ g[n] = F[<<g[n - 1], w[n]>>]
    BY <1>1, <2>1 DEF Follows
  <2>3. QED BY <2>1, <2>2 DEF Evals
<1>4. Is(g)
  <2>1. g[0] = s /\ g = [n \in 0 .. Len(w) |-> g[n]]
    BY <1>1 DEF Follows
  <2>2. \A n \in 0 .. Len(w) : n # 0 => n \in 1 .. Len(w)
    BY <1>2
  <2>3. QED BY <1>3, <2>1, <2>2
<1>5. Is(turn)
  BY <1>4
<1>6. Evaluate(s, w, picture) = turn[Len(w)]
  BY DEF Evaluate
<1> HIDE DEF turn
<1>7. turn[0] = s /\ \A n \in 1 .. Len(w) : turn[n] = EvalWord(turn[n - 1], w[n], picture)
  BY <1>2, <1>5
<1>8. DEFINE P == {n \in 0 .. Len(w) : turn[n] = g[n]}
<1>9. 0 \in P
  BY <1>1, <1>2, <1>7 DEF Follows
<1>10. ASSUME NEW n \in 1 .. Len(w), n - 1 \in P PROVE n \in P
  BY <1>2, <1>3, <1>7, <1>10
<1> HIDE DEF P
<1>11. \A n \in 0 .. Len(w) : n \in P
  BY <1>2, <1>9, <1>10, UpTo
<1>12. turn[Len(w)] = g[Len(w)] /\ g[Len(w)] \in EvalState
  BY <1>2, <1>11 DEF P
<1>13. QED BY <1>1, <1>6, <1>12

\* No word, one, or the words of two parts.
LEMMA EvaluateLaws ==
  ASSUME NEW s \in EvalState, NEW picture
  PROVE  /\ Evaluate(s, <<>>, picture) = s
         /\ \A word \in Words : Evaluate(s, <<word>>, picture) = EvalWord(s, word, picture)
         /\ \A v, w \in Seq(Words) :
              /\ Evaluate(s, v, picture) \in EvalState
              /\ Evaluate(s, v \o w, picture) = Evaluate(Evaluate(s, v, picture), w, picture)
<1>1. PICK F : Evals(F, Words, picture) /\ IsBody(F, EvalState, Words)
  BY EvalIsThere
<1>2. \A z \in EvalState, w \in Seq(Words) :
        /\ Evaluate(z, w, picture) = Run(F, EvalState, z, w)
        /\ Evaluate(z, w, picture) \in EvalState
  BY <1>1, EvaluateIsRun
<1>3. Evaluate(s, <<>>, picture) = s
  <2>1. Run(F, EvalState, s, <<>>) = s
    BY <1>1, RunEmpty
  <2>2. <<>> \in Seq(Words)
    BY EmptySeq
  <2>3. QED BY <1>2, <2>1, <2>2
<1>4. ASSUME NEW word \in Words PROVE Evaluate(s, <<word>>, picture) = EvalWord(s, word, picture)
  <2>1. Run(F, EvalState, s, <<word>>) = F[<<s, word>>]
    BY <1>1, RunOne
  <2>2. <<word>> \in Seq(Words)
    OBVIOUS
  <2>3. QED BY <1>1, <1>2, <2>1, <2>2 DEF Evals
<1>5. ASSUME NEW v \in Seq(Words), NEW w \in Seq(Words)
      PROVE  /\ Evaluate(s, v, picture) \in EvalState
             /\ Evaluate(s, v \o w, picture) = Evaluate(Evaluate(s, v, picture), w, picture)
  <2>1. Run(F, EvalState, s, v \o w) = Run(F, EvalState, Run(F, EvalState, s, v), w)
    BY <1>1, RunConcat
  <2>2. v \o w \in Seq(Words)
    BY ConcatProperties
  <2>3. QED BY <1>2, <2>1, <2>2
<1>6. QED BY <1>3, <1>4, <1>5

-----------------------------------------------------------------------------
(***************************************************************************)
(* What each word does.                                                    *)
(***************************************************************************)
Brackets == {<<"(", ")">>, <<"{", "}">>, <<"[", "]">>}

\* An operand is put out, an operator or an opening bracket waits.
LEMMA PostfixWordIs ==
  ASSUME NEW s \in PostState
  PROVE  /\ \A word \in Class \cup {"not"} :
              PostfixWord(s, word) = [op |-> s.op, output |-> s.output \o <<word>>]
         /\ \A word \in OpWords :
              PostfixWord(s, word) = [op |-> s.op \o <<word>>, output |-> s.output]
<1>1. /\ s = [op |-> s.op, output |-> s.output] /\ s.op \in Seq(OpWords) /\ s.output \in Seq(Words)
  BY DEF PostState
<1>2. ASSUME NEW word \in Class \cup {"not"}
      PROVE  PostfixWord(s, word) = [op |-> s.op, output |-> s.output \o <<word>>]
  <2>1. word \in Words
    BY SignsAre
  <2>2. Append(s.output, word) = s.output \o <<word>>
    BY <1>1, <2>1, AppendIsConcat
  <2>3. PostfixWord(s, word) = [op |-> s.op, output |-> Append(s.output, word)]
    BY <1>1, SignsAre DEF PostfixWord
  <2>4. QED BY <2>2, <2>3
<1>3. ASSUME NEW word \in OpWords
      PROVE  PostfixWord(s, word) = [op |-> s.op \o <<word>>, output |-> s.output]
  <2>1. Append(s.op, word) = s.op \o <<word>>
    BY <1>1, AppendIsConcat
  <2>2. PostfixWord(s, word) = [op |-> Append(s.op, word), output |-> s.output]
    BY <1>1, SignsAre DEF PostfixWord, OpWords
  <2>3. QED BY <2>1, <2>2
<1>4. QED BY <1>2, <1>3

\* A closing bracket puts out what waits since its opening one, in reverse.
LEMMA ClosingIs ==
  ASSUME NEW b \in Brackets, NEW p \in Seq(OpWords), NEW q \in Seq(OpWords),
         NEW output \in Seq(Words), \A i \in 1 .. Len(q) : q[i] # b[1]
  PROVE  PostfixWord([op |-> (p \o <<b[1]>>) \o q, output |-> output], b[2])
           = [op |-> IF b[2] = ")" THEN p ELSE p \o <<b[1]>>, output |-> output \o Reverse(q)]
<1> DEFINE stack == (p \o <<b[1]>>) \o q
           open == Len(p) + 1
<1>1. b[1] \in OpWords /\ b[2] \in DOMAIN Opening /\ Opening[b[2]] = b[1]
  <2>1. \/ b[1] = "(" /\ b[2] = ")"
        \/ b[1] = "{" /\ b[2] = "}"
        \/ b[1] = "[" /\ b[2] = "]"
    <3>1. b = <<"(", ")">> \/ b = <<"{", "}">> \/ b = <<"[", "]">>
      BY DEF Brackets
    <3>2. /\ <<"(", ")">>[1] = "(" /\ <<"(", ")">>[2] = ")"
          /\ <<"{", "}">>[1] = "{" /\ <<"{", "}">>[2] = "}"
          /\ <<"[", "]">>[1] = "[" /\ <<"[", "]">>[2] = "]"
      OBVIOUS
    <3>3. QED BY <3>1, <3>2, Zenon
  <2>2. QED BY <2>1, SignsAre DEF OpWords
<1>2. /\ Len(p) \in Nat /\ Len(q) \in Nat /\ open \in Nat
      /\ p \o <<b[1]>> \in Seq(OpWords) /\ Len(p \o <<b[1]>>) = open
      /\ (p \o <<b[1]>>)[open] = b[1] /\ \A i \in 1 .. Len(p) : (p \o <<b[1]>>)[i] = p[i]
  <2>1. <<b[1]>> \in Seq(OpWords) /\ Len(<<b[1]>>) = 1 /\ <<b[1]>>[1] = b[1]
    BY <1>1
  <2>2. Len(p) \in Nat /\ Len(q) \in Nat
    BY LenProperties
  <2>3. QED BY <2>1, <2>2, ConcatProperties
<1>3. /\ stack \in Seq(OpWords) /\ Len(stack) = open + Len(q) /\ stack[open] = b[1]
      /\ \A i \in 1 .. Len(p) : stack[i] = p[i]
      /\ \A i \in 1 .. Len(q) : stack[open + i] = q[i]
  <2>1. PICK u \in Seq(OpWords) : u = p \o <<b[1]>>
    BY <1>2
  <2>2. /\ u \o q \in Seq(OpWords) /\ Len(u \o q) = Len(u) + Len(q)
        /\ \A i \in 1 .. Len(u) + Len(q) :
             (u \o q)[i] = IF i <= Len(u) THEN u[i] ELSE q[i - Len(u)]
    BY <2>1, ConcatProperties
  <2>3. \A i \in 1 .. Len(p) : i \in 1 .. Len(u) + Len(q) /\ i <= Len(u)
    BY <1>2, <2>1
  <2>4. \A i \in 1 .. Len(q) :
          open + i \in 1 .. Len(u) + Len(q) /\ ~(open + i <= Len(u)) /\ (open + i) - Len(u) = i
    BY <1>2, <2>1
  <2>5. open \in 1 .. Len(u) + Len(q) /\ open <= Len(u)
    BY <1>2, <2>1
  <2>6. QED BY <1>2, <2>1, <2>2, <2>3, <2>4, <2>5
<1>4. \A i \in 1 .. Len(stack) : i > open => i - open \in 1 .. Len(q) /\ stack[i] = q[i - open]
  <2>1. \A i \in 1 .. Len(stack) : i > open => i - open \in 1 .. Len(q) /\ open + (i - open) = i
    BY <1>2, <1>3
  <2>2. QED BY <1>3, <2>1
<1> HIDE DEF stack
<1>5. Topmost(stack, b[1]) = open
  <2> DEFINE at == {0} \cup {i \in DOMAIN stack : stack[i] = b[1]}
  <2>1. DOMAIN stack = 1 .. Len(stack) /\ Len(stack) \in Nat
    BY <1>3, LenProperties
  <2>2. at \in SUBSET Nat /\ open \in at
    BY <1>2, <1>3, <2>1
  <2>3. \A i \in at : i <= open
    <3>1. \A i \in 1 .. Len(stack) : i > open => stack[i] # b[1]
      BY <1>4
    <3>2. 0 <= open /\ \A i \in 1 .. Len(stack) : ~(i > open) => i <= open
      BY <1>2
    <3> HIDE DEF open
    <3>3. QED BY <2>1, <3>1, <3>2
  <2>4. QED BY <2>2, <2>3, MaxUnique DEF Topmost
<1>6. SubSeq(stack, open + 1, Len(stack)) = q
  <2>1. PICK m \in Int, n \in Int :
          m = open + 1 /\ n = Len(stack) /\ n - m + 1 = Len(q) /\ (m <= n <=> Len(q) # 0)
    <3>1. open + 1 \in Int /\ Len(stack) \in Int
      BY <1>2, <1>3
    <3>2. Len(stack) - (open + 1) + 1 = Len(q) /\ (open + 1 <= Len(stack) <=> Len(q) # 0)
      BY <1>2, <1>3
    <3>3. QED BY <3>1, <3>2
  <2>2. \A i \in m .. n : stack[i] \in OpWords
    BY <1>2, <1>3, <2>1, ElementOfSeq
  <2>3. /\ SubSeq(stack, m, n) \in Seq(OpWords)
        /\ Len(SubSeq(stack, m, n)) = IF m <= n THEN n - m + 1 ELSE 0
        /\ \A i \in 1 .. n - m + 1 : SubSeq(stack, m, n)[i] = stack[m + i - 1]
    BY <2>2, SubSeqProperties
  <2>4. Len(SubSeq(stack, m, n)) = Len(q)
    BY <1>2, <2>1, <2>3
  <2>5. \A i \in 1 .. Len(q) : m + i - 1 = open + i
    BY <1>2, <2>1
  <2>6. \A i \in 1 .. Len(q) : SubSeq(stack, m, n)[i] = q[i]
    BY <1>3, <2>1, <2>3, <2>5
  <2>7. SubSeq(stack, m, n) = q
    BY <2>3, <2>4, <2>6, SeqEqual
  <2>8. QED BY <2>1, <2>7
<1>7. SubSeq(stack, 1, open - 1) = p /\ SubSeq(stack, 1, open) = p \o <<b[1]>>
  <2>1. ASSUME NEW r \in Seq(OpWords), Len(r) \in 0 .. open,
               \A i \in 1 .. Len(r) : r[i] = stack[i]
        PROVE  SubSeq(stack, 1, Len(r)) = r
    <3>1. PICK n \in Int : n = Len(r) /\ n \in Nat
      BY <1>2, <2>1
    <3>2. \A i \in 1 .. n : stack[i] \in OpWords
      BY <2>1, <3>1, ElementOfSeq
    <3>3. /\ SubSeq(stack, 1, n) \in Seq(OpWords)
          /\ Len(SubSeq(stack, 1, n)) = IF 1 <= n THEN n - 1 + 1 ELSE 0
          /\ \A i \in 1 .. n - 1 + 1 : SubSeq(stack, 1, n)[i] = stack[1 + i - 1]
      BY <3>2, SubSeqProperties
    <3>4. /\ Len(SubSeq(stack, 1, n)) = Len(r) /\ n - 1 + 1 = Len(r)
          /\ \A i \in 1 .. Len(r) : 1 + i - 1 = i
      BY <3>1, <3>3
    <3>5. \A i \in 1 .. Len(r) : SubSeq(stack, 1, n)[i] = r[i]
      BY <2>1, <3>3, <3>4
    <3>6. QED BY <3>1, <3>3, <3>4, <3>5, SeqEqual
  <2>2. SubSeq(stack, 1, Len(p)) = p
    BY <1>2, <1>3, <2>1
  <2>3. PICK u \in Seq(OpWords) : u = p \o <<b[1]>>
    BY <1>2
  <2>4. \A i \in 1 .. Len(u) : u[i] = stack[i]
    BY <1>2, <1>3, <2>3
  <2>5. SubSeq(stack, 1, Len(u)) = u
    BY <1>2, <2>1, <2>3, <2>4
  <2>6. QED BY <1>2, <2>2, <2>3, <2>5
<1>8. PostfixWord([op |-> stack, output |-> output], b[2])
        = [op |-> SubSeq(stack, 1, IF b[2] = ")" THEN open - 1 ELSE open),
           output |-> output \o Reverse(SubSeq(stack, open + 1, Len(stack)))]
  BY <1>1, <1>5, SignsAre DEF PostfixWord
<1>9. QED BY <1>6, <1>7, <1>8 DEF stack

Vals(v) == [values |-> v, isNot |-> FALSE]

\* Values with no `not' before the next class are a state of define_alarm.
LEMMA ValsType == \A v \in Seq(BOOLEAN) : Vals(v) \in EvalState
BY DEF Vals, EvalState

\* A class is looked up, an operator joins the two topmost values, a bracket does nothing.
LEMMA EvalWordIs ==
  ASSUME NEW v \in Seq(BOOLEAN), NEW picture
  PROVE  /\ \A class \in Class :
              EvalWord(Vals(v), class, picture) = Vals(v \o <<class \in picture>>)
         /\ \A class \in Class :
              EvalWord(EvalWord(Vals(v), "not", picture), class, picture)
                = Vals(v \o <<class \notin picture>>)
         /\ \A word \in {"(", "{", "["}, s \in EvalState : EvalWord(s, word, picture) = s
<1>1. \A x \in BOOLEAN : Append(v, x) = v \o <<x>>
  BY AppendIsConcat
<1>2. ASSUME NEW class \in Class
      PROVE  /\ EvalWord(Vals(v), class, picture) = Vals(v \o <<class \in picture>>)
             /\ EvalWord(EvalWord(Vals(v), "not", picture), class, picture)
                  = Vals(v \o <<class \notin picture>>)
  <2>1. ((class \in picture) # FALSE) = (class \in picture)
    <3>1. CASE class \in picture
      <4>1. (class \in picture) = TRUE
        BY <3>1
      <4>2. ((class \in picture) # FALSE) = (TRUE # FALSE) /\ (class \in picture) = (TRUE # FALSE)
        BY <3>1, <4>1
      <4>3. QED BY <4>2
    <3>2. CASE class \notin picture
      <4>1. (class \in picture) = FALSE
        BY <3>2
      <4>2. ((class \in picture) # FALSE) = (FALSE # FALSE)
        BY <4>1, Zenon
      <4>3. (class \in picture) = (FALSE # FALSE)
        BY <3>2
      <4>4. QED BY <4>2, <4>3
    <3>3. QED BY <3>1, <3>2
  <2>2. ((class \in picture) # TRUE) = (class \notin picture)
    <3>1. CASE class \in picture
      <4>1. (class \in picture) = TRUE
        BY <3>1
      <4>2. ((class \in picture) # TRUE) = (TRUE # TRUE) /\ (class \notin picture) = (TRUE # TRUE)
        BY <3>1, <4>1
      <4>3. QED BY <4>2
    <3>2. CASE class \notin picture
      <4>1. (class \in picture) = FALSE
        BY <3>2
      <4>2. ((class \in picture) # TRUE) = (FALSE # TRUE)
        BY <4>1, Zenon
      <4>3. (class \notin picture) = (FALSE # TRUE)
        BY <3>2
      <4>4. QED BY <4>2, <4>3
    <3>3. QED BY <3>1, <3>2
  <2>3. \A s : EvalWord(s, class, picture) = Operand(s, class, picture)
    BY SignsAre DEF EvalWord
  <2>4. EvalWord(Vals(v), class, picture) = Vals(Append(v, (class \in picture) # FALSE))
    <3>1. Vals(v).values = v /\ Vals(v).isNot = FALSE
      BY DEF Vals
    <3>2. QED BY <2>3, <3>1, Zenon DEF Operand, Vals
  <2>5. EvalWord(Vals(v), "not", picture) = [values |-> v, isNot |-> TRUE]
    BY SignsAre DEF EvalWord, Vals
  <2>6. EvalWord([values |-> v, isNot |-> TRUE], class, picture)
          = Vals(Append(v, (class \in picture) # TRUE))
    BY <2>3, Zenon DEF Operand, Vals
  <2>7. PICK x \in BOOLEAN, y \in BOOLEAN :
          /\ EvalWord(Vals(v), class, picture) = Vals(Append(v, x))
          /\ EvalWord(EvalWord(Vals(v), "not", picture), class, picture) = Vals(Append(v, y))
          /\ x = (class \in picture) /\ y = (class \notin picture)
    BY <2>1, <2>2, <2>4, <2>5, <2>6
  <2>8. QED BY <1>1, <2>7
<1>3. \A word \in {"(", "{", "["}, s \in EvalState : EvalWord(s, word, picture) = s
  BY SignsAre DEF EvalWord
<1>4. QED BY <1>2, <1>3

-----------------------------------------------------------------------------
(***************************************************************************)
(* A line compiles to the words it puts out and those that wait at its     *)
(* end, whatever was there before it; and together, what waits in reverse, *)
(* they add one value to any there are.                                    *)
(***************************************************************************)
After(s, pend, out) == [op |-> s.op \o pend, output |-> s.output \o out]

Compiles(line, holds, kinds, out, pend) ==
  /\ line \in Seq(Seq(Atoms)) /\ line # <<>> /\ holds \in SUBSET Pictures
  /\ out \in Seq(Words) /\ pend \in Seq({"and", "or"} \cup kinds)
  /\ \A s \in PostState : Turns(s, MakeSpace(line)) = After(s, pend, out)
  /\ \A v \in Seq(BOOLEAN), picture \in Pictures :
       Evaluate(Vals(v), out \o Reverse(pend), picture) = Vals(v \o <<picture \in holds>>)

\* Nothing waits, or a bracket that means nothing to define_alarm.
Idle(pend) == pend = <<>> \/ \E kind \in {"{", "["} : pend = <<kind>>

\* What is left waiting then changes nothing, and reads the same reversed.
LEMMA IdleDoesNothing ==
  ASSUME NEW pend, Idle(pend), NEW s \in EvalState, NEW picture
  PROVE  Reverse(pend) = pend /\ Evaluate(s, pend, picture) = s
<1>1. CASE pend = <<>>
  <2>1. Reverse(<<>>) = <<>>
    <3>1. <<>> \in Seq({}) /\ Len(<<>>) = 0
      OBVIOUS
    <3>2. Reverse(<<>>) \in Seq({}) /\ Len(Reverse(<<>>)) = 0
      BY <3>1, ReverseType
    <3>3. QED BY <3>2, EmptySeq
  <2>2. Evaluate(s, <<>>, picture) = s
    BY EvaluateLaws
  <2>3. QED BY <1>1, <2>1, <2>2
<1>2. ASSUME NEW kind \in {"{", "["}, pend = <<kind>>
      PROVE  Reverse(pend) = pend /\ Evaluate(s, pend, picture) = s
  <2>1. kind \in Words /\ kind \notin Class /\ kind \notin {"and", "or", "not"}
    BY SignsAre
  <2>2. /\ Evaluate(s, <<kind>>, picture) = EvalWord(s, kind, picture)
        /\ EvalWord(s, kind, picture) = s
    BY <2>1, EvaluateLaws DEF EvalWord
  <2>3. QED BY <1>2, <2>1, <2>2, ReverseOne
<1>3. QED BY <1>1, <1>2 DEF Idle

\* A class, and one with `not' before it.
LEMMA SeenCompiles ==
  ASSUME NEW class \in Class
  PROVE  Compiles(Seen(class).line, Seen(class).holds, {}, <<class>>, <<>>)
<1>1. /\ Seen(class).line = << <<class>> >>
      /\ Seen(class).holds = {picture \in Pictures : class \in picture}
  BY DEF Seen
<1>2. class \in Words /\ class \in Atoms
  BY SignsAre DEF Atoms
<1>3. /\ <<class>> \in Seq(Atoms) /\ << <<class>> >> \in Seq(Seq(Atoms)) /\ << <<class>> >> # <<>>
      /\ <<class>> \in Seq(Words) /\ <<>> \in Seq({"and", "or"} \cup {})
  <2>1. <<class>> \in Seq(Atoms) /\ <<class>> \in Seq(Words)
    BY <1>2
  <2>2. << <<class>> >> \in Seq(Seq(Atoms)) /\ << <<class>> >> # <<>>
    BY <2>1
  <2>3. QED BY <2>1, <2>2, EmptySeq
<1>4. MakeSpace(<< <<class>> >>) = <<class>>
  BY <1>3, FlattenOne DEF MakeSpace
<1>5. ASSUME NEW s \in PostState
      PROVE  Turns(s, <<class>>) = [op |-> s.op \o <<>>, output |-> s.output \o <<class>>]
  <2>1. Turns(s, <<class>>) = PostfixWord(s, class)
    BY <1>2, TurnsLaws
  <2>2. s.op \o <<>> = s.op
    BY ConcatEmptySeq DEF PostState
  <2>3. QED BY <2>1, <2>2, PostfixWordIs
<1>6. ASSUME NEW v \in Seq(BOOLEAN), NEW picture \in Pictures
      PROVE  Evaluate(Vals(v), <<class>> \o Reverse(<<>>), picture)
               = Vals(v \o <<picture \in Seen(class).holds>>)
  <2>1. <<class>> \o Reverse(<<>>) = <<class>>
    <3>1. Idle(<<>>) /\ Vals(v) \in EvalState
      BY ValsType DEF Idle
    <3>2. Reverse(<<>>) = <<>>
      BY <3>1, IdleDoesNothing
    <3>3. QED BY <1>3, <3>2, ConcatEmptySeq
  <2>2. Evaluate(Vals(v), <<class>>, picture) = EvalWord(Vals(v), class, picture)
    BY <1>2, ValsType, EvaluateLaws
  <2>3. (picture \in Seen(class).holds) = (class \in picture)
    BY <1>1
  <2>4. EvalWord(Vals(v), class, picture) = Vals(v \o <<class \in picture>>)
    BY EvalWordIs, ZenonT(40)
  <2>5. QED BY <2>1, <2>2, <2>3, <2>4, Zenon
<1>7. QED BY <1>1, <1>3, <1>4, <1>5, <1>6 DEF Compiles, After

\* A class with `not' before it.
LEMMA NotSeenCompiles ==
  ASSUME NEW class \in Class
  PROVE  Compiles(NotSeen(class).line, NotSeen(class).holds, {}, <<"not", class>>, <<>>)
<1>1. /\ NotSeen(class).line = << <<"not">>, <<class>> >>
      /\ NotSeen(class).holds = {picture \in Pictures : class \notin picture}
  BY DEF NotSeen
<1>2. /\ class \in Words /\ class \in Atoms /\ "not" \in Words /\ "not" \in Atoms
  BY SignsAre DEF Atoms
<1>3. /\ <<class>> \in Seq(Atoms) /\ << <<class>> >> \in Seq(Seq(Atoms))
      /\ <<"not">> \in Seq(Atoms) /\ << <<"not">> >> \in Seq(Seq(Atoms))
      /\ <<"not">> \in Seq(Words) /\ <<class>> \in Seq(Words)
      /\ << <<"not">>, <<class>> >> \in Seq(Seq(Atoms)) /\ << <<"not">>, <<class>> >> # <<>>
      /\ <<"not", class>> \in Seq(Words) /\ <<>> \in Seq({"and", "or"} \cup {})
  <2>1. /\ <<class>> \in Seq(Atoms) /\ <<"not">> \in Seq(Atoms) /\ <<"not", class>> \in Seq(Words)
        /\ <<"not">> \in Seq(Words) /\ <<class>> \in Seq(Words)
    BY <1>2
  <2>2. /\ << <<class>> >> \in Seq(Seq(Atoms)) /\ << <<"not">> >> \in Seq(Seq(Atoms))
        /\ << <<"not">>, <<class>> >> \in Seq(Seq(Atoms)) /\ << <<"not">>, <<class>> >> # <<>>
    BY <2>1
  <2>3. QED BY <2>1, <2>2, EmptySeq
<1>4. <<"not", class>> = <<"not">> \o <<class>>
  OBVIOUS
<1>5. MakeSpace(<< <<"not">>, <<class>> >>) = <<"not", class>>
  <2>1. << <<"not">>, <<class>> >> = << <<"not">> >> \o << <<class>> >>
    OBVIOUS
  <2>2. FlattenSeq(<< <<"not">> >> \o << <<class>> >>)
          = FlattenSeq(<< <<"not">> >>) \o FlattenSeq(<< <<class>> >>)
    BY <1>3, FlattenConcat
  <2>3. FlattenSeq(<< <<"not">> >>) = <<"not">> /\ FlattenSeq(<< <<class>> >>) = <<class>>
    BY <1>3, FlattenOne
  <2>4. QED BY <1>4, <2>1, <2>2, <2>3 DEF MakeSpace
<1>6. ASSUME NEW s \in PostState
      PROVE  Turns(s, <<"not", class>>)
               = [op |-> s.op \o <<>>, output |-> s.output \o <<"not", class>>]
  <2>1. Turns(s, <<"not">> \o <<class>>) = Turns(Turns(s, <<"not">>), <<class>>)
    BY <1>3, TurnsLaws
  <2>2. PICK z \in PostState : z = [op |-> s.op, output |-> s.output \o <<"not">>]
    <3>1. s.op \in Seq(OpWords) /\ s.output \in Seq(Words) /\ s.output \o <<"not">> \in Seq(Words)
      BY <1>3, ConcatProperties DEF PostState
    <3>2. QED BY <3>1 DEF PostState
  <2>3. Turns(s, <<"not">>) = z
    <3>1. Turns(s, <<"not">>) = PostfixWord(s, "not")
      BY <1>2, TurnsLaws
    <3>2. QED BY <2>2, <3>1, PostfixWordIs
  <2>4. Turns(z, <<class>>) = [op |-> z.op, output |-> z.output \o <<class>>]
    <3>1. Turns(z, <<class>>) = PostfixWord(z, class)
      BY <1>2, TurnsLaws
    <3>2. QED BY <3>1, PostfixWordIs
  <2>5. (s.output \o <<"not">>) \o <<class>> = s.output \o (<<"not">> \o <<class>>)
    <3>1. s.output \in Seq(Words)
      BY DEF PostState
    <3>2. QED BY <1>3, <3>1, ConcatAssociative
  <2>6. s.op \o <<>> = s.op
    BY ConcatEmptySeq DEF PostState
  <2>7. z.op = s.op /\ z.output = s.output \o <<"not">>
    BY <2>2
  <2>8. QED BY <1>4, <2>1, <2>3, <2>4, <2>5, <2>6, <2>7, Zenon
<1>7. ASSUME NEW v \in Seq(BOOLEAN), NEW picture \in Pictures
      PROVE  Evaluate(Vals(v), <<"not", class>> \o Reverse(<<>>), picture)
               = Vals(v \o <<picture \in NotSeen(class).holds>>)
  <2>1. <<"not", class>> \o Reverse(<<>>) = <<"not">> \o <<class>>
    <3>1. Idle(<<>>) /\ Vals(v) \in EvalState
      BY ValsType DEF Idle
    <3>2. Reverse(<<>>) = <<>>
      BY <3>1, IdleDoesNothing
    <3>3. QED BY <1>3, <1>4, <3>2, ConcatEmptySeq
  <2>2. Vals(v) \in EvalState
    BY ValsType
  <2>3. Evaluate(Vals(v), <<"not">> \o <<class>>, picture)
          = Evaluate(Evaluate(Vals(v), <<"not">>, picture), <<class>>, picture)
    BY <1>3, <2>2, EvaluateLaws, ZenonT(40)
  <2>4. Evaluate(Vals(v), <<"not">>, picture) = EvalWord(Vals(v), "not", picture)
    BY <1>2, <2>2, EvaluateLaws
  <2>5. Evaluate(EvalWord(Vals(v), "not", picture), <<class>>, picture)
          = EvalWord(EvalWord(Vals(v), "not", picture), class, picture)
    BY <1>2, <2>2, EvalWordType, EvaluateLaws
  <2>6. (picture \in NotSeen(class).holds) = (class \notin picture)
    BY <1>1
  <2>7. EvalWord(EvalWord(Vals(v), "not", picture), class, picture)
          = Vals(v \o <<class \notin picture>>)
    BY EvalWordIs
  <2>8. QED BY <2>1, <2>3, <2>4, <2>5, <2>6, <2>7, Zenon
<1>8. QED BY <1>1, <1>3, <1>5, <1>6, <1>7 DEF Compiles, After

\* What the provers need to know of sequences, of just these members.
LEMMA ConcatWords ==
  /\ \A x, y \in Seq(Words) : x \o y \in Seq(Words)
  /\ \A x, y, z \in Seq(Words) : (x \o y) \o z = x \o (y \o z)
BY ConcatProperties, ConcatAssociative

\* Operators that wait, in a row.
LEMMA ConcatOps ==
  /\ \A x, y \in Seq(OpWords) : x \o y \in Seq(OpWords)
  /\ \A x, y, z \in Seq(OpWords) : (x \o y) \o z = x \o (y \o z)
BY ConcatProperties, ConcatAssociative, SMTT(40)

\* One more value on the stack.
LEMMA ConcatValues == \A v \in Seq(BOOLEAN), x \in BOOLEAN : v \o <<x>> \in Seq(BOOLEAN)
<1> TAKE v \in Seq(BOOLEAN), x \in BOOLEAN
<1>1. <<x>> \in Seq(BOOLEAN)
  OBVIOUS
<1>2. QED BY <1>1, ConcatProperties

\* What a compiled part consists of.
LEMMA CompilesTypes ==
  ASSUME NEW line, NEW holds, NEW kinds, NEW out, NEW pend,
         Compiles(line, holds, kinds, out, pend), kinds \subseteq Range(Opening)
  PROVE  /\ line \in Seq(Seq(Atoms)) /\ line # <<>> /\ MakeSpace(line) \in Seq(Atoms)
         /\ out \in Seq(Words) /\ pend \in Seq(OpWords)
         /\ Reverse(pend) \in Seq(Words) /\ out \o Reverse(pend) \in Seq(Words)
         /\ \A i \in 1 .. Len(pend) : pend[i] \in {"and", "or"} \cup kinds
<1>1. /\ line \in Seq(Seq(Atoms)) /\ line # <<>>
      /\ out \in Seq(Words) /\ pend \in Seq({"and", "or"} \cup kinds)
  BY DEF Compiles
<1>2. MakeSpace(line) \in Seq(Atoms)
  BY <1>1, FlattenType DEF MakeSpace
<1>3. Len(pend) \in Nat /\ \A i \in 1 .. Len(pend) : pend[i] \in {"and", "or"} \cup kinds
  BY <1>1, LenProperties, ElementOfSeq
<1>4. pend \in Seq(OpWords)
  <2>1. \A x \in {"and", "or"} \cup kinds : x \in OpWords
    BY DEF OpWords
  <2>2. PICK K : K = {"and", "or"} \cup kinds
    OBVIOUS
  <2>3. pend \in Seq(K) /\ \A x \in K : x \in OpWords
    BY <1>1, <2>1, <2>2
  <2>4. QED BY <2>3
<1>5. Reverse(pend) \in Seq(Words)
  <2>1. pend \in Seq(Words)
    <3>1. \A x \in OpWords : x \in Words
      BY SignsAre DEF OpWords
    <3>2. QED BY <1>4, <3>1
  <2>2. QED BY <2>1, ReverseType
<1>6. out \o Reverse(pend) \in Seq(Words)
  BY <1>1, <1>5, ConcatProperties
<1>7. QED BY <1>1, <1>2, <1>3, <1>4, <1>5, <1>6

\* Two parts in a row leave what each leaves, in a row.
LEMMA AfterIs ==
  ASSUME NEW s \in PostState, NEW pend \in Seq(OpWords), NEW out \in Seq(Words)
  PROVE  /\ After(s, pend, out) \in PostState
         /\ \A p \in Seq(OpWords), o \in Seq(Words) :
              After(After(s, pend, out), p, o) = After(s, pend \o p, out \o o)
<1>1. s.op \in Seq(OpWords) /\ s.output \in Seq(Words)
  BY DEF PostState
<1>2. s.op \o pend \in Seq(OpWords) /\ s.output \o out \in Seq(Words)
  BY <1>1, ConcatProperties
<1>3. After(s, pend, out) \in PostState
  BY <1>2 DEF After, PostState
<1>4. ASSUME NEW p \in Seq(OpWords), NEW o \in Seq(Words)
      PROVE  After(After(s, pend, out), p, o) = After(s, pend \o p, out \o o)
  <2>1. (s.op \o pend) \o p = s.op \o (pend \o p)
    BY <1>1, ConcatOps
  <2>2. (s.output \o out) \o o = s.output \o (out \o o)
    BY <1>1, ConcatWords
  <2>3. QED BY <2>1, <2>2 DEF After
<1>5. QED BY <1>3, <1>4

\* Two values on the stack, and what an operator leaves of them.
Taken(v, x, y, word, vxy, vz) ==
  vxy = (v \o <<x>>) \o <<y>> /\ vz = v \o <<Result(word, x, y)>>

\* An operator takes two values and leaves one.
LEMMA EvalOperatorIs ==
  ASSUME NEW v \in Seq(BOOLEAN), NEW x \in BOOLEAN, NEW y \in BOOLEAN, NEW word \in {"and", "or"},
         NEW vxy, NEW vz, Taken(v, x, y, word, vxy, vz), NEW picture
  PROVE  EvalWord(Vals(vxy), word, picture) = Vals(vz)
<1>1. EvalWord(Vals(vxy), word, picture) = Vals(Operate(vxy, word))
  BY SignsAre DEF EvalWord, Vals
<1>2. Operate((v \o <<x>>) \o <<y>>, word) = v \o <<Result(word, x, y)>>
  BY OperateIs, ZenonT(40)
<1>3. QED BY <1>1, <1>2 DEF Taken

Passes(l, picture) == \A t \in EvalState : Evaluate(t, l, picture) = t

\* define_alarm on two stretches of words in a row.
LEMMA EvaluateTwo ==
  ASSUME NEW picture, NEW v \in Seq(Words), NEW w \in Seq(Words), NEW s \in EvalState
  PROVE  /\ v \o w \in Seq(Words) /\ Evaluate(s, v, picture) \in EvalState
         /\ Evaluate(s, v \o w, picture) = Evaluate(Evaluate(s, v, picture), w, picture)
<1>1. v \o w \in Seq(Words)
  BY ConcatWords
<1>2. QED BY <1>1, EvaluateLaws, ZenonT(40)

\* define_alarm on one operator.
LEMMA EvaluateOne ==
  ASSUME NEW picture, NEW word \in {"and", "or"}
  PROVE  /\ <<word>> \in Seq(Words)
         /\ \A s \in EvalState : Evaluate(s, <<word>>, picture) = EvalWord(s, word, picture)
<1>1. word \in Words
  BY SignsAre
<1>2. <<word>> \in Seq(Words)
  BY <1>1
<1>3. QED BY <1>1, <1>2, EvaluateLaws

\* A first part and what waits of it, which changes nothing, then a second part and an
\* operator.
LEMMA JoinEvaluates ==
  ASSUME NEW picture, NEW s \in EvalState, NEW sx \in EvalState, NEW sxy \in EvalState,
         NEW sz \in EvalState, NEW outl \in Seq(Words), NEW r \in Seq(Words),
         NEW w \in Seq(Words), NEW l \in Seq(Words), Passes(l, picture),
         Evaluate(s, outl \o l, picture) = sx, Evaluate(sx, r, picture) = sxy,
         Evaluate(sxy, w, picture) = sz
  PROVE  Evaluate(s, outl \o (r \o (w \o l)), picture) = sz
<1>1. Evaluate(s, outl, picture) = sx
  BY EvaluateTwo DEF Passes
<1>2. w \o l \in Seq(Words) /\ Evaluate(sxy, w \o l, picture) = sz
  BY EvaluateTwo DEF Passes
<1>3. r \o (w \o l) \in Seq(Words) /\ Evaluate(sx, r \o (w \o l), picture) = sz
  <2>1. \A q \in Seq(Words) :
          r \o q \in Seq(Words) /\ Evaluate(sx, r \o q, picture) = Evaluate(sxy, q, picture)
    BY EvaluateTwo
  <2>2. QED BY <1>2, <2>1
<1>4. \A q \in Seq(Words) : Evaluate(s, outl \o q, picture) = Evaluate(sx, q, picture)
  BY <1>1, EvaluateTwo
<1>5. QED BY <1>3, <1>4

\* The words of two parts, with what is waiting after them, in another grouping.
LEMMA JoinWords ==
  ASSUME NEW outl \in Seq(Words), NEW outr \in Seq(Words), NEW r \in Seq(Words),
         NEW q \in Seq(Words)
  PROVE  (outl \o outr) \o (r \o q) = outl \o ((outr \o r) \o q)
<1>1. PICK rq \in Seq(Words) : rq = r \o q
  BY ConcatWords
<1>2. (outl \o outr) \o rq = outl \o (outr \o rq)
  BY ConcatWords
<1>3. outr \o (r \o q) = (outr \o r) \o q
  BY ConcatWords, SMTT(30)
<1>4. QED BY <1>1, <1>2, <1>3

\* Two compiled parts with `and' or `or' between them compile to what both say.
LEMMA JoinCompiles ==
  ASSUME NEW ll, NEW hl, NEW kl \in SUBSET Range(Opening), NEW outl, NEW pl,
         Compiles(ll, hl, kl, outl, pl), Idle(pl),
         NEW lr, NEW hr, NEW kr \in SUBSET Range(Opening), NEW outr, NEW pr,
         Compiles(lr, hr, kr, outr, pr),
         NEW word \in {"and", "or"}
  PROVE  Compiles((ll \o << <<word>> >>) \o lr, IF word = "and" THEN hl \cap hr ELSE hl \cup hr,
                  kl \cup kr, outl \o outr, (pl \o <<word>>) \o pr)
<1> DEFINE line == (ll \o << <<word>> >>) \o lr
           holds == IF word = "and" THEN hl \cap hr ELSE hl \cup hr
           pend == (pl \o <<word>>) \o pr
<1>1. /\ ll \in Seq(Seq(Atoms)) /\ MakeSpace(ll) \in Seq(Atoms)
      /\ outl \in Seq(Words) /\ pl \in Seq(OpWords)
      /\ Reverse(pl) \in Seq(Words) /\ outl \o Reverse(pl) \in Seq(Words)
  BY CompilesTypes
<1>2. /\ lr \in Seq(Seq(Atoms)) /\ lr # <<>> /\ MakeSpace(lr) \in Seq(Atoms)
      /\ outr \in Seq(Words) /\ pr \in Seq(OpWords)
      /\ Reverse(pr) \in Seq(Words) /\ outr \o Reverse(pr) \in Seq(Words)
  BY CompilesTypes
<1>3. /\ word \in OpWords /\ word \in Words /\ word \in Atoms
      /\ <<word>> \in Seq(OpWords) /\ <<word>> \in Seq(Words) /\ <<word>> \in Seq(Atoms)
      /\ << <<word>> >> \in Seq(Seq(Atoms))
  <2>1. word \in OpWords /\ word \in Words /\ word \in Atoms
    BY SignsAre DEF OpWords, Atoms
  <2>2. <<word>> \in Seq(OpWords) /\ <<word>> \in Seq(Words) /\ <<word>> \in Seq(Atoms)
    BY <2>1
  <2>3. QED BY <2>1, <2>2
<1>4. line \in Seq(Seq(Atoms)) /\ line # <<>>
  <2>1. ll \o << <<word>> >> \in Seq(Seq(Atoms))
    BY <1>1, <1>3, ConcatProperties
  <2>2. line \in Seq(Seq(Atoms)) /\ Len(line) = Len(ll \o << <<word>> >>) + Len(lr)
    BY <1>2, <2>1, ConcatProperties
  <2>3. Len(lr) > 0 /\ Len(ll \o << <<word>> >>) >= 0
    BY <1>2, <2>1, EmptySeq, LenProperties
  <2>4. Len(line) # 0
    <3>1. \A m, n \in Nat : m > 0 => n + m # 0
      OBVIOUS
    <3>2. QED BY <1>2, <2>1, <2>2, <2>3, <3>1, LenProperties
  <2>5. QED BY <2>2, <2>4, EmptySeq
<1>5. holds \in SUBSET Pictures
  BY DEF Compiles
<1>6. outl \o outr \in Seq(Words)
  BY <1>1, <1>2, ConcatProperties
<1>7. pend \in Seq({"and", "or"} \cup (kl \cup kr))
  <2>1. pl \in Seq({"and", "or"} \cup kl) /\ pr \in Seq({"and", "or"} \cup kr)
    BY DEF Compiles
  <2>2. PICK K : K = {"and", "or"} \cup (kl \cup kr)
    OBVIOUS
  <2>3. pl \in Seq(K) /\ pr \in Seq(K) /\ <<word>> \in Seq(K)
    BY <2>1, <2>2
  <2>4. pl \o <<word>> \in Seq(K)
    BY <2>3, ConcatProperties
  <2>5. (pl \o <<word>>) \o pr \in Seq(K)
    BY <2>3, <2>4, ConcatProperties
  <2>6. QED BY <2>2, <2>5
<1>8. MakeSpace(line) = (MakeSpace(ll) \o <<word>>) \o MakeSpace(lr)
  <2>1. PICK u \in Seq(Seq(Atoms)) : u = ll \o << <<word>> >>
    BY <1>1, <1>3, ConcatProperties
  <2>2. FlattenSeq(u) = FlattenSeq(ll) \o FlattenSeq(<< <<word>> >>)
    BY <1>1, <1>3, <2>1, FlattenConcat
  <2>3. FlattenSeq(<< <<word>> >>) = <<word>>
    BY <1>3, FlattenOne
  <2>4. FlattenSeq(u \o lr) = FlattenSeq(u) \o FlattenSeq(lr)
    BY <1>2, <2>1, FlattenConcat
  <2>5. QED BY <2>1, <2>2, <2>3, <2>4 DEF MakeSpace
<1>9. ASSUME NEW s \in PostState
      PROVE  Turns(s, MakeSpace(line)) = After(s, pend, outl \o outr)
  <2>1. PICK v \in Seq(Atoms) : v = MakeSpace(ll) \o <<word>>
    BY <1>1, <1>3, ConcatProperties
  <2>2. Turns(s, v) = Turns(Turns(s, MakeSpace(ll)), <<word>>)
    BY <1>1, <1>3, <2>1, TurnsLaws, ZenonT(40)
  <2>3. Turns(s, v \o MakeSpace(lr)) = Turns(Turns(s, v), MakeSpace(lr))
    BY <1>2, <2>1, TurnsLaws, ZenonT(40)
  <2>4. PICK z \in PostState : z = After(s, pl, outl)
    BY <1>1, AfterIs
  <2>5. PICK y \in PostState : y = After(s, pl \o <<word>>, outl)
    <3>1. pl \o <<word>> \in Seq(OpWords)
      BY <1>1, <1>3, ConcatProperties
    <3>2. QED BY <1>1, <3>1, AfterIs
  <2>6. Turns(s, MakeSpace(ll)) = z
    BY <2>4 DEF Compiles
  <2>7. Turns(z, <<word>>) = y
    <3>1. Turns(z, <<word>>) = PostfixWord(z, word)
      BY <1>3, <2>4, TurnsLaws
    <3>2. PostfixWord(z, word) = [op |-> z.op \o <<word>>, output |-> z.output]
      BY <1>3, <2>4, PostfixWordIs
    <3>3. z.op \o <<word>> = y.op /\ z.output = y.output
      <4>1. s.op \in Seq(OpWords)
        BY DEF PostState
      <4>2. (s.op \o pl) \o <<word>> = s.op \o (pl \o <<word>>)
        BY <1>1, <1>3, <4>1, ConcatOps
      <4>3. QED BY <2>4, <2>5, <4>2 DEF After
    <3>4. y = [op |-> y.op, output |-> y.output]
      BY <2>5 DEF PostState
    <3>5. QED BY <3>1, <3>2, <3>3, <3>4
  <2>8. Turns(y, MakeSpace(lr)) = After(y, pr, outr)
    BY <2>5 DEF Compiles
  <2>9. After(y, pr, outr) = After(s, (pl \o <<word>>) \o pr, outl \o outr)
    <3>1. pl \o <<word>> \in Seq(OpWords) /\ outl \in Seq(Words)
      BY <1>1, <1>3, ConcatOps
    <3>2. outr \in Seq(Words) /\ pr \in Seq(OpWords)
      BY <1>2
    <3>3. \A p \in Seq(OpWords) :
            After(After(s, p, outl), pr, outr) = After(s, p \o pr, outl \o outr)
      BY <3>1, <3>2, AfterIs
    <3>4. QED BY <2>5, <3>1, <3>3
  <2>10. QED BY <1>8, <2>1, <2>2, <2>3, <2>6, <2>7, <2>8, <2>9
<1>10. ASSUME NEW v \in Seq(BOOLEAN), NEW picture \in Pictures
       PROVE  Evaluate(Vals(v), (outl \o outr) \o Reverse(pend), picture)
                = Vals(v \o <<picture \in holds>>)
  <2>1. Reverse(pend) = Reverse(pr) \o (<<word>> \o Reverse(pl))
    <3>1. pl \o <<word>> \in Seq(OpWords)
      BY <1>1, <1>3, ConcatProperties
    <3>2. Reverse((pl \o <<word>>) \o pr) = Reverse(pr) \o Reverse(pl \o <<word>>)
      BY <1>2, <3>1, ReverseConcat
    <3>3. Reverse(pl \o <<word>>) = Reverse(<<word>>) \o Reverse(pl)
      BY <1>1, <1>3, ReverseConcat
    <3>4. QED BY <3>2, <3>3, ReverseOne
  <2>2. PICK q \in Seq(Words) : q = <<word>> \o Reverse(pl)
    BY <1>1, <1>3, ConcatProperties
  <2>3. PICK r \in Seq(Words) : r = outr \o Reverse(pr)
    BY <1>2
  <2>4. (outl \o outr) \o Reverse(pend) = outl \o (r \o q)
    <3>1. PICK u \in Seq(Words) : u = Reverse(pr)
      BY <1>2
    <3>2. outl \in Seq(Words) /\ outr \in Seq(Words) /\ u \in Seq(Words) /\ q \in Seq(Words)
      BY <1>1, <1>2, <2>2, <3>1
    <3>3. (outl \o outr) \o (u \o q) = outl \o ((outr \o u) \o q)
      <4>1. u \o q \in Seq(Words)
        BY <3>2, ConcatWords
      <4>2. \A w \in Seq(Words) : (outl \o outr) \o w = outl \o (outr \o w)
        BY <3>2, ConcatWords
      <4>3. outr \o (u \o q) = (outr \o u) \o q
        BY <3>2, ConcatWords, SMTT(40)
      <4>4. QED BY <4>1, <4>2, <4>3
    <3>4. QED BY <2>1, <2>2, <2>3, <3>1, <3>3
  <2>5. PICK x \in BOOLEAN, y \in BOOLEAN : x = (picture \in hl) /\ y = (picture \in hr)
    <3>1. (picture \in hl) \in BOOLEAN /\ (picture \in hr) \in BOOLEAN
      OBVIOUS
    <3>2. QED BY <3>1
  <2>6. PICK vx \in Seq(BOOLEAN) : vx = v \o <<x>>
    BY <2>5, ConcatValues
  <2>7. PICK vxy \in Seq(BOOLEAN) : vxy = vx \o <<y>>
    BY <2>5, <2>6, ConcatValues
  <2>8. PICK z \in BOOLEAN : z = Result(word, x, y)
    BY ResultIs
  <2>9. PICK vz \in Seq(BOOLEAN) : vz = v \o <<z>>
    BY <2>8, ConcatValues
  <2>10. PICK s \in EvalState, sx \in EvalState, sxy \in EvalState, sz \in EvalState :
           s = Vals(v) /\ sx = Vals(vx) /\ sxy = Vals(vxy) /\ sz = Vals(vz)
    BY <2>6, <2>7, <2>9, ValsType
  <2>11. EvalWord(sxy, word, picture) = sz
    <3>1. Taken(v, x, y, word, vxy, vz)
      BY <2>6, <2>7, <2>8, <2>9 DEF Taken
    <3>2. EvalWord(Vals(vxy), word, picture) = Vals(vz)
      BY <3>1, EvalOperatorIs
    <3>3. QED BY <2>10, <3>2
  <2>12. Evaluate(s, outl \o (r \o q), picture) = sz
    <3>1. \A t \in EvalState : Evaluate(t, Reverse(pl), picture) = t
      BY IdleDoesNothing
    <3>2. Evaluate(s, outl \o Reverse(pl), picture) = sx
      <4>1. Evaluate(Vals(v), outl \o Reverse(pl), picture) = Vals(v \o <<picture \in hl>>)
        BY DEF Compiles
      <4>2. QED BY <2>5, <2>6, <2>10, <4>1
    <3>3. Evaluate(sx, r, picture) = sxy
      <4>1. Evaluate(Vals(vx), outr \o Reverse(pr), picture) = Vals(vx \o <<picture \in hr>>)
        BY <2>6 DEF Compiles
      <4>2. QED BY <2>3, <2>5, <2>7, <2>10, <4>1
    <3>4. Reverse(pl) \in Seq(Words) /\ Passes(Reverse(pl), picture) /\ outl \in Seq(Words)
      BY <1>1, <3>1 DEF Passes
    <3>5. /\ r \in Seq(Words)
          /\ s \in EvalState /\ sx \in EvalState /\ sxy \in EvalState /\ sz \in EvalState
      BY <2>3, <2>10
    <3>6. <<word>> \in Seq(Words) /\ Evaluate(sxy, <<word>>, picture) = sz
      <4>1. Evaluate(sxy, <<word>>, picture) = EvalWord(sxy, word, picture)
        BY <3>5, EvaluateOne
      <4>2. QED BY <1>3, <2>11, <4>1
    <3>7. \A w, l \in Seq(Words) :
            Passes(l, picture) /\ Evaluate(s, outl \o l, picture) = sx
              /\ Evaluate(sxy, w, picture) = sz
              => Evaluate(s, outl \o (r \o (w \o l)), picture) = sz
      BY <3>3, <3>4, <3>5, JoinEvaluates
    <3>8. QED BY <2>2, <3>2, <3>4, <3>6, <3>7
  <2>13. z = (picture \in holds)
    BY <2>5, <2>8, ResultIs
  <2>14. QED BY <2>4, <2>9, <2>10, <2>12, <2>13
<1> HIDE DEF line, holds, pend
<1>11. Compiles(line, holds, kl \cup kr, outl \o outr, pend)
  BY <1>4, <1>5, <1>6, <1>7, <1>9, <1>10 DEF Compiles
<1>12. QED BY <1>11 DEF line, holds, pend

\* What postfix makes of a pair of brackets.
LEMMA BracketIs ==
  ASSUME NEW b \in Brackets
  PROVE  /\ b[1] \in OpWords /\ b[1] \in Range(Opening) /\ b[1] \in Atoms /\ b[2] \in Atoms
         /\ b[1] \notin {"and", "or"} /\ (b[2] = ")" <=> b[1] = "(") /\ b[1] \in {"(", "{", "["}
<1>1. \/ b[1] = "(" /\ b[2] = ")"
      \/ b[1] = "{" /\ b[2] = "}"
      \/ b[1] = "[" /\ b[2] = "]"
  <2>1. b = <<"(", ")">> \/ b = <<"{", "}">> \/ b = <<"[", "]">>
    BY DEF Brackets
  <2>2. /\ <<"(", ")">>[1] = "(" /\ <<"(", ")">>[2] = ")"
        /\ <<"{", "}">>[1] = "{" /\ <<"{", "}">>[2] = "}"
        /\ <<"[", "]">>[1] = "[" /\ <<"[", "]">>[2] = "]"
    OBVIOUS
  <2>3. QED BY <2>1, <2>2, Zenon
<1>2. QED BY <1>1, SignsAre DEF OpWords, Atoms

\* postfix on two stretches of atoms in a row.
LEMMA TurnsTwo ==
  ASSUME NEW v \in Seq(Atoms), NEW w \in Seq(Atoms), NEW s \in PostState
  PROVE  /\ v \o w \in Seq(Atoms) /\ Turns(s, v) \in PostState
         /\ Turns(s, v \o w) = Turns(Turns(s, v), w)
<1>1. v \o w \in Seq(Atoms)
  BY ConcatProperties
<1>2. QED BY <1>1, TurnsLaws

\* postfix on one atom.
LEMMA TurnsOne ==
  ASSUME NEW word \in Atoms
  PROVE  <<word>> \in Seq(Atoms) /\ \A s \in PostState : Turns(s, <<word>>) = PostfixWord(s, word)
<1>1. <<word>> \in Seq(Atoms)
  OBVIOUS
<1>2. QED BY <1>1, TurnsLaws

\* Three stretches in a row.
LEMMA TurnsThree ==
  ASSUME NEW u \in Seq(Atoms), NEW v \in Seq(Atoms), NEW w \in Seq(Atoms),
         NEW s \in PostState, NEW s1 \in PostState, NEW s2 \in PostState,
         Turns(s, u) = s1, Turns(s1, v) = s2
  PROVE  Turns(s, (u \o v) \o w) = Turns(s2, w)
<1>1. u \o v \in Seq(Atoms) /\ Turns(s, u \o v) = s2
  BY TurnsTwo
<1>2. \A q \in Seq(Atoms) : Turns(s, q \o w) = Turns(Turns(s, q), w)
  BY TurnsTwo
<1>3. QED BY <1>1, <1>2

\* postfix on a part in brackets: the closing one puts out all that waits since the opening
\* one.
LEMMA GroupTurns ==
  ASSUME NEW b \in Brackets, NEW s \in PostState, NEW m \in Seq(Atoms), NEW pend \in Seq(OpWords),
         NEW out \in Seq(Words), \A i \in 1 .. Len(pend) : pend[i] # b[1],
         Reverse(pend) \in Seq(Words), \A z \in PostState : Turns(z, m) = After(z, pend, out)
  PROVE  Turns(s, (<<b[1]>> \o m) \o <<b[2]>>)
           = After(s, IF b[2] = ")" THEN <<>> ELSE <<b[1]>>, out \o Reverse(pend))
<1>1. b[1] \in OpWords /\ b[1] \in Atoms /\ b[2] \in Atoms
  BY BracketIs
<1>2. s.op \in Seq(OpWords) /\ s.output \in Seq(Words) /\ <<b[1]>> \in Seq(OpWords)
  BY <1>1 DEF PostState
<1>3. PICK s1 \in PostState : s1 = [op |-> s.op \o <<b[1]>>, output |-> s.output]
  BY <1>2, ConcatOps DEF PostState
<1>4. Turns(s, <<b[1]>>) = s1
  <2>1. PostfixWord(s, b[1]) = [op |-> s.op \o <<b[1]>>, output |-> s.output]
    BY <1>1, PostfixWordIs
  <2>2. QED BY <1>1, <1>3, <2>1, TurnsOne
<1>5. PICK s2 \in PostState : s2 = After(s1, pend, out)
  BY AfterIs
<1>6. Turns(s, (<<b[1]>> \o m) \o <<b[2]>>) = PostfixWord(s2, b[2])
  <2>1. <<b[1]>> \in Seq(Atoms) /\ <<b[2]>> \in Seq(Atoms)
    BY <1>1, TurnsOne
  <2>2. Turns(s1, m) = s2
    BY <1>5
  <2>3. \A u, w \in Seq(Atoms) : Turns(s, u) = s1 => Turns(s, (u \o m) \o w) = Turns(s2, w)
    BY <2>2, TurnsThree
  <2>4. Turns(s, (<<b[1]>> \o m) \o <<b[2]>>) = Turns(s2, <<b[2]>>)
    BY <1>4, <2>1, <2>3
  <2>5. QED BY <1>1, <2>4, TurnsOne
<1>7. PICK output \in Seq(Words) : output = s.output \o out
  BY <1>2, ConcatWords
<1>8. s2 = [op |-> (s.op \o <<b[1]>>) \o pend, output |-> output]
  BY <1>3, <1>5, <1>7 DEF After
<1>9. PostfixWord([op |-> (s.op \o <<b[1]>>) \o pend, output |-> output], b[2])
        = [op |-> IF b[2] = ")" THEN s.op ELSE s.op \o <<b[1]>>, output |-> output \o Reverse(pend)]
  BY <1>2, ClosingIs
<1>10. output \o Reverse(pend) = s.output \o (out \o Reverse(pend))
  <2>1. \A w \in Seq(Words) : (s.output \o out) \o w = s.output \o (out \o w)
    BY <1>2, ConcatWords
  <2>2. QED BY <1>7, <2>1
<1>11. s.op \o <<>> = s.op
  BY <1>2, ConcatEmptySeq
<1>12. CASE b[2] = ")"
  <2>1. PostfixWord(s2, b[2]) = [op |-> s.op, output |-> s.output \o (out \o Reverse(pend))]
    BY <1>8, <1>9, <1>10, <1>12
  <2>2. After(s, <<>>, out \o Reverse(pend))
          = [op |-> s.op, output |-> s.output \o (out \o Reverse(pend))]
    BY <1>11 DEF After
  <2>3. QED BY <1>6, <1>12, <2>1, <2>2
<1>13. CASE b[2] # ")"
  <2>1. PostfixWord(s2, b[2])
          = [op |-> s.op \o <<b[1]>>, output |-> s.output \o (out \o Reverse(pend))]
    BY <1>8, <1>9, <1>10, <1>13
  <2>2. QED BY <1>6, <1>13, <2>1 DEF After
<1>14. QED BY <1>12, <1>13

\* A part in brackets: all of it is put out, and a bracket that is not round waits.
LEMMA GroupCompiles ==
  ASSUME NEW part, NEW kinds \in SUBSET Range(Opening), NEW out, NEW pend,
         Compiles(part.line, part.holds, kinds, out, pend), NEW b \in Brackets, b[1] \notin kinds
  PROVE  LET left == IF b[2] = ")" THEN <<>> ELSE <<b[1]>>
         IN  /\ Compiles(Bracketed(b[1], part, b[2]), part.holds, {b[1]} \ {"("},
                         out \o Reverse(pend), left)
             /\ Idle(left)
<1> DEFINE left == IF b[2] = ")" THEN <<>> ELSE <<b[1]>>
<1>1. /\ part.line \in Seq(Seq(Atoms)) /\ part.line # <<>> /\ MakeSpace(part.line) \in Seq(Atoms)
      /\ out \in Seq(Words) /\ pend \in Seq(OpWords)
      /\ Reverse(pend) \in Seq(Words) /\ out \o Reverse(pend) \in Seq(Words)
      /\ \A i \in 1 .. Len(pend) : pend[i] \in {"and", "or"} \cup kinds
  BY CompilesTypes
<1>2. /\ b[1] \in OpWords /\ b[1] \in Range(Opening) /\ b[1] \in Atoms /\ b[2] \in Atoms
      /\ b[1] \notin {"and", "or"} /\ (b[2] = ")" <=> b[1] = "(") /\ b[1] \in {"(", "{", "["}
  BY BracketIs
<1>3. /\ Bracketed(b[1], part, b[2]) \in Seq(Seq(Atoms)) \ {<<>>}
      /\ MakeSpace(Bracketed(b[1], part, b[2])) = (<<b[1]>> \o MakeSpace(part.line)) \o <<b[2]>>
  <2>1. PICK open \in Atoms, close \in Atoms : open = b[1] /\ close = b[2]
    BY <1>2
  <2>2. \A w \in Seq(Seq(Atoms)) : w # <<>> /\ part.line = w =>
          /\ Bracketed(open, part, close) \in Seq(Seq(Atoms)) \ {<<>>}
          /\ FlattenSeq(Bracketed(open, part, close)) = (<<open>> \o FlattenSeq(w)) \o <<close>>
    BY <2>1, FlattenBracketed, SMTT(40)
  <2>3. QED BY <1>1, <2>1, <2>2 DEF MakeSpace
<1>4. left \in Seq({"and", "or"} \cup ({b[1]} \ {"("})) /\ Idle(left)
  <2>1. CASE b[2] = ")"
    BY <2>1, EmptySeq DEF Idle
  <2>2. CASE b[2] # ")"
    <3>1. b[1] \in {b[1]} \ {"("} /\ b[1] \in {"{", "["}
      BY <1>2, <2>2
    <3>2. PICK K : K = {"and", "or"} \cup ({b[1]} \ {"("})
      OBVIOUS
    <3>3. \A k \in K : <<k>> \in Seq(K)
      OBVIOUS
    <3>4. QED BY <2>2, <3>1, <3>2, <3>3 DEF Idle
  <2>3. QED BY <2>1, <2>2
<1>5. ASSUME NEW s \in PostState
      PROVE  Turns(s, MakeSpace(Bracketed(b[1], part, b[2]))) = After(s, left, out \o Reverse(pend))
  <2>1. \A z \in PostState : Turns(z, MakeSpace(part.line)) = After(z, pend, out)
    BY DEF Compiles
  <2>2. \A i \in 1 .. Len(pend) : pend[i] # b[1]
    BY <1>1, <1>2
  <2>3. PICK m \in Seq(Atoms) : m = MakeSpace(part.line)
    BY <1>1
  <2>4. /\ \A z \in PostState : Turns(z, m) = After(z, pend, out)
        /\ pend \in Seq(OpWords) /\ out \in Seq(Words) /\ Reverse(pend) \in Seq(Words)
    BY <1>1, <2>1, <2>3
  <2>5. Turns(s, (<<b[1]>> \o m) \o <<b[2]>>) = After(s, left, out \o Reverse(pend))
    BY <2>2, <2>4, GroupTurns
  <2>6. QED BY <1>3, <2>3, <2>5
<1>6. ASSUME NEW v \in Seq(BOOLEAN), NEW picture \in Pictures
      PROVE  Evaluate(Vals(v), (out \o Reverse(pend)) \o Reverse(left), picture)
               = Vals(v \o <<picture \in part.holds>>)
  <2>1. PICK t \in Seq(BOOLEAN) : t = v \o <<picture \in part.holds>>
    <3>1. (picture \in part.holds) \in BOOLEAN
      OBVIOUS
    <3>2. QED BY <3>1, ConcatValues
  <2>2. Evaluate(Vals(v), out \o Reverse(pend), picture) = Vals(t)
    BY <2>1 DEF Compiles
  <2>3. PICK s \in EvalState, sv \in EvalState : s = Vals(t) /\ sv = Vals(v)
    BY <2>1, ValsType
  <2>4. PICK l : l = left
    OBVIOUS
  <2>5. Reverse(l) = l /\ Evaluate(s, l, picture) = s
    BY <1>4, <2>3, <2>4, IdleDoesNothing
  <2>6. l \in Seq(Words)
    <3>1. b[1] \in Words
      BY <1>2, SignsAre
    <3>2. <<>> \in Seq(Words) /\ <<b[1]>> \in Seq(Words)
      BY <3>1, EmptySeq
    <3>3. QED BY <2>4, <3>2
  <2>7. PICK o \in Seq(Words) : o = out \o Reverse(pend)
    BY <1>1
  <2>8. Evaluate(sv, o \o l, picture) = Evaluate(Evaluate(sv, o, picture), l, picture)
    BY <2>3, <2>6, <2>7, EvaluateTwo, ZenonT(40)
  <2>9. QED BY <2>1, <2>2, <2>3, <2>4, <2>5, <2>7, <2>8
<1>7. part.holds \in SUBSET Pictures
  BY DEF Compiles
<1>8. Compiles(Bracketed(b[1], part, b[2]), part.holds, {b[1]} \ {"("}, out \o Reverse(pend), left)
  BY <1>1, <1>3, <1>4, <1>5, <1>6, <1>7 DEF Compiles
<1>9. QED BY <1>4, <1>8

-----------------------------------------------------------------------------
(***************************************************************************)
(* How a condition may be written: a part comes with the kinds of bracket  *)
(* that postfix leaves on the stack at its end, and is put in brackets of  *)
(* another kind.                                                           *)
(***************************************************************************)
MayGroup(part, b) == part[1].top = "none" \/ b[1] \notin part[2]

Left(part, b) == IF part[1].top = "none" THEN part[2] ELSE {b[1]} \ {"("}

Closed(C) ==
  /\ \A class \in Class : <<Seen(class), {}>> \in C /\ <<NotSeen(class), {}>> \in C
  /\ \A l, r \in C, word \in {"and", "or"}, b \in Brackets :
       MayGroup(l, b) /\ (r[1].top = word \/ MayGroup(r, b))
         => <<Join(l[1], word, r[1], b),
              Left(l, b) \cup (IF r[1].top = word THEN r[2] ELSE Left(r, b))>> \in C

\* The rules that are made this way from classes.
WrittenWith(rule, kinds) == \A C : Closed(C) => <<rule, kinds>> \in C
Written(rule) == \E kinds : WrittenWith(rule, kinds)

\* A class, with or without a `not', is a condition.
LEMMA ClassIsWritten ==
  ASSUME NEW class \in Class
  PROVE  WrittenWith(Seen(class), {}) /\ WrittenWith(NotSeen(class), {})
BY DEF WrittenWith, Closed

\* So are two conditions that are joined.
LEMMA JoinIsWritten ==
  ASSUME NEW left, NEW kl, WrittenWith(left, kl), NEW right, NEW kr, WrittenWith(right, kr),
         NEW word \in {"and", "or"}, NEW b \in Brackets, MayGroup(<<left, kl>>, b),
         right.top = word \/ MayGroup(<<right, kr>>, b)
  PROVE  WrittenWith(Join(left, word, right, b),
                     Left(<<left, kl>>, b)
                       \cup (IF right.top = word THEN kr ELSE Left(<<right, kr>>, b)))
<1> DEFINE kinds == Left(<<left, kl>>, b)
                      \cup (IF right.top = word THEN kr ELSE Left(<<right, kr>>, b))
<1>1. ASSUME NEW C, Closed(C) PROVE <<Join(left, word, right, b), kinds>> \in C
  <2>1. PICK l \in C, r \in C : l = <<left, kl>> /\ r = <<right, kr>>
    BY <1>1 DEF WrittenWith
  <2>2. l[1] = left /\ r[1] = right /\ r[2] = kr
    BY <2>1
  <2>3. MayGroup(l, b) /\ (r[1].top = word \/ MayGroup(r, b))
    BY <2>1, <2>2
  <2>4. <<Join(l[1], word, r[1], b),
          Left(l, b) \cup (IF r[1].top = word THEN r[2] ELSE Left(r, b))>> \in C
    BY <1>1, <2>3 DEF Closed
  <2>5. QED BY <2>1, <2>2, <2>4
<1> HIDE DEF kinds
<1>2. WrittenWith(Join(left, word, right, b), kinds)
  BY <1>1 DEF WrittenWith
<1>3. QED BY <1>2 DEF kinds

\* With round brackets only, the ones alarm.conf describes, a condition may be of any depth.
LEMMA RoundIsWritten ==
  ASSUME NEW left, WrittenWith(left, {}), NEW right, WrittenWith(right, {}),
         NEW word \in {"and", "or"}
  PROVE  WrittenWith(Join(left, word, right, <<"(", ")">>), {})
<1>1. PICK b \in Brackets : b = <<"(", ")">> /\ b[1] = "("
  BY DEF Brackets
<1>2. \A part : MayGroup(<<part, {}>>, b) /\ Left(<<part, {}>>, b) = {}
  BY <1>1 DEF MayGroup, Left
<1>3. WrittenWith(Join(left, word, right, b),
                  Left(<<left, {}>>, b)
                    \cup (IF right.top = word THEN {} ELSE Left(<<right, {}>>, b)))
  BY <1>2, JoinIsWritten
<1>4. Left(<<left, {}>>, b) \cup (IF right.top = word THEN {} ELSE Left(<<right, {}>>, b)) = {}
  BY <1>2
<1>5. QED BY <1>1, <1>3, <1>4

RuleType == [line : Seq(Seq(Atoms)), holds : SUBSET Pictures, top : {"none", "and", "or"}]

\* Out and pend are what becomes of part, which needs no brackets when it is one class.
Becomes(part, kinds, out, pend) ==
  /\ Compiles(part.line, part.holds, kinds, out, pend)
  /\ part.top = "none" => Idle(pend)

Good == {p \in RuleType \X SUBSET Range(Opening) : \E out, pend : Becomes(p[1], p[2], out, pend)}

\* A part as it stands beside the word that joins it to another.
Beside(part, b) == IF part.top = "none" THEN part.line ELSE Bracketed(b[1], part, b[2])

\* A part beside the word that joins it compiles, and leaves nothing that counts waiting.
LEMMA BesideCompiles ==
  ASSUME NEW p \in Good, NEW b \in Brackets, MayGroup(p, b)
  PROVE  \E out, pend : Compiles(Beside(p[1], b), p[1].holds, Left(p, b), out, pend) /\ Idle(pend)
<1>1. p[2] \in SUBSET Range(Opening)
  BY DEF Good
<1>2. PICK out, pend : Becomes(p[1], p[2], out, pend)
  BY DEF Good
<1>3. CASE p[1].top = "none"
  BY <1>2, <1>3 DEF Becomes, Beside, Left
<1>4. CASE p[1].top # "none"
  <2>1. Compiles(p[1].line, p[1].holds, p[2], out, pend) /\ b[1] \notin p[2]
    BY <1>2, <1>4 DEF Becomes, MayGroup
  <2>2. PICK part : part = p[1]
    OBVIOUS
  <2>3. PICK kinds \in SUBSET Range(Opening) : kinds = p[2]
    BY <1>1
  <2>4. \E o, q : Compiles(Bracketed(b[1], part, b[2]), part.holds, {b[1]} \ {"("}, o, q) /\ Idle(q)
    BY <2>1, <2>2, <2>3, GroupCompiles
  <2>5. QED BY <1>4, <2>2, <2>4 DEF Beside, Left
<1>5. QED BY <1>3, <1>4

\* The parts that compile include the classes, and all that is joined from them.
LEMMA GoodIsClosed == Closed(Good)
<1>1. ASSUME NEW class \in Class
      PROVE  <<Seen(class), {}>> \in Good /\ <<NotSeen(class), {}>> \in Good
  <2>1. Compiles(Seen(class).line, Seen(class).holds, {}, <<class>>, <<>>)
    BY SeenCompiles
  <2>2. Compiles(NotSeen(class).line, NotSeen(class).holds, {}, <<"not", class>>, <<>>)
    BY NotSeenCompiles
  <2>3. Idle(<<>>)
    BY DEF Idle
  <2>4. /\ Becomes(Seen(class), {}, <<class>>, <<>>)
        /\ Becomes(NotSeen(class), {}, <<"not", class>>, <<>>)
    BY <2>1, <2>2, <2>3 DEF Becomes
  <2>5. Seen(class) \in RuleType /\ NotSeen(class) \in RuleType
    <3>1. /\ Seen(class).line \in Seq(Seq(Atoms)) /\ NotSeen(class).line \in Seq(Seq(Atoms))
          /\ Seen(class).holds \in SUBSET Pictures /\ NotSeen(class).holds \in SUBSET Pictures
      BY <2>1, <2>2 DEF Compiles
    <3>2. QED BY <3>1 DEF Seen, NotSeen, RuleType
  <2>6. QED BY <2>4, <2>5 DEF Good
<1>2. ASSUME NEW l \in Good, NEW r \in Good, NEW word \in {"and", "or"}, NEW b \in Brackets,
             MayGroup(l, b), r[1].top = word \/ MayGroup(r, b)
      PROVE  <<Join(l[1], word, r[1], b),
               Left(l, b) \cup (IF r[1].top = word THEN r[2] ELSE Left(r, b))>> \in Good
  <2> DEFINE kr == IF r[1].top = word THEN r[2] ELSE Left(r, b)
             lr == IF r[1].top = word THEN r[1].line ELSE Beside(r[1], b)
             rule == Join(l[1], word, r[1], b)
  <2>1. /\ l[1] \in RuleType /\ l[2] \in SUBSET Range(Opening)
        /\ r[1] \in RuleType /\ r[2] \in SUBSET Range(Opening)
    BY DEF Good
  <2>2. Left(l, b) \in SUBSET Range(Opening) /\ kr \in SUBSET Range(Opening)
    <3>1. b[1] \in Range(Opening)
      BY BracketIs
    <3>2. QED BY <2>1, <3>1 DEF Left
  <2>3. PICK ol, pl : Compiles(Beside(l[1], b), l[1].holds, Left(l, b), ol, pl) /\ Idle(pl)
    BY <1>2, BesideCompiles
  <2>4. PICK outr, pr : Compiles(lr, r[1].holds, kr, outr, pr)
    <3>1. CASE r[1].top = word
      <4>1. PICK out, pend : Becomes(r[1], r[2], out, pend)
        BY DEF Good
      <4>2. QED BY <3>1, <4>1 DEF Becomes
    <3>2. CASE r[1].top # word
      <4>1. \E out, pend :
              Compiles(Beside(r[1], b), r[1].holds, Left(r, b), out, pend) /\ Idle(pend)
        BY <1>2, <3>2, BesideCompiles
      <4>2. QED BY <3>2, <4>1
    <3>3. QED BY <3>1, <3>2
  <2>5. /\ rule.line = (Beside(l[1], b) \o << <<word>> >>) \o lr
        /\ rule.holds = (IF word = "and" THEN l[1].holds \cap r[1].holds
                         ELSE l[1].holds \cup r[1].holds)
        /\ rule.top = word
        /\ rule = [line |-> rule.line, holds |-> rule.holds, top |-> rule.top]
    BY DEF Join, Beside
  <2> HIDE DEF kr, lr, rule
  <2>6. \E out, pend : Compiles(rule.line, rule.holds, Left(l, b) \cup kr, out, pend)
    <3>1. PICK kl \in SUBSET Range(Opening) : kl = Left(l, b)
      BY <2>2
    <3>2. PICK ll, hl, hr : ll = Beside(l[1], b) /\ hl = l[1].holds /\ hr = r[1].holds
      OBVIOUS
    <3>3. Compiles(ll, hl, kl, ol, pl) /\ Idle(pl) /\ Compiles(lr, hr, kr, outr, pr)
      BY <2>3, <2>4, <3>1, <3>2
    <3>4. Compiles((ll \o << <<word>> >>) \o lr, IF word = "and" THEN hl \cap hr ELSE hl \cup hr,
                   kl \cup kr, ol \o outr, (pl \o <<word>>) \o pr)
      BY <2>2, <3>1, <3>3, JoinCompiles
    <3>5. QED BY <2>5, <3>1, <3>2, <3>4
  <2>7. PICK out, pend : Compiles(rule.line, rule.holds, Left(l, b) \cup kr, out, pend)
    BY <2>6
  <2>8. Becomes(rule, Left(l, b) \cup kr, out, pend)
    BY <2>5, <2>7 DEF Becomes
  <2>9. rule \in RuleType
    <3>1. rule.line \in Seq(Seq(Atoms)) /\ rule.holds \in SUBSET Pictures
      BY <2>7 DEF Compiles
    <3>2. QED BY <2>5, <3>1 DEF RuleType
  <2>10. <<rule, Left(l, b) \cup kr>> \in Good
    BY <2>2, <2>8, <2>9 DEF Good
  <2>11. QED BY <2>10 DEF kr, rule
<1>3. QED BY <1>1, <1>2 DEF Closed

\* So every condition that may be written compiles.
LEMMA WrittenCompiles ==
  ASSUME NEW rule, Written(rule)
  PROVE  \E kinds \in SUBSET Range(Opening) : \E out, pend :
           Compiles(rule.line, rule.holds, kinds, out, pend)
<1>1. PICK kinds : <<rule, kinds>> \in Good
  BY GoodIsClosed DEF Written, WrittenWith
<1>2. kinds \in SUBSET Range(Opening) /\ \E out, pend : Becomes(rule, kinds, out, pend)
  BY <1>1 DEF Good
<1>3. QED BY <1>2 DEF Becomes

\* A condition that is written so, of any length and depth, holds on just the pictures it
\* says: make_space and postfix turn it into words that leave its value on the stack of
\* define_alarm (Handler.cpp:38-101, alarm.cpp:72-119).
THEOREM WrittenHolds ==
  ASSUME NEW rule, Written(rule)
  PROVE  {picture \in Pictures : Holds(Postfix(MakeSpace(rule.line)), picture)} = rule.holds
<1>1. PICK kinds \in SUBSET Range(Opening) :
        \E out, pend : Compiles(rule.line, rule.holds, kinds, out, pend)
  BY WrittenCompiles
<1>2. PICK out, pend : Compiles(rule.line, rule.holds, kinds, out, pend)
  BY <1>1
<1>3. PICK c \in Seq(Words) : c = out \o Reverse(pend)
  <2>1. \A line, holds :
          Compiles(line, holds, kinds, out, pend) => out \o Reverse(pend) \in Seq(Words)
    BY CompilesTypes
  <2>2. QED BY <1>2, <2>1
<1>4. Postfix(MakeSpace(rule.line)) = c
  <2>1. PICK s \in PostState : s = [op |-> <<>>, output |-> <<>>]
    BY EmptySeq DEF PostState
  <2>2. Turns(s, MakeSpace(rule.line)) = After(s, pend, out)
    BY <1>2, <2>1 DEF Compiles
  <2>3. <<>> \o pend = pend /\ <<>> \o out = out
    <3>1. out \in Seq(Words) /\ pend \in Seq({"and", "or"} \cup kinds)
      BY <1>2 DEF Compiles
    <3>2. QED BY <3>1, ConcatEmptySeq
  <2>4. Turns(s, MakeSpace(rule.line)) = [op |-> pend, output |-> out]
    BY <2>1, <2>2, <2>3 DEF After
  <2>5. Turns([op |-> <<>>, output |-> <<>>], MakeSpace(rule.line)) = [op |-> pend, output |-> out]
    BY <2>1, <2>4
  <2>6. \A words : Postfix(words) = Turns([op |-> <<>>, output |-> <<>>], words).output
                                    \o Reverse(Turns([op |-> <<>>, output |-> <<>>], words).op)
    BY Zenon DEF Postfix
  <2>7. PICK t : t = Turns([op |-> <<>>, output |-> <<>>], MakeSpace(rule.line))
    OBVIOUS
  <2>8. t.output = out /\ t.op = pend
    BY <2>5, <2>7
  <2>9. Postfix(MakeSpace(rule.line)) = t.output \o Reverse(t.op)
    BY <2>6, <2>7
  <2>10. QED BY <1>3, <2>8, <2>9
<1>5. PICK start \in EvalState : start = Vals(<<>>)
  BY ValsType, EmptySeq
<1>6. ASSUME NEW picture \in Pictures
      PROVE  Evaluate(start, c, picture).values = <<picture \in rule.holds>>
  <2>1. Evaluate(Vals(<<>>), out \o Reverse(pend), picture)
          = Vals(<<>> \o <<picture \in rule.holds>>)
    <3>1. <<>> \in Seq(BOOLEAN)
      BY EmptySeq
    <3>2. QED BY <1>2, <3>1 DEF Compiles
  <2>2. PICK x \in BOOLEAN : x = (picture \in rule.holds)
    <3>1. (picture \in rule.holds) \in BOOLEAN
      OBVIOUS
    <3>2. QED BY <3>1
  <2>3. <<>> \o <<x>> = <<x>>
    OBVIOUS
  <2>4. Evaluate(start, c, picture) = Vals(<<x>>)
    BY <1>3, <1>5, <2>1, <2>2, <2>3
  <2>5. QED BY <2>2, <2>4 DEF Vals
<1>7. c # <<>>
  <2>1. PICK picture \in Pictures : TRUE
    BY DEF Pictures
  <2>2. Evaluate(start, <<>>, picture).values = <<>>
    BY <1>5, EvaluateLaws DEF Vals
  <2>3. \A x : <<x>> # <<>>
    OBVIOUS
  <2>4. QED BY <1>6, <2>2, <2>3
<1>8. ASSUME NEW picture \in Pictures PROVE Holds(c, picture) <=> picture \in rule.holds
  <2>1. \A x \in BOOLEAN : Last(<<x>>) = x
    BY DEF Last
  <2>2. Last(Evaluate(start, c, picture).values) = (picture \in rule.holds)
    <3>1. PICK x \in BOOLEAN : x = (picture \in rule.holds)
      <4>1. (picture \in rule.holds) \in BOOLEAN
        OBVIOUS
      <4>2. QED BY <4>1
    <3>2. QED BY <1>6, <2>1, <3>1
  <2>3. start = [values |-> <<>>, isNot |-> FALSE]
    BY <1>5 DEF Vals
  <2>4. QED BY <1>7, <2>2, <2>3 DEF Holds
<1>9. rule.holds \in SUBSET Pictures
  BY <1>2 DEF Compiles
<1>10. QED BY <1>4, <1>8, <1>9

\* An empty condition holds on no picture.
LEMMA EmptyNeverHolds == {picture \in Pictures : Holds(<<>>, picture)} = {}
BY DEF Holds

-----------------------------------------------------------------------------
(***************************************************************************)
(* A rule is found by the place of its block among the lines that begin    *)
(* one.  A line that is read belongs to the last block or begins another,  *)
(* and changes nothing of what the others say.                             *)
(***************************************************************************)
Keys == Marks \cup Stray \cup {"skip", "Alarm Sentence", "alarm_id", "target_channel", "condition"}
LineType == [key : Keys, number : Numbers \cup {Unset}, rule : Rules \cup LongRules \cup {NoRule}]

\* The parts of a line.
LEMMA LineIs ==
  ASSUME NEW key \in Keys, NEW number \in Numbers \cup {Unset},
         NEW rule \in Rules \cup LongRules \cup {NoRule}
  PROVE  /\ Line(key, number, rule) \in LineType
         /\ Line(key, number, rule).key = key /\ Line(key, number, rule).number = number
BY DEF Line, LineType

\* The lines read so far, and the places of the blocks that begin among them.
LinesOK ==
  /\ lines \in Seq(LineType)
  /\ \A n \in 1 .. Cardinality(Begins) : \E b \in Begins : Rank(Begins, b) = n

\* What the file says depends on its lines alone.
LEMMA SameLines ==
  ASSUME UNCHANGED lines
  PROVE  /\ Begins' = Begins /\ LinesOK' = LinesOK
         /\ \A keys, n : Says(BlockNo(n), keys)' = Says(BlockNo(n), keys)
<1>1. Begins' = Begins
  BY DEF Begins
<1>2. LinesOK' = LinesOK
  BY <1>1 DEF LinesOK
<1>3. ASSUME NEW n PROVE BlockNo(n)' = BlockNo(n)
  BY <1>1 DEF BlockNo
<1>4. ASSUME NEW b PROVE Block(b)' = Block(b)
  BY <1>1 DEF Block
<1>5. ASSUME NEW keys, NEW n PROVE Says(BlockNo(n), keys)' = Says(BlockNo(n), keys)
  BY <1>3, <1>4 DEF Says
<1>6. QED BY <1>1, <1>2, <1>5

\* The lines that begin a block are finitely many places in the file.
LEMMA BeginsType ==
  ASSUME lines \in Seq(LineType)
  PROVE  /\ Begins \in SUBSET Nat /\ IsFiniteSet(Begins) /\ Cardinality(Begins) \in Nat
         /\ Begins \subseteq 1 .. Len(lines) /\ Len(lines) \in Nat
<1>1. Len(lines) \in Nat /\ DOMAIN lines = 1 .. Len(lines)
  BY LenProperties
<1>2. Begins \in SUBSET (1 .. Len(lines))
  BY <1>1 DEF Begins
<1>3. IsFiniteSet(1 .. Len(lines))
  BY <1>1, FS_Interval
<1>4. IsFiniteSet(Begins) /\ Cardinality(Begins) \in Nat
  BY <1>2, <1>3, FS_Subset, FS_CardinalityType
<1>5. 1 .. Len(lines) \subseteq Nat
  BY <1>1
<1>6. QED BY <1>1, <1>2, <1>4, <1>5

\* The block of each rule is there, and the last rule's is the last.
LEMMA BlockNoIs ==
  ASSUME LinesOK, NEW n \in 1 .. Cardinality(Begins)
  PROVE  /\ BlockNo(n) \in Begins /\ Rank(Begins, BlockNo(n)) = n
         /\ \A b \in Begins : Rank(Begins, b) = n => b = BlockNo(n)
         /\ n = Cardinality(Begins) <=> \A c \in Begins : c <= BlockNo(n)
<1>1. lines \in Seq(LineType) /\ \E b \in Begins : Rank(Begins, b) = n
  BY DEF LinesOK
<1>2. /\ Begins \in SUBSET Nat /\ IsFiniteSet(Begins) /\ Cardinality(Begins) \in Nat
  BY <1>1, BeginsType
<1>3. BlockNo(n) = CHOOSE b \in Begins : Rank(Begins, b) = n
  BY DEF BlockNo, Rank
<1>4. BlockNo(n) \in Begins /\ Rank(Begins, BlockNo(n)) = n
  BY <1>1, <1>3
<1>5. \A b \in Begins : Rank(Begins, b) = n => b = BlockNo(n)
  BY <1>2, <1>4, RankUnique
<1>6. n = Cardinality(Begins) => \A c \in Begins : c <= BlockNo(n)
  BY <1>2, <1>4, RankType
<1>7. ASSUME \A c \in Begins : c <= BlockNo(n) PROVE n = Cardinality(Begins)
  <2>1. {c \in Begins : c <= BlockNo(n)} = Begins
    BY <1>7
  <2>2. QED BY <1>4, <2>1 DEF Rank
<1>8. QED BY <1>4, <1>5, <1>6, <1>7

\* A line that begins no block belongs to the last one.
LEMMA OtherLine ==
  ASSUME LinesOK, NEW line \in LineType, line.key \notin Marks, lines' = Append(lines, line)
  PROVE  /\ LinesOK' /\ Begins' = Begins
         /\ \A keys : \A n \in 1 .. Cardinality(Begins) :
              Says(BlockNo(n), keys)'
                = IF n = Cardinality(Begins) /\ line.key \in keys THEN line
                  ELSE Says(BlockNo(n), keys)
<1> DEFINE end == Len(lines) + 1
<1>1. /\ lines \in Seq(LineType) /\ lines' \in Seq(LineType)
      /\ Len(lines) \in Nat /\ DOMAIN lines = 1 .. Len(lines) /\ DOMAIN lines' = 1 .. end
      /\ \A i \in 1 .. Len(lines) : lines'[i] = lines[i]
      /\ lines'[end] = line
  BY AppendProperties, LenProperties DEF LinesOK
<1>2. 1 .. end = 1 .. Len(lines) \cup {end} /\ end \notin 1 .. Len(lines) /\ end \in Nat
  BY <1>1
<1> HIDE DEF end
<1>3. Begins' = Begins
  BY <1>1, <1>2 DEF Begins
<1>4. LinesOK'
  BY <1>1, <1>3 DEF LinesOK
<1>5. ASSUME NEW n \in 1 .. Cardinality(Begins), NEW keys
      PROVE  Says(BlockNo(n), keys)'
               = IF n = Cardinality(Begins) /\ line.key \in keys THEN line
                 ELSE Says(BlockNo(n), keys)
  <2>1. BlockNo(n)' = BlockNo(n)
    BY <1>3 DEF BlockNo
  <2>2. PICK b \in Begins : b = BlockNo(n)
    BY BlockNoIs
  <2>3. n = Cardinality(Begins) <=> \A c \in Begins : c <= b
    BY <2>2, BlockNoIs
  <2>4. Begins \subseteq 1 .. Len(lines)
    BY <1>1, BeginsType
  <2>5. Block(b)' = Block(b) \cup IF n = Cardinality(Begins) THEN {end} ELSE {}
    BY <1>1, <1>2, <1>3, <2>3, <2>4 DEF Block
  <2>6. DEFINE said == {i \in Block(b) : lines[i].key \in keys}
               saidNext == {i \in Block(b)' : lines'[i].key \in keys}
  <2>7. /\ Block(b) \subseteq 1 .. Len(lines) /\ said \in SUBSET Nat
        /\ \A i \in said : i \in 1 .. Len(lines) /\ i <= Len(lines)
    BY <1>1 DEF Block
  <2>8. saidNext = said \cup IF n = Cardinality(Begins) /\ line.key \in keys THEN {end} ELSE {}
    BY <1>1, <1>2, <2>5, <2>7
  <2>9. /\ Says(b, keys) = IF said = {} THEN Line("none", Unset, NoRule) ELSE lines[Max(said)]
        /\ Says(b, keys)' = IF saidNext = {} THEN Line("none", Unset, NoRule)
                            ELSE lines'[Max(saidNext)]
    BY DEF Says
  <2> HIDE DEF said, saidNext
  <2>10. CASE n = Cardinality(Begins) /\ line.key \in keys
    <3>1. saidNext \in SUBSET Nat /\ end \in saidNext /\ \A i \in saidNext : i <= end
      BY <1>1, <1>2, <2>7, <2>8, <2>10 DEF end
    <3>2. Max(saidNext) = end
      BY <3>1, MaxUnique
    <3>3. QED BY <1>1, <2>1, <2>2, <2>9, <2>10, <3>1, <3>2
  <2>11. CASE ~(n = Cardinality(Begins) /\ line.key \in keys)
    <3>1. saidNext = said
      BY <2>8, <2>11
    <3>2. said # {} => Max(said) \in said
      BY <1>1, <2>7, MaxIsThere
    <3>3. said # {} => lines'[Max(said)] = lines[Max(said)]
      BY <1>1, <2>7, <3>2
    <3>4. QED BY <2>1, <2>2, <2>9, <2>11, <3>1, <3>3
  <2>12. QED BY <2>10, <2>11
<1>6. QED BY <1>3, <1>4, <1>5

\* A line that begins a block begins the last one, which says nothing yet.
LEMMA NewBlock ==
  ASSUME LinesOK, NEW line \in LineType, line.key \in Marks, lines' = Append(lines, line)
  PROVE  /\ LinesOK' /\ Cardinality(Begins') = Cardinality(Begins) + 1
         /\ \A keys : \A n \in 1 .. Cardinality(Begins) + 1 :
              Says(BlockNo(n), keys)'
                = IF n = Cardinality(Begins) + 1 THEN Line("none", Unset, NoRule)
                  ELSE Says(BlockNo(n), keys)
<1>1. PICK end, count : end = Len(lines) + 1 /\ count = Cardinality(Begins)
  OBVIOUS
<1>2. /\ lines \in Seq(LineType) /\ lines' \in Seq(LineType)
      /\ Len(lines) \in Nat /\ DOMAIN lines = 1 .. Len(lines) /\ DOMAIN lines' = 1 .. end
      /\ \A i \in 1 .. Len(lines) : lines'[i] = lines[i]
      /\ lines'[end] = line
  BY <1>1, AppendProperties, LenProperties DEF LinesOK
<1>3. 1 .. end = 1 .. Len(lines) \cup {end} /\ end \notin 1 .. Len(lines) /\ end \in Nat
  BY <1>1, <1>2
<1>4. /\ Begins \in SUBSET Nat /\ IsFiniteSet(Begins) /\ count \in Nat
      /\ Begins \subseteq 1 .. Len(lines)
  BY <1>1, <1>2, BeginsType
<1>5. \A c \in Begins : c < end
  BY <1>1, <1>2, <1>4
<1>6. Begins' = Begins \cup {end}
  BY <1>2, <1>3 DEF Begins
<1>7. /\ \A b \in Begins : Rank(Begins', b) = Rank(Begins, b)
      /\ Rank(Begins', end) = count + 1
      /\ Cardinality(Begins') = count + 1
  <2>1. /\ \A b \in Begins : Rank(Begins \cup {end}, b) = Rank(Begins, b)
        /\ Rank(Begins \cup {end}, end) = Cardinality(Begins) + 1
        /\ Cardinality(Begins \cup {end}) = Cardinality(Begins) + 1
    BY <1>3, <1>4, <1>5, RankMore
  <2>2. QED BY <1>1, <1>6, <2>1
<1>8. LinesOK'
  <2> SUFFICES ASSUME NEW n \in 1 .. count + 1
               PROVE  \E b \in Begins' : Rank(Begins', b) = n
    BY <1>2, <1>7 DEF LinesOK
  <2>1. CASE n = count + 1
    BY <1>6, <1>7, <2>1
  <2>2. CASE n # count + 1
    <3>1. n \in 1 .. count
      BY <1>4, <2>2
    <3>2. PICK b \in Begins : Rank(Begins, b) = n
      BY <1>1, <3>1 DEF LinesOK
    <3>3. QED BY <1>6, <1>7, <3>2
  <2>3. QED BY <2>1, <2>2
<1>9. \A n \in 1 .. count + 1 : BlockNo(n)' = CHOOSE b \in Begins' : Rank(Begins', b) = n
  BY DEF BlockNo, Rank
<1>10. \A b, c \in Begins' : Rank(Begins', b) = Rank(Begins', c) => b = c
  <2>1. Begins' \in SUBSET Nat /\ IsFiniteSet(Begins')
    BY <1>3, <1>4, <1>6, FS_AddElement
  <2>2. QED BY <2>1, RankUnique
<1>11. ASSUME NEW n \in 1 .. count + 1, NEW b \in Begins', Rank(Begins', b) = n
       PROVE  BlockNo(n)' = b
  BY <1>9, <1>10, <1>11
<1>12. ASSUME NEW n \in 1 .. count, NEW keys
       PROVE  Says(BlockNo(n), keys)' = Says(BlockNo(n), keys)
  <2>1. PICK b \in Begins : b = BlockNo(n) /\ Rank(Begins, b) = n
    BY <1>1, BlockNoIs
  <2>2. BlockNo(n)' = b
    <3>1. n \in 1 .. count + 1
      BY <1>4
    <3>2. QED BY <1>6, <1>7, <1>11, <2>1, <3>1
  <2>3. Block(b)' = Block(b)
    BY <1>2, <1>3, <1>4, <1>5, <1>6 DEF Block
  <2>4. DEFINE said == {i \in Block(b) : lines[i].key \in keys}
  <2>5. /\ Block(b) \subseteq 1 .. Len(lines) /\ said \in SUBSET Nat
        /\ \A i \in said : i \in 1 .. Len(lines) /\ i <= Len(lines)
    BY <1>2 DEF Block
  <2>6. {i \in Block(b)' : lines'[i].key \in keys} = said
    BY <1>2, <2>3, <2>5
  <2>7. /\ Says(b, keys) = IF said = {} THEN Line("none", Unset, NoRule) ELSE lines[Max(said)]
        /\ Says(b, keys)' = IF said = {} THEN Line("none", Unset, NoRule) ELSE lines'[Max(said)]
    BY <2>6 DEF Says
  <2> HIDE DEF said
  <2>8. said # {} => Max(said) \in said
    BY <1>2, <2>5, MaxIsThere
  <2>9. said # {} => lines'[Max(said)] = lines[Max(said)]
    BY <1>2, <2>5, <2>8
  <2>10. QED BY <2>1, <2>2, <2>7, <2>9
<1>13. ASSUME NEW n, n = count + 1, NEW keys
       PROVE  Says(BlockNo(n), keys)' = Line("none", Unset, NoRule)
  <2>1. n \in 1 .. count + 1
    BY <1>4, <1>13
  <2>2. BlockNo(n)' = end
    BY <1>6, <1>7, <1>11, <1>13, <2>1
  <2>3. Block(end)' = {}
    BY <1>1, <1>2, <1>3, <1>4, <1>5, <1>6 DEF Block
  <2>4. {i \in Block(end)' : lines'[i].key \in keys} = {}
    BY <2>3
  <2>5. Says(end, keys)' = Line("none", Unset, NoRule)
    BY <2>4 DEF Says, Line
  <2>6. QED BY <2>2, <2>5
<1>14. QED
  <2>1. ASSUME NEW keys, NEW n \in 1 .. count + 1
        PROVE  Says(BlockNo(n), keys)'
                 = IF n = count + 1 THEN Line("none", Unset, NoRule) ELSE Says(BlockNo(n), keys)
    <3>1. n # count + 1 => n \in 1 .. count
      BY <1>4
    <3>2. QED BY <1>12, <1>13, <3>1
  <2>2. QED BY <1>1, <1>7, <1>8, <2>1

-----------------------------------------------------------------------------
(***************************************************************************)
(* The rules there are, with the one under construction as the last, agree *)
(* with the blocks at every step.                                          *)
(***************************************************************************)
\* The keys of the lines that are compiled as a condition.
Compiled == {"condition"} \cup Stray

\* Condition c is what a line makes of it, which is told for no stray one.
ConditionIs(c, line) == line.key \notin Stray => c = Postfix(MakeSpace(line.rule.line))

\* A condition with no word becomes an empty one.
LEMMA NothingCompiles ==
  Postfix(MakeSpace(<<>>)) = <<>> /\ ConditionIs(<<>>, Line("none", Unset, NoRule))
<1>1. MakeSpace(<<>>) = <<>>
  <2>1. <<>> \in Seq({})
    OBVIOUS
  <2>2. QED BY <2>1, FlattenOne DEF MakeSpace
<1>2. PICK s \in PostState : s = [op |-> <<>>, output |-> <<>>]
  BY EmptySeq DEF PostState
<1>3. Turns(s, <<>>) = s
  BY TurnsLaws
<1>4. Reverse(<<>>) = <<>>
  <2>1. <<>> \in Seq({})
    OBVIOUS
  <2>2. Reverse(<<>>) \in Seq({}) /\ Len(Reverse(<<>>)) = 0
    BY <2>1, ReverseType
  <2>3. QED BY <2>2, EmptySeq
<1>5. PICK words : words = <<>>
  OBVIOUS
<1>6. Postfix(words) = s.output \o Reverse(s.op)
  BY <1>2, <1>3, <1>5 DEF Postfix
<1>7. s.output \o Reverse(s.op) = <<>>
  BY <1>2, <1>4
<1>8. QED BY <1>1, <1>5, <1>6, <1>7 DEF ConditionIs, Line, NoRule

\* The rules, the one under construction included.
Complete == IF a = NoAlarm THEN alarms ELSE Append(alarms, a)

\* A rule for each block, with what its lines say last.
RulesOK(rules) ==
  /\ Len(rules) = Cardinality(Begins)
  /\ \A n \in 1 .. Cardinality(Begins) :
       /\ rules[n].target = Says(BlockNo(n), {"target_channel"}).number
       /\ rules[n].id = Says(BlockNo(n), {"alarm_id"}).number
       /\ ConditionIs(rules[n].condition, Says(BlockNo(n), Compiled))

\* A rule is under construction once a block has begun, and it is no null pointer.
AlarmOK ==
  /\ a = NoAlarm <=> Begins = {}
  /\ a = [target |-> a.target, id |-> a.id, condition |-> a.condition]
  /\ a # NoAlarm => a.target # "none"

FileInv ==
  /\ LinesOK /\ \E T : alarms \in Seq(T)
  /\ reading = "reading" => AlarmOK /\ RulesOK(Complete)
  /\ reading = "done" => RulesOK(alarms)

\* Adding a rule to a sequence.
LEMMA AppendRule ==
  ASSUME NEW T, NEW rules \in Seq(T), NEW rule
  PROVE  /\ \E U : Append(rules, rule) \in Seq(U)
         /\ Len(rules) \in Nat /\ Len(Append(rules, rule)) = Len(rules) + 1
         /\ \A n \in 1 .. Len(rules) : Append(rules, rule)[n] = rules[n]
         /\ Append(rules, rule)[Len(rules) + 1] = rule
<1>1. rules \in Seq(T \cup {rule})
  BY SeqMonotonic
<1>2. QED BY <1>1, AppendProperties, LenProperties

\* A line that does not touch the rule under construction, or sets what it names.
LEMMA LineInBlock ==
  ASSUME FileInv, reading = "reading", NEW line \in LineType, line.key \notin Marks,
         lines' = Append(lines, line), UNCHANGED <<alarms, reading>>,
         a = NoAlarm => a' = a /\ line.key \notin {"alarm_id", "target_channel"},
         a # NoAlarm =>
           /\ a' = [target |-> IF line.key = "target_channel" THEN line.number ELSE a.target,
                    id |-> IF line.key = "alarm_id" THEN line.number ELSE a.id,
                    condition |-> a'.condition]
           /\ a'.target # "none"
           /\ IF line.key \in Compiled THEN ConditionIs(a'.condition, line)
              ELSE a'.condition = a.condition
  PROVE  FileInv'
<1>1. LinesOK /\ AlarmOK /\ RulesOK(Complete)
  BY DEF FileInv
<1>2. /\ LinesOK' /\ Begins' = Begins
      /\ \A keys : \A n \in 1 .. Cardinality(Begins) :
           Says(BlockNo(n), keys)'
             = IF n = Cardinality(Begins) /\ line.key \in keys THEN line
               ELSE Says(BlockNo(n), keys)
  BY <1>1, OtherLine
<1>3. PICK T : alarms \in Seq(T)
  BY DEF FileInv
<1>4. Cardinality(Begins) \in Nat
  BY <1>1, BeginsType DEF LinesOK
<1>5. CASE a = NoAlarm
  <2>1. Begins = {} /\ Cardinality(Begins) = 0
    BY <1>1, <1>5, FS_EmptySet DEF AlarmOK
  <2>2. AlarmOK'
    BY <1>1, <1>2, <1>5 DEF AlarmOK
  <2>3. RulesOK(Complete)'
    BY <1>1, <1>2, <1>5, <2>1 DEF RulesOK, Complete
  <2>4. QED BY <1>2, <1>3, <2>2, <2>3 DEF FileInv
<1>6. CASE a # NoAlarm
  <2>1. a' # NoAlarm /\ AlarmOK'
    BY <1>1, <1>2, <1>6 DEF AlarmOK, NoAlarm
  <2>2. /\ Complete = Append(alarms, a) /\ Complete' = Append(alarms, a')
    BY <1>6, <2>1 DEF Complete
  <2>3. /\ Len(alarms) \in Nat /\ Len(alarms) + 1 = Cardinality(Begins)
        /\ Len(Complete') = Len(alarms) + 1
        /\ \A n \in 1 .. Len(alarms) : Complete'[n] = Complete[n]
        /\ Complete[Len(alarms) + 1] = a /\ Complete'[Len(alarms) + 1] = a'
    BY <1>1, <1>3, <2>2, AppendRule DEF RulesOK
  <2>4. ASSUME NEW n \in 1 .. Cardinality(Begins)
        PROVE  /\ Complete'[n].target = Says(BlockNo(n), {"target_channel"})'.number
               /\ Complete'[n].id = Says(BlockNo(n), {"alarm_id"})'.number
               /\ ConditionIs(Complete'[n].condition, Says(BlockNo(n), Compiled)')
    <3>1. /\ Complete[n].target = Says(BlockNo(n), {"target_channel"}).number
          /\ Complete[n].id = Says(BlockNo(n), {"alarm_id"}).number
          /\ ConditionIs(Complete[n].condition, Says(BlockNo(n), Compiled))
      BY <1>1 DEF RulesOK
    <3>2. /\ Says(BlockNo(n), {"target_channel"})'
                = IF n = Cardinality(Begins) /\ line.key = "target_channel" THEN line
                  ELSE Says(BlockNo(n), {"target_channel"})
          /\ Says(BlockNo(n), {"alarm_id"})'
                = IF n = Cardinality(Begins) /\ line.key = "alarm_id" THEN line
                  ELSE Says(BlockNo(n), {"alarm_id"})
          /\ Says(BlockNo(n), Compiled)'
                = IF n = Cardinality(Begins) /\ line.key \in Compiled THEN line
                  ELSE Says(BlockNo(n), Compiled)
      BY <1>2
    <3>3. CASE n = Cardinality(Begins)
      BY <1>6, <2>3, <3>1, <3>2, <3>3
    <3>4. CASE n # Cardinality(Begins)
      <4>1. n \in 1 .. Len(alarms)
        BY <2>3, <3>4
      <4>2. QED BY <2>3, <3>1, <3>2, <3>4, <4>1
    <3>5. QED BY <3>3, <3>4
  <2>5. RulesOK(Complete)'
    BY <1>2, <2>3, <2>4 DEF RulesOK
  <2>6. QED BY <1>2, <1>3, <2>1, <2>5 DEF FileInv
<1>7. QED BY <1>5, <1>6

\* A line that begins a block completes the rule before it.
LEMMA BlockBegins ==
  ASSUME FileInv, NEW key \in Marks, BeginAlarm(key)
  PROVE  FileInv'
<1> DEFINE line == Line(key, Unset, NoRule)
<1>1. /\ LinesOK /\ AlarmOK /\ RulesOK(Complete) /\ line \in LineType /\ line.key \in Marks
      /\ lines' = Append(lines, line) /\ reading' = reading /\ reading = "reading"
      /\ alarms' = Complete /\ a' = NewAlarm
  <2>1. line \in LineType /\ line.key = key
    <3>1. key \in Keys /\ Unset \in Numbers \cup {Unset}
          /\ NoRule \in Rules \cup LongRules \cup {NoRule}
      BY DEF Keys
    <3>2. QED BY <3>1, LineIs
  <2>2. QED BY <2>1 DEF FileInv, BeginAlarm, Getline, Complete
<1> HIDE DEF line
<1>2. /\ LinesOK' /\ Cardinality(Begins') = Cardinality(Begins) + 1
      /\ \A keys : \A n \in 1 .. Cardinality(Begins) + 1 :
           Says(BlockNo(n), keys)'
             = IF n = Cardinality(Begins) + 1 THEN Line("none", Unset, NoRule)
               ELSE Says(BlockNo(n), keys)
  BY <1>1, NewBlock
<1>3. PICK T : alarms \in Seq(T)
  BY DEF FileInv
<1>4. PICK U : Complete \in Seq(U)
  BY <1>3, AppendRule DEF Complete
<1>5. Cardinality(Begins) \in Nat /\ Len(Complete) = Cardinality(Begins)
  BY <1>1, BeginsType DEF LinesOK, RulesOK
<1>6. AlarmOK'
  <2>1. Begins' # {}
    <3>1. Cardinality({}) = 0
      BY FS_EmptySet
    <3>2. Cardinality(Begins') # 0
      BY <1>2, <1>5
    <3>3. QED BY <3>1, <3>2
  <2>2. QED BY <1>1, <2>1 DEF AlarmOK, NewAlarm, NoAlarm, Unset
<1>7. Complete' = Append(Complete, NewAlarm)
  BY <1>1 DEF Complete, NewAlarm, NoAlarm, Unset
<1>8. /\ Len(Complete') = Cardinality(Begins) + 1
      /\ \A n \in 1 .. Cardinality(Begins) : Complete'[n] = Complete[n]
      /\ Complete'[Cardinality(Begins) + 1] = NewAlarm
  BY <1>4, <1>5, <1>7, AppendRule
<1>9. ASSUME NEW n \in 1 .. Cardinality(Begins) + 1
      PROVE  /\ Complete'[n].target = Says(BlockNo(n), {"target_channel"})'.number
             /\ Complete'[n].id = Says(BlockNo(n), {"alarm_id"})'.number
             /\ ConditionIs(Complete'[n].condition, Says(BlockNo(n), Compiled)')
  <2>1. CASE n = Cardinality(Begins) + 1
    <3>1. /\ Says(BlockNo(n), {"target_channel"})'.number = Unset
          /\ Says(BlockNo(n), {"alarm_id"})'.number = Unset
          /\ Says(BlockNo(n), Compiled)' = Line("none", Unset, NoRule)
      BY <1>2, <2>1 DEF Line
    <3>2. Complete'[n] = NewAlarm /\ NewAlarm.condition = <<>>
      BY <1>8, <2>1 DEF NewAlarm
    <3>3. QED BY <3>1, <3>2, NothingCompiles DEF NewAlarm
  <2>2. CASE n # Cardinality(Begins) + 1
    <3>1. n \in 1 .. Cardinality(Begins)
      BY <1>5, <2>2
    <3>2. QED BY <1>1, <1>2, <1>8, <2>2, <3>1 DEF RulesOK
  <2>3. QED BY <2>1, <2>2
<1>10. RulesOK(Complete)'
  BY <1>2, <1>8, <1>9 DEF RulesOK
<1>11. QED BY <1>1, <1>2, <1>4, <1>6, <1>10 DEF FileInv

\* At the start there is no line, no block and no rule.
LEMMA FileStart == Init => FileInv
<1> SUFFICES ASSUME Init PROVE FileInv
  OBVIOUS
<1>1. lines = <<>> /\ alarms = <<>> /\ a = NoAlarm /\ reading = "reading"
  BY DEF Init
<1>2. Begins = {} /\ Cardinality(Begins) = 0
  BY <1>1, FS_EmptySet DEF Begins
<1>3. LinesOK /\ alarms \in Seq({})
  BY <1>1, <1>2 DEF LinesOK
<1>4. AlarmOK
  BY <1>1, <1>2 DEF AlarmOK, NoAlarm
<1>5. RulesOK(Complete)
  BY <1>1, <1>2 DEF RulesOK, Complete
<1>6. QED BY <1>1, <1>3, <1>4, <1>5 DEF FileInv

\* Every step keeps the rules and the blocks in agreement.
LEMMA FileStep == FileInv /\ [Next]_vars => FileInv'
<1> SUFFICES ASSUME FileInv, [Next]_vars PROVE FileInv'
  OBVIOUS
<1> DEFINE NotInBlock(key) == key \notin Marks \cup {"alarm_id", "target_channel"}
<1>1. CASE UNCHANGED vars
  <2>1. UNCHANGED <<a, alarms, reading, lines>>
    BY <1>1 DEF vars
  <2>2. QED BY <2>1, SameLines DEF FileInv, AlarmOK, RulesOK, Complete
<1>2. ASSUME NEW line \in LineType, NotInBlock(line.key), reading = "reading",
             lines' = Append(lines, line), UNCHANGED <<alarms, reading>>,
             \/ a' = a /\ line.key \notin Compiled
             \/ /\ a # NoAlarm /\ line.key \in Compiled
                /\ \E c : a' = [a EXCEPT !.condition = c] /\ ConditionIs(c, line)
      PROVE  FileInv'
  <2>1. AlarmOK /\ reading = "reading"
    BY <1>2 DEF FileInv
  <2>2. a # NoAlarm =>
           /\ a' = [target |-> a.target, id |-> a.id, condition |-> a'.condition]
           /\ a'.target # "none"
           /\ IF line.key \in Compiled THEN ConditionIs(a'.condition, line)
              ELSE a'.condition = a.condition
    BY <1>2, <2>1 DEF AlarmOK
  <2>3. QED BY <1>2, <2>2, LineInBlock
<1>3. CASE SkipLine
  <2>1. Line("skip", Unset, NoRule) \in LineType /\ NotInBlock("skip") /\ "skip" \notin Compiled
    BY LineIs DEF Marks, Keys, Stray, Compiled
  <2>2. QED BY <1>2, <1>3, <2>1 DEF SkipLine, Getline, Line
<1>4. CASE SetAlarmSentence
  <2>1. Line("Alarm Sentence", Unset, NoRule) \in LineType /\ NotInBlock("Alarm Sentence")
        /\ "Alarm Sentence" \notin Compiled
    BY LineIs DEF Marks, Keys, Stray, Compiled
  <2>2. QED BY <1>2, <1>4, <2>1 DEF SetAlarmSentence, Getline, Line
<1>5. ASSUME NEW key \in Marks, BeginAlarm(key) PROVE FileInv'
  BY <1>5, BlockBegins
<1>6. ASSUME NEW number \in Numbers, SetAlarmId(number) PROVE FileInv'
  <2>1. Line("alarm_id", number, NoRule) \in LineType /\ "alarm_id" \notin Marks \cup Compiled
    BY LineIs DEF Marks, Keys, Stray, Compiled
  <2>2. AlarmOK
    BY <1>6 DEF FileInv, SetAlarmId, Getline
  <2>3. a' = [target |-> a.target, id |-> number, condition |-> a.condition] /\ a # NoAlarm
    BY <1>6, <2>2 DEF SetAlarmId, AlarmOK
  <2>4. QED BY <1>6, <2>1, <2>2, <2>3, LineInBlock DEF SetAlarmId, Getline, Line, AlarmOK
<1>7. ASSUME NEW number \in Numbers, SetTarget(number) PROVE FileInv'
  <2>1. /\ Line("target_channel", number, NoRule) \in LineType
        /\ "target_channel" \notin Marks \cup Compiled
    BY LineIs DEF Marks, Keys, Stray, Compiled
  <2>2. AlarmOK /\ number # "none"
    BY <1>7, FileAssumption DEF FileInv, SetTarget, Getline
  <2>3. a' = [target |-> number, id |-> a.id, condition |-> a.condition] /\ a # NoAlarm
    BY <1>7, <2>2 DEF SetTarget, AlarmOK
  <2>4. QED BY <1>7, <2>1, <2>2, <2>3, LineInBlock DEF SetTarget, Getline, Line, AlarmOK
<1>8. ASSUME NEW key \in {"blank", "risk_level", "condition"}, NEW number \in Numbers \cup {Unset},
             NEW rule \in Rules \cup LongRules \cup {NoRule}, NEW words,
             key \in Stray \/ words = rule.line, SetCondition(key, number, rule, words)
      PROVE  FileInv'
  <2>1. Line(key, number, rule) \in LineType /\ NotInBlock(key) /\ key \in Compiled
    BY LineIs DEF Marks, Keys, Stray, Compiled
  <2>2. PICK c : c = Postfix(MakeSpace(words))
    OBVIOUS
  <2>3. /\ reading = "reading" /\ lines' = Append(lines, Line(key, number, rule))
        /\ UNCHANGED <<alarms, reading>> /\ a # NoAlarm /\ a' = [a EXCEPT !.condition = c]
    BY <1>8, <2>2 DEF SetCondition, Getline
  <2>4. ConditionIs(c, Line(key, number, rule)) /\ Line(key, number, rule).key = key
    BY <1>8, <2>2 DEF ConditionIs, Line
  <2>5. QED BY <1>2, <2>1, <2>3, <2>4
<1>9. ASSUME NEW number \in Numbers, StrayLine(number) PROVE FileInv'
  <2>1. {"blank", "risk_level"} \subseteq Stray
    BY DEF Stray
  <2>2. QED BY <1>8, <1>9, <2>1 DEF StrayLine
<1>10. ASSUME NEW line \in LineType, Die(line) PROVE FileInv'
  <2>1. /\ reading' = "died" /\ alarms' = alarms /\ lines' = Append(lines, line) /\ LinesOK
    BY <1>10 DEF Die, Getline, FileInv
  <2>2. CASE line.key \in Marks
    BY <2>1, <2>2, NewBlock DEF FileInv
  <2>3. CASE line.key \notin Marks
    BY <2>1, <2>3, OtherLine DEF FileInv
  <2>4. QED BY <2>2, <2>3
<1>11. CASE EndOfFile
  <2>1. /\ LinesOK /\ RulesOK(Complete)
        /\ alarms' = Complete /\ reading' = "done" /\ UNCHANGED <<a, lines>>
    BY <1>11 DEF FileInv, EndOfFile, Complete
  <2>2. PICK T : alarms \in Seq(T)
    BY DEF FileInv
  <2>3. \E U : alarms' \in Seq(U)
    BY <2>1, <2>2, AppendRule DEF Complete
  <2>4. LinesOK' /\ RulesOK(alarms)'
    BY <2>1, SameLines DEF RulesOK
  <2>5. QED BY <2>1, <2>3, <2>4 DEF FileInv
<1>12. CASE NoFile
  <2>1. LinesOK /\ AlarmOK /\ RulesOK(Complete) /\ \E T : alarms \in Seq(T)
    BY <1>12 DEF NoFile, FileInv
  <2>2. Begins = {}
    BY <1>12 DEF NoFile, Begins
  <2>3. Complete = alarms
    BY <2>1, <2>2 DEF AlarmOK, Complete
  <2>4. LinesOK' /\ RulesOK(alarms)'
    BY <1>12, <2>1, <2>3, SameLines DEF NoFile, RulesOK
  <2>5. QED BY <1>12, <2>1, <2>4 DEF NoFile, FileInv
<1>13. CASE ReadLine
  <2>1. ASSUME NEW number \in Numbers, NEW key \in {"alarm_id", "target_channel"},
               Die(Line(key, number, NoRule))
        PROVE  FileInv'
    BY <1>10, <2>1, LineIs DEF Keys
  <2>2. ASSUME NEW rule \in RulesHere, SetCondition("condition", Unset, rule, rule.line)
        PROVE  FileInv'
    BY <1>8, <2>2 DEF RulesHere
  <2>3. ASSUME NEW rule \in Rules, Die(Line("condition", Unset, rule)) PROVE FileInv'
    BY <1>10, <2>3, LineIs DEF Keys
  <2>4. ASSUME NEW key \in StrayLines \cup {"Alarm Sentence"}, Die(Line(key, Unset, NoRule))
        PROVE  FileInv'
    BY <1>10, <2>4, FileAssumption, LineIs DEF Stray, Keys
  <2>5. QED BY <1>3, <1>4, <1>5, <1>6, <1>7, <1>9, <1>13, <2>1, <2>2, <2>3, <2>4 DEF ReadLine
<1>14. QED BY <1>1, <1>11, <1>12, <1>13 DEF Next, Finished

\* When only names stand at the start of a line in square brackets, every block of the
\* file becomes one rule, in the order of the file, with what the lines of its own block
\* say last (configHandler.cpp:28-67).  FileInv says the same of any file, with whatever
\* line starts with such a bracket as the beginning of a block.
THEOREM EveryBlock == Spec => []EveryBlockIsARule
<1>1. FileInv => EveryBlockIsARule
  <2> SUFFICES ASSUME FileInv, reading = "done", lines # <<>>, Begins = Names
               PROVE  /\ Len(alarms) = Cardinality(Names)
                      /\ \A n \in DOMAIN alarms :
                           /\ alarms[n].target = Says(BlockNo(n), {"target_channel"}).number
                           /\ alarms[n].id = Says(BlockNo(n), {"alarm_id"}).number
    BY DEF EveryBlockIsARule
  <2>1. RulesOK(alarms) /\ \E T : alarms \in Seq(T)
    BY DEF FileInv
  <2>2. DOMAIN alarms = 1 .. Cardinality(Begins)
    BY <2>1, LenProperties DEF RulesOK
  <2>3. QED BY <2>1, <2>2 DEF RulesOK
<1>2. QED BY <1>1, FileStart, FileStep, PTL DEF Spec

\* A rule whose block has no stray line holds on just the pictures its last condition
\* says, when the file's conditions are made of classes the way alarm.conf describes
\* (Handler.cpp:38-101, alarm.cpp:67-119).  What starts with a square bracket is no condition
\* but the beginning of a block (configHandler.cpp:28).
THEOREM ConditionsMean ==
  ASSUME \A rule \in Rules \cup LongRules : Written(rule)
  PROVE  Spec => []ConditionMeansWhatItSays
<1>1. ASSUME FileInv PROVE ConditionMeansWhatItSays
  <2> SUFFICES ASSUME reading = "done", NEW n \in DOMAIN alarms,
                      \A i \in Block(BlockNo(n)) : lines[i].key \notin Stray
               PROVE  {picture \in Pictures : Holds(alarms[n].condition, picture)}
                        = Says(BlockNo(n), {"condition"}).rule.holds
    BY DEF ConditionMeansWhatItSays
  <2>1. PICK b : b = BlockNo(n)
    OBVIOUS
  <2>2. RulesOK(alarms) /\ lines \in Seq(LineType) /\ \E T : alarms \in Seq(T)
    BY <1>1 DEF FileInv, LinesOK
  <2>3. n \in 1 .. Cardinality(Begins)
    BY <2>2, LenProperties DEF RulesOK
  <2>4. PICK line : line = Says(b, {"condition"})
    OBVIOUS
  <2>5. ConditionIs(alarms[n].condition, line)
    <3>1. \A i \in Block(b) : lines[i].key \in Compiled <=> lines[i].key \in {"condition"}
      BY <2>1 DEF Compiled
    <3>2. {i \in Block(b) : lines[i].key \in Compiled}
            = {i \in Block(b) : lines[i].key \in {"condition"}}
      BY <3>1
    <3>3. Says(b, Compiled) = line
      BY <2>4, <3>2 DEF Says
    <3>4. QED BY <2>1, <2>2, <2>3, <3>3 DEF RulesOK
  <2>6. \/ line = Line("none", Unset, NoRule)
        \/ line.key = "condition" /\ line \in LineType
    <3> DEFINE said == {i \in Block(b) : lines[i].key \in {"condition"}}
    <3>1. line = IF said = {} THEN Line("none", Unset, NoRule) ELSE lines[Max(said)]
      BY <2>4 DEF Says
    <3>2. Len(lines) \in Nat /\ DOMAIN lines = 1 .. Len(lines)
      BY <2>2, LenProperties
    <3>3. said \in SUBSET (1 .. Len(lines)) /\ \A i \in said : lines[i].key = "condition"
      BY <3>2 DEF Block
    <3> HIDE DEF said
    <3>4. said # {} => Max(said) \in said
      <4>1. said \in SUBSET Nat /\ \A i \in said : i <= Len(lines)
        BY <3>2, <3>3
      <4>2. QED BY <3>2, <4>1, MaxIsThere
    <3>5. said # {} => Max(said) \in 1 .. Len(lines) /\ lines[Max(said)].key = "condition"
      BY <3>3, <3>4
    <3>6. said # {} => lines[Max(said)] \in LineType
      BY <2>2, <3>5, ElementOfSeq
    <3>7. QED BY <3>1, <3>5, <3>6
  <2>7. line.key \notin Stray /\ line.rule \in Rules \cup LongRules \cup {NoRule}
    BY <2>6 DEF Line, LineType, Stray
  <2>8. alarms[n].condition = Postfix(MakeSpace(line.rule.line))
    BY <2>5, <2>7 DEF ConditionIs
  <2>9. CASE line.rule = NoRule
    <3>1. line.rule.line = <<>> /\ line.rule.holds = {}
      BY <2>9 DEF NoRule
    <3>2. alarms[n].condition = <<>>
      BY <2>8, <3>1, NothingCompiles
    <3>3. QED BY <2>1, <2>4, <3>1, <3>2, EmptyNeverHolds
  <2>10. CASE line.rule \in Rules \cup LongRules
    <3>1. PICK rule : rule = line.rule /\ Written(rule)
      BY <2>10
    <3>2. QED BY <2>1, <2>4, <2>8, <3>1, WrittenHolds
  <2>11. QED BY <2>7, <2>9, <2>10
<1>2. QED BY <1>1, FileStart, FileStep, PTL DEF Spec

-----------------------------------------------------------------------------
(***************************************************************************)
(* Types: whatever the words of a line are, the compiler puts out classes  *)
(* and signs, and no closing bracket.                                      *)
(***************************************************************************)
\* A compiled condition, with words of any kind on the line.
LEMMA PostfixType ==
  ASSUME NEW T, NEW words \in Seq(Seq(T))
  PROVE  Postfix(MakeSpace(words)) \in Seq(Words)
<1>1. PICK w \in Seq(T) : w = MakeSpace(words)
  BY FlattenType DEF MakeSpace
<1>2. [op |-> <<>>, output |-> <<>>] \in PostState
  BY EmptySeq DEF PostState
<1>3. PICK s \in PostState : s = Turns([op |-> <<>>, output |-> <<>>], w)
  BY <1>2, TurnsType
<1>4. s.op \in Seq(OpWords) /\ s.output \in Seq(Words) /\ OpWords \subseteq Words
  BY SignsAre DEF PostState, OpWords
<1>5. PICK out \in Seq(Words), pend \in Seq(Words) : out = s.output /\ pend = Reverse(s.op)
  BY <1>4, ReverseType, SeqMonotonic
<1>6. out \o pend \in Seq(Words)
  BY ConcatProperties
<1>7. Postfix(w) = out \o pend
  BY <1>3, <1>5 DEF Postfix
<1>8. QED BY <1>1, <1>6, <1>7

\* The types at the start.
LEMMA TypeStart == Init => TypeOK
<1>1. Len(<<>>) = 0 /\ 0 <= MaxLines
  BY FileAssumption
<1>2. <<>> \in Seq(AlarmType)
  BY EmptySeq
<1>3. QED BY <1>1, <1>2 DEF Init, TypeOK

\* Every step keeps the types, given that of the lines.
LEMMA TypeStep == TypeOK /\ lines \in Seq(LineType) /\ [Next]_vars => TypeOK'
<1> SUFFICES ASSUME TypeOK, lines \in Seq(LineType), [Next]_vars PROVE TypeOK'
  OBVIOUS
<1>1. /\ a \in AlarmType \cup {NoAlarm} /\ alarms \in Seq(AlarmType)
      /\ reading \in {"reading", "done", "died"} /\ Len(lines) \in Nat /\ Len(lines) <= MaxLines
  BY LenProperties DEF TypeOK
<1>2. a # NoAlarm => /\ a \in AlarmType
                     /\ a = [target |-> a.target, id |-> a.id, condition |-> a.condition]
                     /\ a.target \in Numbers \cup {Unset} /\ a.id \in Numbers \cup {Unset}
                     /\ a.condition \in Seq(Words)
  BY <1>1 DEF AlarmType
<1>3. (IF a = NoAlarm THEN alarms ELSE Append(alarms, a)) \in Seq(AlarmType)
  BY <1>1, <1>2, AppendProperties
<1>4. ASSUME NEW line, Getline(line) PROVE Len(lines') \in Nat /\ Len(lines') <= MaxLines
  <2>1. lines' = Append(lines, line) /\ Len(lines) < MaxLines
    BY <1>4 DEF Getline
  <2>2. lines \in Seq(LineType \cup {line})
    BY SeqMonotonic
  <2>3. Len(lines') = Len(lines) + 1
    BY <2>1, <2>2, AppendProperties
  <2>4. QED BY <1>1, <2>1, <2>3, FileAssumption
<1>5. CASE UNCHANGED vars
  BY <1>1, <1>5 DEF vars, TypeOK
<1>6. CASE SkipLine \/ SetAlarmSentence
  <2>1. UNCHANGED <<a, alarms, reading>> /\ \E line : Getline(line)
    BY <1>6 DEF SkipLine, SetAlarmSentence
  <2>2. QED BY <1>1, <1>4, <2>1 DEF TypeOK
<1>7. ASSUME NEW key \in Marks, BeginAlarm(key) PROVE TypeOK'
  <2>1. NewAlarm \in AlarmType
    BY EmptySeq DEF NewAlarm, AlarmType
  <2>2. QED BY <1>1, <1>3, <1>4, <1>7, <2>1 DEF BeginAlarm, TypeOK
<1>8. ASSUME NEW number \in Numbers, SetAlarmId(number) \/ SetTarget(number) PROVE TypeOK'
  <2>1. /\ a # NoAlarm /\ UNCHANGED <<alarms, reading>> /\ \E line : Getline(line)
        /\ \/ a' = [target |-> a.target, id |-> number, condition |-> a.condition]
           \/ a' = [target |-> number, id |-> a.id, condition |-> a.condition]
    BY <1>2, <1>8 DEF SetAlarmId, SetTarget
  <2>2. a' \in AlarmType
    BY <1>2, <2>1 DEF AlarmType
  <2>3. QED BY <1>1, <1>4, <2>1, <2>2 DEF TypeOK
<1>9. ASSUME NEW key, NEW number, NEW rule, NEW T, NEW words \in Seq(Seq(T)),
             SetCondition(key, number, rule, words)
      PROVE  TypeOK'
  <2>1. PICK c \in Seq(Words) : c = Postfix(MakeSpace(words))
    BY PostfixType
  <2>2. /\ a # NoAlarm /\ UNCHANGED <<alarms, reading>> /\ \E line : Getline(line)
        /\ a' = [target |-> a.target, id |-> a.id, condition |-> c]
    BY <1>2, <1>9, <2>1 DEF SetCondition
  <2>3. a' \in AlarmType
    BY <1>2, <2>2 DEF AlarmType
  <2>4. QED BY <1>1, <1>4, <2>2, <2>3 DEF TypeOK
<1>10. ASSUME NEW number \in Numbers, StrayLine(number) PROVE TypeOK'
  <2>1. ASSUME SetCondition("blank", Unset, NoRule, <<>>) PROVE TypeOK'
    <3>1. <<>> \in Seq(Seq({}))
      BY EmptySeq
    <3>2. QED BY <1>9, <2>1, <3>1
  <2>2. ASSUME SetCondition("risk_level", number, NoRule,
                            << <<"risk_level">>, <<":">>, <<number>> >>)
        PROVE  TypeOK'
    <3>1. PICK T : T = {"risk_level", ":", number}
      OBVIOUS
    <3>2. \A x, y, z \in T : << <<x>>, <<y>>, <<z>> >> \in Seq(Seq(T))
      <4>1. ASSUME NEW S, NEW x \in S, NEW y \in S, NEW z \in S PROVE <<x, y, z>> \in Seq(S)
        OBVIOUS
      <4>2. \A x \in T : <<x>> \in Seq(T)
        OBVIOUS
      <4>3. QED BY <4>1, <4>2
    <3>3. << <<"risk_level">>, <<":">>, <<number>> >> \in Seq(Seq(T))
      BY <3>1, <3>2
    <3>4. QED BY <1>9, <2>2, <3>3
  <2>3. QED BY <1>10, <2>1, <2>2 DEF StrayLine
<1>11. ASSUME NEW rule \in Rules \cup LongRules,
              SetCondition("condition", Unset, rule, rule.line)
       PROVE  TypeOK'
  <2>1. rule.line \in Seq(Seq(Words \cup DOMAIN Opening))
    BY ConditionAssumption
  <2>2. QED BY <1>9, <1>11, <2>1
<1>12. ASSUME NEW line, Die(line) PROVE TypeOK'
  BY <1>1, <1>4, <1>12 DEF Die, TypeOK
<1>13. CASE EndOfFile
  BY <1>1, <1>3, <1>13 DEF EndOfFile, TypeOK
<1>14. CASE NoFile
  BY <1>1, <1>14 DEF NoFile, TypeOK
<1>15. CASE ReadLine
  <2>1. ASSUME NEW rule \in RulesHere, SetCondition("condition", Unset, rule, rule.line)
        PROVE  TypeOK'
    BY <1>11, <2>1 DEF RulesHere
  <2>2. QED BY <1>6, <1>7, <1>8, <1>10, <1>12, <1>15, <2>1 DEF ReadLine
<1>16. QED BY <1>5, <1>13, <1>14, <1>15 DEF Next, Finished

\* Every variable has its type: no condition keeps a closing bracket or a word that means
\* nothing, whatever the lines say (configHandler.cpp:5-69, Handler.cpp:57-101).
THEOREM TypeCorrect == Spec => []TypeOK
<1>1. Init => TypeOK /\ FileInv
  BY TypeStart, FileStart
<1>2. TypeOK /\ FileInv /\ [Next]_vars => TypeOK' /\ FileInv'
  BY TypeStep, FileStep DEF FileInv, LinesOK
<1>3. QED BY <1>1, <1>2, PTL DEF Spec

=============================================================================
