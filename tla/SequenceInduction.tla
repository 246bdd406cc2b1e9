------------------------- MODULE SequenceInduction -------------------------
(***************************************************************************)
(* Induction over the naturals without an operator parameter, and what it  *)
(* gives: the flattening of a sequence of sequences is typed, and grows at *)
(* its end.                                                                *)
(*                                                                         *)
(* The library's induction theorems quantify over a predicate, which the   *)
(* provers cannot instantiate.  For a set the pigeonhole principle does    *)
(* the same: were some m missing from a set that holds 0 and is closed     *)
(* under successor, the numbers up to m that are missing would be mapped   *)
(* one to one into themselves without m by taking 1 away.                  *)
(***************************************************************************)
EXTENDS Integers, Sequences, FiniteSets, SequencesExt, FiniteSetTheorems, TLAPS

\* Induction: a set that holds 0 and every successor of a member holds Nat.
LEMMA Induction ==
  ASSUME NEW S, 0 \in S, \A n \in Nat : n \in S => n + 1 \in S
  PROVE  Nat \subseteq S
<1> SUFFICES ASSUME NEW m \in Nat, m \notin S PROVE FALSE
  OBVIOUS
<1> DEFINE T == (0..m) \ S
           f == [x \in T |-> x - 1]
<1>1. IsFiniteSet(T) /\ m \in T
  <2>1. IsFiniteSet(0..m) /\ T \in SUBSET (0..m)
    BY FS_Interval
  <2>2. IsFiniteSet(T)
    BY <2>1, FS_Subset
  <2> QED
    BY <2>2
<1>2. \A x \in T : x - 1 \in T \ {m}
  <2> SUFFICES ASSUME NEW x \in T PROVE x - 1 \in T \ {m}
    OBVIOUS
  <2>1. x # 0 /\ x \in 0..m
    OBVIOUS
  <2>2. x - 1 \in Nat /\ x - 1 \in 0..m /\ (x - 1) + 1 = x
    BY <2>1
  <2>3. x - 1 \notin S
    BY <2>2
  <2> QED
    BY <2>1, <2>2, <2>3
<1>3. IsFiniteSet(T \ {m}) /\ Cardinality(T \ {m}) = Cardinality(T) - 1
  BY <1>1, FS_RemoveElement
<1>4. Cardinality(T) \in Nat
  BY <1>1, FS_CardinalityType
<1>5. Cardinality(T \ {m}) < Cardinality(T)
  BY <1>3, <1>4
<1>6. f \in [T -> T \ {m}]
  BY <1>2
<1> HIDE DEF f, T
<1>7. PICK x \in T, y \in T : x # y /\ f[x] = f[y]
  BY <1>1, <1>3, <1>5, <1>6, FS_PigeonHole
<1>8. x - 1 = y - 1 /\ x \in Nat /\ y \in Nat
  BY <1>7 DEF f, T
<1> QED
  BY <1>7, <1>8

-----------------------------------------------------------------------------
(* FlattenSeq of the community modules.                                    *)

\* Nothing flattened is nothing.
LEMMA FlattenEmpty == FlattenSeq(<<>>) = <<>>
  BY DEF FlattenSeq

\* f is the recursive function in FlattenSeq, for the first n elements of s.
Flattened(s, n, f) ==
  f = [i \in 1..n |-> IF i = 1 THEN s[i] ELSE f[i - 1] \o s[i]]

\* Such a function obeys its definition at each argument.
LEMMA FlattenedAt ==
  ASSUME NEW s, NEW n \in Nat, NEW f, Flattened(s, n, f), NEW i \in 1..n
  PROVE  f[i] = IF i = 1 THEN s[i] ELSE f[i - 1] \o s[i]
<1> DEFINE v(j) == IF j = 1 THEN s[j] ELSE f[j - 1] \o s[j]
<1>1. f = [j \in 1..n |-> v(j)]
  BY DEF Flattened
<1> HIDE DEF v
<1>2. f[i] = v(i)
  BY <1>1
<1> QED
  BY <1>2 DEF v

\* There is one for every length.
LEMMA FlattenExists ==
  ASSUME NEW s, NEW m \in Nat
  PROVE  \E f : Flattened(s, m, f)
<1> DEFINE K == {n \in Nat : \E f : Flattened(s, n, f)}
<1>1. 0 \in K
  <2>1. Flattened(s, 0, [i \in 1..0 |-> 0])
    BY DEF Flattened
  <2> QED
    BY <2>1
<1>2. ASSUME NEW n \in Nat, n \in K PROVE n + 1 \in K
  <2>1. PICK f : Flattened(s, n, f)
    BY <1>2
  <2>f. \A i \in 1..n : f[i] = IF i = 1 THEN s[i] ELSE f[i - 1] \o s[i]
    <3> SUFFICES ASSUME NEW i \in 1..n
                 PROVE  f[i] = IF i = 1 THEN s[i] ELSE f[i - 1] \o s[i]
      OBVIOUS
    <3> QED
      BY <1>2, <2>1, FlattenedAt
  <2> DEFINE g == [i \in 1..(n + 1) |-> IF i \in 1..n THEN f[i]
                                        ELSE IF i = 1 THEN s[i] ELSE f[i - 1] \o s[i]]
             h == [i \in 1..(n + 1) |-> IF i = 1 THEN s[i] ELSE g[i - 1] \o s[i]]
  <2>2. ASSUME NEW i \in 1..(n + 1) PROVE g[i] = h[i]
    <3>1. CASE i \in 1..n /\ i # 1
      <4>1. i - 1 \in 1..n /\ i - 1 \in 1..(n + 1)
        BY <3>1
      <4>2. f[i] = f[i - 1] \o s[i]
        BY <2>f, <3>1
      <4>3. g[i - 1] = f[i - 1]
        BY <4>1
      <4> QED
        BY <3>1, <4>2, <4>3
    <3>2. CASE i = 1
      <4>1. 1 \in 1..n => f[1] = s[1]
        BY <2>f
      <4> QED
        BY <3>2, <4>1
    <3>3. CASE i \notin 1..n /\ i # 1
      <4>1. i = n + 1 /\ i - 1 \in 1..n /\ i - 1 \in 1..(n + 1)
        BY <3>3
      <4>2. g[i - 1] = f[i - 1]
        BY <4>1
      <4> QED
        BY <3>3, <4>2
    <3> QED
      BY <3>1, <3>2, <3>3
  <2>3. g = h
    BY <2>2
  <2>4. Flattened(s, n + 1, g)
    BY <2>3 DEF Flattened
  <2> QED
    BY <2>4
<1> HIDE DEF K
<1>3. Nat \subseteq K
  BY <1>1, <1>2, Induction
<1> QED
  BY <1>3 DEF K

\* FlattenSeq is the value of such a function at the last element.
LEMMA FlattenValue ==
  ASSUME NEW S, NEW s \in Seq(S), s # <<>>
  PROVE  \E f : Flattened(s, Len(s), f) /\ FlattenSeq(s) = f[Len(s)]
<1>1. Len(s) \in Nat /\ Len(s) # 0
  OBVIOUS
<1>2. \E f : Flattened(s, Len(s), f)
  BY <1>1, FlattenExists
<1> DEFINE f == CHOOSE f : Flattened(s, Len(s), f)
<1>3. Flattened(s, Len(s), f)
  BY <1>2
<1>4. FlattenSeq(s) = f[Len(s)]
  BY <1>1 DEF FlattenSeq, Flattened
<1> QED
  BY <1>3, <1>4

\* All values of it are sequences of the same elements.
LEMMA FlattenTyped ==
  ASSUME NEW S, NEW s \in Seq(Seq(S)), NEW f, Flattened(s, Len(s), f), NEW m \in 1..Len(s)
  PROVE  f[m] \in Seq(S)
<1> DEFINE K == {i \in Nat : i \in 1..Len(s) => f[i] \in Seq(S)}
<1>1. 0 \in K
  OBVIOUS
<1>2. ASSUME NEW n \in Nat, n \in K PROVE n + 1 \in K
  <2> SUFFICES ASSUME n + 1 \in 1..Len(s) PROVE f[n + 1] \in Seq(S)
    OBVIOUS
  <2>1. s[n + 1] \in Seq(S)
    OBVIOUS
  <2>2. f[n + 1] = IF n + 1 = 1 THEN s[n + 1] ELSE f[n + 1 - 1] \o s[n + 1]
    BY FlattenedAt
  <2>3. CASE n = 0
    BY <2>1, <2>2, <2>3
  <2>4. CASE n # 0
    <3>1. f[n] \in Seq(S) /\ n + 1 - 1 = n /\ n + 1 # 1
      BY <1>2, <2>4
    <3> QED
      BY <2>1, <2>2, <3>1
  <2> QED
    BY <2>3, <2>4
<1> HIDE DEF K
<1>3. Nat \subseteq K
  BY <1>1, <1>2, Induction
<1> QED
  BY <1>3 DEF K

\* A flattened sequence is a sequence over the same set.
LEMMA FlattenType ==
  ASSUME NEW S, NEW s \in Seq(Seq(S))
  PROVE  FlattenSeq(s) \in Seq(S)
<1>1. CASE s = <<>>
  <2>1. <<>> \in Seq(S)
    OBVIOUS
  <2> QED
    BY <1>1, <2>1, FlattenEmpty
<1>2. CASE s # <<>>
  <2>1. PICK f : Flattened(s, Len(s), f) /\ FlattenSeq(s) = f[Len(s)]
    BY <1>2, FlattenValue
  <2>2. Len(s) \in 1..Len(s)
    BY <1>2
  <2> QED
    BY <2>1, <2>2, FlattenTyped
<1> QED
  BY <1>1, <1>2

\* What is appended comes last.
LEMMA FlattenAppend ==
  ASSUME NEW S, NEW s \in Seq(Seq(S)), NEW x \in Seq(S)
  PROVE  FlattenSeq(Append(s, x)) = FlattenSeq(s) \o x
<1> DEFINE t == Append(s, x)
<1>1. /\ t \in Seq(Seq(S)) /\ t # <<>> /\ Len(t) = Len(s) + 1 /\ t[Len(t)] = x
      /\ \A i \in 1..Len(s) : t[i] = s[i]
  <2>1. t \in Seq(Seq(S)) /\ Len(t) = Len(s) + 1
    OBVIOUS
  <2>2. \A i \in 1..Len(s) : t[i] = s[i]
    OBVIOUS
  <2>3. t[Len(s) + 1] = x
    OBVIOUS
  <2> QED
    BY <2>1, <2>2, <2>3
<1>2. PICK g : Flattened(t, Len(t), g) /\ FlattenSeq(t) = g[Len(t)]
  BY <1>1, FlattenValue
<1> HIDE DEF t
<1>3. CASE s = <<>>
  <2>1. Len(t) = 1
    BY <1>1, <1>3
  <2>2. g[1] = t[1]
    BY <1>2, <2>1, FlattenedAt
  <2>3. FlattenSeq(t) = x
    BY <1>1, <1>2, <2>1, <2>2
  <2>4. <<>> \o x = x
    OBVIOUS
  <2> QED
    BY <1>3, <2>3, <2>4, FlattenEmpty DEF t
<1>4. CASE s # <<>>
  <2>1. PICK f : Flattened(s, Len(s), f) /\ FlattenSeq(s) = f[Len(s)]
    BY <1>4, FlattenValue
  <2> DEFINE K == {i \in Nat : i \in 1..Len(s) => f[i] = g[i]}
  <2>2. 0 \in K
    OBVIOUS
  <2>3. ASSUME NEW n \in Nat, n \in K PROVE n + 1 \in K
    <3> SUFFICES ASSUME n + 1 \in 1..Len(s) PROVE f[n + 1] = g[n + 1]
      OBVIOUS
    <3>1. n + 1 \in 1..Len(t) /\ t[n + 1] = s[n + 1]
      BY <1>1
    <3>2. f[n + 1] = IF n + 1 = 1 THEN s[n + 1] ELSE f[n + 1 - 1] \o s[n + 1]
      BY <2>1, FlattenedAt
    <3>3. g[n + 1] = IF n + 1 = 1 THEN t[n + 1] ELSE g[n + 1 - 1] \o t[n + 1]
      BY <1>2, <3>1, FlattenedAt
    <3>4. n # 0 => f[n] = g[n] /\ n + 1 - 1 = n
      BY <2>3
    <3> QED
      BY <3>1, <3>2, <3>3, <3>4
  <2> HIDE DEF K
  <2>4. Nat \subseteq K
    BY <2>2, <2>3, Induction
  <2>5. Len(s) \in Nat /\ Len(s) \in 1..Len(s)
    BY <1>4
  <2>6. f[Len(s)] = g[Len(s)]
    BY <2>4, <2>5 DEF K
  <2>7. g[Len(t)] = g[Len(t) - 1] \o t[Len(t)]
    <3>1. Len(t) \in 1..Len(t) /\ Len(t) # 1
      BY <1>1, <1>4, <2>5
    <3> QED
      <4>1. Len(t) \in Nat
        BY <1>1
      <4>2. g[Len(t)] = IF Len(t) = 1 THEN t[Len(t)] ELSE g[Len(t) - 1] \o t[Len(t)]
        BY <1>2, <3>1, <4>1, FlattenedAt
      <4> QED
        BY <3>1, <4>2
  <2>8. Len(t) - 1 = Len(s)
    BY <1>1, <2>5
  <2> QED
    BY <1>1, <1>2, <2>1, <2>6, <2>7, <2>8 DEF t
<1> QED
  BY <1>3, <1>4

=============================================================================
