------------------------------- MODULE Induction -------------------------------
(***************************************************************************)
(* Induction over Nat, stated for a set instead of a predicate, and what   *)
(* it gives: a recursive function is what its equations say.               *)
(***************************************************************************)
EXTENDS Naturals, WellFoundedInduction, TLAPS

(* A set of numbers that is not empty has a least member.                  *)
LEMMA SmallestOf ==
  ASSUME NEW T, T \subseteq Nat, T # {}
  PROVE  \E n \in T : \A m \in T : n <= m
<1>1. PICK n \in T : \A m \in T : ~ (<<m, n>> \in OpToRel(<, Nat))
  BY NatLessThanWellFounded, WFMin
<1>2. \A m \in T : ~ (m < n)
  BY <1>1 DEF OpToRel
<1> QED BY <1>2

(* The numbers of which something holds are all of them.                   *)
LEMMA SetInduction ==
  ASSUME NEW S, 0 \in S, \A n \in Nat : n \in S => n + 1 \in S
  PROVE  \A n \in Nat : n \in S
<1>1. SUFFICES ASSUME Nat \ S # {} PROVE FALSE
  OBVIOUS
<1>2. PICK n \in Nat \ S : \A m \in Nat \ S : n <= m
  BY <1>1, SmallestOf
<1>3. n # 0 /\ n - 1 \in Nat /\ n - 1 \in S
  BY <1>2
<1> QED BY <1>2, <1>3

(* `g' repeats the step on `base' n times.                                 *)
Iterates(S, base, step, n, g) ==
  /\ g \in [Nat -> S]
  /\ g[0] = base
  /\ \A i \in Nat : i < n => g[i + 1] = step[i][g[i]]

LEMMA IterationExists ==
  ASSUME NEW S, NEW base \in S, NEW step \in [Nat -> [S -> S]]
  PROVE  \A n \in Nat : \E g : Iterates(S, base, step, n, g)
<1> DEFINE T == {n \in Nat : \E g : Iterates(S, base, step, n, g)}
<1>1. 0 \in T
  <2>1. Iterates(S, base, step, 0, [i \in Nat |-> base])
    BY DEF Iterates
  <2> QED BY <2>1
<1>2. ASSUME NEW n \in Nat, n \in T
      PROVE  n + 1 \in T
  <2>1. PICK g : Iterates(S, base, step, n, g)
    BY <1>2
  <2>2. PICK h : h = [g EXCEPT ![n + 1] = step[n][g[n]]]
    OBVIOUS
  <2>3. h \in [Nat -> S] /\ h[0] = base
    BY <2>1, <2>2 DEF Iterates
  <2>4. ASSUME NEW i \in Nat, i < n + 1
        PROVE  h[i + 1] = step[i][h[i]]
    BY <2>1, <2>2, <2>4 DEF Iterates
  <2>5. Iterates(S, base, step, n + 1, h)
    BY <2>3, <2>4 DEF Iterates
  <2> QED BY <2>5
<1> HIDE DEF T
<1>3. \A n \in Nat : n \in T
  BY <1>1, <1>2, SetInduction
<1> QED BY <1>3 DEF T

LEMMA IterationUnique ==
  ASSUME NEW S, NEW base, NEW step, NEW m \in Nat, NEW n \in Nat, m <= n,
         NEW g, Iterates(S, base, step, m, g),
         NEW h, Iterates(S, base, step, n, h)
  PROVE  g[m] = h[m]
<1> DEFINE T == {i \in Nat : i <= m => g[i] = h[i]}
<1>1. 0 \in T
  BY DEF Iterates
<1>2. ASSUME NEW i \in Nat, i \in T
      PROVE  i + 1 \in T
  BY <1>2 DEF Iterates
<1> HIDE DEF T
<1>3. \A i \in Nat : i \in T
  BY <1>1, <1>2, SetInduction
<1> QED BY <1>3 DEF T

(* `f' repeats the step without end.                                       *)
Repeats(S, base, step, f) ==
  /\ f \in [Nat -> S]
  /\ f[0] = base
  /\ \A n \in Nat : f[n + 1] = step[n][f[n]]

LEMMA Iteration ==
  ASSUME NEW S, NEW base \in S, NEW step \in [Nat -> [S -> S]]
  PROVE  \E f : Repeats(S, base, step, f)
<1>1. PICK some : some = [n \in Nat |-> CHOOSE g : Iterates(S, base, step, n, g)]
  OBVIOUS
<1>2. ASSUME NEW n \in Nat
      PROVE  Iterates(S, base, step, n, some[n])
  BY <1>1, IterationExists
<1>3. PICK f : f = [n \in Nat |-> some[n][n]]
  OBVIOUS
<1>4. f \in [Nat -> S] /\ f[0] = base
  BY <1>2, <1>3 DEF Iterates
<1>5. ASSUME NEW n \in Nat
      PROVE  f[n + 1] = step[n][f[n]]
  <2>1. Iterates(S, base, step, n + 1, some[n + 1])
    BY <1>2
  <2>2. some[n][n] = some[n + 1][n]
    BY <1>2, <2>1, IterationUnique
  <2>3. some[n + 1][n + 1] = step[n][some[n + 1][n]]
    BY <2>1 DEF Iterates
  <2> QED BY <1>3, <2>2, <2>3
<1> QED BY <1>4, <1>5 DEF Repeats

-----------------------------------------------------------------------------
(* Loops of a fixed number of turns. *)

Loops(S, base, step, n, f) ==
  /\ f = [i \in 0 .. n |-> IF i = 0 THEN base ELSE step[i][f[i - 1]]]
  /\ \A i \in 0 .. n : f[i] \in S

(* A loop computes something, if each of its turns does.                   *)
LEMMA LoopExists ==
  ASSUME NEW S, NEW base \in S, NEW n \in Nat, NEW step \in [1 .. n -> [S -> S]]
  PROVE  \E f : Loops(S, base, step, n, f)
<1>1. PICK turns : turns = [i \in Nat |-> IF i < n THEN step[i + 1] ELSE [s \in S |-> s]]
  OBVIOUS
<1>2. turns \in [Nat -> [S -> S]]
  <2>1. ASSUME NEW i \in Nat
        PROVE  (IF i < n THEN step[i + 1] ELSE [s \in S |-> s]) \in [S -> S]
    <3>1. CASE i < n
      <4>1. i + 1 \in 1 .. n
        BY <3>1
      <4> QED BY <3>1, <4>1
    <3>2. CASE ~ (i < n)
      BY <3>2
    <3> QED BY <3>1, <3>2
  <2> QED BY <1>1, <2>1
<1>3. PICK g : Repeats(S, base, turns, g)
  BY <1>2, Iteration
<1>4. PICK f : f = [i \in 0 .. n |-> g[i]]
  OBVIOUS
<1>5. \A i \in 0 .. n : f[i] \in S
  BY <1>3, <1>4 DEF Repeats
<1>6. ASSUME NEW i \in 0 .. n
      PROVE  f[i] = IF i = 0 THEN base ELSE step[i][f[i - 1]]
  <2>1. CASE i = 0
    BY <1>3, <1>4, <2>1 DEF Repeats
  <2>2. CASE i # 0
    <3>1. i - 1 \in Nat /\ i - 1 < n /\ (i - 1) + 1 = i /\ i - 1 \in 0 .. n
      BY <2>2
    <3>2. g[i] = turns[i - 1][g[i - 1]]
      BY <1>3, <3>1 DEF Repeats
    <3>3. turns[i - 1] = step[i]
      BY <1>1, <3>1
    <3> QED BY <1>4, <2>2, <3>1, <3>2, <3>3
  <2> QED BY <2>1, <2>2
<1>7. f = [i \in 0 .. n |-> IF i = 0 THEN base ELSE step[i][f[i - 1]]]
  BY <1>4, <1>6
<1> QED BY <1>5, <1>7 DEF Loops

(* What every turn of a loop keeps holds after each of them.               *)
LEMMA LoopKeeps ==
  ASSUME NEW S, NEW n \in Nat, NEW f, f[0] \in S,
         \A i \in 1 .. n : f[i - 1] \in S => f[i] \in S
  PROVE  \A i \in 0 .. n : f[i] \in S
<1> DEFINE T == {i \in Nat : i <= n => f[i] \in S}
<1>1. 0 \in T
  OBVIOUS
<1>2. ASSUME NEW i \in Nat, i \in T
      PROVE  i + 1 \in T
  <2>1. CASE i + 1 <= n
    <3>1. i + 1 \in 1 .. n /\ (i + 1) - 1 = i
      BY <2>1
    <3> QED BY <1>2, <2>1, <3>1
  <2>2. CASE ~ (i + 1 <= n)
    BY <2>2
  <2> QED BY <2>1, <2>2
<1> HIDE DEF T
<1>3. \A i \in Nat : i \in T
  BY <1>1, <1>2, SetInduction
<1> QED BY <1>3 DEF T
=============================================================================
