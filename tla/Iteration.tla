------------------------------ MODULE Iteration ------------------------------
(***************************************************************************)
(* A loop, or a function that calls itself, as the sequence of what is     *)
(* known after its rounds, with the induction that proofs about it need.   *)
(* A module that has a loop takes an instance of this one for it, with the *)
(* body of the loop for Step; c is what the body reads and never changes.  *)
(***************************************************************************)
EXTENDS WellFoundedInduction, TLAPS

CONSTANT Step(_, _)

(* Iterate(c, x)[n] is what n rounds make of x.                            *)
Iterate(c, x) == LET it[n \in Nat] == IF n = 0 THEN x ELSE Step(c, it[n - 1]) IN it

(* "<" is well-founded on the natural numbers.                             *)
LEMMA LessWellFounded == IsWellFoundedOn({pair \in Nat \X Nat : pair[1] < pair[2]}, Nat)
<1>1. IsWellFoundedOn(OpToRel(<, Nat), Nat) BY NatLessThanWellFounded
<1>2. OpToRel(<, Nat) = {pair \in Nat \X Nat : pair[1] < pair[2]} BY DEF OpToRel
<1>3. QED BY <1>1, <1>2

(* Induction over the natural numbers, for the set S of those of which     *)
(* something holds.                                                        *)
LEMMA Induction ==
  ASSUME NEW S, 0 \in S, \A n \in Nat : n \in S => n + 1 \in S
  PROVE  \A n \in Nat : n \in S
<1> SUFFICES ASSUME ~(Nat \subseteq S) PROVE FALSE OBVIOUS
<1> DEFINE T == {n \in Nat : n \notin S}
<1>1. T \subseteq Nat /\ T # {} OBVIOUS
<1>2. \E x \in T : \A y \in T : ~ (<<y, x>> \in {ss \in Nat \X Nat : ss[1] < ss[2]})
  BY <1>1, LessWellFounded, WFMin
<1>3. PICK x \in T : \A y \in T : ~(y < x) BY <1>1, <1>2
<1>4. x \in Nat /\ x # 0 OBVIOUS
<1>5. x - 1 \in Nat /\ x - 1 < x /\ (x-1) + 1 = x BY <1>4
<1>6. x - 1 \in S BY <1>3, <1>5
<1>7. x \in S BY <1>5, <1>6
<1> QED BY <1>7

(* The function that Iterate chooses by its recursion exists.              *)
LEMMA IterateFunction ==
  ASSUME NEW c, NEW x
  PROVE  Iterate(c, x) = [n \in Nat |-> IF n = 0 THEN x ELSE Step(c, Iterate(c, x)[n - 1])]
<1> DEFINE Upto(n, f) == f = [k \in 0 .. n |-> IF k = 0 THEN x ELSE Step(c, f[k - 1])]
           Reached == {n \in Nat : \E f : Upto(n, f)}
<1>1. 0 \in Reached
  <2> DEFINE f == [k \in 0 .. 0 |-> x]
  <2>1. Upto(0, f) OBVIOUS
  <2>2. QED BY <2>1
<1>2. ASSUME NEW n \in Nat, n \in Reached PROVE n + 1 \in Reached
  <2>1. PICK f : Upto(n, f) BY <1>2
  <2> DEFINE g == [k \in 0 .. n + 1 |-> IF k = n + 1 THEN Step(c, f[n]) ELSE f[k]]
  <2> HIDE DEF Upto
  <2>4. g = [k \in 0 .. n + 1 |-> IF k = 0 THEN x ELSE Step(c, g[k - 1])]
    <3> SUFFICES ASSUME NEW k \in 0 .. n + 1
                 PROVE  g[k] = IF k = 0 THEN x ELSE Step(c, g[k - 1])
      OBVIOUS
    <3>1. CASE k = n + 1
      <4>1. g[k] = Step(c, f[n]) /\ k # 0 /\ k - 1 = n BY <3>1
      <4>2. g[n] = f[n] OBVIOUS
      <4>3. QED BY <4>1, <4>2
    <3>2. CASE k # n + 1
      <4>1. k \in 0 .. n BY <3>2
      <4>2. g[k] = f[k] BY <3>2
      <4>3. f[k] = IF k = 0 THEN x ELSE Step(c, f[k - 1]) BY <2>1, <4>1 DEF Upto
      <4>4. k # 0 => k - 1 \in 0 .. n + 1 /\ k - 1 # n + 1 BY <4>1
      <4>5. k # 0 => g[k - 1] = f[k - 1] BY <4>4
      <4>6. QED BY <4>2, <4>3, <4>5
    <3>3. QED BY <3>1, <3>2
  <2>5. Upto(n + 1, g) BY <2>4 DEF Upto
  <2>6. QED BY <2>5
<1>3. \A n \in Nat : n \in Reached BY <1>1, <1>2, Induction
<1>4. ASSUME NEW n \in Nat, NEW m \in Nat, n <= m, NEW f, NEW g, Upto(n, f), Upto(m, g)
      PROVE  f[n] = g[n]
  <2> DEFINE Same == {k \in Nat : k <= n => f[k] = g[k]}
  <2>1. 0 \in Same BY <1>4
  <2>2. ASSUME NEW k \in Nat, k \in Same PROVE k + 1 \in Same
    BY <1>4, <2>2
  <2>3. \A k \in Nat : k \in Same BY <2>1, <2>2, Induction
  <2>4. QED BY <2>3
<1> DEFINE upto(n) == CHOOSE f : Upto(n, f)
           h == [n \in Nat |-> upto(n)[n]]
<1>5. ASSUME NEW n \in Nat PROVE h[n] = IF n = 0 THEN x ELSE Step(c, h[n - 1])
  <2>1. Upto(n, upto(n)) BY <1>3
  <2> HIDE DEF upto
  <2>2. h[n] = upto(n)[n] OBVIOUS
  <2>3. upto(n)[n] = IF n = 0 THEN x ELSE Step(c, upto(n)[n - 1]) BY <2>1
  <2>4. ASSUME n # 0 PROVE upto(n)[n - 1] = upto(n - 1)[n - 1]
    <3>1. n - 1 \in Nat /\ n - 1 <= n BY <2>4
    <3>2. Upto(n - 1, upto(n - 1)) BY <1>3, <3>1 DEF upto
    <3>3. 0 .. n - 1 \subseteq 0 .. n OBVIOUS
    <3> DEFINE e == [k \in 0 .. n - 1 |-> upto(n)[k]]
    <3>4. Upto(n - 1, e)
      <4>1. \A k \in 0 .. n - 1 : e[k] = upto(n)[k] /\ (k # 0 => k - 1 \in 0 .. n - 1)
        BY <3>1
      <4>2. \A k \in 0 .. n - 1 : upto(n)[k] = IF k = 0 THEN x ELSE Step(c, upto(n)[k - 1])
        BY <2>1, <3>3
      <4> HIDE DEF e
      <4>3. \A k \in 0 .. n - 1 : e[k] = IF k = 0 THEN x ELSE Step(c, e[k - 1])
        BY <4>1, <4>2
      <4>4. e = [k \in 0 .. n - 1 |-> e[k]] BY DEF e
      <4>5. QED BY <4>3, <4>4
    <3>5. e[n - 1] = upto(n)[n - 1] BY <3>1
    <3> HIDE DEF e, Upto
    <3>6. e[n - 1] = upto(n - 1)[n - 1] BY <1>4, <3>1, <3>2, <3>4
    <3>7. QED BY <3>5, <3>6
  <2>5. n # 0 => h[n - 1] = upto(n - 1)[n - 1] OBVIOUS
  <2>6. QED BY <2>2, <2>3, <2>4, <2>5
<1>6. h = [n \in Nat |-> IF n = 0 THEN x ELSE Step(c, h[n - 1])]
  BY <1>5
<1> DEFINE Fixed(f) == f = [n \in Nat |-> IF n = 0 THEN x ELSE Step(c, f[n - 1])]
<1> HIDE DEF h
<1>7. Fixed(h) BY <1>6
<1>8. Iterate(c, x) = CHOOSE f : Fixed(f) BY DEF Iterate
<1>9. Fixed(Iterate(c, x)) BY <1>7, <1>8
<1>10. QED BY <1>9

(* What Iterate is at first, and what a round makes of it.                 *)
LEMMA IterateSteps ==
  ASSUME NEW c, NEW x
  PROVE  /\ Iterate(c, x)[0] = x
         /\ \A n \in Nat : Iterate(c, x)[n + 1] = Step(c, Iterate(c, x)[n])
<1>1. Iterate(c, x)[0] = x BY IterateFunction
<1>2. ASSUME NEW n \in Nat PROVE Iterate(c, x)[n + 1] = Step(c, Iterate(c, x)[n])
  <2>1. n + 1 \in Nat /\ n + 1 # 0 /\ (n + 1) - 1 = n OBVIOUS
  <2>2. Iterate(c, x)[n + 1] = Step(c, Iterate(c, x)[(n + 1) - 1]) BY <2>1, IterateFunction
  <2>3. QED BY <2>1, <2>2
<1>3. QED BY <1>1, <1>2
=============================================================================
