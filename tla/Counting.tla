------------------------------- MODULE Counting -------------------------------
(***************************************************************************)
(* What several proofs need of numbers up to a bound: the greatest of      *)
(* them, induction, and that a loop over them is defined.                  *)
(***************************************************************************)
EXTENDS Naturals, WellFoundedInduction, TLAPS

(* Of some numbers below a bound one is the greatest. *)
LEMMA Greatest ==
  ASSUME NEW n \in Nat, NEW S \in SUBSET (0..n), S # {}
  PROVE  \E m \in S : \A k \in S : k <= m
<1> DEFINE Depths == {d \in Nat : n - d \in S}
<1>1. Depths \subseteq Nat /\ Depths # {}
  <2>1. PICK m \in S : TRUE
    OBVIOUS
  <2>2. n - m \in Nat /\ n - (n - m) = m
    OBVIOUS
  <2> QED BY <2>2
<1>2. PICK d \in Depths : \A e \in Depths : ~(<<e, d>> \in OpToRel(<, Nat))
  <2> HIDE DEF Depths
  <2> QED BY <1>1, WFMin, NatLessThanWellFounded
<1>3. \A e \in Depths : ~(e < d)
  BY <1>2 DEF OpToRel
<1>4. ASSUME NEW k \in S PROVE k <= n - d
  <2>1. n - k \in Depths
    BY <1>4
  <2> QED BY <1>3, <2>1
<1> QED BY <1>4

(* Induction up to L, of a set of numbers.                                 *)
LEMMA CountingUp ==
  ASSUME NEW L \in Nat, NEW S, 0 \in S,
         \A n \in 1..L : n - 1 \in S => n \in S
  PROVE  \A n \in 0..L : n \in S
<1> DEFINE Left == {n \in 0..L : n \notin S}
<1>0. Left \subseteq Nat
  OBVIOUS
<1>1. SUFFICES ASSUME Left # {} PROVE FALSE
  OBVIOUS
<1>2. PICK n \in Left : \A m \in Left : ~(<<m, n>> \in OpToRel(<, Nat))
  <2> HIDE DEF Left
  <2> QED BY <1>1, <1>0, WFMin, NatLessThanWellFounded
<1>3. \A m \in Left : ~(m < n)
  <2> HIDE DEF Left
  <2> QED BY <1>0, <1>2 DEF OpToRel
<1>4. n \in 1..L /\ n - 1 \in 0..L /\ n - 1 < n
  OBVIOUS
<1>5. n - 1 \notin Left
  <2> HIDE DEF Left
  <2> QED BY <1>3, <1>4
<1>6. n - 1 \in S
  BY <1>4, <1>5
<1> QED BY <1>4, <1>6

(* A loop that starts from base and takes one of L steps after the other   *)
(* is defined.                                                             *)
LEMMA LoopIsDefined ==
  ASSUME NEW A, NEW base \in A, NEW L \in Nat, NEW step \in [1..L -> [A -> A]]
  PROVE  \E f \in [0..L -> A] : f[0] = base /\ \A n \in 1..L : f[n] = step[n][f[n-1]]
<1> DEFINE Runs(n, f) == f[0] = base /\ \A m \in 1..n : f[m] = step[m][f[m-1]]
           S == {n \in 0..L : \E f \in [0..n -> A] : Runs(n, f)}
<1>1. 0 \in S
  <2>1. [m \in 0..0 |-> base] \in [0..0 -> A] /\ Runs(0, [m \in 0..0 |-> base])
    OBVIOUS
  <2>2. \E f \in [0..0 -> A] : Runs(0, f)
    <3> HIDE DEF Runs
    <3> QED BY <2>1
  <2> HIDE DEF Runs
  <2> QED BY <2>2
<1>2. ASSUME NEW n \in 1..L, n - 1 \in S PROVE n \in S
  <2>1. PICK f \in [0..n-1 -> A] : Runs(n - 1, f)
    BY <1>2
  <2> DEFINE g == [m \in 0..n |-> IF m = n THEN step[n][f[n-1]] ELSE f[m]]
  <2>2. n - 1 \in 0..n-1 /\ f[n-1] \in A
    OBVIOUS
  <2>3. g \in [0..n -> A]
    BY <2>2
  <2>4. g[0] = base /\ g[n] = step[n][g[n-1]]
    BY <2>1
  <2>5. ASSUME NEW m \in 1..n, m # n PROVE g[m] = step[m][g[m-1]]
    <3>1. m \in 1..n-1 /\ g[m] = f[m] /\ g[m-1] = f[m-1]
      BY <2>5
    <3> QED BY <2>1, <3>1
  <2>6. Runs(n, g)
    BY <2>4, <2>5
  <2> HIDE DEF Runs, g
  <2> QED BY <2>3, <2>6
<1>3. L \in S
  <2>1. \A n \in 1..L : n - 1 \in S => n \in S
    BY <1>2
  <2> HIDE DEF S
  <2>2. \A n \in 0..L : n \in S
    BY <1>1, <2>1, CountingUp
  <2> QED BY <2>2
<1>4. PICK f \in [0..L -> A] : Runs(L, f)
  <2> HIDE DEF Runs
  <2> QED BY <1>3
<1> QED BY <1>4
===============================================================================
