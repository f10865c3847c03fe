----------------------------- MODULE Induction -----------------------------
(***************************************************************************)
(* Induction over the natural numbers for the proofs of this project.  The *)
(* library states it with a predicate as a parameter; here a property is   *)
(* the set of the numbers that have it, so that the lemmas are first-order *)
(* and every prover can use them.  They give the loops of the code, which  *)
(* are recursive functions in the model, the equations they are defined    *)
(* by.                                                                     *)
(***************************************************************************)
EXTENDS Integers, WellFoundedInduction, TLAPS

\* A set of numbers has a least one, if it has any.
LEMMA LeastElement ==
    ASSUME NEW S, S \subseteq Nat, S # {}
    PROVE  \E n \in S : \A m \in S : n <= m
<1>1. PICK n \in S : \A m \in S : <<m, n>> \notin OpToRel(<, Nat)
  BY NatLessThanWellFounded, WFMin
<1>2. \A m \in S : ~(m < n)
  BY <1>1 DEF OpToRel
<1> QED
  BY <1>2

\* What holds at the start of a loop and is kept by every turn holds after n
\* turns: S is the set of the numbers of turns after which it does.
LEMMA InductionUpTo ==
    ASSUME NEW N \in Nat, NEW S, 0 \in S,
           \A n \in 0..(N - 1) : n \in S => n + 1 \in S
    PROVE  0..N \subseteq S
<1> DEFINE T == (0..N) \ S
<1> SUFFICES ASSUME T # {} PROVE FALSE
  OBVIOUS
<1>1. T \subseteq Nat
  OBVIOUS
<1>2. PICK n \in T : \A m \in T : n <= m
  <2> HIDE DEF T
  <2> QED
    BY <1>1, LeastElement
<1>3. n # 0 /\ n - 1 \in 0..(N - 1) /\ n - 1 \notin T
  BY <1>2
<1>4. n - 1 \in S
  BY <1>3
<1>5. (n - 1) + 1 \in S
  BY <1>3, <1>4
<1> QED
  BY <1>2, <1>5

\* The turns of a loop, each a function of what the turns before left, and what
\* the loop leaves after each of them when it begins with b.
Turns(N, S) == [1..N -> [S -> S]]
LoopRuns(N, S, b, turn) ==
    {f \in [0..N -> S] : f[0] = b /\ \A n \in 1..N : f[n] = turn[n][f[n - 1]]}

\* A loop of N turns is defined: there is the function that begins with b and
\* makes turn n of what the turns before left.
LEMMA LoopDefined ==
    ASSUME NEW N \in Nat, NEW S, NEW b \in S, NEW turn \in Turns(N, S)
    PROVE  \E f : f \in LoopRuns(N, S, b, turn)
<1> DEFINE IsLoop(f, k) ==
             /\ f \in [0..k -> S] /\ f[0] = b
             /\ \A n \in 1..k : f[n] = turn[n][f[n - 1]]
           K == {k \in 0..N : \E f : IsLoop(f, k)}
<1>1. 0 \in K
  <2>1. IsLoop([n \in 0..0 |-> b], 0)
    OBVIOUS
  <2> HIDE DEF IsLoop
  <2> QED
    BY <2>1
<1>2. ASSUME NEW k \in 0..(N - 1), k \in K PROVE k + 1 \in K
  <2>1. PICK f : IsLoop(f, k)
    BY <1>2
  <2> DEFINE g == [n \in 0..(k + 1) |->
                     IF n <= k THEN f[n] ELSE turn[k + 1][f[k]]]
  <2>2. f[k] \in S /\ turn[k + 1][f[k]] \in S
    BY <2>1 DEF Turns
  <2>3. g \in [0..(k + 1) -> S] /\ g[0] = b
    BY <2>1, <2>2
  <2>4. ASSUME NEW n \in 1..(k + 1) PROVE g[n] = turn[n][g[n - 1]]
    <3>1. CASE n <= k
      BY <3>1, <2>1
    <3>2. CASE n = k + 1
      BY <3>2, <2>1
    <3> QED
      BY <3>1, <3>2
  <2>5. IsLoop(g, k + 1)
    BY <2>3, <2>4
  <2> HIDE DEF IsLoop, g
  <2> QED
    BY <2>5
<1>3. N \in K
  <2> HIDE DEF K
  <2>1. 0..N \subseteq K
    BY <1>1, <1>2, InductionUpTo
  <2> QED
    BY <2>1
<1> QED
  BY <1>3 DEF LoopRuns
=============================================================================
