------------------------------ MODULE NatLemmas ------------------------------
(***************************************************************************)
(* What stands for induction over numbers: first-order facts, which the    *)
(* provers can use.                                                        *)
(***************************************************************************)
EXTENDS Naturals, WellFoundedInduction, TLAPS

(* Numbers have a least one.  With it a claim about the values of a        *)
(* recursive function is proved at the least place where it would fail.    *)
LEMMA NatLeast ==
  ASSUME NEW T, T \subseteq Nat, T # {}
  PROVE  \E m \in T : \A k \in T : m <= k
<1>1. PICK R : IsWellFoundedOn(R, Nat) /\ \A a, b \in Nat : a < b => <<a, b>> \in R
  <2>1. \A a, b \in Nat : a < b => <<a, b>> \in OpToRel(<, Nat)
    BY DEF OpToRel
  <2> QED  BY <2>1, NatLessThanWellFounded
<1>2. PICK m \in T : \A k \in T : ~ (<<k, m>> \in R)
  <2>1. IsWellFoundedOn(R, Nat)
    BY <1>1
  <2> QED  BY <2>1, WFMin
<1>3. \A k \in T : m <= k
  <2> TAKE k \in T
  <2>1. k \in Nat /\ m \in Nat
    OBVIOUS
  <2>2. ~ (k < m)
    BY <1>1, <1>2, <2>1, Zenon
  <2> QED  BY <2>1, <2>2
<1> QED  BY <1>3

-----------------------------------------------------------------------------
(***************************************************************************)
(* A step repeated any number of times: the function that gives what comes *)
(* out of it exists.                                                       *)
(***************************************************************************)
Repeats(h, n, base, step) ==
  h[0] = base /\ \A i \in 1 .. n : h[i] = step[h[i - 1]]

LEMMA RepeatsExist ==
  ASSUME NEW X, NEW base \in X, NEW step \in [X -> X]
  PROVE  \A n \in Nat : \E h \in [0 .. n -> X] : Repeats(h, n, base, step)
<1> DEFINE Fails == {n \in Nat : ~ \E h \in [0 .. n -> X] : Repeats(h, n, base, step)}
<1> SUFFICES ASSUME Fails # {} PROVE FALSE
  OBVIOUS
<1>1. PICK m \in Fails : \A k \in Fails : m <= k
  <2>1. Fails \subseteq Nat
    OBVIOUS
  <2> HIDE DEF Fails
  <2> QED  BY <2>1, NatLeast
<1>2. CASE m = 0
  <2> DEFINE h == [i \in 0 .. 0 |-> base]
  <2>1. h \in [0 .. 0 -> X] /\ Repeats(h, 0, base, step)
    BY DEF Repeats
  <2> QED  BY <1>1, <1>2, <2>1
<1>3. CASE m # 0
  <2>1. m \in Nat /\ m - 1 \in Nat /\ m - 1 \notin Fails
    BY <1>1, <1>3
  <2>2. PICK g \in [0 .. m - 1 -> X] : Repeats(g, m - 1, base, step)
    BY <2>1
  <2> DEFINE h == [i \in 0 .. m |-> IF i = m THEN step[g[m - 1]] ELSE g[i]]
  <2>3. g[m - 1] \in X
    BY <2>1, <2>2
  <2>4. h \in [0 .. m -> X]
    BY <2>1, <2>2, <2>3
  <2>5. h[0] = base
    BY <2>1, <2>2, <1>3 DEF Repeats
  <2>6. \A i \in 1 .. m : h[i] = step[h[i - 1]]
    BY <2>1, <2>2 DEF Repeats
  <2>7. Repeats(h, m, base, step)
    BY <2>5, <2>6 DEF Repeats
  <2> QED  BY <1>1, <2>4, <2>7
<1> QED  BY <1>2, <1>3

LEMMA RepeatsAgree ==
  ASSUME NEW g, NEW h, NEW m \in Nat, NEW n \in Nat, NEW base, NEW step,
         Repeats(g, m, base, step), Repeats(h, n, base, step), m <= n
  PROVE  g[m] = h[m]
<1> DEFINE Fails == {k \in 0 .. m : g[k] # h[k]}
<1> SUFFICES Fails = {}
  OBVIOUS
<1> SUFFICES ASSUME Fails # {} PROVE FALSE
  OBVIOUS
<1>1. PICK k \in Fails : \A j \in Fails : k <= j
  <2>1. Fails \subseteq Nat
    OBVIOUS
  <2> HIDE DEF Fails
  <2> QED  BY <2>1, NatLeast
<1>2. k # 0
  BY <1>1 DEF Repeats
<1>3. k - 1 \in 0 .. m /\ k - 1 \notin Fails /\ k \in 1 .. m /\ k \in 1 .. n
  BY <1>1, <1>2
<1> QED  BY <1>1, <1>3 DEF Repeats

Repetition(f, base, step) ==
  f[0] = base /\ \A n \in Nat : n # 0 => f[n] = step[f[n - 1]]

LEMMA RepetitionExists ==
  \A X : \A base \in X : \A step \in [X -> X] :
    \E f \in [Nat -> X] : Repetition(f, base, step)
<1> SUFFICES ASSUME NEW X, NEW base \in X, NEW step \in [X -> X]
             PROVE  \E f \in [Nat -> X] : Repetition(f, base, step)
  OBVIOUS
<1> DEFINE H(n) == CHOOSE h \in [0 .. n -> X] : Repeats(h, n, base, step)
           f == [n \in Nat |-> H(n)[n]]
<1>1. ASSUME NEW n \in Nat
      PROVE  H(n) \in [0 .. n -> X] /\ Repeats(H(n), n, base, step)
  BY RepeatsExist
<1> HIDE DEF H
<1>2. f \in [Nat -> X]
  BY <1>1
<1>3. f[0] = base
  BY <1>1 DEF Repeats
<1>4. ASSUME NEW n \in Nat, n # 0
      PROVE  f[n] = step[f[n - 1]]
  <2>1. n - 1 \in Nat /\ n - 1 <= n /\ n \in 1 .. n
    BY <1>4
  <2>2. H(n - 1)[n - 1] = H(n)[n - 1]
    BY <1>1, <2>1, RepeatsAgree
  <2>3. H(n)[n] = step[H(n)[n - 1]]
    BY <1>1, <2>1 DEF Repeats
  <2> QED  BY <2>1, <2>2, <2>3
<1> QED  BY <1>2, <1>3, <1>4 DEF Repetition

(* The same for a step that depends on its number.                         *)
CountedRepetition(f, base, step) ==
  f[0] = base /\ \A n \in Nat : n # 0 => f[n] = step[<<n, f[n - 1]>>]

LEMMA CountedRepetitionExists ==
  \A X : \A base \in X : \A step \in [Nat \X X -> X] :
    \E f \in [Nat -> X] : CountedRepetition(f, base, step)
<1> SUFFICES ASSUME NEW X, NEW base \in X, NEW step \in [Nat \X X -> X]
             PROVE  \E f \in [Nat -> X] : CountedRepetition(f, base, step)
  OBVIOUS
<1> DEFINE P == Nat \X X
           start == <<0, base>>
           turn == [p \in P |-> <<p[1] + 1, step[<<p[1] + 1, p[2]>>]>>]
<1>1. start \in P
  OBVIOUS
<1>2. turn \in [P -> P]
  <2>1. ASSUME NEW p \in P
        PROVE  <<p[1] + 1, step[<<p[1] + 1, p[2]>>]>> \in P
    <3>1. p[1] + 1 \in Nat /\ p[2] \in X
      OBVIOUS
    <3>2. <<p[1] + 1, p[2]>> \in Nat \X X
      BY <3>1
    <3> QED  BY <3>1, <3>2
  <2> QED  BY <2>1
<1>3. \E g \in [Nat -> P] : Repetition(g, start, turn)
  <2> HIDE DEF P, start, turn
  <2> QED  BY <1>1, <1>2, RepetitionExists, Zenon
<1>4. PICK g \in [Nat -> P] :
        g[0] = start /\ \A n \in Nat : n # 0 => g[n] = turn[g[n - 1]]
  BY <1>3 DEF Repetition
<1> DEFINE Fails == {n \in Nat : g[n][1] # n}
<1>5. Fails = {}
  <2> SUFFICES ASSUME Fails # {} PROVE FALSE
    OBVIOUS
  <2>1. PICK k \in Fails : \A j \in Fails : k <= j
    <3>1. Fails \subseteq Nat
      OBVIOUS
    <3> HIDE DEF Fails
    <3> QED  BY <3>1, NatLeast
  <2>2. k # 0
    BY <1>4, <2>1
  <2>3. k - 1 \in Nat /\ k - 1 \notin Fails
    BY <2>1, <2>2
  <2>4. g[k - 1] \in P /\ g[k - 1][1] = k - 1
    BY <1>4, <2>3
  <2>5. g[k] = turn[g[k - 1]]
    BY <1>4, <2>1, <2>2
  <2>6. turn[g[k - 1]] = <<g[k - 1][1] + 1, step[<<g[k - 1][1] + 1, g[k - 1][2]>>]>>
    BY <2>4
  <2>7. g[k][1] = g[k - 1][1] + 1
    BY <2>5, <2>6
  <2>8. k \in Nat /\ (k - 1) + 1 = k
    BY <2>1
  <2> QED  BY <2>1, <2>4, <2>7, <2>8
<1> DEFINE f == [n \in Nat |-> g[n][2]]
<1>6. f \in [Nat -> X]
  BY <1>4
<1>7. f[0] = base
  BY <1>4
<1>8. ASSUME NEW n \in Nat, n # 0
      PROVE  f[n] = step[<<n, f[n - 1]>>]
  <2>1. n - 1 \in Nat /\ (n - 1) + 1 = n
    BY <1>8
  <2>2. g[n - 1] \in P /\ g[n - 1][1] = n - 1
    BY <1>4, <1>5, <2>1
  <2>3. g[n] = turn[g[n - 1]]
    BY <1>4, <1>8
  <2>4. g[n] = <<(n - 1) + 1, step[<<(n - 1) + 1, g[n - 1][2]>>]>>
    BY <2>2, <2>3
  <2> QED  BY <2>1, <2>4
<1> QED  BY <1>6, <1>7, <1>8 DEF CountedRepetition

=============================================================================
