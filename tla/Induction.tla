------------------------------- MODULE Induction -------------------------------
(***************************************************************************)
(* Induction over the natural numbers stated with sets, and what a         *)
(* function defined by recursion on them satisfies.  The loops of the code *)
(* are modelled by such functions; the other proof modules cite these      *)
(* lemmas to unfold them.                                                  *)
(***************************************************************************)
EXTENDS Integers, WellFoundedInduction, TLAPS

\* The order of the natural numbers, as a relation.
Below == {p \in Nat \X Nat : p[1] < p[2]}

\* A nonempty set of naturals has a least element.
LEMMA LeastElement ==
    ASSUME NEW T, T \subseteq Nat, T # {}
    PROVE  \E x \in T : \A y \in T : x <= y
  <1>1. IsWellFoundedOn(Below, Nat)
    BY NatLessThanWellFounded DEF OpToRel, Below
  <1>2. PICK x \in T : \A y \in T : ~ (<<y, x>> \in Below)
    BY <1>1, WFMin
  <1>3. ASSUME NEW y \in T PROVE x <= y
    <2>1. x \in Nat /\ y \in Nat  BY DEF Below
    <2>2. y < x => <<y, x>> \in Below  BY <2>1 DEF Below
    <2> QED BY <1>2, <2>1, <2>2
  <1> QED BY <1>3

\* A set that holds 0 and the successor of each of its members holds every
\* natural number.
LEMMA SetInduction ==
    ASSUME NEW S, 0 \in S, \A n \in Nat : n \in S => n + 1 \in S
    PROVE  \A n \in Nat : n \in S
  <1> DEFINE T == {n \in Nat : n \notin S}
  <1>1. SUFFICES ASSUME T # {} PROVE FALSE
    OBVIOUS
  <1>2. PICK x \in T : \A y \in T : x <= y
    BY <1>1, LeastElement
  <1>3. x \in Nat /\ x \notin S /\ x # 0
    OBVIOUS
  <1>4. x - 1 \in Nat /\ (x - 1) + 1 = x /\ ~ (x <= x - 1)
    BY <1>3
  <1>5. x - 1 \in S
    BY <1>2, <1>4
  <1> QED BY <1>3, <1>4, <1>5

\* The same up to a bound: what holds at 0 and is handed on below k holds up to k.
LEMMA BoundedInduction ==
    ASSUME NEW k \in Nat, NEW S, 0 \in S,
           \A n \in 0 .. k - 1 : n \in S => n + 1 \in S
    PROVE  \A n \in 0 .. k : n \in S
  <1> DEFINE T == {n \in Nat : n <= k => n \in S}
  <1>1. 0 \in T
    OBVIOUS
  <1>2. ASSUME NEW n \in Nat, n \in T PROVE n + 1 \in T
    BY <1>2
  <1> HIDE DEF T
  <1>3. \A n \in Nat : n \in T
    BY <1>1, <1>2, SetInduction
  <1> QED BY <1>3 DEF T

\* The beginnings, up to n, of the function that starts with base and goes on
\* with step.
Beginnings(R, base, step, n) ==
    {h \in [0 .. n -> R] :
        /\ h[0] = base
        /\ \A i \in 0 .. n - 1 : h[i + 1] = step[i][h[i]]}

\* A shorter beginning is a part of every longer one.
LEMMA BeginningsAgree ==
    ASSUME NEW R, NEW base, NEW step,
           NEW m \in Nat, NEW n \in Nat, m <= n,
           NEW g \in Beginnings(R, base, step, m),
           NEW h \in Beginnings(R, base, step, n)
    PROVE  \A i \in 0 .. m : g[i] = h[i]
  <1> DEFINE S == {i \in 0 .. m : g[i] = h[i]}
  <1>1. 0 \in S
    BY DEF Beginnings
  <1>2. ASSUME NEW i \in 0 .. m - 1, i \in S PROVE i + 1 \in S
    <2>1. i \in 0 .. n - 1 /\ i + 1 \in 0 .. m
      OBVIOUS
    <2>2. g[i + 1] = step[i][g[i]] /\ h[i + 1] = step[i][h[i]]
      BY <2>1 DEF Beginnings
    <2> QED BY <1>2, <2>1, <2>2
  <1> HIDE DEF S
  <1>3. \A i \in 0 .. m : i \in S
    BY <1>1, <1>2, BoundedInduction
  <1> QED BY <1>3 DEF S

\* Every beginning can be taken one step further, so there is one of each length.
LEMMA BeginningsExist ==
    ASSUME NEW R, NEW base \in R, NEW step \in [Nat -> [R -> R]]
    PROVE  \A n \in Nat : Beginnings(R, base, step, n) # {}
  <1> DEFINE S == {n \in Nat : Beginnings(R, base, step, n) # {}}
  <1>1. 0 \in S
    <2>1. [i \in 0 .. 0 |-> base] \in Beginnings(R, base, step, 0)
      BY DEF Beginnings
    <2> QED BY <2>1
  <1>2. ASSUME NEW n \in Nat, n \in S PROVE n + 1 \in S
    <2>1. PICK h : h \in Beginnings(R, base, step, n)
      BY <1>2
    <2> DEFINE next == [i \in 0 .. n + 1 |-> IF i = n + 1 THEN step[n][h[n]] ELSE h[i]]
    <2>2. next \in [0 .. n + 1 -> R]
      BY <2>1 DEF Beginnings
    <2>3. next[0] = base
      BY <2>1 DEF Beginnings
    <2>4. ASSUME NEW i \in 0 .. (n + 1) - 1 PROVE next[i + 1] = step[i][next[i]]
      <3>1. CASE i = n
        BY <3>1
      <3>2. CASE i # n
        BY <2>1, <3>2 DEF Beginnings
      <3> QED BY <3>1, <3>2
    <2> HIDE DEF next
    <2>5. next \in Beginnings(R, base, step, n + 1)
      BY <2>2, <2>3, <2>4 DEF Beginnings
    <2> QED BY <2>5
  <1> HIDE DEF S
  <1>3. \A n \in Nat : n \in S
    BY <1>1, <1>2, SetInduction
  <1> QED BY <1>3 DEF S

Steps(R) == [Nat -> [R -> R]]

\* f starts with base and goes on with step.
Unfolds(f, R, base, step) ==
    /\ f \in [Nat -> R]
    /\ f[0] = base
    /\ \A n \in Nat : f[n + 1] = step[n][f[n]]

\* There is a function that starts with base and goes on with step: so a
\* recursive definition on Nat has a value, and it satisfies its equations.
THEOREM RecursionExists ==
    ASSUME NEW R, NEW base \in R, NEW step \in Steps(R)
    PROVE  \E f : Unfolds(f, R, base, step)
  <1> DEFINE up == [n \in Nat |-> CHOOSE h : h \in Beginnings(R, base, step, n)]
             f  == [n \in Nat |-> up[n][n]]
  <1>1. \A n \in Nat : up[n] \in Beginnings(R, base, step, n)
    BY BeginningsExist DEF Steps
  <1> HIDE DEF up
  <1>2. f \in [Nat -> R]
    <2>1. ASSUME NEW n \in Nat PROVE up[n][n] \in R
      BY <1>1 DEF Beginnings
    <2> QED BY <2>1
  <1>3. f[0] = base
    BY <1>1 DEF Beginnings
  <1>4. ASSUME NEW n \in Nat PROVE f[n + 1] = step[n][f[n]]
    <2>1. up[n] \in Beginnings(R, base, step, n)
          /\ up[n + 1] \in Beginnings(R, base, step, n + 1)
      BY <1>1
    <2>2. up[n + 1][n + 1] = step[n][up[n + 1][n]]
      BY <2>1 DEF Beginnings
    <2>3. up[n][n] = up[n + 1][n]
      <3>1. \A i \in 0 .. n : up[n][i] = up[n + 1][i]
        <4>1. n + 1 \in Nat /\ n <= n + 1
          OBVIOUS
        <4> QED BY <2>1, <4>1, BeginningsAgree
      <3> QED BY <3>1
    <2> QED BY <2>2, <2>3
  <1> HIDE DEF f
  <1>5. Unfolds(f, R, base, step)
    BY <1>2, <1>3, <1>4 DEF Unfolds
  <1> QED BY <1>5

\* ... in the form in which the functions are defined.
LEMMA UnfoldsBackwards ==
    ASSUME NEW R, NEW base, NEW step, NEW f, Unfolds(f, R, base, step)
    PROVE  /\ f = [n \in Nat |-> IF n = 0 THEN base ELSE step[n - 1][f[n - 1]]]
           /\ \A n \in Nat \ {0} : f[n - 1] \in R
  <1>1. ASSUME NEW n \in Nat, n # 0
        PROVE  f[n] = step[n - 1][f[n - 1]] /\ f[n - 1] \in R
    <2>1. n - 1 \in Nat /\ (n - 1) + 1 = n
      BY <1>1
    <2>2. f[(n - 1) + 1] = step[n - 1][f[n - 1]] /\ f[n - 1] \in R
      BY <2>1 DEF Unfolds
    <2> QED BY <2>1, <2>2
  <1> QED BY <1>1 DEF Unfolds

Bodies(R, k) == [1 .. k -> [R -> R]]

\* f[i] is what a loop that starts with base has computed after i of k rounds.
Rounds(f, R, base, k, body) ==
    /\ f \in [0 .. k -> R]
    /\ f = [i \in 0 .. k |-> IF i = 0 THEN base ELSE body[i][f[i - 1]]]

\* The same for a loop of k rounds, whose body may differ from round to round.
LEMMA LoopExists ==
    ASSUME NEW R, NEW base \in R, NEW k \in Nat, NEW body \in Bodies(R, k)
    PROVE  \E f : Rounds(f, R, base, k, body)
  <1> DEFINE step == [i \in Nat |-> [r \in R |->
                        IF i + 1 \in 1 .. k THEN body[i + 1][r] ELSE r]]
  <1>1. step \in [Nat -> [R -> R]]
    BY DEF Bodies
  <1> HIDE DEF step
  <1>2. PICK f : f \in Beginnings(R, base, step, k)
    BY <1>1, BeginningsExist
  <1>3. f \in [0 .. k -> R] /\ f[0] = base
    BY <1>2 DEF Beginnings
  <1>4. ASSUME NEW i \in 0 .. k, i # 0 PROVE f[i] = body[i][f[i - 1]]
    <2>1. PICK j \in 0 .. k - 1 : j = i - 1 /\ i = j + 1
      BY <1>4
    <2>2. f[j + 1] = step[j][f[j]]
      BY <1>2 DEF Beginnings
    <2>3. j \in Nat /\ f[j] \in R /\ j + 1 \in 1 .. k
      BY <1>3
    <2>4. step[j][f[j]] = body[j + 1][f[j]]
      BY <2>3 DEF step
    <2> QED BY <2>1, <2>2, <2>4
  <1>5. f = [i \in 0 .. k |-> IF i = 0 THEN base ELSE body[i][f[i - 1]]]
    BY <1>3, <1>4
  <1>6. Rounds(f, R, base, k, body)
    BY <1>3, <1>5 DEF Rounds
  <1> QED BY <1>6
=============================================================================
