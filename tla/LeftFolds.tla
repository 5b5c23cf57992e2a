------------------------------- MODULE LeftFolds -------------------------------
(***************************************************************************)
(* Induction along a sequence: what FoldLeft(Op, base, s) of the community *)
(* modules computes, whatever operator Op is.  A module that folds an      *)
(* operator of its own takes an instance with it for Op.                   *)
(***************************************************************************)
EXTENDS SequencesExt, TLAPS, WellFoundedInduction

CONSTANT Op(_, _)

Fold(base, s) == FoldLeft(Op, base, s)

(* Induction up to n, on the set of the numbers for which a claim holds.   *)
LEMMA BoundedInduction ==
    ASSUME NEW n \in Nat, NEW S, 0 \in S,
           \A j \in 0..n : j < n /\ j \in S => j + 1 \in S
    PROVE  0..n \subseteq S
<1> DEFINE Missed == {j \in 0..n : j \notin S}
<1> SUFFICES ASSUME Missed # {} PROVE FALSE
  OBVIOUS
<1>1. Missed \subseteq Nat
  OBVIOUS
<1>2. PICK m \in Missed : \A l \in Missed : ~(<<l, m>> \in OpToRel(<, Nat))
  BY <1>1, NatLessThanWellFounded, WFMin
<1>3. m # 0 /\ m - 1 \in 0..n /\ m - 1 < n /\ (m - 1) + 1 = m
  <2>1. m \in 0..n /\ m \notin S
    OBVIOUS
  <2>2. m # 0
    BY <2>1
  <2> QED BY <2>1, <2>2
<1>4. m - 1 \in S
  <2>1. m - 1 \in Missed => <<m - 1, m>> \in OpToRel(<, Nat)
    BY <1>3 DEF OpToRel
  <2> QED BY <1>2, <1>3, <2>1
<1>5. m \in S
  BY <1>3, <1>4
<1> QED BY <1>2, <1>5

(* What iter of MapThenFoldSet has to be on the subsets of a set of        *)
(* positions.                                                              *)
Iterates(g, base, s, Positions) ==
    g = [t \in SUBSET Positions |->
            IF t = {} THEN base
            ELSE Op(g[t \ {Max(t)}], s[Max(t)])]

LEMMA MaxIs ==
    ASSUME NEW n \in Nat, NEW t \in SUBSET (1..n), n \in t
    PROVE  Max(t) = n
<1>1. n \in t /\ \A y \in t : n >= y
  OBVIOUS
<1>2. Max(t) \in t /\ \A y \in t : Max(t) >= y
  BY <1>1 DEF Max
<1>3. Max(t) \in 1..n /\ Max(t) >= n
  BY <1>1, <1>2
<1> QED BY <1>3

LEMMA IteratesExists ==
    ASSUME NEW n \in Nat, NEW base, NEW s
    PROVE  \E g : Iterates(g, base, s, 1..n)
<1> DEFINE S == {j \in 0..n : \E g : Iterates(g, base, s, 1..j)}
<1>1. 0 \in S
  <2> DEFINE g == [t \in SUBSET (1..0) |-> base]
  <2>1. g = [t \in SUBSET (1..0) |->
                IF t = {} THEN base ELSE Op(g[t \ {Max(t)}], s[Max(t)])]
    OBVIOUS
  <2>2. Iterates(g, base, s, 1..0)
    BY <2>1 DEF Iterates
  <2> QED BY <2>2
<1>2. ASSUME NEW j \in 0..n, j < n, j \in S
      PROVE  j + 1 \in S
  <2> PICK g : Iterates(g, base, s, 1..j)
    BY <1>2
  <2> DEFINE gg == [t \in SUBSET (1..(j + 1)) |->
                        IF j + 1 \in t THEN Op(g[t \ {j + 1}], s[j + 1]) ELSE g[t]]
             ggg == [t \in SUBSET (1..(j + 1)) |->
                        IF t = {} THEN base ELSE Op(gg[t \ {Max(t)}], s[Max(t)])]
  <2>1. ASSUME NEW t \in SUBSET (1..(j + 1))
        PROVE  gg[t] = ggg[t]
    <3>1. CASE j + 1 \in t
      <4>1. Max(t) = j + 1
        BY <3>1, MaxIs
      <4>2. t \ {j + 1} \in SUBSET (1..(j + 1)) /\ j + 1 \notin t \ {j + 1}
        OBVIOUS
      <4>3. gg[t \ {j + 1}] = g[t \ {j + 1}]
        BY <4>2
      <4> HIDE DEF gg
      <4>4. ggg[t] = Op(g[t \ {j + 1}], s[j + 1])
        BY <3>1, <4>1, <4>3
      <4> QED BY <3>1, <4>4 DEF gg
    <3>2. CASE j + 1 \notin t
      <4>1. t \in SUBSET (1..j)
        <5> SUFFICES ASSUME NEW y \in t PROVE y \in 1..j
          OBVIOUS
        <5> QED BY <3>2
      <4>2. gg[t] = g[t]
        BY <3>2
      <4>3. g[t] = IF t = {} THEN base ELSE Op(g[t \ {Max(t)}], s[Max(t)])
        BY <4>1 DEF Iterates
      <4>4. t \ {Max(t)} \in SUBSET (1..(j + 1)) /\ j + 1 \notin t \ {Max(t)}
        BY <3>2
      <4>5. gg[t \ {Max(t)}] = g[t \ {Max(t)}]
        BY <4>4
      <4> HIDE DEF gg
      <4> QED BY <4>2, <4>3, <4>5
    <3> QED BY <3>1, <3>2
  <2>2. gg = ggg
    BY <2>1
  <2>3. Iterates(gg, base, s, 1..(j + 1))
    <3> HIDE DEF gg
    <3> QED BY <2>2 DEF Iterates
  <2>4. j + 1 \in 0..n
    BY <1>2
  <2> HIDE DEF gg, ggg
  <2> QED BY <2>3, <2>4
<1> HIDE DEF S
<1>3. 0..n \subseteq S
  BY <1>1, <1>2, BoundedInduction
<1> QED BY <1>3 DEF S

(* The values a fold takes on its way: from base, by one element of the    *)
(* sequence after the other, to the result.                                *)
Steps(g, n, base, s) ==
    /\ g[0] = base
    /\ \A j \in 1..n : g[j] = Op(g[j - 1], s[j])
    /\ Fold(base, s) = g[n]

(* There are such values, for every operator and every sequence.           *)
LEMMA FoldPrefixes ==
    ASSUME NEW n \in Nat, NEW s, DOMAIN s = 1..n, NEW base
    PROVE  \E g : Steps(g, n, base, s)
<1> DEFINE iter == CHOOSE g : Iterates(g, base, s, 1..n)
<1>1. Iterates(iter, base, s, 1..n)
  BY IteratesExists
<1>2. Fold(base, s) = iter[1..n]
  BY DEF Fold, FoldLeft, MapThenFoldSet, Iterates
<1> HIDE DEF iter
<1> DEFINE g == [j \in 0..n |-> iter[1..j]]
<1>3. g[0] = base
  <2>1. 1..0 = {} /\ {} \in SUBSET (1..n)
    OBVIOUS
  <2>2. iter[{}] = base
    BY <1>1 DEF Iterates
  <2> QED BY <2>1, <2>2
<1>4. ASSUME NEW j \in 1..n
      PROVE  g[j] = Op(g[j - 1], s[j])
  <2>1. 1..j \in SUBSET (1..n) /\ j \in 1..j
    OBVIOUS
  <2>2. (1..j) \ {j} = 1..(j - 1)
    <3>1. \A y : y \in (1..j) \ {j} <=> y \in 1..(j - 1)
      OBVIOUS
    <3> QED BY <3>1
  <2>3. Max(1..j) = j
    BY <2>1, MaxIs
  <2>4. iter[1..j] = Op(iter[(1..j) \ {Max(1..j)}], s[Max(1..j)])
    BY <1>1, <2>1 DEF Iterates
  <2>5. g[j] = iter[1..j] /\ g[j - 1] = iter[1..(j - 1)]
    OBVIOUS
  <2> HIDE DEF g
  <2> QED BY <2>2, <2>3, <2>4, <2>5
<1> HIDE DEF g
<1>5. g[n] = iter[1..n]
  BY DEF g
<1>6. Steps(g, n, base, s)
  BY <1>2, <1>3, <1>4, <1>5 DEF Steps
<1> QED BY <1>6

(* A fold stays in a set that its operator does not lead out of.           *)
THEOREM FoldStaysIn ==
    ASSUME NEW n \in Nat, NEW s, DOMAIN s = 1..n, NEW base, NEW T,
           base \in T,
           \A x \in T : \A j \in 1..n : Op(x, s[j]) \in T
    PROVE  Fold(base, s) \in T
<1>0. PICK g : Steps(g, n, base, s)
  BY FoldPrefixes
<1>1. /\ g[0] = base
      /\ \A j \in 1..n : g[j] = Op(g[j - 1], s[j])
      /\ Fold(base, s) = g[n]
  BY <1>0 DEF Steps
<1> DEFINE S == {j \in 0..n : g[j] \in T}
<1>2. 0 \in S
  BY <1>1
<1>3. ASSUME NEW j \in 0..n, j < n, j \in S
      PROVE  j + 1 \in S
  <2>1. j + 1 \in 1..n /\ (j + 1) - 1 = j /\ g[j] \in T
    BY <1>3
  <2>2. g[j + 1] = Op(g[j], s[j + 1])
    BY <1>1, <2>1
  <2> QED BY <2>1, <2>2
<1> HIDE DEF S
<1>4. 0..n \subseteq S
  BY <1>2, <1>3, BoundedInduction
<1>5. n \in S
  BY <1>4
<1> QED BY <1>1, <1>5 DEF S

(* One more element is one more step of the operator.                      *)
THEOREM FoldExtends ==
    ASSUME NEW n \in Nat, NEW s, DOMAIN s = 1..n, NEW base,
           NEW t, DOMAIN t = 1..(n + 1), \A j \in 1..n : t[j] = s[j]
    PROVE  Fold(base, t) = Op(Fold(base, s), t[n + 1])
<1>0. PICK g : Steps(g, n, base, s)
  BY FoldPrefixes
<1>1. /\ g[0] = base
      /\ \A j \in 1..n : g[j] = Op(g[j - 1], s[j])
      /\ Fold(base, s) = g[n]
  BY <1>0 DEF Steps
<1> DEFINE m == n + 1
<1>2. m \in Nat
  OBVIOUS
<1>11. DOMAIN t = 1..m
  OBVIOUS
<1> HIDE DEF m
<1>12. PICK f : Steps(f, m, base, t)
  BY <1>2, <1>11, FoldPrefixes
<1>3. /\ f[0] = base
      /\ \A j \in 1..m : f[j] = Op(f[j - 1], t[j])
      /\ Fold(base, t) = f[m]
  BY <1>12 DEF Steps
<1> DEFINE S == {j \in 0..n : f[j] = g[j]}
<1>4. 0 \in S
  BY <1>1, <1>3
<1>5. ASSUME NEW j \in 0..n, j < n, j \in S
      PROVE  j + 1 \in S
  <2>1. j + 1 \in 1..n /\ j + 1 \in 1..m /\ (j + 1) - 1 = j /\ f[j] = g[j]
    BY <1>5 DEF m
  <2>2. g[j + 1] = Op(g[j], s[j + 1])
    BY <1>1, <2>1
  <2>3. f[j + 1] = Op(f[j], t[j + 1])
    BY <1>3, <2>1
  <2>4. t[j + 1] = s[j + 1]
    BY <2>1
  <2>5. f[j + 1] = g[j + 1]
    BY <2>1, <2>2, <2>3, <2>4
  <2> QED BY <2>1, <2>5
<1> HIDE DEF S
<1>6. 0..n \subseteq S
  BY <1>4, <1>5, BoundedInduction
<1>7. n \in S
  BY <1>6
<1>8. f[n] = g[n]
  BY <1>7 DEF S
<1>9. m \in 1..m /\ m - 1 = n /\ m = n + 1
  BY DEF m
<1>10. f[m] = Op(f[n], t[m])
  BY <1>3, <1>9
<1> QED BY <1>1, <1>3, <1>8, <1>9, <1>10
=============================================================================
