--------------------------- MODULE HashTable_proofs ---------------------------
(***************************************************************************)
(* Proofs about HashTable: the lists of the buckets stay well formed under *)
(* every call the callers may make, through resizes too, and the table is  *)
(* the map of KVMap.                                                       *)
(***************************************************************************)
EXTENDS HashTable, FiniteSetTheorems, TLAPS

Appending == INSTANCE LeftFolds WITH Op <- Append1
Settling  == INSTANCE LeftFolds WITH Op <- Settled

-----------------------------------------------------------------------------
(* What a table is                                                         *)

Buckets(t) == 0..t.len - 1
Bucket == [used : Nat, head : Cells \cup {Null}, tail : Cells \cup {Null}]

Typed(t) ==
    /\ t = [len |-> t.len, used |-> t.used, table |-> t.table,
            item |-> t.item, live |-> t.live, ub |-> t.ub]
    /\ t.len \in Nat \ {0} /\ t.used \in Nat
    /\ t.table \in [Buckets(t) -> Bucket]
    /\ t.item \in [Cells -> Item]
    /\ t.live \subseteq Cells
    /\ t.ub = FALSE

(* W[b] are the cells of P that the list of bucket b goes through.         *)
Chained(t, W, P) ==
    \A b \in Buckets(t) :
        /\ W[b] \in [1..t.table[b].used -> P]
        /\ t.table[b].used > 0 => /\ W[b][1] = t.table[b].head
                                  /\ W[b][t.table[b].used] = t.table[b].tail
        /\ \A n \in 1..t.table[b].used :
              n < t.table[b].used => t.item[W[b][n]].next = W[b][n + 1]

(* Every one of them is in the bucket of its key, and only once.           *)
Homed(t, W) ==
    \A b \in Buckets(t) : \A n \in 1..t.table[b].used :
        /\ Slot(t, t.item[W[b][n]].key) = b
        /\ \A m \in 1..t.table[b].used : W[b][m] = W[b][n] => m = n

(* None is left out, and they are counted.                                 *)
Complete(t, W, P) ==
    /\ \A c \in P : \E b \in Buckets(t) :
          \E n \in 1..t.table[b].used : W[b][n] = c
    /\ IsFiniteSet(P) /\ Cardinality(P) = t.used

Lists(t, W, P) == Chained(t, W, P) /\ Homed(t, W) /\ Complete(t, W, P)

(* The live items have a key each, with a value.                           *)
Keyed(t) ==
    /\ \A c \in t.live : t.item[c].key \in Keys /\ t.item[c].value \in Values
    /\ \A c, d \in t.live : t.item[c].key = t.item[d].key => c = d

(* The inductive invariant                                                 *)
Good(t) == Typed(t) /\ Keyed(t) /\ \E W : Lists(t, W, t.live)

-----------------------------------------------------------------------------
(* The walk over a list                                                    *)

LEMMA Remainder ==
    ASSUME NEW a \in Nat, NEW n \in Nat \ {0}
    PROVE  a % n \in 0..n - 1
OBVIOUS

LEMMA SlotIs ==
    ASSUME NEW t, Typed(t), NEW k \in Keys
    PROVE  Slot(t, k) \in Buckets(t)
<1>1. t.len \in Nat \ {0}
  BY DEF Typed
<1>2. HashOf[k] \in Nat
  BY HashAssumption
<1> QED BY <1>1, <1>2, Remainder DEF Slot, Buckets

(* The walk is the list.                                                   *)
LEMMA WalkIs ==
    ASSUME NEW t, Typed(t), NEW W, NEW P, P \subseteq Cells, Chained(t, W, P),
           NEW b \in Buckets(t)
    PROVE  Walk(t, b) = W[b]
<1> DEFINE u == t.table[b].used
           w == W[b]
           Walks(f) == f = [n \in 1..u |->
                              IF n = 1 THEN t.table[b].head
                              ELSE IF f[n - 1] \in Cells THEN t.item[f[n - 1]].next
                                   ELSE Null]
<1>1. u \in Nat
  BY DEF Typed, Bucket
<1>2. /\ w \in [1..u -> P]
      /\ u > 0 => w[1] = t.table[b].head
      /\ \A n \in 1..u : n < u => t.item[w[n]].next = w[n + 1]
  BY DEF Chained
<1>3. Walk(t, b) = CHOOSE f : Walks(f)
  BY DEF Walk
<1> HIDE DEF u, w
<1>4. Walks(w)
  <2>1. ASSUME NEW n \in 1..u
        PROVE  w[n] = IF n = 1 THEN t.table[b].head
                      ELSE IF w[n - 1] \in Cells THEN t.item[w[n - 1]].next ELSE Null
    <3>1. CASE n = 1
      BY <1>1, <1>2, <3>1
    <3>2. CASE n # 1
      <4> DEFINE m == n - 1
      <4>1. m \in 1..u /\ m < u /\ m + 1 = n
        BY <1>1, <3>2
      <4> HIDE DEF m
      <4>2. w[m] \in Cells /\ t.item[w[m]].next = w[n]
        BY <1>2, <4>1
      <4> QED BY <3>2, <4>2 DEF m
    <3> QED BY <3>1, <3>2
  <2>2. w = [n \in 1..u |-> w[n]]
    BY <1>2
  <2> QED BY <2>1, <2>2
<1>5. ASSUME NEW f, Walks(f) PROVE f = w
  <2> DEFINE S == {j \in 0..u : \A i \in 1..j : f[i] = w[i]}
  <2>1. 0 \in S
    BY <1>1
  <2>2. ASSUME NEW j \in 0..u, j < u, j \in S PROVE j + 1 \in S
    <3>1. j + 1 \in 1..u /\ j + 1 \in 0..u
      BY <1>1, <2>2
    <3>2. ASSUME NEW i \in 1..j + 1 PROVE f[i] = w[i]
      <4>1. CASE i \in 1..j
        BY <2>2, <4>1
      <4>2. CASE i = j + 1
        <5>1. CASE i = 1
          BY <1>4, <1>5, <3>1, <4>2, <5>1
        <5>2. CASE i # 1
          <6>1. i - 1 \in 1..j /\ i \in 1..u
            BY <3>1, <4>2, <5>2
          <6>2. f[i - 1] = w[i - 1]
            BY <2>2, <6>1
          <6>3. f[i] = IF f[i - 1] \in Cells THEN t.item[f[i - 1]].next ELSE Null
            BY <1>5, <5>2, <6>1
          <6>4. w[i] = IF w[i - 1] \in Cells THEN t.item[w[i - 1]].next ELSE Null
            BY <1>4, <5>2, <6>1
          <6> QED BY <6>2, <6>3, <6>4
        <5> QED BY <5>1, <5>2
      <4> QED BY <2>2, <4>1, <4>2
    <3> QED BY <3>1, <3>2
  <2> HIDE DEF S
  <2>3. 0..u \subseteq S
    BY <1>1, <2>1, <2>2, Appending!BoundedInduction
  <2>4. u \in S
    BY <1>1, <2>3
  <2>5. \A i \in 1..u : f[i] = w[i]
    BY <2>4 DEF S
  <2>6. DOMAIN f = 1..u /\ f = [i \in DOMAIN f |-> f[i]]
    BY <1>5
  <2>7. DOMAIN w = 1..u /\ w = [i \in DOMAIN w |-> w[i]]
    BY <1>2
  <2> QED BY <2>5, <2>6, <2>7
<1> HIDE DEF Walks
<1> QED BY <1>3, <1>4, <1>5 DEF w
-----------------------------------------------------------------------------
(* Looking for a key                                                       *)

(* A live item is in the list of the bucket its key belongs to.            *)
LEMMA PlaceOf ==
    ASSUME NEW t, NEW W, Lists(t, W, t.live), NEW c \in t.live
    PROVE  \E n \in 1..t.table[Slot(t, t.item[c].key)].used :
              W[Slot(t, t.item[c].key)][n] = c
<1>1. PICK b \in Buckets(t) : \E n \in 1..t.table[b].used : W[b][n] = c
  BY DEF Lists, Complete
<1>2. Slot(t, t.item[c].key) = b
  BY <1>1 DEF Lists, Homed
<1> QED BY <1>1, <1>2

LEMMA SearchIs ==
    ASSUME NEW t, Typed(t), Keyed(t), NEW W, Lists(t, W, t.live), NEW k \in Keys
    PROVE  /\ DOMAIN Walk(t, Slot(t, k)) = 1..t.table[Slot(t, k)].used
           /\ \A n : Match(t, k, n) <=> /\ n \in 1..t.table[Slot(t, k)].used
                                        /\ t.item[W[Slot(t, k)][n]].key = k
           /\ Missing(t, k) <=> \A c \in t.live : t.item[c].key # k
           /\ ~Stray(t, k)
<1> DEFINE s == Slot(t, k)
           u == t.table[s].used
           w == W[s]
<1>1. s \in Buckets(t)
  BY SlotIs
<1>2. u \in Nat
  BY <1>1 DEF Typed, Bucket
<1>3. Walk(t, s) = w
  BY <1>1, WalkIs DEF Lists, Typed
<1>4. w \in [1..u -> t.live]
  BY <1>1 DEF Lists, Chained
<1>5. \A n, m \in 1..u : w[m] = w[n] => m = n
  BY <1>1 DEF Lists, Homed
<1>6. \A c \in t.live : t.item[c].key = k => \E n \in 1..u : w[n] = c
  BY PlaceOf
<1> HIDE DEF s, u, w
<1>7. ASSUME NEW n, n \in 1..u, t.item[w[n]].key = k
      PROVE  \A m \in 1..n - 1 : w[m] \in t.live /\ t.item[w[m]].key # k
  <2>1. SUFFICES ASSUME NEW m \in 1..n - 1
                 PROVE  w[m] \in t.live /\ t.item[w[m]].key # k
    OBVIOUS
  <2>2. m \in 1..u /\ m # n
    BY <1>2, <1>7
  <2>3. w[m] \in t.live /\ w[n] \in t.live /\ w[m] # w[n]
    BY <1>4, <1>5, <1>7, <2>2
  <2> QED BY <1>7, <2>3 DEF Keyed
<1>8. ASSUME NEW n PROVE Match(t, k, n) <=> n \in 1..u /\ t.item[w[n]].key = k
  <2>1. Match(t, k, n) <=> /\ n \in DOMAIN w /\ w[n] \in t.live /\ t.item[w[n]].key = k
                           /\ \A m \in 1..n - 1 : w[m] \in t.live /\ t.item[w[m]].key # k
    BY <1>3 DEF Match, s
  <2> QED BY <1>4, <1>7, <2>1
<1>9. Missing(t, k) <=> \A c \in t.live : t.item[c].key # k
  <2>1. Missing(t, k) <=> \A n \in DOMAIN w : w[n] \in t.live /\ t.item[w[n]].key # k
    BY <1>3 DEF Missing, s
  <2> QED BY <1>4, <1>6, <2>1
<1>10. ~Stray(t, k)
  <2>1. Stray(t, k) => ~Missing(t, k) /\ \A n \in DOMAIN w : ~Match(t, k, n)
    BY <1>3 DEF Stray, s
  <2>2. ASSUME ~Missing(t, k) PROVE \E n \in DOMAIN w : Match(t, k, n)
    <3>1. PICK c \in t.live : t.item[c].key = k
      BY <1>9, <2>2
    <3>2. PICK n \in 1..u : w[n] = c
      BY <1>6, <3>1
    <3> QED BY <1>4, <1>8, <3>1, <3>2
  <2> QED BY <2>1, <2>2
<1> QED BY <1>3, <1>4, <1>8, <1>9, <1>10 DEF s, u, w

(* What is found for a key is the value of the item that has it.           *)
LEMMA LookupIs ==
    ASSUME NEW t, Good(t), NEW k \in Keys
    PROVE  /\ \A c \in t.live : t.item[c].key = k => Lookup(t, k) = t.item[c].value
           /\ (\A c \in t.live : t.item[c].key # k) => Lookup(t, k) = None
<1> DEFINE s == Slot(t, k)
<1>1. Typed(t) /\ Keyed(t)
  BY DEF Good
<1>2. PICK W : Lists(t, W, t.live)
  BY DEF Good
<1> DEFINE u == t.table[s].used
           w == W[s]
<1>3. s \in Buckets(t)
  BY <1>1, SlotIs
<1>4. Walk(t, s) = w
  BY <1>1, <1>2, <1>3, WalkIs DEF Lists, Typed
<1>5. w \in [1..u -> t.live]
  BY <1>2, <1>3 DEF Lists, Chained
<1>6. \A n : Match(t, k, n) <=> n \in 1..u /\ t.item[w[n]].key = k
  BY <1>1, <1>2, SearchIs
<1>7. \A c \in t.live : t.item[c].key = k => \E n \in 1..u : w[n] = c
  BY <1>2, PlaceOf
<1>8. Lookup(t, k) = IF \E n \in DOMAIN w : Match(t, k, n)
                     THEN t.item[w[CHOOSE n \in DOMAIN w : Match(t, k, n)]].value
                     ELSE None
  BY <1>4 DEF Lookup
<1> HIDE DEF s, u, w
<1>9. ASSUME NEW c \in t.live, t.item[c].key = k PROVE Lookup(t, k) = t.item[c].value
  <2> DEFINE n == CHOOSE n \in DOMAIN w : Match(t, k, n)
  <2>1. \E m \in DOMAIN w : Match(t, k, m)
    BY <1>5, <1>6, <1>7, <1>9
  <2>2. n \in DOMAIN w /\ Match(t, k, n)
    BY <2>1
  <2> HIDE DEF n
  <2>3. w[n] \in t.live /\ t.item[w[n]].key = k
    BY <1>5, <1>6, <2>2
  <2>4. w[n] = c
    BY <1>1, <1>9, <2>3 DEF Keyed
  <2> QED BY <1>8, <2>1, <2>4 DEF n
<1>10. ASSUME \A c \in t.live : t.item[c].key # k PROVE Lookup(t, k) = None
  <2>1. ~\E m \in DOMAIN w : Match(t, k, m)
    BY <1>5, <1>6, <1>10
  <2> QED BY <1>8, <2>1
<1> QED BY <1>9, <1>10
-----------------------------------------------------------------------------
(* Appending an item                                                       *)

(* What the table consists of after the item of cell c was appended to the *)
(* list of its bucket.                                                     *)
LEMMA AppendFields ==
    ASSUME NEW t, Typed(t), NEW c \in t.live, t.item[c].key \in Keys,
           NEW b, b = Slot(t, t.item[c].key),
           t.table[b].used > 0 => t.table[b].tail \in t.live,
           NEW u, u = Append1(t, c)
    PROVE  /\ Typed(u) /\ u.len = t.len /\ u.used = t.used + 1 /\ u.live = t.live
           /\ \A a \in Buckets(t) : a # b => u.table[a] = t.table[a]
           /\ u.table[b].used = t.table[b].used + 1 /\ u.table[b].tail = c
           /\ t.table[b].used = 0 => u.table[b].head = c
           /\ t.table[b].used > 0 => u.table[b].head = t.table[b].head
           /\ \A d \in Cells : /\ u.item[d].key = t.item[d].key
                               /\ u.item[d].value = t.item[d].value
                               /\ t.table[b].used = 0 \/ d # t.table[b].tail
                                  => u.item[d].next = t.item[d].next
           /\ t.table[b].used > 0 => u.item[t.table[b].tail].next = c
<1>1. b \in Buckets(t) /\ c \in Cells
  BY SlotIs DEF Typed
<1>2. /\ t.table[b].used \in Nat
      /\ t.table[b].head \in Cells \cup {Null} /\ t.table[b].tail \in Cells \cup {Null}
  BY <1>1 DEF Typed, Bucket
<1>3. CASE t.table[b].used = 0
  <2> DEFINE e == [used |-> 1, head |-> c, tail |-> c]
  <2>1. u = [t EXCEPT !.table[b] = e, !.used = @ + 1]
    BY <1>3 DEF Append1
  <2>2. /\ u.len = t.len /\ u.used = t.used + 1 /\ u.live = t.live /\ u.item = t.item
        /\ u.table = [t.table EXCEPT ![b] = e]
    BY <2>1 DEF Typed
  <2>3. u = [len |-> u.len, used |-> u.used, table |-> u.table,
             item |-> u.item, live |-> u.live, ub |-> u.ub]
    BY <2>1 DEF Typed
  <2>4. u.ub = FALSE
    BY <2>1 DEF Typed
  <2>5. e \in Bucket
    BY <1>1 DEF Bucket
  <2>6. u.table \in [Buckets(t) -> Bucket]
    BY <2>2, <2>5 DEF Typed
  <2>7. Typed(u)
    BY <2>2, <2>3, <2>4, <2>6 DEF Typed, Buckets
  <2>8. u.table[b] = e /\ \A a \in Buckets(t) : a # b => u.table[a] = t.table[a]
    BY <1>1, <2>2 DEF Typed
  <2> QED BY <1>3, <2>2, <2>7, <2>8
<1>4. CASE t.table[b].used # 0
  <2> DEFINE x == t.table[b].tail
             e == [used |-> t.table[b].used + 1, head |-> t.table[b].head, tail |-> c]
  <2>0. t.table[b].used > 0 /\ x \in t.live /\ x \in Cells
    BY <1>2, <1>4 DEF Typed
  <2> HIDE DEF x
  <2>1. u = [t EXCEPT !.table[b] = e, !.used = @ + 1, !.item[x].next = c]
    BY <1>4, <2>0 DEF Append1, x
  <2> HIDE DEF e
  <2>2. /\ u.len = t.len /\ u.used = t.used + 1 /\ u.live = t.live
        /\ u.item = [t.item EXCEPT ![x].next = c]
        /\ u.table = [t.table EXCEPT ![b] = e]
    BY <2>1 DEF Typed
  <2>3. u = [len |-> u.len, used |-> u.used, table |-> u.table,
             item |-> u.item, live |-> u.live, ub |-> u.ub]
    BY <2>1 DEF Typed
  <2>4. u.ub = FALSE
    BY <2>1 DEF Typed
  <2>5. e \in Bucket
    BY <1>1, <1>2 DEF Bucket, e
  <2>6. u.table \in [Buckets(t) -> Bucket]
    BY <2>2, <2>5 DEF Typed
  <2>7. /\ u.item[x] = [key |-> t.item[x].key, value |-> t.item[x].value, next |-> c]
        /\ \A d \in Cells : d # x => u.item[d] = t.item[d]
        /\ u.item \in [Cells -> Item]
    <3>1. t.item \in [Cells -> Item] /\ t.item[x] \in Item
      BY <2>0 DEF Typed
    <3>2. [t.item[x] EXCEPT !.next = c]
          = [key |-> t.item[x].key, value |-> t.item[x].value, next |-> c]
      BY <3>1 DEF Item
    <3>3. [t.item[x] EXCEPT !.next = c] \in Item
      BY <1>1, <3>1 DEF Item
    <3>4. u.item = [t.item EXCEPT ![x] = [t.item[x] EXCEPT !.next = c]]
      BY <2>2
    <3> DEFINE y == [t.item[x] EXCEPT !.next = c]
    <3> HIDE DEF y
    <3>5. u.item = [t.item EXCEPT ![x] = y]
      BY <3>4 DEF y
    <3>6. u.item[x] = y /\ u.item \in [Cells -> Item]
          /\ \A d \in Cells : d # x => u.item[d] = t.item[d]
      BY <2>0, <3>1, <3>3, <3>5 DEF y
    <3> QED BY <3>2, <3>6 DEF y
  <2>8. Typed(u)
    BY <2>2, <2>3, <2>4, <2>6, <2>7 DEF Typed, Buckets
  <2>9. u.table[b] = e /\ \A a \in Buckets(t) : a # b => u.table[a] = t.table[a]
    BY <1>1, <2>2 DEF Typed
  <2>10. \A d \in Cells : /\ u.item[d].key = t.item[d].key
                          /\ u.item[d].value = t.item[d].value
                          /\ d # x => u.item[d].next = t.item[d].next
    BY <2>0, <2>7
  <2>11. u.item[x].next = c
    BY <2>7
  <2>12. /\ u.table[b].used = t.table[b].used + 1 /\ u.table[b].tail = c
         /\ u.table[b].head = t.table[b].head
    BY <2>9 DEF e
  <2>13. \A a \in Buckets(t) : a # b => u.table[a] = t.table[a]
    BY <2>9
  <2>14. u.len = t.len /\ u.used = t.used + 1 /\ u.live = t.live
    BY <2>2
  <2> QED BY <1>4, <2>8, <2>10, <2>11, <2>12, <2>13, <2>14 DEF x
<1> QED BY <1>3, <1>4

(* u has the items of t, and its lists hold those of P.                    *)
Holds(u, t, P) ==
    /\ Typed(u) /\ u.live = t.live
    /\ \A c \in Cells : /\ u.item[c].key = t.item[c].key
                        /\ u.item[c].value = t.item[c].value
    /\ P \subseteq t.live
    /\ \E W : Lists(u, W, P)

(* The item of a cell that is in no list yet becomes one of its bucket's.  *)
LEMMA AppendIs ==
    ASSUME NEW t, Typed(t), NEW P, P \subseteq t.live, NEW W, Lists(t, W, P),
           NEW c \in t.live, c \notin P, t.item[c].key \in Keys
    PROVE  /\ Holds(Append1(t, c), t, P \cup {c})
           /\ Append1(t, c).len = t.len
<1> DEFINE u == Append1(t, c)
           b == Slot(t, t.item[c].key)
           n0 == t.table[b].used
           x == t.table[b].tail
<1>1. b \in Buckets(t)
  BY SlotIs
<1>2. n0 \in Nat /\ \A a \in Buckets(t) : t.table[a].used \in Nat
  BY <1>1 DEF Typed, Bucket
<1>3. n0 > 0 => x = W[b][n0] /\ x \in P
  BY <1>1, <1>2 DEF Lists, Chained
<1>4. n0 > 0 => x \in t.live
  BY <1>3
<1> HIDE DEF n0, x
<1>18. b = Slot(t, t.item[c].key) /\ u = Append1(t, c)
  OBVIOUS
<1> HIDE DEF u, b
<1>19. t.table[b].used > 0 => t.table[b].tail \in t.live
  BY <1>4 DEF n0, x
<1>20. /\ Typed(u) /\ u.len = t.len /\ u.used = t.used + 1 /\ u.live = t.live
       /\ \A a \in Buckets(t) : a # b => u.table[a] = t.table[a]
       /\ u.table[b].used = t.table[b].used + 1 /\ u.table[b].tail = c
       /\ t.table[b].used = 0 => u.table[b].head = c
       /\ t.table[b].used > 0 => u.table[b].head = t.table[b].head
       /\ \A d \in Cells : /\ u.item[d].key = t.item[d].key
                           /\ u.item[d].value = t.item[d].value
                           /\ t.table[b].used = 0 \/ d # t.table[b].tail
                              => u.item[d].next = t.item[d].next
       /\ t.table[b].used > 0 => u.item[t.table[b].tail].next = c
  BY <1>18, <1>19, AppendFields
<1>5. /\ Typed(u) /\ u.len = t.len /\ u.used = t.used + 1 /\ u.live = t.live
      /\ \A a \in Buckets(t) : a # b => u.table[a] = t.table[a]
      /\ u.table[b].used = n0 + 1 /\ u.table[b].tail = c
      /\ n0 = 0 => u.table[b].head = c
      /\ n0 > 0 => u.table[b].head = t.table[b].head
      /\ \A d \in Cells : /\ u.item[d].key = t.item[d].key
                          /\ u.item[d].value = t.item[d].value
                          /\ n0 = 0 \/ d # x => u.item[d].next = t.item[d].next
      /\ n0 > 0 => u.item[x].next = c
  BY <1>20 DEF n0, x
<1>6. P \subseteq Cells /\ c \in Cells /\ Buckets(u) = Buckets(t)
  <2>1. t.live \subseteq Cells
    BY DEF Typed
  <2>2. P \subseteq Cells /\ c \in Cells
    BY <2>1
  <2>3. u.len = t.len
    BY <1>5
  <2>4. Buckets(u) = Buckets(t)
    BY <2>3 DEF Buckets
  <2> QED BY <2>2, <2>4
<1>7. \A d \in Cells : Slot(u, u.item[d].key) = Slot(t, t.item[d].key)
  <2>1. u.len = t.len
    BY <1>5
  <2>2. ASSUME NEW d \in Cells PROVE u.item[d].key = t.item[d].key
    BY <1>5
  <2> QED BY Zenon, <2>1, <2>2 DEF Slot
<1>8. \A a \in Buckets(t) :
         /\ W[a] \in [1..t.table[a].used -> P]
         /\ t.table[a].used > 0 => W[a][1] = t.table[a].head /\ W[a][t.table[a].used] = t.table[a].tail
         /\ \A n \in 1..t.table[a].used :
               n < t.table[a].used => t.item[W[a][n]].next = W[a][n + 1]
  BY DEF Lists, Chained
<1>9. \A a \in Buckets(t) : \A n \in 1..t.table[a].used :
         /\ Slot(t, t.item[W[a][n]].key) = a
         /\ \A m \in 1..t.table[a].used : W[a][m] = W[a][n] => m = n
  BY DEF Lists, Homed
<1> DEFINE V == [a \in Buckets(t) |->
                   [n \in 1..u.table[a].used |-> IF a = b /\ n = n0 + 1 THEN c ELSE W[a][n]]]
<1>10. \A a \in Buckets(t) : a # b => V[a] = W[a]
  <2>1. ASSUME NEW a \in Buckets(t), a # b PROVE V[a] = W[a]
    <3>1. V[a] = [n \in 1..t.table[a].used |-> W[a][n]]
      BY <1>5, <2>1
    <3>2. W[a] = [n \in 1..t.table[a].used |-> W[a][n]]
      BY <1>8
    <3> QED BY <3>1, <3>2
  <2> QED BY <2>1
<1>11. /\ DOMAIN V[b] = 1..n0 + 1 /\ V[b] = [n \in 1..n0 + 1 |-> V[b][n]]
       /\ V[b][n0 + 1] = c /\ \A n \in 1..n0 : V[b][n] = W[b][n]
  BY <1>1, <1>2, <1>5
<1> HIDE DEF V
<1>12. Chained(u, V, P \cup {c})
  <2>1. SUFFICES ASSUME NEW a \in Buckets(t)
                 PROVE  /\ V[a] \in [1..u.table[a].used -> P \cup {c}]
                        /\ u.table[a].used > 0 => /\ V[a][1] = u.table[a].head
                                                  /\ V[a][u.table[a].used] = u.table[a].tail
                        /\ \A n \in 1..u.table[a].used :
                              n < u.table[a].used => u.item[V[a][n]].next = V[a][n + 1]
    BY <1>6 DEF Chained
  <2>2. CASE a # b
    <3>1. V[a] = W[a] /\ u.table[a] = t.table[a]
      BY <1>5, <1>10, <2>2
    <3>2. ASSUME NEW n \in 1..t.table[a].used, n < t.table[a].used
          PROVE  u.item[W[a][n]].next = W[a][n + 1]
      <4>1. W[a][n] \in P /\ Slot(t, t.item[W[a][n]].key) = a
        BY <1>8, <1>9
      <4>2. n0 = 0 \/ W[a][n] # x
        <5>1. n0 > 0 => Slot(t, t.item[x].key) = b
          BY <1>1, <1>2, <1>3, <1>9 DEF n0
        <5> QED BY <1>2, <2>2, <4>1, <5>1
      <4> QED BY <1>5, <1>6, <1>8, <3>2, <4>1, <4>2
    <3> QED BY <1>8, <3>1, <3>2
  <2>3. CASE a = b
    <3>1. u.table[a].used = n0 + 1
      BY <1>5, <2>3
    <3>2. W[b] \in [1..n0 -> P]
      BY <1>1, <1>8 DEF n0
    <3>3. V[b] \in [1..n0 + 1 -> P \cup {c}]
      <4>1. ASSUME NEW n \in 1..n0 + 1 PROVE V[b][n] \in P \cup {c}
        <5>1. n \in 1..n0 \/ n = n0 + 1
          BY <1>2
        <5> QED BY <1>11, <3>2, <5>1
      <4> QED BY <1>11, <4>1
    <3>4. V[b][1] = u.table[b].head
      <4>1. CASE n0 = 0
        BY <1>5, <1>11, <4>1
      <4>2. CASE n0 # 0
        <5>1. n0 > 0 /\ 1 \in 1..n0
          BY <1>2, <4>2
        <5> QED BY <1>1, <1>5, <1>8, <1>11, <5>1 DEF n0
      <4> QED BY <4>1, <4>2
    <3>5. ASSUME NEW n \in 1..n0 + 1, n < n0 + 1
          PROVE  u.item[V[b][n]].next = V[b][n + 1]
      <4>0. n \in 1..n0 /\ n0 > 0
        BY <1>2, <3>5
      <4>1. n \in 1..n0 /\ n0 > 0 /\ V[b][n] = W[b][n] /\ W[b][n] \in P
        BY <1>11, <3>2, <4>0
      <4>2. CASE n = n0
        BY <1>3, <1>5, <1>11, <4>1, <4>2
      <4>3. CASE n # n0
        <5>1. n < n0 /\ n + 1 \in 1..n0 /\ n0 \in 1..n0
          BY <1>2, <4>1, <4>3
        <5>2. W[b][n] # x
          BY <1>1, <1>3, <1>9, <4>1, <4>3, <5>1 DEF n0
        <5>3. t.item[W[b][n]].next = W[b][n + 1]
          BY <1>1, <1>8, <4>1, <5>1 DEF n0
        <5>4. u.item[W[b][n]].next = t.item[W[b][n]].next
          BY <1>5, <1>6, <4>1, <5>2
        <5> QED BY <1>11, <4>1, <5>1, <5>3, <5>4
      <4> QED BY <4>2, <4>3
    <3> QED BY <1>5, <1>11, <2>3, <3>1, <3>3, <3>4, <3>5
  <2> QED BY <2>2, <2>3
<1>13. Homed(u, V)
  <2>1. SUFFICES ASSUME NEW a \in Buckets(t), NEW n \in 1..u.table[a].used
                 PROVE  /\ Slot(u, u.item[V[a][n]].key) = a
                        /\ \A m \in 1..u.table[a].used : V[a][m] = V[a][n] => m = n
    BY <1>6 DEF Homed
  <2>2. CASE a # b
    <3>1. V[a] = W[a] /\ u.table[a] = t.table[a]
      BY <1>5, <1>10, <2>2
    <3>2. W[a][n] \in Cells
      BY <1>6, <1>8, <3>1
    <3> QED BY <1>7, <1>9, <3>1, <3>2
  <2>3. CASE a = b
    <3>1. u.table[a].used = n0 + 1
      BY <1>5, <2>3
    <3>2. W[b] \in [1..n0 -> P]
      BY <1>1, <1>8 DEF n0
    <3>3. \A m \in 1..n0 + 1 : m \in 1..n0 \/ m = n0 + 1
      BY <1>2
    <3>4. \A m \in 1..n0 : V[b][m] \in P /\ V[b][m] = W[b][m]
      BY <1>11, <3>2
    <3>5. Slot(u, u.item[V[b][n]].key) = b
      <4>1. CASE n \in 1..n0
        BY <1>1, <1>6, <1>7, <1>9, <3>4, <4>1 DEF n0
      <4>2. CASE n = n0 + 1
        BY <1>6, <1>7, <1>11, <4>2 DEF b
      <4> QED BY <2>3, <3>1, <3>3, <4>1, <4>2
    <3>6. \A l, m \in 1..n0 : W[b][m] = W[b][l] => m = l
      BY <1>1, <1>9 DEF n0
    <3>7. \A m \in 1..n0 + 1 : V[b][m] = V[b][n] => m = n
      BY <1>11, <2>3, <3>1, <3>3, <3>4, <3>6
    <3> QED BY <2>3, <3>1, <3>5, <3>7
  <2> QED BY <2>2, <2>3
<1>14. Complete(u, V, P \cup {c})
  <2>1. ASSUME NEW d \in P \cup {c}
        PROVE  \E a \in Buckets(t) : \E n \in 1..u.table[a].used : V[a][n] = d
    <3>1. CASE d = c
      <4>1. n0 + 1 \in 1..u.table[b].used
        BY <1>2, <1>5
      <4> QED BY <1>1, <1>11, <3>1, <4>1
    <3>2. CASE d \in P
      <4>1. PICK a \in Buckets(t) : \E n \in 1..t.table[a].used : W[a][n] = d
        BY <3>2 DEF Lists, Complete
      <4>2. CASE a = b
        <5>1. PICK n \in 1..n0 : W[b][n] = d
          BY <4>1, <4>2 DEF n0
        <5>2. n \in 1..n0 + 1 /\ u.table[b].used = n0 + 1
          BY <1>2, <1>5
        <5>3. n \in 1..u.table[b].used /\ V[b][n] = d
          BY <1>11, <5>1, <5>2
        <5> QED BY <1>1, <5>3
      <4>3. CASE a # b
        BY <1>5, <1>10, <4>1, <4>3
      <4> QED BY <4>2, <4>3
    <3> QED BY <3>1, <3>2
  <2>2. IsFiniteSet(P) /\ Cardinality(P) = t.used
    BY DEF Lists, Complete
  <2>3. IsFiniteSet(P \cup {c}) /\ Cardinality(P \cup {c}) = t.used + 1
    BY <2>2, FS_AddElement
  <2> QED BY <1>5, <1>6, <2>1, <2>3 DEF Complete
<1>15. Lists(u, V, P \cup {c})
  BY <1>12, <1>13, <1>14 DEF Lists
<1>16. Holds(u, t, P \cup {c})
  BY <1>5, <1>15 DEF Holds
<1> QED BY <1>5, <1>16 DEF u
-----------------------------------------------------------------------------
(* Resizing                                                                *)

LEMMA AppendingIsFold ==
    ASSUME NEW t, NEW items
    PROVE  Settled(t, items) = Appending!Fold(t, items)
BY DEF Settled, Appending!Fold, FoldLeft, Appending!FoldLeft, MapThenFoldSet,
       Appending!MapThenFoldSet, Max, Appending!Max

LEMMA SettlingIsFold ==
    ASSUME NEW t, NEW lists
    PROVE  FoldLeft(Settled, t, lists) = Settling!Fold(t, lists)
BY DEF Settling!Fold, FoldLeft, Settling!FoldLeft, MapThenFoldSet,
       Settling!MapThenFoldSet, Max, Settling!Max

LEMMA HoldsOneMore ==
    ASSUME NEW t, Keyed(t), NEW u, NEW P, Holds(u, t, P), NEW c \in t.live, c \notin P,
           t.live \subseteq Cells
    PROVE  Holds(Append1(u, c), t, P \cup {c}) /\ Append1(u, c).len = u.len
<1> DEFINE v == Append1(u, c)
<1>1. /\ Typed(u) /\ u.live = t.live /\ P \subseteq u.live
      /\ \A d \in Cells : u.item[d].key = t.item[d].key /\ u.item[d].value = t.item[d].value
  BY DEF Holds
<1>2. PICK W : Lists(u, W, P)
  BY DEF Holds
<1>3. c \in u.live /\ u.item[c].key \in Keys
  BY <1>1 DEF Keyed
<1> HIDE DEF v
<1>4. Holds(v, u, P \cup {c}) /\ v.len = u.len
  BY <1>1, <1>2, <1>3, AppendIs DEF v
<1>5. Holds(v, t, P \cup {c})
  BY <1>1, <1>4 DEF Holds
<1> QED BY <1>4, <1>5 DEF v

(* Settling a list of cells that are in no list yet adds just those.       *)
LEMMA SettledIs ==
    ASSUME NEW t, Keyed(t), t.live \subseteq Cells, NEW u, NEW P, Holds(u, t, P),
           NEW m \in Nat, NEW w \in [1..m -> t.live \ P],
           \A i, j \in 1..m : w[i] = w[j] => i = j
    PROVE  /\ Holds(Settled(u, w), t, P \cup {w[n] : n \in 1..m})
           /\ Settled(u, w).len = u.len
<1> DEFINE Q(j) == P \cup {w[n] : n \in 1..j}
<1>1. DOMAIN w = 1..m
  OBVIOUS
<1>0. PICK g : Appending!Steps(g, m, u, w)
  BY <1>1, Appending!FoldPrefixes
<1>2. /\ g[0] = u
      /\ \A j \in 1..m : g[j] = Append1(g[j - 1], w[j])
      /\ Appending!Fold(u, w) = g[m]
  BY <1>0 DEF Appending!Steps
<1> DEFINE S == {j \in 0..m : Holds(g[j], t, Q(j)) /\ g[j].len = u.len}
<1>3. 0 \in S
  <2>1. Q(0) = P
    OBVIOUS
  <2> HIDE DEF Q
  <2>2. Holds(g[0], t, Q(0)) /\ g[0].len = u.len
    BY <1>2, <2>1
  <2> QED BY <2>2
<1>4. ASSUME NEW j \in 0..m, j < m, j \in S PROVE j + 1 \in S
  <2> DEFINE i == j + 1
  <2>1. i \in 1..m /\ i - 1 = j /\ i \in 0..m
    BY <1>4
  <2>2. Holds(g[j], t, Q(j)) /\ g[j].len = u.len
    BY <1>4
  <2>3. w[i] \in t.live /\ w[i] \notin Q(j)
    <3>1. \A n \in 1..j : n \in 1..m /\ n # i
      BY <1>4
    <3> QED BY <2>1, <3>1
  <2>4. Q(i) = Q(j) \cup {w[i]}
    <3>1. 1..i = 1..j \cup {i}
      BY <1>4
    <3> QED BY <3>1
  <2>5. g[i] = Append1(g[j], w[i])
    BY <1>2, <2>1
  <2> DEFINE c == w[i]
             R == Q(j)
             y == g[j]
  <2> HIDE DEF Q, i, c, R, y, S
  <2>8. Holds(Append1(y, c), t, R \cup {c}) /\ Append1(y, c).len = y.len
    <3>1. c \in t.live /\ c \notin R /\ Holds(y, t, R)
      BY <2>2, <2>3 DEF c, R, y
    <3> QED BY <3>1, HoldsOneMore
  <2>6. Holds(g[i], t, Q(i)) /\ g[i].len = u.len
    BY <2>2, <2>4, <2>5, <2>8 DEF c, R, y
  <2>7. i \in S
    BY <2>1, <2>6 DEF S
  <2> QED BY <2>7 DEF i
<1> HIDE DEF S
<1>5. 0..m \subseteq S
  BY <1>3, <1>4, Appending!BoundedInduction
<1>6. m \in S
  BY <1>5
<1>7. Holds(g[m], t, Q(m)) /\ g[m].len = u.len
  BY <1>6 DEF S
<1>8. Settled(u, w) = g[m]
  BY <1>2, AppendingIsFold
<1> QED BY <1>7, <1>8

(* A table without items                                                   *)
LEMMA EmptyLists ==
    ASSUME NEW t, Typed(t), t.used = 0, \A b \in Buckets(t) : t.table[b] = EmptyBucket
    PROVE  \E W : Lists(t, W, {})
<1> DEFINE W == [b \in Buckets(t) |-> [n \in 1..0 |-> Null]]
<1>1. \A b \in Buckets(t) : t.table[b].used = 0 /\ 1..0 = {}
  BY DEF EmptyBucket
<1>2. \A b \in Buckets(t) : W[b] \in [1..t.table[b].used -> {}]
  BY <1>1
<1> HIDE DEF W
<1>3. Chained(t, W, {})
  BY <1>1, <1>2 DEF Chained
<1>4. Homed(t, W)
  BY <1>1 DEF Homed
<1>5. Complete(t, W, {})
  BY FS_EmptySet DEF Complete
<1> QED BY <1>3, <1>4, <1>5 DEF Lists

(* A resize keeps the items, and puts them into lists of the new length.   *)
LEMMA ReallocIs ==
    ASSUME NEW t, Good(t), NEW newlen \in Nat \ {0}, NEW u, u = Realloc(t, newlen)
    PROVE  /\ Good(u) /\ u.live = t.live /\ u.len = newlen
           /\ \A c \in Cells : /\ u.item[c].key = t.item[c].key
                               /\ u.item[c].value = t.item[c].value
<1> DEFINE e == [t EXCEPT !.len = newlen, !.used = 0, !.table = Create(newlen).table]
           Q(j) == {c \in t.live : Slot(t, t.item[c].key) < j}
<1>1. Typed(t) /\ Keyed(t) /\ t.live \subseteq Cells /\ t.len \in Nat
  BY DEF Good, Typed
<1>2. PICK W : Lists(t, W, t.live)
  BY DEF Good
<1>3. \A b \in Buckets(t) : Walk(t, b) = W[b]
  BY <1>1, <1>2, WalkIs DEF Lists
<1>4. ASSUME NEW i \in 1..t.len
      PROVE  /\ i - 1 \in Buckets(t) /\ ListsOf(t)[i] = W[i - 1]
             /\ t.table[i - 1].used \in Nat
             /\ W[i - 1] \in [1..t.table[i - 1].used -> t.live]
  <2>1. i - 1 \in Buckets(t)
    BY <1>1 DEF Buckets
  <2>2. ListsOf(t)[i] = Walk(t, i - 1)
    BY DEF ListsOf
  <2> DEFINE b == i - 1
  <2> HIDE DEF b
  <2>3. t.table[b].used \in Nat
    BY <1>1, <2>1 DEF Typed, Bucket, b
  <2>4. W[b] \in [1..t.table[b].used -> t.live]
    BY <1>2, <2>1 DEF Lists, Chained, b
  <2> QED BY <1>3, <2>1, <2>2, <2>3, <2>4 DEF b
<1>5. AllLive(t)
  <2>1. ASSUME NEW i \in 1..t.len PROVE Range(ListsOf(t)[i]) \subseteq t.live
    <3> DEFINE w == W[i - 1]
               m == t.table[i - 1].used
    <3>1. ListsOf(t)[i] = w /\ w \in [1..m -> t.live]
      BY <1>4
    <3> HIDE DEF w, m
    <3> QED BY <3>1 DEF Range
  <2> QED BY <2>1 DEF AllLive
<1>6. u = FoldLeft(Settled, e, ListsOf(t))
  BY <1>5 DEF Realloc
<1>7. /\ Typed(e) /\ e.live = t.live /\ e.len = newlen /\ e.used = 0 /\ e.item = t.item
      /\ \A b \in Buckets(e) : e.table[b] = EmptyBucket
  <2> DEFINE tb == [b \in 0..newlen - 1 |-> EmptyBucket]
  <2>1. Create(newlen).table = tb
    BY DEF Create
  <2> HIDE DEF tb
  <2>0. e = [t EXCEPT !.len = newlen, !.used = 0, !.table = tb]
    BY <2>1
  <2> HIDE DEF e
  <2>2. /\ e.len = newlen /\ e.used = 0 /\ e.table = tb /\ e.live = t.live /\ e.item = t.item
        /\ e = [len |-> e.len, used |-> e.used, table |-> e.table,
                item |-> e.item, live |-> e.live, ub |-> e.ub]
    BY <1>1, <2>0 DEF Typed
  <2>3. e.ub = FALSE
    BY <1>1, <2>0 DEF Typed
  <2>4. EmptyBucket \in Bucket
    BY DEF EmptyBucket, Bucket
  <2>5. tb \in [0..newlen - 1 -> Bucket] /\ \A b \in 0..newlen - 1 : tb[b] = EmptyBucket
    BY <2>4 DEF tb
  <2>6. Buckets(e) = 0..newlen - 1
    BY <2>2 DEF Buckets
  <2>7. Typed(e)
    BY <1>1, <2>2, <2>3, <2>5, <2>6 DEF Typed
  <2> QED BY <2>2, <2>5, <2>6, <2>7
<1> HIDE DEF e
<1>8. Holds(e, t, {})
  <2>1. \E V : Lists(e, V, {})
    BY <1>7, EmptyLists
  <2> QED BY <1>7, <2>1 DEF Holds
<1>9. DOMAIN ListsOf(t) = 1..t.len
  BY DEF ListsOf
<1>0. PICK g : Settling!Steps(g, t.len, e, ListsOf(t))
  <2> DEFINE n == t.len
  <2>1. n \in Nat /\ DOMAIN ListsOf(t) = 1..n
    BY <1>1, <1>9
  <2> HIDE DEF n
  <2> QED BY <2>1, Settling!FoldPrefixes DEF n
<1>10. /\ g[0] = e
       /\ \A j \in 1..t.len : g[j] = Settled(g[j - 1], ListsOf(t)[j])
       /\ Settling!Fold(e, ListsOf(t)) = g[t.len]
  BY <1>0 DEF Settling!Steps
<1> DEFINE S == {j \in 0..t.len : Holds(g[j], t, Q(j)) /\ g[j].len = newlen}
<1>11. \A c \in t.live : Slot(t, t.item[c].key) \in Buckets(t)
  BY <1>1, SlotIs DEF Keyed
<1>12. 0 \in S
  <2>1. Q(0) = {}
    BY <1>1, <1>11 DEF Buckets
  <2> HIDE DEF Q
  <2>2. Holds(g[0], t, Q(0)) /\ g[0].len = newlen
    BY <1>7, <1>8, <1>10, <2>1
  <2>3. 0 \in 0..t.len
    BY <1>1
  <2> QED BY <2>2, <2>3
<1>13. ASSUME NEW j \in 0..t.len, j < t.len, j \in S PROVE j + 1 \in S
  <2> DEFINE i == j + 1
             m == t.table[j].used
             w == W[j]
  <2>1. i \in 1..t.len /\ i - 1 = j /\ i \in 0..t.len
    BY <1>1, <1>13
  <2>2. Holds(g[j], t, Q(j)) /\ g[j].len = newlen
    BY <1>13
  <2>3. j \in Buckets(t) /\ ListsOf(t)[i] = w /\ m \in Nat /\ w \in [1..m -> t.live]
    BY <1>4, <2>1
  <2>4. \A n \in 1..m : Slot(t, t.item[w[n]].key) = j
    BY <1>2, <2>3 DEF Lists, Homed
  <2>5. \A l, n \in 1..m : w[l] = w[n] => l = n
    BY <1>2, <2>3 DEF Lists, Homed
  <2>6. \A c \in t.live : Slot(t, t.item[c].key) = j => \E n \in 1..m : w[n] = c
    BY <1>2, PlaceOf
  <2> HIDE DEF m, w
  <2>7. w \in [1..m -> t.live \ Q(j)]
    BY <2>3, <2>4
  <2>8. Q(i) = Q(j) \cup {w[n] : n \in 1..m}
    <3>1. ASSUME NEW c \in t.live
          PROVE  Slot(t, t.item[c].key) < i
                 <=> Slot(t, t.item[c].key) < j \/ Slot(t, t.item[c].key) = j
      <4>1. Slot(t, t.item[c].key) \in Int
        BY <1>1, <1>11 DEF Buckets
      <4> HIDE DEF S
      <4> QED BY <1>13, <4>1
    <3> QED BY <2>3, <2>4, <2>6, <3>1
  <2>9. g[i] = Settled(g[j], w)
    BY <1>10, <2>1, <2>3
  <2> HIDE DEF Q, i
  <2>10. Holds(g[i], t, Q(i)) /\ g[i].len = newlen
    <3> HIDE DEF S
    <3>1. Keyed(t) /\ t.live \subseteq Cells
      BY <1>1 DEF Typed
    <3> DEFINE v == g[j]
               P == Q(j)
    <3>2. Holds(v, t, P) /\ m \in Nat /\ w \in [1..m -> t.live \ P]
      BY <2>2, <2>3, <2>7
    <3> HIDE DEF v, P
    <3>3. Holds(Settled(v, w), t, P \cup {w[n] : n \in 1..m}) /\ Settled(v, w).len = v.len
      BY <3>1, <3>2, <2>5, SettledIs
    <3>4. Q(i) = P \cup {w[n] : n \in 1..m} /\ g[i] = Settled(v, w) /\ v.len = newlen
      BY <2>2, <2>8, <2>9 DEF v, P
    <3> QED BY <3>3, <3>4
  <2>11. i \in S
    BY <2>1, <2>10
  <2> QED BY <2>11 DEF i
<1> HIDE DEF S
<1>14. 0..t.len \subseteq S
  BY <1>1, <1>12, <1>13, Settling!BoundedInduction
<1>15. t.len \in S
  BY <1>1, <1>14
<1>16. Q(t.len) = t.live
  BY <1>1, <1>11 DEF Buckets
<1>17. u = g[t.len]
  BY <1>6, <1>10, SettlingIsFold
<1>18. Holds(u, t, t.live) /\ u.len = newlen
  BY <1>15, <1>16, <1>17 DEF S
<1>19. Typed(u) /\ u.live = t.live /\ (\E V : Lists(u, V, t.live))
       /\ \A c \in Cells : u.item[c].key = t.item[c].key /\ u.item[c].value = t.item[c].value
  BY <1>18 DEF Holds
<1>20. Keyed(u)
  BY <1>1, <1>19 DEF Keyed
<1>21. Good(u)
  BY <1>19, <1>20 DEF Good
<1> QED BY <1>18, <1>19, <1>21
-----------------------------------------------------------------------------
(* Adding and removing                                                     *)

(* The lists depend on the keys and the links of their own items only.     *)
LEMMA ListsSame ==
    ASSUME NEW t, NEW W, NEW P, Lists(t, W, P), NEW u,
           u.len = t.len, u.used = t.used, u.table = t.table,
           \A c \in P : u.item[c].key = t.item[c].key /\ u.item[c].next = t.item[c].next
    PROVE  Lists(u, W, P)
<1>1. Buckets(u) = Buckets(t)
  BY DEF Buckets
<1>2. \A b \in Buckets(t) : \A n \in 1..t.table[b].used : W[b][n] \in P
  BY DEF Lists, Chained
<1>3. Chained(u, W, P)
  BY <1>1, <1>2 DEF Lists, Chained
<1>4. \A b \in Buckets(t) : \A n \in 1..t.table[b].used :
         Slot(u, u.item[W[b][n]].key) = Slot(t, t.item[W[b][n]].key)
  BY <1>2 DEF Slot
<1>5. Homed(u, W)
  BY <1>1, <1>4 DEF Lists, Homed
<1>6. Complete(u, W, P)
  BY <1>1 DEF Lists, Complete
<1> QED BY <1>3, <1>5, <1>6 DEF Lists

(* What a table finds when the item of a cell was set, or added.           *)
LEMMA LookupSet ==
    ASSUME NEW t, Good(t), NEW u, Good(u), NEW c \in Cells, NEW k \in Keys, NEW v,
           u.live = t.live \cup {c}, u.item[c].key = k, u.item[c].value = v,
           \A d \in t.live : d # c => /\ u.item[d].key = t.item[d].key
                                      /\ u.item[d].value = t.item[d].value
                                      /\ t.item[d].key # k,
           c \in t.live => t.item[c].key = k
    PROVE  \A j \in Keys : Lookup(u, j) = IF j = k THEN v ELSE Lookup(t, j)
<1>1. SUFFICES ASSUME NEW j \in Keys
               PROVE  Lookup(u, j) = IF j = k THEN v ELSE Lookup(t, j)
  OBVIOUS
<1>2. CASE j = k
  BY <1>2, LookupIs
<1>3. CASE j # k /\ \E d \in t.live : t.item[d].key = j
  <2>1. PICK d \in t.live : t.item[d].key = j
    BY <1>3
  <2>2. d # c /\ d \in u.live
    BY <1>3, <2>1
  <2>3. u.item[d].key = j /\ u.item[d].value = t.item[d].value
    BY <2>1, <2>2
  <2>4. Lookup(u, j) = u.item[d].value
    BY <2>2, <2>3, LookupIs
  <2>5. Lookup(t, j) = t.item[d].value
    BY <2>1, LookupIs
  <2> QED BY <1>3, <2>3, <2>4, <2>5
<1>4. CASE j # k /\ ~\E d \in t.live : t.item[d].key = j
  <2>1. \A d \in u.live : u.item[d].key # j
    BY <1>4
  <2>2. Lookup(u, j) = None
    BY <2>1, LookupIs
  <2>3. Lookup(t, j) = None
    BY <1>4, LookupIs
  <2> QED BY <1>4, <2>2, <2>3
<1> QED BY <1>2, <1>3, <1>4

LEMMA AddedIs ==
    ASSUME NEW t, Good(t), NEW k \in Keys, NEW v \in Values, NEW u \in Added(t, k, v)
    PROVE  /\ Good(u)
           /\ \A j \in Keys : Lookup(u, j) = IF j = k THEN v ELSE Lookup(t, j)
<1> DEFINE s == Slot(t, k)
<1>1. Typed(t) /\ Keyed(t) /\ t.live \subseteq Cells /\ t.item \in [Cells -> Item]
  BY DEF Good, Typed
<1>2. PICK W : Lists(t, W, t.live)
  BY DEF Good
<1>3. /\ DOMAIN Walk(t, s) = 1..t.table[s].used
      /\ \A n : Match(t, k, n) <=> /\ n \in 1..t.table[s].used
                                   /\ t.item[W[s][n]].key = k
      /\ Missing(t, k) <=> \A c \in t.live : t.item[c].key # k
      /\ ~Stray(t, k)
  BY <1>1, <1>2, SearchIs
<1>4. s \in Buckets(t)
  BY <1>1, SlotIs
<1>5. Walk(t, s) = W[s]
  BY <1>1, <1>2, <1>4, WalkIs DEF Lists
<1> HIDE DEF s
<1>6. CASE Missing(t, k)
  <2> DEFINE Placed(c) == [t EXCEPT !.item[c] = [key |-> k, value |-> v, next |-> Null],
                                    !.live = @ \cup {c}]
  <2>1. PICK c \in Fresh(t) : u = Append1(Placed(c), c)
    BY <1>3, <1>6 DEF Added
  <2>2. c \in Cells /\ c \notin t.live
    BY <2>1 DEF Fresh
  <2> DEFINE i == [key |-> k, value |-> v, next |-> Null]
             a == Placed(c)
             l == t.live \cup {c}
             f == [t.item EXCEPT ![c] = i]
  <2>3. a = [t EXCEPT !.item = f, !.live = l]
    BY <1>1 DEF Typed
  <2>4. i \in Item /\ i.key = k /\ i.value = v
    BY DEF Item
  <2> HIDE DEF i, a
  <2>5. /\ Typed(a) /\ a.len = t.len /\ a.used = t.used /\ a.table = t.table
        /\ a.live = t.live \cup {c} /\ a.item[c] = i
        /\ \A d \in Cells : d # c => a.item[d] = t.item[d]
    <3>1. l \subseteq Cells
      BY <1>1, <2>2
    <3>3. f \in [Cells -> Item] /\ f[c] = i /\ \A d \in Cells : d # c => f[d] = t.item[d]
      BY <1>1, <2>2, <2>4
    <3>4. i \in Item /\ c \in Cells /\ Typed(t)
      BY <1>1, <2>2, <2>4
    <3> HIDE DEF l, f
    <3>2. /\ Typed(a) /\ a.len = t.len /\ a.used = t.used /\ a.table = t.table
          /\ a.live = l /\ a.item[c] = i
          /\ \A d \in Cells : d # c => a.item[d] = t.item[d]
      <4>1. /\ a.len = t.len /\ a.used = t.used /\ a.table = t.table /\ a.live = l
            /\ a.item = f
            /\ a = [len |-> a.len, used |-> a.used, table |-> a.table,
                    item |-> a.item, live |-> a.live, ub |-> a.ub]
        BY <2>3, <3>4 DEF Typed
      <4>2. a.ub = FALSE
        BY <2>3, <3>4 DEF Typed
      <4>3. Typed(a)
        BY <3>1, <3>3, <3>4, <4>1, <4>2 DEF Typed, Buckets
      <4> QED BY <3>3, <4>1, <4>3
    <3> QED BY <3>2 DEF l
  <2>6. Lists(a, W, t.live)
    <3>1. \A d \in t.live : a.item[d] = t.item[d]
      BY <1>1, <2>2, <2>5
    <3> QED BY <1>2, <2>5, <3>1, ListsSame
  <2>7. u = Append1(a, c)
    BY <2>1 DEF a
  <2>8. Holds(u, a, t.live \cup {c})
    <3>1. c \in a.live /\ t.live \subseteq a.live /\ a.item[c].key \in Keys
      BY <2>4, <2>5
    <3> QED BY <2>2, <2>5, <2>6, <2>7, <3>1, AppendIs
  <2>9. /\ Typed(u) /\ u.live = t.live \cup {c} /\ \E V : Lists(u, V, u.live)
        /\ \A d \in Cells : u.item[d].key = a.item[d].key /\ u.item[d].value = a.item[d].value
    BY <2>5, <2>8 DEF Holds
  <2>10. /\ u.item[c].key = k /\ u.item[c].value = v
         /\ \A d \in t.live : /\ d # c /\ t.item[d].key # k
                              /\ u.item[d].key = t.item[d].key
                              /\ u.item[d].value = t.item[d].value
    BY <1>1, <1>3, <1>6, <2>2, <2>4, <2>5, <2>9
  <2>11. Keyed(u)
    BY <1>1, <2>9, <2>10 DEF Keyed
  <2>12. Good(u)
    BY <2>9, <2>11 DEF Good
  <2> QED BY <2>2, <2>9, <2>10, <2>12, LookupSet
<1>7. CASE ~Missing(t, k)
  <2>1. PICK n \in DOMAIN Walk(t, s) :
           Match(t, k, n) /\ u = [t EXCEPT !.item[Walk(t, s)[n]].value = v]
    <3>1. u \in {[t EXCEPT !.item[Walk(t, s)[n]].value = v] :
                   n \in {m \in DOMAIN Walk(t, s) : Match(t, k, m)}}
      BY <1>3, <1>7 DEF Added, s
    <3> QED BY <3>1
  <2> DEFINE c == W[s][n]
             i == [t.item[c] EXCEPT !.value = v]
  <2>2. n \in 1..t.table[s].used /\ t.item[c].key = k
    BY <1>3, <2>1
  <2>3. c \in t.live
    BY <1>2, <1>4, <2>2 DEF Lists, Chained
  <2> HIDE DEF c
  <2>4. c \in Cells /\ t.item[c] \in Item
    BY <1>1, <2>3
  <2>5. u = [t EXCEPT !.item[c].value = v]
    BY <1>5, <2>1 DEF c
  <2> DEFINE f == [t.item EXCEPT ![c] = i]
  <2>6. u = [t EXCEPT !.item = f, !.live = t.live]
    BY <1>1, <2>5 DEF Typed
  <2>7. i \in Item /\ i.key = k /\ i.value = v /\ i.next = t.item[c].next
    BY <2>2, <2>4 DEF Item
  <2> HIDE DEF i
  <2>8. /\ Typed(u) /\ u.len = t.len /\ u.used = t.used /\ u.table = t.table
        /\ u.live = t.live /\ u.item[c] = i
        /\ \A d \in Cells : d # c => u.item[d] = t.item[d]
    <3>1. f \in [Cells -> Item] /\ f[c] = i /\ \A d \in Cells : d # c => f[d] = t.item[d]
      BY <1>1, <2>4, <2>7
    <3> HIDE DEF f
    <3>3. /\ u.len = t.len /\ u.used = t.used /\ u.table = t.table /\ u.live = t.live
          /\ u.item = f
          /\ u = [len |-> u.len, used |-> u.used, table |-> u.table,
                  item |-> u.item, live |-> u.live, ub |-> u.ub]
      BY <1>1, <2>6 DEF Typed
    <3>4. u.ub = FALSE
      BY <1>1, <2>6 DEF Typed
    <3>5. Typed(u)
      BY <1>1, <3>1, <3>3, <3>4 DEF Typed, Buckets
    <3> QED BY <3>1, <3>3, <3>5
  <2>9. \A d \in t.live : u.item[d].key = t.item[d].key /\ u.item[d].next = t.item[d].next
    BY <1>1, <2>2, <2>7, <2>8
  <2>10. Lists(u, W, u.live)
    BY <1>2, <2>8, <2>9, ListsSame
  <2>11. \A d \in t.live : d # c => u.item[d] = t.item[d] /\ t.item[d].key # k
    BY <1>1, <2>2, <2>3, <2>8 DEF Keyed
  <2>12. Keyed(u)
    BY <1>1, <2>7, <2>8, <2>9, <2>11 DEF Keyed
  <2>13. Good(u)
    BY <2>8, <2>10, <2>12 DEF Good
  <2>14. u.live = t.live \cup {c} /\ u.item[c].key = k /\ u.item[c].value = v
    BY <2>3, <2>7, <2>8
  <2> QED BY <2>2, <2>4, <2>11, <2>13, <2>14, LookupSet
<1> QED BY <1>6, <1>7

(* An empty table                                                          *)
LEMMA CreateIs ==
    ASSUME NEW len \in Nat \ {0}
    PROVE  Good(Create(len)) /\ \A k \in Keys : Lookup(Create(len), k) = None
<1> DEFINE t == Create(len)
<1>1. /\ t = [len |-> t.len, used |-> t.used, table |-> t.table,
              item |-> t.item, live |-> t.live, ub |-> t.ub]
      /\ t.len = len /\ t.used = 0 /\ t.live = {}
      /\ t.table = [b \in 0..len - 1 |-> EmptyBucket]
      /\ t.item = [c \in Cells |-> NoItem]
  BY DEF Create
<1>2. t.ub = FALSE
  BY DEF Create
<1> HIDE DEF t
<1>3. EmptyBucket \in Bucket /\ NoItem \in Item
  BY DEF EmptyBucket, Bucket, NoItem, Item
<1>4. Buckets(t) = 0..len - 1
  BY <1>1 DEF Buckets
<1>5. t.table \in [Buckets(t) -> Bucket] /\ t.item \in [Cells -> Item]
      /\ \A b \in Buckets(t) : t.table[b] = EmptyBucket
  BY <1>1, <1>3, <1>4
<1>6. Typed(t)
  BY <1>1, <1>2, <1>5 DEF Typed
<1>7. \E W : Lists(t, W, t.live)
  BY <1>1, <1>5, <1>6, EmptyLists
<1>8. Good(t)
  BY <1>1, <1>6, <1>7 DEF Good, Keyed
<1> QED BY <1>1, <1>8, LookupIs DEF t
(* w is the list of bucket s, and it has an n-th item.                     *)
Removable(t, s, w, n) ==
    /\ Typed(t) /\ s \in Buckets(t) /\ Walk(t, s) = w
    /\ w \in [1..t.table[s].used -> t.live] /\ n \in 1..t.table[s].used
    /\ n # 1 => w[n - 1] # w[n]
    /\ t.used - 1 \in Nat

(* What the table consists of after that was taken out.                    *)
Removed(t, s, w, n, u) ==
    /\ Typed(u) /\ u.len = t.len /\ u.used = t.used - 1 /\ u.live = t.live \ {w[n]}
    /\ \A a \in Buckets(t) : a # s => u.table[a] = t.table[a]
    /\ u.table[s].used = t.table[s].used - 1 /\ u.table[s].tail = t.table[s].tail
    /\ n = 1 => u.table[s].head = t.item[w[n]].next
    /\ n # 1 => u.table[s].head = t.table[s].head
    /\ \A d \in Cells : d # w[n] =>
         /\ u.item[d].key = t.item[d].key /\ u.item[d].value = t.item[d].value
         /\ n = 1 \/ d # w[n - 1] => u.item[d].next = t.item[d].next
    /\ n # 1 => u.item[w[n - 1]].next = t.item[w[n]].next

LEMMA UnlinkedFields ==
    ASSUME NEW t, NEW s, NEW w, NEW n, Removable(t, s, w, n)
    PROVE  Removed(t, s, w, n, Unlinked(t, s, n))
<1> DEFINE u == Unlinked(t, s, n)
           c == w[n]
           p == w[n - 1]
           m == t.table[s].used
           after == t.item[c].next
           f == [t.item EXCEPT ![c] = NoItem]
<1>0. /\ Typed(t) /\ s \in Buckets(t) /\ Walk(t, s) = w
      /\ w \in [1..m -> t.live] /\ n \in 1..m
      /\ n # 1 => w[n - 1] # w[n]
      /\ t.used - 1 \in Nat
  BY DEF Removable
<1>1. m \in Nat /\ t.table[s].head \in Cells \cup {Null} /\ t.table[s].tail \in Cells \cup {Null}
  BY <1>0 DEF Typed, Bucket
<1>2. c \in t.live /\ c \in Cells /\ t.live \subseteq Cells
  BY <1>0 DEF Typed
<1>3. n # 1 => p \in Cells /\ p # c
  <2>1. SUFFICES ASSUME n # 1 PROVE p \in Cells /\ p # c
    OBVIOUS
  <2>2. n - 1 \in 1..m
    BY <1>0, <1>1, <2>1
  <2> QED BY <1>0, <1>2, <2>1, <2>2
<1>4. after \in Cells \cup {Null}
  BY <1>0, <1>2 DEF Typed, Item
<1>5. f \in [Cells -> Item] /\ f[c] = NoItem /\ \A d \in Cells : d # c => f[d] = t.item[d]
  <2>1. NoItem \in Item
    BY DEF NoItem, Item
  <2> QED BY <1>0, <1>2, <2>1 DEF Typed
<1>6. m - 1 \in Nat
  BY <1>0, <1>1
<1> HIDE DEF u, c, p, m, after, f
<1>7. CASE n = 1
  <2> DEFINE e == [used |-> m - 1, head |-> after, tail |-> t.table[s].tail]
             tb == [t.table EXCEPT ![s] = e]
  <2>1. tb \in [Buckets(t) -> Bucket] /\ tb[s] = e
        /\ \A a \in Buckets(t) : a # s => tb[a] = t.table[a]
    <3>1. e \in Bucket
      BY <1>1, <1>4, <1>6 DEF Bucket
    <3> QED BY <1>0, <3>1 DEF Typed
  <2> DEFINE e0 == [t.table[s] EXCEPT !.used = @ - 1]
             tb0 == [t.table EXCEPT ![s] = e0]
  <2>10. t.table[s] \in Bucket /\ t.table \in [Buckets(t) -> Bucket]
    BY <1>0 DEF Typed
  <2>11. [e0 EXCEPT !.head = after] = e
    <3>1. e0 = [used |-> m - 1, head |-> t.table[s].head, tail |-> t.table[s].tail]
      BY <2>10 DEF Bucket, m
    <3> HIDE DEF e0
    <3> QED BY <3>1
  <2>12. tb0[s] = e0 /\ DOMAIN tb0 = Buckets(t) /\ \A a \in Buckets(t) : a # s => tb0[a] = t.table[a]
    BY <1>0, <2>10
  <2> HIDE DEF e0, e
  <2>13. DOMAIN tb = Buckets(t)
    BY <2>10
  <2>2. [tb0 EXCEPT ![s].head = after] = tb
    BY <2>11, <2>12, <2>1, <2>13
  <2>3. u = [[t EXCEPT !.item[c] = NoItem, !.live = @ \ {c}, !.used = @ - 1,
                       !.table[s].used = @ - 1] EXCEPT !.table[s].head = after]
    BY <1>0, <1>7 DEF Unlinked, u, c, after
  <2> HIDE DEF tb
  <2>4. /\ u.len = t.len /\ u.used = t.used - 1 /\ u.live = t.live \ {c}
        /\ u.item = f
        /\ u.table = tb
        /\ u = [len |-> u.len, used |-> u.used, table |-> u.table,
                item |-> u.item, live |-> u.live, ub |-> u.ub]
    BY <1>0, <2>2, <2>3 DEF Typed, f, e0
  <2>5. u.ub = FALSE
    BY <1>0, <2>3 DEF Typed
  <2>6. Typed(u)
    BY <1>0, <1>2, <1>5, <2>1, <2>4, <2>5 DEF Typed, Buckets
  <2>7. u.table[s].used = m - 1 /\ u.table[s].tail = t.table[s].tail /\ u.table[s].head = after
    BY <2>1, <2>4 DEF e
  <2>8. \A a \in Buckets(t) : a # s => u.table[a] = t.table[a]
    BY <2>1, <2>4
  <2>9. \A d \in Cells : d # c => u.item[d] = t.item[d]
    BY <1>5, <2>4
  <2>14. Removed(t, s, w, n, u)
    BY <1>7, <2>4, <2>6, <2>7, <2>8, <2>9 DEF m, c, after, Removed
  <2> QED BY <2>14 DEF u
<1>8. CASE n # 1
  <2> DEFINE e == [used |-> m - 1, head |-> t.table[s].head, tail |-> t.table[s].tail]
             tb == [t.table EXCEPT ![s] = e]
             i == [f[p] EXCEPT !.next = after]
             g == [f EXCEPT ![p] = i]
  <2>1. tb \in [Buckets(t) -> Bucket] /\ tb[s] = e
        /\ \A a \in Buckets(t) : a # s => tb[a] = t.table[a]
    <3>1. e \in Bucket
      BY <1>1, <1>6 DEF Bucket
    <3> QED BY <1>0, <3>1 DEF Typed
  <2>15. t.table[s] \in Bucket /\ t.table \in [Buckets(t) -> Bucket]
    BY <1>0 DEF Typed
  <2>16. [t.table[s] EXCEPT !.used = @ - 1] = e
    BY <2>15 DEF Bucket, m
  <2>2. [t.table EXCEPT ![s].used = @ - 1] = tb
    BY <2>16
  <2>10. f[p] \in Item /\ f[p] = t.item[p] /\ p \in Cells
    BY <1>3, <1>5, <1>8
  <2>11. i \in Item /\ i.key = t.item[p].key /\ i.value = t.item[p].value /\ i.next = after
    BY <1>4, <2>10 DEF Item
  <2>12. [f EXCEPT ![p].next = after] = g
    BY <2>10
  <2>3. u = [[t EXCEPT !.item[c] = NoItem, !.live = @ \ {c}, !.used = @ - 1,
                       !.table[s].used = @ - 1] EXCEPT !.item[p].next = after]
    BY <1>0, <1>8 DEF Unlinked, u, c, p, after
  <2> HIDE DEF e, tb, i
  <2>13. g \in [Cells -> Item] /\ g[p] = i /\ \A d \in Cells : d # p => g[d] = f[d]
    BY <1>5, <2>10, <2>11
  <2> HIDE DEF g
  <2>4. /\ u.len = t.len /\ u.used = t.used - 1 /\ u.live = t.live \ {c}
        /\ u.item = g
        /\ u.table = tb
        /\ u = [len |-> u.len, used |-> u.used, table |-> u.table,
                item |-> u.item, live |-> u.live, ub |-> u.ub]
    BY <1>0, <2>2, <2>3, <2>12 DEF Typed, f
  <2>5. u.ub = FALSE
    BY <1>0, <2>3 DEF Typed
  <2>6. Typed(u)
    BY <1>0, <1>2, <2>1, <2>4, <2>5, <2>13 DEF Typed, Buckets
  <2>7. /\ u.table[s].used = m - 1 /\ u.table[s].tail = t.table[s].tail
        /\ u.table[s].head = t.table[s].head
    BY <2>1, <2>4 DEF e
  <2>8. \A a \in Buckets(t) : a # s => u.table[a] = t.table[a]
    BY <2>1, <2>4
  <2>9. \A d \in Cells : d # c => /\ u.item[d].key = t.item[d].key
                                  /\ u.item[d].value = t.item[d].value
                                  /\ d # p => u.item[d].next = t.item[d].next
    BY <1>5, <2>4, <2>11, <2>13
  <2>14. u.item[p].next = after
    BY <2>4, <2>11, <2>13
  <2>17. Removed(t, s, w, n, u)
    BY <1>8, <2>4, <2>6, <2>7, <2>8, <2>9, <2>14 DEF m, c, p, after, Removed
  <2> QED BY <2>17 DEF u
<1> QED BY <1>7, <1>8 DEF u
(* Removing an item leaves a good table that no longer finds its key: as   *)
(* long as it is not the last of several, tail still is the last.          *)
LEMMA UnlinkedIs ==
    ASSUME NEW t, Good(t), NEW k \in Keys, NEW n, Match(t, k, n),
           n = t.table[Slot(t, k)].used => n = 1,
           NEW u, u = Unlinked(t, Slot(t, k), n)
    PROVE  /\ Good(u)
           /\ \A j \in Keys : Lookup(u, j) = IF j = k THEN None ELSE Lookup(t, j)
           /\ Lookup(t, k) \in Values
<1> DEFINE s == Slot(t, k)
           m == t.table[s].used
<1>1. Typed(t) /\ Keyed(t) /\ t.live \subseteq Cells
  BY DEF Good, Typed
<1>2. PICK W : Lists(t, W, t.live)
  BY DEF Good
<1> DEFINE w == W[s]
           c == w[n]
           p == w[n - 1]
<1>3. s \in Buckets(t)
  BY <1>1, SlotIs
<1>4. n \in 1..m /\ t.item[c].key = k
  BY <1>1, <1>2, SearchIs
<1>5. Walk(t, s) = w
  BY <1>1, <1>2, <1>3, WalkIs DEF Lists
<1>6. m \in Nat /\ \A a \in Buckets(t) : t.table[a].used \in Nat
  BY <1>1, <1>3 DEF Typed, Bucket
<1>7. \A a \in Buckets(t) :
         /\ W[a] \in [1..t.table[a].used -> t.live]
         /\ t.table[a].used > 0 => W[a][1] = t.table[a].head /\ W[a][t.table[a].used] = t.table[a].tail
         /\ \A i \in 1..t.table[a].used :
               i < t.table[a].used => t.item[W[a][i]].next = W[a][i + 1]
  BY <1>2 DEF Lists, Chained
<1>8. \A a \in Buckets(t) : \A i \in 1..t.table[a].used :
         /\ Slot(t, t.item[W[a][i]].key) = a
         /\ \A l \in 1..t.table[a].used : W[a][l] = W[a][i] => l = i
  BY <1>2 DEF Lists, Homed
<1>9. /\ w \in [1..m -> t.live]
      /\ m > 0 => w[1] = t.table[s].head /\ w[m] = t.table[s].tail
      /\ \A i \in 1..m : i < m => t.item[w[i]].next = w[i + 1]
      /\ \A i \in 1..m : Slot(t, t.item[w[i]].key) = s
      /\ \A l, i \in 1..m : w[l] = w[i] => l = i
  BY <1>3, <1>7, <1>8
<1>10. IsFiniteSet(t.live) /\ Cardinality(t.live) = t.used
  BY <1>2 DEF Lists, Complete
<1>11. n = m => n = 1
  OBVIOUS
<1>12. u = Unlinked(t, s, n)
  OBVIOUS
<1> HIDE DEF s, m, w
<1>13. c \in t.live /\ c \in Cells
  BY <1>1, <1>4, <1>9
<1>14. n # 1 => n - 1 \in 1..m /\ p \in t.live /\ p # c
  <2>1. SUFFICES ASSUME n # 1 PROVE n - 1 \in 1..m /\ p \in t.live /\ p # c
    OBVIOUS
  <2>2. n - 1 \in 1..m /\ n - 1 # n
    BY <1>4, <1>6, <2>1
  <2> QED BY <1>4, <1>9, <2>2
<1>15. /\ IsFiniteSet(t.live \ {c}) /\ Cardinality(t.live \ {c}) = t.used - 1
       /\ t.used - 1 \in Nat
  <2>1. IsFiniteSet(t.live \ {c}) /\ Cardinality(t.live \ {c}) = Cardinality(t.live) - 1
    BY <1>10, <1>13, FS_RemoveElement
  <2>2. Cardinality(t.live \ {c}) \in Nat
    BY <2>1, FS_CardinalityType
  <2> QED BY <1>10, <2>1, <2>2
<1> HIDE DEF c, p
<1>16. /\ Typed(u) /\ u.len = t.len /\ u.used = t.used - 1 /\ u.live = t.live \ {c}
       /\ \A a \in Buckets(t) : a # s => u.table[a] = t.table[a]
       /\ u.table[s].used = m - 1 /\ u.table[s].tail = t.table[s].tail
       /\ n = 1 => u.table[s].head = t.item[c].next
       /\ n # 1 => u.table[s].head = t.table[s].head
       /\ \A d \in Cells : d # c =>
            /\ u.item[d].key = t.item[d].key /\ u.item[d].value = t.item[d].value
            /\ n = 1 \/ d # p => u.item[d].next = t.item[d].next
       /\ n # 1 => u.item[p].next = t.item[c].next
  <2>1. n # 1 => w[n - 1] # w[n]
    BY <1>14 DEF c, p
  <2>2. Removable(t, s, w, n)
    BY <1>1, <1>3, <1>4, <1>5, <1>9, <1>15, <2>1 DEF Removable, m
  <2>3. Removed(t, s, w, n, u)
    BY <1>12, <2>2, UnlinkedFields
  <2> QED BY <2>3 DEF Removed, m, c, p
<1>17. Buckets(u) = Buckets(t)
  BY <1>16 DEF Buckets
<1>18. \A d \in t.live \ {c} : /\ u.item[d].key = t.item[d].key
                               /\ u.item[d].value = t.item[d].value
                               /\ Slot(u, u.item[d].key) = Slot(t, t.item[d].key)
  BY <1>1, <1>16 DEF Slot
<1> DEFINE at(i) == IF i < n THEN i ELSE i + 1
           V == [a \in Buckets(t) |-> IF a = s THEN [i \in 1..m - 1 |-> w[at(i)]] ELSE W[a]]
<1>19. \A a \in Buckets(t) : a # s => V[a] = W[a]
  OBVIOUS
<1>20. /\ DOMAIN V[s] = 1..m - 1 /\ V[s] = [i \in 1..m - 1 |-> V[s][i]]
       /\ \A i \in 1..m - 1 : V[s][i] = w[at(i)]
  BY <1>3
<1>21. \A i \in 1..m - 1 : at(i) \in 1..m /\ at(i) # n
  BY <1>4, <1>6
<1>22. \A i \in 1..m - 1 : V[s][i] \in t.live \ {c}
  BY <1>4, <1>9, <1>20, <1>21 DEF c
<1> HIDE DEF V
<1>23. Chained(u, V, t.live \ {c})
  <2>1. SUFFICES ASSUME NEW a \in Buckets(t)
                 PROVE  /\ V[a] \in [1..u.table[a].used -> t.live \ {c}]
                        /\ u.table[a].used > 0 => /\ V[a][1] = u.table[a].head
                                                  /\ V[a][u.table[a].used] = u.table[a].tail
                        /\ \A i \in 1..u.table[a].used :
                              i < u.table[a].used => u.item[V[a][i]].next = V[a][i + 1]
    BY <1>17 DEF Chained
  <2>2. CASE a # s
    <3>1. V[a] = W[a] /\ u.table[a] = t.table[a]
      BY <1>16, <1>19, <2>2
    <3>2. \A i \in 1..t.table[a].used : W[a][i] \in t.live /\ W[a][i] # c /\ (n = 1 \/ W[a][i] # p)
      <4>1. SUFFICES ASSUME NEW i \in 1..t.table[a].used
                     PROVE  W[a][i] \in t.live /\ W[a][i] # c /\ (n = 1 \/ W[a][i] # p)
        OBVIOUS
      <4>2. W[a][i] \in t.live /\ Slot(t, t.item[W[a][i]].key) = a
        BY <1>7, <1>8
      <4>3. Slot(t, t.item[c].key) = s /\ (n # 1 => Slot(t, t.item[p].key) = s)
        BY <1>4, <1>9, <1>14 DEF c, p
      <4> QED BY <2>2, <4>2, <4>3
    <3>3. W[a] \in [1..t.table[a].used -> t.live \ {c}]
      BY <1>7, <3>2
    <3>4. \A i \in 1..t.table[a].used : u.item[W[a][i]].next = t.item[W[a][i]].next
      BY <1>1, <1>16, <3>2
    <3> QED BY <1>7, <3>1, <3>3, <3>4
  <2>3. CASE a = s
    <3>1. V[s] \in [1..m - 1 -> t.live \ {c}]
      BY <1>20, <1>22
    <3>2. ASSUME m - 1 > 0
          PROVE  V[s][1] = u.table[s].head /\ V[s][m - 1] = u.table[s].tail
      <4>1. n < m /\ 1 \in 1..m - 1 /\ m - 1 \in 1..m - 1
        BY <1>4, <1>6, <1>11, <3>2
      <4>2. t.item[c].next = w[n + 1]
        BY <1>4, <1>9, <4>1 DEF c
      <4>3. V[s][1] = u.table[s].head
        <5>1. CASE n = 1
          <6>1. at(1) = n + 1
            BY <5>1
          <6> QED BY <1>16, <1>20, <4>1, <4>2, <5>1, <6>1
        <5>2. CASE n # 1
          <6>1. at(1) = 1 /\ m > 0
            BY <1>4, <1>6, <4>1, <5>2
          <6> QED BY <1>9, <1>16, <1>20, <4>1, <5>2, <6>1
        <5> QED BY <5>1, <5>2
      <4>4. at(m - 1) = m /\ m > 0
        BY <1>4, <1>6, <4>1
      <4> HIDE DEF at
      <4>5. V[s][m - 1] = w[m]
        BY <1>20, <4>1, <4>4
      <4> QED BY <1>9, <1>16, <4>3, <4>4, <4>5
    <3>3. ASSUME NEW i \in 1..m - 1, i < m - 1
          PROVE  u.item[V[s][i]].next = V[s][i + 1]
      <4>1. i \in 1..m /\ i + 1 \in 1..m - 1 /\ i + 1 \in 1..m /\ (i + 1) + 1 \in 1..m
            /\ i < m /\ i + 1 < m /\ n - 1 \in Int
        BY <1>4, <1>6, <3>3
      <4>2. V[s][i] = w[at(i)] /\ V[s][i + 1] = w[at(i + 1)] /\ V[s][i] # c /\ V[s][i] \in Cells
        BY <1>1, <1>20, <1>22, <4>1
      <4>3. CASE i < n - 1
        <5>1. at(i) = i /\ at(i + 1) = i + 1 /\ i # n - 1
          BY <1>4, <1>6, <4>1, <4>3
        <5> HIDE DEF at
        <5>2. n = 1 \/ w[i] # p
          BY <1>9, <1>14, <4>1, <5>1 DEF p
        <5>3. u.item[w[i]].next = t.item[w[i]].next
          BY <1>16, <4>2, <5>1, <5>2
        <5> QED BY <1>9, <4>1, <4>2, <5>1, <5>3
      <4>4. CASE i = n - 1
        <5>1. at(i) = n - 1 /\ at(i + 1) = n + 1 /\ n # 1 /\ n < m
          BY <1>4, <1>6, <4>1, <4>4
        <5> HIDE DEF at
        <5>2. V[s][i] = p /\ t.item[c].next = w[n + 1]
          BY <1>4, <1>9, <4>2, <5>1 DEF c, p
        <5> QED BY <1>16, <4>2, <5>1, <5>2
      <4>5. CASE i > n - 1
        <5>1. at(i) = i + 1 /\ at(i + 1) = (i + 1) + 1 /\ i + 1 # n - 1
          BY <1>4, <1>6, <4>1, <4>5
        <5> HIDE DEF at
        <5>2. n = 1 \/ w[i + 1] # p
          BY <1>9, <1>14, <4>1, <5>1 DEF p
        <5>3. u.item[w[i + 1]].next = t.item[w[i + 1]].next
          BY <1>16, <4>2, <5>1, <5>2
        <5> QED BY <1>9, <4>1, <4>2, <5>1, <5>3
      <4> QED BY <4>1, <4>3, <4>4, <4>5
    <3> QED BY <1>16, <2>3, <3>1, <3>2, <3>3
  <2> QED BY <2>2, <2>3
<1>24. Homed(u, V)
  <2>1. SUFFICES ASSUME NEW a \in Buckets(t), NEW i \in 1..u.table[a].used
                 PROVE  /\ Slot(u, u.item[V[a][i]].key) = a
                        /\ \A l \in 1..u.table[a].used : V[a][l] = V[a][i] => l = i
    BY <1>17 DEF Homed
  <2>2. CASE a # s
    <3>1. V[a] = W[a] /\ u.table[a] = t.table[a]
      BY <1>16, <1>19, <2>2
    <3>2. W[a][i] \in t.live /\ Slot(t, t.item[W[a][i]].key) = a
      BY <1>7, <1>8, <3>1
    <3>3. W[a][i] # c
      BY <1>4, <1>9, <2>2, <3>2 DEF c
    <3> QED BY <1>8, <1>18, <3>1, <3>2, <3>3
  <2>3. CASE a = s
    <3>1. i \in 1..m - 1 /\ u.table[a].used = m - 1
      BY <1>16, <2>3
    <3>2. Slot(u, u.item[V[s][i]].key) = s
      <4>1. V[s][i] \in t.live \ {c} /\ V[s][i] = w[at(i)] /\ at(i) \in 1..m
        BY <1>20, <1>21, <1>22, <3>1
      <4> HIDE DEF at
      <4> QED BY <1>9, <1>18, <4>1
    <3>3. ASSUME NEW l \in 1..m - 1, V[s][l] = V[s][i] PROVE l = i
      <4>1. w[at(l)] = w[at(i)] /\ at(l) \in 1..m /\ at(i) \in 1..m
        BY <1>20, <1>21, <3>1, <3>3
      <4>2. at(l) = at(i)
        <5> HIDE DEF at
        <5> QED BY <1>9, <4>1
      <4> QED BY <1>4, <1>6, <3>1, <4>2
    <3> QED BY <2>3, <3>1, <3>2, <3>3
  <2> QED BY <2>2, <2>3
<1>25. Complete(u, V, t.live \ {c})
  <2>1. ASSUME NEW d \in t.live \ {c}
        PROVE  \E a \in Buckets(t) : \E i \in 1..u.table[a].used : V[a][i] = d
    <3>1. PICK a \in Buckets(t) : \E i \in 1..t.table[a].used : W[a][i] = d
      BY <1>2 DEF Lists, Complete
    <3>2. CASE a # s
      BY <1>16, <1>19, <3>1, <3>2
    <3>3. CASE a = s
      <4>1. PICK i \in 1..m : w[i] = d
        BY <3>1, <3>3 DEF m, w
      <4>2. i # n
        BY <4>1 DEF c
      <4>3. CASE i < n
        <5>1. i \in 1..m - 1 /\ at(i) = i
          BY <1>4, <1>6, <4>3
        <5> HIDE DEF at
        <5>2. V[s][i] = d
          BY <1>20, <4>1, <5>1
        <5> QED BY <1>3, <1>16, <5>1, <5>2
      <4>4. CASE i > n
        <5> DEFINE l == i - 1
        <5>1. l \in 1..m - 1 /\ at(l) = i
          BY <1>4, <1>6, <4>4
        <5> HIDE DEF at, l
        <5>2. V[s][l] = d
          BY <1>20, <4>1, <5>1
        <5> QED BY <1>3, <1>16, <5>1, <5>2
      <4>5. i < n \/ i > n
        BY <1>4, <1>6, <4>2
      <4> QED BY <4>3, <4>4, <4>5
    <3> QED BY <3>2, <3>3
  <2> QED BY <1>15, <1>16, <1>17, <2>1 DEF Complete
<1>26. Lists(u, V, u.live)
  BY <1>16, <1>23, <1>24, <1>25 DEF Lists
<1>27. Keyed(u)
  BY <1>1, <1>16, <1>18 DEF Keyed
<1>28. Good(u)
  BY <1>16, <1>26, <1>27 DEF Good
<1>29. \A d \in t.live \ {c} : t.item[d].key # k
  BY <1>1, <1>4, <1>13 DEF Keyed, c
<1>30. ASSUME NEW j \in Keys
       PROVE  Lookup(u, j) = IF j = k THEN None ELSE Lookup(t, j)
  <2>1. CASE \E d \in t.live \ {c} : t.item[d].key = j
    <3>1. PICK d \in t.live \ {c} : t.item[d].key = j
      BY <2>1
    <3>2. Lookup(t, j) = t.item[d].value
      BY <3>1, LookupIs
    <3>3. d \in u.live /\ u.item[d].key = j /\ u.item[d].value = t.item[d].value
      BY <1>16, <1>18, <3>1
    <3>4. Lookup(u, j) = u.item[d].value
      BY <1>28, <3>3, LookupIs
    <3> QED BY <1>29, <3>1, <3>2, <3>3, <3>4
  <2>2. CASE ~\E d \in t.live \ {c} : t.item[d].key = j
    <3>1. \A d \in u.live : u.item[d].key # j
      BY <1>16, <1>18, <2>2
    <3>2. Lookup(u, j) = None
      BY <1>28, <3>1, LookupIs
    <3>3. ASSUME j # k PROVE Lookup(t, j) = None
      <4>1. t.item[c].key = k
        BY <1>4 DEF c
      <4>2. \A d \in t.live : t.item[d].key # j
        BY <2>2, <3>3, <4>1
      <4> QED BY <4>2, LookupIs
    <3> QED BY <3>2, <3>3
  <2> QED BY <2>1, <2>2
<1>31. Lookup(t, k) \in Values
  <2>1. Lookup(t, k) = t.item[c].value
    BY <1>4, <1>13, LookupIs DEF c
  <2> QED BY <1>1, <1>13, <2>1 DEF Keyed
<1> QED BY <1>28, <1>30, <1>31
-----------------------------------------------------------------------------
(* The calls                                                               *)

(* A table that has the same items finds the same.                         *)
LEMMA LookupKept ==
    ASSUME NEW t, Good(t), NEW u, Good(u), u.live = t.live,
           \A c \in Cells : u.item[c].key = t.item[c].key /\ u.item[c].value = t.item[c].value
    PROVE  \A j \in Keys : Lookup(u, j) = Lookup(t, j)
<1>1. SUFFICES ASSUME NEW j \in Keys PROVE Lookup(u, j) = Lookup(t, j)
  OBVIOUS
<1>2. t.live \subseteq Cells
  BY DEF Good, Typed
<1>3. CASE \E c \in t.live : t.item[c].key = j
  <2>1. PICK c \in t.live : t.item[c].key = j
    BY <1>3
  <2>2. c \in u.live /\ u.item[c].key = j /\ u.item[c].value = t.item[c].value
    BY <1>2, <2>1
  <2>3. Lookup(t, j) = t.item[c].value /\ Lookup(u, j) = u.item[c].value
    BY <2>1, <2>2, LookupIs
  <2> QED BY <2>2, <2>3
<1>4. CASE ~\E c \in t.live : t.item[c].key = j
  <2>1. (\A c \in t.live : t.item[c].key # j) /\ \A c \in u.live : u.item[c].key # j
    BY <1>2, <1>4
  <2> QED BY <2>1, LookupIs
<1> QED BY <1>3, <1>4

LEMMA AddStep ==
    ASSUME Good(h), NEW k \in Keys, NEW v \in Values, Add(k, v) \/ AddChk(k, v)
    PROVE  /\ Good(h') /\ res' = Returned("add", k, v, 0)
           /\ \A j \in Keys : Lookup(h', j) = IF j = k THEN v ELSE Lookup(h, j)
<1>1. CASE Add(k, v)
  BY <1>1, AddedIs DEF Add
<1>2. CASE AddChk(k, v) /\ ~Full(h)
  BY <1>2, AddedIs DEF AddChk
<1>3. CASE AddChk(k, v) /\ Full(h)
  <2> DEFINE n == 2 * h.len
             t == Realloc(h, n)
  <2>1. n \in Nat \ {0}
    BY DEF Good, Typed
  <2>2. h' \in Added(t, k, v) /\ res' = Returned("add", k, v, 0)
    BY <1>3 DEF AddChk
  <2> HIDE DEF n
  <2>3. /\ Good(t) /\ t.live = h.live
        /\ \A c \in Cells : t.item[c].key = h.item[c].key /\ t.item[c].value = h.item[c].value
    BY <2>1, ReallocIs
  <2> HIDE DEF t
  <2>4. \A j \in Keys : Lookup(t, j) = Lookup(h, j)
    BY <2>3, LookupKept
  <2>5. Good(h') /\ \A j \in Keys : Lookup(h', j) = IF j = k THEN v ELSE Lookup(t, j)
    BY <2>2, <2>3, AddedIs
  <2> QED BY <2>2, <2>4, <2>5
<1> QED BY <1>1, <1>2, <1>3

(* What a search comes to, in terms of what the table finds                *)
LEMMA SearchFinds ==
    ASSUME Good(h), NEW k \in Keys
    PROVE  /\ ~Stray(h, k)
           /\ Missing(h, k) => Lookup(h, k) = None
           /\ \A n \in DOMAIN Walk(h, Slot(h, k)) : Match(h, k, n) =>
                 /\ Lookup(h, k) = h.item[Walk(h, Slot(h, k))[n]].value
                 /\ Lookup(h, k) \in Values
<1>1. Typed(h) /\ Keyed(h)
  BY DEF Good
<1>2. PICK W : Lists(h, W, h.live)
  BY DEF Good
<1> DEFINE s == Slot(h, k)
           u == h.table[s].used
<1>3. /\ \A n : Match(h, k, n) <=> n \in 1..u /\ h.item[W[s][n]].key = k
      /\ Missing(h, k) <=> \A c \in h.live : h.item[c].key # k
      /\ ~Stray(h, k)
  BY <1>1, <1>2, SearchIs
<1>4. s \in Buckets(h)
  BY <1>1, SlotIs
<1>5. Walk(h, s) = W[s]
  BY <1>1, <1>2, <1>4, WalkIs DEF Lists, Typed
<1>6. W[s] \in [1..u -> h.live]
  BY <1>2, <1>4 DEF Lists, Chained
<1> HIDE DEF u
<1>7. ASSUME NEW n, Match(h, k, n)
      PROVE  Lookup(h, k) = h.item[W[s][n]].value /\ Lookup(h, k) \in Values
  <2>1. W[s][n] \in h.live /\ h.item[W[s][n]].key = k
    BY <1>3, <1>6, <1>7
  <2>2. Lookup(h, k) = h.item[W[s][n]].value
    BY <2>1, LookupIs
  <2> QED BY <1>1, <2>1, <2>2 DEF Keyed
<1>8. Missing(h, k) => Lookup(h, k) = None
  BY <1>3, LookupIs
<1> QED BY <1>3, <1>5, <1>7, <1>8

LEMMA GetStep ==
    ASSUME Good(h), NEW k \in Keys, Get(k)
    PROVE  h' = h /\ res' = Returned("get", k, None, Lookup(h, k))
BY SearchFinds DEF Get

LEMMA RmStep ==
    ASSUME Good(h), NEW k \in Keys, Rm(k), ~LastOfSeveral(k)
    PROVE  /\ Good(h')
           /\ res' = Returned("rm", k, None, IF Lookup(h, k) = None THEN 1 ELSE 0)
           /\ \A j \in Keys : Lookup(h', j) = IF j = k THEN None ELSE Lookup(h, j)
<1>1. CASE Missing(h, k) /\ UNCHANGED h /\ res' = Returned("rm", k, None, 1)
  BY <1>1, SearchFinds
<1>2. CASE \E n \in DOMAIN Walk(h, Slot(h, k)) :
              /\ Match(h, k, n) /\ h' = Unlinked(h, Slot(h, k), n)
              /\ res' = Returned("rm", k, None, 0)
  <2>1. PICK n \in DOMAIN Walk(h, Slot(h, k)) :
              /\ Match(h, k, n) /\ h' = Unlinked(h, Slot(h, k), n)
              /\ res' = Returned("rm", k, None, 0)
    BY <1>2
  <2>2. n = h.table[Slot(h, k)].used => n = 1
    <3> DEFINE u == h.table[Slot(h, k)].used
    <3>1. SUFFICES ASSUME n = u PROVE n = 1
      OBVIOUS
    <3>2. ~(u > 1)
      BY <2>1, <3>1 DEF LastOfSeveral
    <3>3. n \in 1..u
      <4>1. PICK W : Lists(h, W, h.live)
        BY DEF Good
      <4>2. Typed(h) /\ Keyed(h)
        BY DEF Good
      <4> QED BY <2>1, <4>1, <4>2, SearchIs
    <3>4. u \in Nat
      <4>1. Typed(h)
        BY DEF Good
      <4>2. Slot(h, k) \in Buckets(h)
        BY <4>1, SlotIs
      <4> QED BY <4>1, <4>2 DEF Typed, Bucket
    <3> HIDE DEF u
    <3> QED BY <3>1, <3>2, <3>3, <3>4
  <2>3. /\ Good(h')
        /\ \A j \in Keys : Lookup(h', j) = IF j = k THEN None ELSE Lookup(h, j)
        /\ Lookup(h, k) \in Values
    BY <2>1, <2>2, UnlinkedIs
  <2>4. Lookup(h, k) # None
    BY <2>3, HashAssumption
  <2> QED BY <2>1, <2>3, <2>4
<1>3. ~Stray(h, k)
  BY SearchFinds
<1> QED BY <1>1, <1>2, <1>3 DEF Rm

LEMMA ClearStep ==
    ASSUME Good(h), Clear
    PROVE  /\ Good(h') /\ res' = Returned("create", None, None, None)
           /\ \A j \in Keys : Lookup(h', j) = None
<1>1. h.len \in Nat \ {0} /\ h' = Create(h.len)
  BY DEF Clear, Good, Typed
<1> QED BY <1>1, CreateIs DEF Clear

LEMMA InitGood ==
    Init => Good(h) /\ \A j \in Keys : Lookup(h, j) = None
<1>1. InitLen \in Nat \ {0}
  BY HashAssumption
<1> QED BY <1>1, CreateIs DEF Init

-----------------------------------------------------------------------------
(* The theorems                                                            *)

ResOK == res \in [op : {"create", "add", "get", "rm"}, key : Keys \cup {None},
                  value : Values \cup {None}, ret : Values \cup {None, 0, 1}]

LEMMA GoodInductive == Good(h) /\ [CarefulNext]_vars => Good(h')
<1>1. SUFFICES ASSUME Good(h), [CarefulNext]_vars PROVE Good(h')
  OBVIOUS
<1>2. CASE Update
  BY <1>1, <1>2, AddStep DEF Update
<1>3. CASE Clear
  BY <1>1, <1>3, ClearStep
<1>4. ASSUME NEW k \in Keys, Get(k) PROVE Good(h')
  BY <1>1, <1>4, GetStep
<1>5. ASSUME NEW k \in Keys, ~LastOfSeveral(k), Rm(k) PROVE Good(h')
  BY <1>1, <1>5, RmStep
<1>6. CASE UNCHANGED vars
  BY <1>1, <1>6 DEF vars
<1> QED BY <1>1, <1>2, <1>3, <1>4, <1>5, <1>6 DEF CarefulNext

LEMMA GoodAlways == CarefulSpec => []Good(h)
<1> DEFINE I == Good(h)
<1>1. Init => I
  BY InitGood
<1>2. I /\ [CarefulNext]_vars => I'
  BY GoodInductive
<1> HIDE DEF I
<1>3. CarefulSpec => []I
  BY <1>1, <1>2, PTL DEF CarefulSpec
<1> QED BY <1>3 DEF I

LEMMA LookupTypes ==
    ASSUME Good(h), NEW k \in Keys
    PROVE  Lookup(h, k) \in Values \cup {None}
<1>1. CASE \E c \in h.live : h.item[c].key = k
  BY <1>1, LookupIs DEF Good, Keyed
<1>2. CASE ~\E c \in h.live : h.item[c].key = k
  BY <1>2, LookupIs
<1> QED BY <1>1, <1>2

LEMMA ResInductive == Good(h) /\ ResOK /\ [CarefulNext]_vars => ResOK'
<1>1. SUFFICES ASSUME Good(h), ResOK, [CarefulNext]_vars PROVE ResOK'
  OBVIOUS
<1>2. CASE Update
  <2>1. PICK k \in Keys, v \in Values : res' = Returned("add", k, v, 0)
    BY <1>1, <1>2, AddStep DEF Update
  <2> QED BY <2>1 DEF ResOK, Returned
<1>3. CASE Clear
  BY <1>3 DEF Clear, ResOK, Returned
<1>4. ASSUME NEW k \in Keys, Get(k) PROVE ResOK'
  <2>1. res' = Returned("get", k, None, Lookup(h, k)) /\ Lookup(h, k) \in Values \cup {None}
    BY <1>1, <1>4, GetStep, LookupTypes
  <2> QED BY <2>1 DEF ResOK, Returned
<1>5. ASSUME NEW k \in Keys, ~LastOfSeveral(k), Rm(k) PROVE ResOK'
  <2>1. \E r \in {0, 1} : res' = Returned("rm", k, None, r)
    BY <1>1, <1>5, RmStep
  <2> QED BY <2>1 DEF ResOK, Returned
<1>6. CASE UNCHANGED vars
  BY <1>1, <1>6 DEF vars, ResOK
<1> QED BY <1>1, <1>2, <1>3, <1>4, <1>5, <1>6 DEF CarefulNext

(* The types of the table, its items and of what the calls return.         *)
THEOREM TypeCorrect == CarefulSpec => []TypeOK
<1>1. Init => ResOK
  BY DEF Init, Returned, ResOK
<1>2. CarefulSpec => []ResOK
  BY <1>1, ResInductive, GoodAlways, PTL DEF CarefulSpec
<1>3. Good(h) /\ ResOK => TypeOK
  <2>1. SUFFICES ASSUME Good(h), ResOK PROVE TypeOK
    OBVIOUS
  <2>2. Typed(h)
    BY <2>1 DEF Good
  <2>3. /\ h.len \in Nat \ {0} /\ h.used \in Nat /\ h.item \in [Cells -> Item]
        /\ h.live \subseteq Cells
    BY <2>2 DEF Typed
  <2>4. h.table \in [0..h.len - 1 -> [used : Nat, head : Cells \cup {Null},
                                      tail : Cells \cup {Null}]]
    BY <2>2 DEF Typed, Bucket, Buckets
  <2>5. h.ub \in BOOLEAN
    BY <2>2 DEF Typed
  <2> QED BY <2>1, <2>3, <2>4, <2>5 DEF TypeOK, ResOK
<1> QED BY <1>2, <1>3, GoodAlways, PTL

(* No call of a careful caller follows a dangling pointer, or writes       *)
(* through one.                                                            *)
THEOREM PointersCorrect == CarefulSpec => []NoBadPointer
<1>1. Good(h) => NoBadPointer
  <2>1. Good(h) => h.ub = FALSE
    BY DEF Good, Typed
  <2> QED BY <2>1 DEF NoBadPointer
<1> QED BY <1>1, GoodAlways, PTL

(* As long as callers never remove the last item of a list that has        *)
(* others, the tail of every bucket is its last item.                      *)
THEOREM TailCorrect == CarefulSpec => []TailIsLast
<1>1. Good(h) => TailIsLast
  <2>1. SUFFICES ASSUME Good(h), NEW b \in 0..h.len - 1, h.table[b].used > 0
                 PROVE  h.table[b].tail = Walk(h, b)[h.table[b].used]
    BY DEF TailIsLast
  <2>2. PICK W : Lists(h, W, h.live)
    BY <2>1 DEF Good
  <2>3. Typed(h) /\ b \in Buckets(h)
    BY <2>1 DEF Good, Buckets
  <2>4. Walk(h, b) = W[b]
    BY <2>2, <2>3, WalkIs DEF Lists, Typed
  <2> QED BY <2>1, <2>2, <2>3, <2>4 DEF Lists, Chained
<1> QED BY <1>1, GoodAlways, PTL

(* The lists share no item and hold every one that is allocated, in the    *)
(* bucket of its key, and the table counts them.                           *)
THEOREM ListsCorrect == CarefulSpec => []ListsExact
<1>1. Good(h) => ListsExact
  <2> DEFINE place == UNION {{b} \X (1..h.table[b].used) : b \in 0..h.len - 1}
             At(p) == Walk(h, p[1])[p[2]]
  <2>1. SUFFICES ASSUME Good(h)
                 PROVE  /\ {At(p) : p \in place} = h.live
                        /\ \A p, q \in place : At(p) = At(q) => p = q
                        /\ \A p \in place : Slot(h, h.item[At(p)].key) = p[1]
                        /\ Cardinality(place) = h.used
    BY DEF ListsExact
  <2>2. PICK W : Lists(h, W, h.live)
    BY <2>1 DEF Good
  <2>3. Typed(h) /\ Buckets(h) = 0..h.len - 1
    BY <2>1 DEF Good, Buckets
  <2>4. \A b \in Buckets(h) : Walk(h, b) = W[b]
    BY <2>2, <2>3, WalkIs DEF Lists, Typed
  <2>5. \A p \in place : /\ p = <<p[1], p[2]>> /\ p[1] \in Buckets(h)
                         /\ p[2] \in 1..h.table[p[1]].used
    BY <2>3
  <2>6. ASSUME NEW b \in Buckets(h), NEW n \in 1..h.table[b].used
        PROVE  <<b, n>> \in place /\ At(<<b, n>>) = W[b][n]
    <3>1. <<b, n>> \in {b} \X (1..h.table[b].used)
      OBVIOUS
    <3>2. <<b, n>> \in place
      BY <2>3, <3>1
    <3> QED BY <2>4, <3>2
  <2>7. \A p \in place : At(p) = W[p[1]][p[2]]
    BY <2>4, <2>5
  <2> HIDE DEF place, At
  <2>8. \A p \in place : At(p) \in h.live /\ Slot(h, h.item[At(p)].key) = p[1]
    <3>1. SUFFICES ASSUME NEW p \in place
                   PROVE  At(p) \in h.live /\ Slot(h, h.item[At(p)].key) = p[1]
      OBVIOUS
    <3> DEFINE b == p[1]
               n == p[2]
    <3>2. b \in Buckets(h) /\ n \in 1..h.table[b].used /\ At(p) = W[b][n]
      BY <2>5, <2>7
    <3> HIDE DEF b, n
    <3>3. W[b][n] \in h.live
      BY <2>2, <3>2 DEF Lists, Chained
    <3>4. Slot(h, h.item[W[b][n]].key) = b
      BY <2>2, <3>2 DEF Lists, Homed
    <3> QED BY <3>2, <3>3, <3>4 DEF b
  <2>9. ASSUME NEW c \in h.live PROVE \E p \in place : At(p) = c
    <3>1. PICK b \in Buckets(h) : \E n \in 1..h.table[b].used : W[b][n] = c
      BY <2>2 DEF Lists, Complete
    <3>2. PICK n \in 1..h.table[b].used : W[b][n] = c
      BY <3>1
    <3> QED BY <2>6, <3>2
  <2>10. ASSUME NEW p \in place, NEW q \in place, At(p) = At(q) PROVE p = q
    <3>1. p[1] = q[1]
      BY <2>8, <2>10
    <3>2. p[2] = q[2]
      BY <2>2, <2>5, <2>7, <2>10, <3>1 DEF Lists, Homed
    <3> QED BY <2>5, <3>1, <3>2
  <2>11. Cardinality(place) = h.used
    <3> DEFINE f == [p \in place |-> At(p)]
    <3>1. f \in Bijection(place, h.live)
      <4>1. f \in [place -> h.live] /\ \A p \in place : f[p] = At(p)
        BY <2>8
      <4> HIDE DEF f
      <4>2. f \in Injection(place, h.live)
        BY <2>10, <4>1 DEF Injection, IsInjective
      <4>3. f \in Surjection(place, h.live)
        BY <2>9, <4>1 DEF Surjection
      <4> QED BY <4>2, <4>3 DEF Bijection
    <3> HIDE DEF f
    <3>2. IsFiniteSet(h.live) /\ Cardinality(h.live) = h.used
      BY <2>2 DEF Lists, Complete
    <3>3. f \in Injection(place, h.live) /\ f \in Surjection(place, h.live)
      BY <3>1 DEF Bijection
    <3>4. Cardinality(h.live) = Cardinality(place)
      BY <3>2, <3>3, FS_Injection
    <3> QED BY <3>2, <3>4
  <2> QED BY <2>8, <2>9, <2>10, <2>11
<1> QED BY <1>1, GoodAlways, PTL

(* Used with care, the table is the map that its header promises.          *)
THEOREM MapCorrect == CarefulSpec => IsMap
<1> DEFINE dict(t) == [k \in Keys |-> Lookup(t, k)]
<1>1. Init => Map!Init
  <2>1. SUFFICES ASSUME Init PROVE Map!Init
    OBVIOUS
  <2>2. dict(h) = [k \in Keys |-> None]
    BY <2>1, InitGood
  <2> QED BY <2>1, <2>2 DEF Init, Map!Init, Map!Returned, Returned
<1>2. Good(h) /\ [CarefulNext]_vars => [Map!Next]_<<dict(h), res>>
  <2>1. SUFFICES ASSUME Good(h), [CarefulNext]_vars
                 PROVE  Map!Next \/ UNCHANGED <<dict(h), res>>
    OBVIOUS
  <2>2. ASSUME NEW k \in Keys, NEW v \in Values, Add(k, v) \/ AddChk(k, v)
        PROVE  Map!Add(k, v)
    <3>1. res' = Returned("add", k, v, 0)
          /\ \A j \in Keys : Lookup(h', j) = IF j = k THEN v ELSE Lookup(h, j)
      BY <2>1, <2>2, AddStep
    <3>2. dict(h') = [dict(h) EXCEPT ![k] = v]
      BY <3>1
    <3> QED BY <3>1, <3>2 DEF Map!Add, Map!Returned, Returned
  <2>3. ASSUME NEW k \in Keys, Get(k) PROVE Map!Get(k)
    <3>1. h' = h /\ res' = Returned("get", k, None, Lookup(h, k))
      BY <2>1, <2>3, GetStep
    <3> QED BY <3>1 DEF Map!Get, Map!Returned, Returned
  <2>4. ASSUME NEW k \in Keys, ~LastOfSeveral(k), Rm(k) PROVE Map!Rm(k)
    <3>1. /\ res' = Returned("rm", k, None, IF Lookup(h, k) = None THEN 1 ELSE 0)
          /\ \A j \in Keys : Lookup(h', j) = IF j = k THEN None ELSE Lookup(h, j)
      BY <2>1, <2>4, RmStep
    <3>2. dict(h') = [dict(h) EXCEPT ![k] = None]
      BY <3>1
    <3> QED BY <3>1, <3>2 DEF Map!Rm, Map!Returned, Returned
  <2>5. CASE Clear
    <3>1. res' = Returned("create", None, None, None) /\ \A j \in Keys : Lookup(h', j) = None
      BY <2>1, <2>5, ClearStep
    <3>2. dict(h') = [k \in Keys |-> None]
      BY <3>1
    <3> QED BY <3>1, <3>2 DEF Map!Clear, Map!Next, Map!Returned, Returned
  <2>6. CASE UNCHANGED vars
    BY <2>6 DEF vars
  <2> QED BY <2>1, <2>2, <2>3, <2>4, <2>5, <2>6 DEF CarefulNext, Update, Map!Next
<1> QED BY <1>1, <1>2, GoodAlways, PTL DEF CarefulSpec, IsMap, Map!Spec
=============================================================================
