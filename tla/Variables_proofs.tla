--------------------------- MODULE Variables_proofs ---------------------------
(***************************************************************************)
(* Proofs about Variables for every set of names, values and cells and     *)
(* every number of slots: what holds of callers that keep to CarefulNext.  *)
(***************************************************************************)
EXTENDS Variables, TLAPS, WellFoundedInduction, SequenceTheorems

-----------------------------------------------------------------------------
(* Lookups                                                                 *)

(* A set of frame numbers that is not empty has a greatest element.        *)
LEMMA MaxUpTo ==
    ASSUME NEW N \in Nat, NEW S, S \subseteq 1..N, S # {}
    PROVE  Max(S) \in S /\ \A j \in S : j <= Max(S)
<1> DEFINE Bounds == {k \in Nat : \A j \in S : j <= k}
<1>1. N \in Bounds /\ Bounds \subseteq Nat
  OBVIOUS
<1>2. PICK k \in Bounds : \A l \in Bounds : ~(<<l, k>> \in OpToRel(<, Nat))
  BY <1>1, NatLessThanWellFounded, WFMin
<1>3. \A l \in Bounds : k <= l
  <2>1. SUFFICES ASSUME NEW l \in Bounds, l < k PROVE FALSE
    OBVIOUS
  <2>2. <<l, k>> \in OpToRel(<, Nat)
    BY <2>1 DEF OpToRel
  <2> QED BY <2>2, <1>2
<1>4. k \in S
  <2>1. SUFFICES ASSUME k \notin S PROVE FALSE
    OBVIOUS
  <2>2. \A j \in S : j <= k - 1 /\ 1 <= j
    BY <2>1
  <2>3. k - 1 \in Nat
    <3>1. PICK j \in S : TRUE
      OBVIOUS
    <3> QED BY <2>2, <3>1
  <2>4. k - 1 \in Bounds
    BY <2>2, <2>3
  <2> QED BY <2>4, <1>3
<1>5. \E m \in S : \A j \in S : m >= j
  BY <1>4, <1>2
<1> QED BY <1>5 DEF Max

(* The frames are numbered from 1.                                         *)
LEMMA Frames ==
    ASSUME contexts \in Seq(Tables)
    PROVE  /\ Innermost \in Nat /\ DOMAIN contexts = 1..Innermost
           /\ \A i \in DOMAIN contexts : contexts[i] \in Tables
           /\ contexts # <<>> => 1 \in DOMAIN contexts /\ Innermost \in DOMAIN contexts
BY DEF Innermost

(* psh_vf_get finds the innermost frame that has the variable.             *)
LEMMA FoundInnermost ==
    ASSUME contexts \in Seq(Tables), NEW n, NEW l \in BOOLEAN
    PROVE  LET where == IF l THEN Holding(n) \cap {Innermost} ELSE Holding(n) IN
           IF where = {} THEN Found(n, l) = 0
           ELSE /\ Found(n, l) = Max(where)
                /\ Found(n, l) \in where /\ \A j \in where : j <= Found(n, l)
<1> DEFINE where == IF l THEN Holding(n) \cap {Innermost} ELSE Holding(n)
<1>1. where \subseteq 1..Innermost /\ Innermost \in Nat
  BY Frames DEF Holding
<1>2. Found(n, l) = IF where = {} THEN 0 ELSE Max(where)
  BY DEF Found
<1> HIDE DEF where
<1>3. CASE where = {}
  BY <1>2, <1>3 DEF where
<1>4. CASE where # {}
  <2>1. Max(where) \in where /\ \A j \in where : j <= Max(where)
    BY <1>1, <1>4, MaxUpTo
  <2> QED BY <1>2, <1>4, <2>1 DEF where
<1> QED BY <1>3, <1>4

(* The same for a lookup in all the frames.                                *)
LEMMA FoundAnywhere ==
    ASSUME contexts \in Seq(Tables), NEW n
    PROVE  IF Holding(n) = {} THEN Found(n, FALSE) = 0
           ELSE /\ Found(n, FALSE) = Max(Holding(n))
                /\ Found(n, FALSE) \in Holding(n)
                /\ \A j \in Holding(n) : j <= Found(n, FALSE)
<1>1. FALSE \in BOOLEAN
  OBVIOUS
<1> QED BY <1>1, FoundInnermost

(* psh_vf_set works on a frame that is open.                               *)
LEMMA FrameOfIsOpen ==
    ASSUME contexts \in Seq(Tables), contexts # <<>>,
           NEW n, NEW a, a.export \in BOOLEAN, NEW l \in BOOLEAN
    PROVE  FrameOf(n, a, l) \in DOMAIN contexts
<1> DEFINE inner == l /\ ~a.export
<1>1. inner \in BOOLEAN
  OBVIOUS
<1>2. Found(n, inner) = 0 \/ Found(n, inner) \in Holding(n)
  BY <1>1, FoundInnermost
<1>3. Holding(n) \subseteq DOMAIN contexts
  BY DEF Holding
<1> HIDE DEF inner
<1>4. FrameOf(n, a, l) = IF Found(n, inner) # 0 THEN Found(n, inner)
                         ELSE IF inner THEN Innermost ELSE 1
  BY DEF FrameOf, inner
<1> QED BY <1>2, <1>3, <1>4, Frames

-----------------------------------------------------------------------------
(* Steps                                                                   *)

(* The variable n of frame i has a payload of its own.                     *)
Owner(i, n) == contexts[i][n] # None /\ Owns(contexts[i][n])

(* What is left allocated once the payload of a variable is freed.         *)
KeptOf(old) == IF old = None THEN DOMAIN memory ELSE Cleared(DOMAIN memory, old)

(* The cells that a container is about to own.                             *)
CellOf(c) == IF c # None /\ Owns(c) THEN {c.payload} ELSE {}

(* One container is replaced, its payload freed and the new one stored.    *)
Replace(i, n, c, value) ==
    /\ i \in DOMAIN contexts /\ n \in Names
    /\ c \in Containers \cup {None} /\ (c # None => value \in Values)
    /\ CellOf(c) \cap DOMAIN memory = {}
    /\ contexts' = [contexts EXCEPT ![i][n] = c]
    /\ memory' = [x \in KeptOf(contexts[i][n]) \cup CellOf(c) |->
                     IF x \in CellOf(c) THEN value ELSE memory[x]]

LEMMA ContainerFacts ==
    ASSUME NEW c \in Containers
    PROVE  /\ c # None /\ c.type \in Types /\ c.export \in BOOLEAN /\ c.unset \in BOOLEAN
           /\ c.payload \in IF Owns(c) THEN Cells ELSE Values
           /\ c.payload \in Cells \cup Values
BY VariablesAssumption DEF Containers

LEMMA NewContainer ==
    ASSUME NEW t \in Types, NEW e \in BOOLEAN, NEW u \in BOOLEAN, NEW p,
           p \in IF t # "INTEGER" THEN Cells ELSE Values
    PROVE  [type |-> t, export |-> e, unset |-> u, payload |-> p] \in Containers
BY DEF Containers, Owns

(* Only the container that is replaced changes.                            *)
LEMMA ReplacedAt ==
    ASSUME contexts \in Seq(Tables),
           NEW i, NEW n, NEW c, NEW value, Replace(i, n, c, value)
    PROVE  /\ contexts' \in Seq(Tables) /\ Innermost' = Innermost
           /\ DOMAIN contexts' = DOMAIN contexts
           /\ \A j \in DOMAIN contexts, m \in Names :
                 contexts'[j][m] = IF j = i /\ m = n THEN c ELSE contexts[j][m]
<1>1. /\ i \in DOMAIN contexts /\ n \in Names /\ c \in Containers \cup {None}
      /\ contexts' = [contexts EXCEPT ![i] = [contexts[i] EXCEPT ![n] = c]]
  BY DEF Replace
<1>2. contexts[i] \in Tables
  BY <1>1, Frames
<1>3. [contexts[i] EXCEPT ![n] = c] \in Tables
  BY <1>1, <1>2 DEF Tables
<1>4. contexts' \in Seq(Tables) /\ Len(contexts') = Len(contexts)
  BY <1>1, <1>3, ExceptSeq, Frames DEF Innermost
<1>5. ASSUME NEW j \in DOMAIN contexts, NEW m \in Names
      PROVE  contexts'[j][m] = IF j = i /\ m = n THEN c ELSE contexts[j][m]
  BY <1>1, <1>2 DEF Tables
<1> QED BY <1>1, <1>4, <1>5, Frames DEF Innermost

LEMMA ReplaceType ==
    ASSUME TypeOK, NEW i, NEW n, NEW c, NEW value, Replace(i, n, c, value)
    PROVE  /\ contexts' \in Seq(Tables)
           /\ DOMAIN memory' \subseteq Cells /\ memory' \in [DOMAIN memory' -> Values]
<1>1. CellOf(c) \subseteq Cells
  BY ContainerFacts DEF CellOf, Replace
<1>2. KeptOf(contexts[i][n]) \subseteq DOMAIN memory
  BY DEF KeptOf, Cleared
<1>3. /\ memory \in [DOMAIN memory -> Values] /\ DOMAIN memory \subseteq Cells
      /\ CellOf(c) # {} => value \in Values
  BY DEF TypeOK, Replace, CellOf
<1> QED BY <1>1, <1>2, <1>3, ReplacedAt DEF TypeOK, Replace

(* psh_vf_set replaces the container in the frame it chose by one that     *)
(* holds the value, exported when the caller says so or it was.            *)
LEMMA SetStep ==
    ASSUME TypeOK, contexts # <<>>,
           NEW n \in Names, NEW a \in Attributes \cup {NoUpdate},
           NEW v \in Values, NEW l \in BOOLEAN, Set(n, a, v, l)
    PROVE  LET i == FrameOf(n, a, l)
               old == contexts[i][n]
               as == AttributesOf(a, old)
           IN  \E c \in Containers :
                  /\ Replace(i, n, c, v)
                  /\ c.type = as.type /\ c.export = as.export /\ c.unset = as.unset
                  /\ ~Owns(c) => c.payload = v
                  /\ a = NoUpdate => old # None
<1> DEFINE i == FrameOf(n, a, l)
           old == contexts[i][n]
           as == AttributesOf(a, old)
           New(p) == [type |-> as.type, export |-> as.export, unset |-> as.unset,
                      payload |-> p]
<1> SUFFICES \E c \in Containers :
                  /\ Replace(i, n, c, v)
                  /\ c.type = as.type /\ c.export = as.export /\ c.unset = as.unset
                  /\ ~Owns(c) => c.payload = v
                  /\ a = NoUpdate => old # None
  OBVIOUS
<1>0. a.export \in BOOLEAN
  <2>1. CASE a = NoUpdate
    BY <2>1 DEF NoUpdate
  <2>2. CASE a \in Attributes
    BY <2>2 DEF Attributes
  <2> QED BY <2>1, <2>2
<1>1. i \in DOMAIN contexts /\ contexts[i] \in Tables
  BY <1>0, FrameOfIsOpen, Frames DEF TypeOK
<1>2. old \in Containers \cup {None} /\ (a = NoUpdate => old # None)
  BY <1>1 DEF Tables, Set
<1>3. as.type \in Types /\ as.export \in BOOLEAN /\ as.unset \in BOOLEAN
  <2>1. CASE a = NoUpdate
    BY <1>2, <2>1, ContainerFacts DEF AttributesOf
  <2>2. CASE a # NoUpdate
    BY <2>2 DEF AttributesOf, Attributes
  <2> QED BY <2>1, <2>2
<1>4. KeptOf(old) = IF old = None THEN DOMAIN memory ELSE Cleared(DOMAIN memory, old)
  BY DEF KeptOf
<1>5. CASE as.type = "INTEGER"
  <2>1. New(v) \in Containers /\ ~Owns(New(v))
    BY <1>3, <1>5, NewContainer DEF Owns
  <2>2. /\ contexts' = [contexts EXCEPT ![i][n] = New(v)]
        /\ memory' = Restricted(KeptOf(old))
    BY <1>4, <1>5 DEF Set
  <2>3. Replace(i, n, New(v), v)
    <3>1. CellOf(New(v)) = {}
      BY <2>1 DEF CellOf
    <3> QED BY <1>1, <2>1, <2>2, <3>1 DEF Replace, Restricted
  <2> QED BY <1>2, <2>1, <2>3
<1>6. CASE as.type # "INTEGER"
  <2>1. PICK cell \in FreeCells :
           /\ memory' = [c \in KeptOf(old) \cup {cell} |->
                            IF c = cell THEN v ELSE memory[c]]
           /\ contexts' = [contexts EXCEPT ![i][n] = New(cell)]
    BY <1>4, <1>6 DEF Set
  <2>2. cell \in Cells /\ cell \notin DOMAIN memory
    BY DEF FreeCells
  <2>3. New(cell) \in Containers /\ Owns(New(cell)) /\ New(cell) # None
    BY <1>3, <1>6, <2>2, NewContainer, ContainerFacts DEF Owns
  <2>4. CellOf(New(cell)) = {cell}
    BY <2>3 DEF CellOf
  <2>5. Replace(i, n, New(cell), v)
    BY <1>1, <2>1, <2>2, <2>3, <2>4 DEF Replace
  <2> QED BY <1>2, <2>3, <2>5
<1> QED BY <1>5, <1>6

(* psh_vf_unset of a variable of the outermost frame takes it away.        *)
LEMMA UnsetStep ==
    ASSUME TypeOK, NEW n \in Names, Found(n, FALSE) = 1, Unset(n)
    PROVE  Replace(1, n, None, None) /\ contexts[1][n] # None
<1>1. 1 \in Holding(n)
  <2> DEFINE found == Found(n, FALSE)
  <2>1. found = 1 /\ IF Holding(n) = {} THEN found = 0 ELSE found \in Holding(n)
    BY FoundAnywhere DEF TypeOK
  <2> HIDE DEF found
  <2> QED BY <2>1
<1>2. contexts[1][n] # None /\ 1 \in DOMAIN contexts
  BY <1>1 DEF Holding
<1>3. /\ contexts' = [contexts EXCEPT ![1][n] = None]
      /\ memory' = Restricted(KeptOf(contexts[1][n]))
  BY <1>2 DEF Unset, KeptOf
<1>4. CellOf(None) = {}
  BY DEF CellOf
<1> QED BY <1>2, <1>3, <1>4 DEF Replace, Restricted

-----------------------------------------------------------------------------
(* Ownership                                                               *)

(* No variable has lost its payload, none is leaked, and no two variables  *)
(* share one.                                                              *)
Alive == \A i \in DOMAIN contexts, n \in Names :
            Owner(i, n) => contexts[i][n].payload \in DOMAIN memory
NoLeak == \A x \in DOMAIN memory : \E i \in DOMAIN contexts, n \in Names :
            Owner(i, n) /\ contexts[i][n].payload = x
Once == \A i, j \in DOMAIN contexts, n, m \in Names :
            Owner(i, n) /\ Owner(j, m) /\ contexts[i][n].payload = contexts[j][m].payload
               => i = j /\ n = m

LEMMA OwnershipParts ==
    PayloadsOwnedOnce <=> ~ub /\ Alive /\ NoLeak /\ Once
<1> DEFINE at(o) == contexts[o[1]][o[2]]
           owners == {o \in (DOMAIN contexts) \X Names : at(o) # None /\ Owns(at(o))}
<1>1. PayloadsOwnedOnce <=> /\ ~ub
                            /\ {at(o).payload : o \in owners} = DOMAIN memory
                            /\ \A o, q \in owners : at(o).payload = at(q).payload => o = q
  BY DEF PayloadsOwnedOnce
<1>2. \A o : o \in owners <=> /\ o \in (DOMAIN contexts) \X Names
                              /\ Owner(o[1], o[2])
  BY DEF Owner
<1>3. \A i \in DOMAIN contexts, n \in Names :
         Owner(i, n) => <<i, n>> \in owners /\ at(<<i, n>>) = contexts[i][n]
  BY DEF Owner
<1> HIDE DEF owners
<1>4. {at(o).payload : o \in owners} = DOMAIN memory <=> Alive /\ NoLeak
  <2> DEFINE cells == {at(o).payload : o \in owners}
  <2>1. ASSUME NEW x \in cells
        PROVE  \E i \in DOMAIN contexts, n \in Names :
                  Owner(i, n) /\ contexts[i][n].payload = x
    <3>1. PICK o \in owners : x = at(o).payload
      OBVIOUS
    <3> QED BY <1>2, <3>1
  <2>2. ASSUME NEW i \in DOMAIN contexts, NEW n \in Names, Owner(i, n)
        PROVE  contexts[i][n].payload \in cells
    <3>1. <<i, n>> \in owners /\ at(<<i, n>>) = contexts[i][n]
      BY <2>2, <1>3
    <3>2. at(<<i, n>>).payload \in cells
      BY <3>1
    <3> QED BY <3>1, <3>2
  <2> HIDE DEF cells
  <2>3. cells = DOMAIN memory => Alive /\ NoLeak
    BY <2>1, <2>2 DEF Alive, NoLeak
  <2>4. Alive /\ NoLeak => cells = DOMAIN memory
    BY <2>1, <2>2 DEF Alive, NoLeak
  <2> QED BY <2>3, <2>4 DEF cells
<1>5. (\A o, q \in owners : at(o).payload = at(q).payload => o = q) <=> Once
  <2>1. ASSUME Once, NEW o \in owners, NEW q \in owners, at(o).payload = at(q).payload
        PROVE  o = q
    BY <1>2, <2>1 DEF Once
  <2>2. ASSUME \A o, q \in owners : at(o).payload = at(q).payload => o = q
        PROVE  Once
    <3>1. SUFFICES ASSUME NEW i \in DOMAIN contexts, NEW j \in DOMAIN contexts,
                          NEW n \in Names, NEW m \in Names, Owner(i, n), Owner(j, m),
                          contexts[i][n].payload = contexts[j][m].payload
                   PROVE  i = j /\ n = m
      BY DEF Once
    <3>2. /\ <<i, n>> \in owners /\ at(<<i, n>>) = contexts[i][n]
          /\ <<j, m>> \in owners /\ at(<<j, m>>) = contexts[j][m]
      BY <1>3, <3>1
    <3>3. at(<<i, n>>).payload = at(<<j, m>>).payload
      BY <3>1, <3>2
    <3>4. <<i, n>> = <<j, m>>
      BY <2>2, <3>2, <3>3
    <3> QED BY <3>4
  <2> QED BY <2>1, <2>2
<1> QED BY <1>1, <1>4, <1>5

(* A variable that is there owns its cell alone, so replacing another      *)
(* leaves its payload allocated.                                           *)
LEMMA ReplaceOwned ==
    ASSUME TypeOK, Alive, NoLeak, Once,
           NEW i, NEW n, NEW c, NEW v, Replace(i, n, c, v)
    PROVE  Alive' /\ NoLeak' /\ Once'
<1> DEFINE old == contexts[i][n]
<1>1. /\ DOMAIN contexts' = DOMAIN contexts
      /\ \A j \in DOMAIN contexts, m \in Names :
            contexts'[j][m] = IF j = i /\ m = n THEN c ELSE contexts[j][m]
  BY ReplacedAt DEF TypeOK
<1>2. /\ i \in DOMAIN contexts /\ n \in Names
      /\ CellOf(c) \cap DOMAIN memory = {}
      /\ DOMAIN memory' = KeptOf(old) \cup CellOf(c)
  BY DEF Replace
<1>3. KeptOf(old) = IF Owner(i, n) THEN DOMAIN memory \ {old.payload} ELSE DOMAIN memory
  BY DEF KeptOf, Cleared, Owner
<1>4. /\ \A j \in DOMAIN contexts, m \in Names :
            ~(j = i /\ m = n) => /\ Owner(j, m)' <=> Owner(j, m)
                                 /\ contexts'[j][m] = contexts[j][m]
      /\ Owner(i, n)' <=> CellOf(c) # {}
      /\ contexts'[i][n] = c
  BY <1>1, <1>2 DEF Owner, CellOf
<1>5. CellOf(c) # {} => CellOf(c) = {c.payload}
  BY DEF CellOf
<1>6. Alive'
  <2> SUFFICES ASSUME NEW j \in DOMAIN contexts, NEW m \in Names, Owner(j, m)'
               PROVE  contexts'[j][m].payload \in DOMAIN memory'
    BY <1>1 DEF Alive
  <2>1. CASE j = i /\ m = n
    BY <2>1, <1>2, <1>4, <1>5
  <2>2. CASE ~(j = i /\ m = n)
    <3>1. Owner(j, m) /\ contexts'[j][m] = contexts[j][m]
      BY <2>2, <1>4
    <3>2. contexts[j][m].payload \in DOMAIN memory
      BY <3>1 DEF Alive
    <3>3. Owner(i, n) => contexts[j][m].payload # old.payload
      BY <1>2, <2>2, <3>1 DEF Once
    <3> QED BY <1>2, <1>3, <3>1, <3>2, <3>3
  <2> QED BY <2>1, <2>2
<1>7. NoLeak'
  <2> SUFFICES ASSUME NEW x \in DOMAIN memory'
               PROVE  \E j \in DOMAIN contexts, m \in Names :
                         Owner(j, m)' /\ contexts'[j][m].payload = x
    BY <1>1 DEF NoLeak
  <2>1. CASE x \in CellOf(c)
    BY <2>1, <1>2, <1>4, <1>5
  <2>2. CASE x \notin CellOf(c)
    <3>1. x \in DOMAIN memory /\ (Owner(i, n) => x # old.payload)
      BY <2>2, <1>2, <1>3
    <3>2. PICK j \in DOMAIN contexts, m \in Names :
             Owner(j, m) /\ contexts[j][m].payload = x
      BY <3>1 DEF NoLeak
    <3>3. ~(j = i /\ m = n)
      BY <3>1, <3>2
    <3> QED BY <1>4, <3>2, <3>3
  <2> QED BY <2>1, <2>2
<1>8. Once'
  <2> SUFFICES ASSUME NEW j \in DOMAIN contexts, NEW k \in DOMAIN contexts,
                      NEW m \in Names, NEW o \in Names, Owner(j, m)', Owner(k, o)',
                      contexts'[j][m].payload = contexts'[k][o].payload
               PROVE  j = k /\ m = o
    BY <1>1 DEF Once
  <2>1. ASSUME NEW p \in DOMAIN contexts, NEW q \in Names, ~(p = i /\ q = n),
               Owner(p, q)', Owner(i, n)'
        PROVE  contexts'[p][q].payload # contexts'[i][n].payload
    <3>1. Owner(p, q) /\ contexts'[p][q] = contexts[p][q]
      BY <2>1, <1>4
    <3>2. contexts[p][q].payload \in DOMAIN memory
      BY <3>1 DEF Alive
    <3> QED BY <2>1, <1>2, <1>4, <1>5, <3>1, <3>2
  <2>2. CASE j = i /\ m = n
    BY <2>1, <2>2
  <2>3. CASE k = i /\ o = n
    BY <2>1, <2>3
  <2>4. CASE ~(j = i /\ m = n) /\ ~(k = i /\ o = n)
    BY <2>4, <1>4 DEF Once
  <2> QED BY <2>2, <2>3, <2>4
<1> QED BY <1>6, <1>7, <1>8

(* The values of the other variables stay, and the new one is what was set.*)
LEMMA ReplaceContents ==
    ASSUME TypeOK, Alive, Once,
           NEW i, NEW n, NEW c, NEW v, Replace(i, n, c, v)
    PROVE  /\ \A j \in DOMAIN contexts, m \in Names :
                 ~(j = i /\ m = n) /\ contexts[j][m] # None
                    => Contents(contexts[j][m])' = Contents(contexts[j][m])
           /\ c # None /\ (~Owns(c) => c.payload = v) => Contents(contexts[i][n])' = v
<1> DEFINE old == contexts[i][n]
<1>1. \A j \in DOMAIN contexts, m \in Names :
            contexts'[j][m] = IF j = i /\ m = n THEN c ELSE contexts[j][m]
  BY ReplacedAt DEF TypeOK
<1>2. /\ i \in DOMAIN contexts /\ n \in Names
      /\ CellOf(c) \cap DOMAIN memory = {}
      /\ memory' = [x \in KeptOf(old) \cup CellOf(c) |->
                       IF x \in CellOf(c) THEN v ELSE memory[x]]
  BY DEF Replace
<1>3. KeptOf(old) = IF Owner(i, n) THEN DOMAIN memory \ {old.payload} ELSE DOMAIN memory
  BY DEF KeptOf, Cleared, Owner
<1>4. ASSUME NEW j \in DOMAIN contexts, NEW m \in Names, ~(j = i /\ m = n),
             contexts[j][m] # None
      PROVE  Contents(contexts[j][m])' = Contents(contexts[j][m])
  <2> DEFINE d == contexts[j][m]
  <2>1. contexts'[j][m] = d
    BY <1>1, <1>4
  <2>2. CASE ~Owns(d)
    BY <2>1, <2>2 DEF Contents
  <2>3. CASE Owns(d)
    <3>1. Owner(j, m) /\ d.payload \in DOMAIN memory
      BY <2>3, <1>4 DEF Alive, Owner
    <3>2. Owner(i, n) => d.payload # old.payload
      BY <1>2, <1>4, <3>1 DEF Once
    <3>3. d.payload \in KeptOf(old) /\ d.payload \notin CellOf(c)
      BY <1>2, <1>3, <3>1, <3>2
    <3>4. memory'[d.payload] = memory[d.payload]
      BY <1>2, <3>3
    <3> QED BY <2>1, <2>3, <3>4 DEF Contents
  <2> QED BY <2>2, <2>3
<1>5. ASSUME c # None, ~Owns(c) => c.payload = v
      PROVE  Contents(contexts[i][n])' = v
  <2>1. contexts'[i][n] = c
    BY <1>1, <1>2
  <2>2. CASE ~Owns(c)
    BY <1>5, <2>1, <2>2 DEF Contents
  <2>3. CASE Owns(c)
    <3>1. c.payload \in CellOf(c)
      BY <1>5, <2>3 DEF CellOf
    <3>2. memory'[c.payload] = v
      BY <1>2, <3>1
    <3> QED BY <2>1, <2>3, <3>2 DEF Contents
  <2> QED BY <2>2, <2>3
<1> QED BY <1>4, <1>5

-----------------------------------------------------------------------------
(* Frames come and go                                                      *)

LEMMA NewContextStep ==
    ASSUME contexts \in Seq(Tables), NewContext
    PROVE  /\ contexts' \in Seq(Tables) /\ Innermost' = Innermost + 1
           /\ DOMAIN contexts' = DOMAIN contexts \cup {Innermost + 1}
           /\ \A i \in DOMAIN contexts : contexts'[i] = contexts[i]
           /\ contexts'[Innermost + 1] = NoTable
           /\ Innermost + 1 \notin DOMAIN contexts
<1>1. NoTable \in Tables
  BY DEF NoTable, Tables
<1>2. contexts' = Append(contexts, NoTable)
  BY DEF NewContext
<1> QED BY <1>1, <1>2, Frames DEF Innermost

LEMMA ExitLocalStep ==
    ASSUME contexts \in Seq(Tables), ExitLocal
    PROVE  /\ contexts' \in Seq(Tables) /\ Innermost' = Innermost - 1
           /\ Innermost \in Nat /\ Innermost > 1 /\ Last(contexts) = contexts[Innermost]
           /\ DOMAIN contexts' = 1..(Innermost - 1)
           /\ DOMAIN contexts = DOMAIN contexts' \cup {Innermost}
           /\ Innermost \notin DOMAIN contexts'
           /\ \A i \in DOMAIN contexts' : contexts'[i] = contexts[i]
<1>1. Innermost \in Nat /\ Innermost > 1 /\ DOMAIN contexts = 1..Innermost
  BY Frames DEF ExitLocal
<1>2. contexts' = SubSeq(contexts, 1, Innermost - 1)
  BY DEF ExitLocal, Front, Innermost
<1>3. Innermost - 1 \in Int /\ \A i \in 1..(Innermost - 1) : contexts[i] \in Tables
  BY <1>1, Frames
<1>4. /\ contexts' \in Seq(Tables)
      /\ Len(contexts') = Innermost - 1
      /\ \A i \in 1..(Innermost - 1) : contexts'[i] = contexts[i]
  <2>1. /\ SubSeq(contexts, 1, Innermost - 1) \in Seq(Tables)
        /\ Len(SubSeq(contexts, 1, Innermost - 1)) =
              IF 1 <= Innermost - 1 THEN Innermost - 1 - 1 + 1 ELSE 0
        /\ \A i \in 1..(Innermost - 1 - 1 + 1) :
              SubSeq(contexts, 1, Innermost - 1)[i] = contexts[1 + i - 1]
    BY <1>3, SubSeqProperties
  <2> QED BY <1>1, <1>2, <2>1
<1>5. DOMAIN contexts' = 1..(Innermost - 1)
  BY <1>4
<1>6. Last(contexts) = contexts[Innermost]
  BY DEF Last, Innermost
<1> QED BY <1>1, <1>4, <1>5, <1>6 DEF Innermost

LEMMA NewContextOwned ==
    ASSUME contexts \in Seq(Tables), Alive, NoLeak, Once, NewContext
    PROVE  Alive' /\ NoLeak' /\ Once'
<1>1. /\ DOMAIN contexts' = DOMAIN contexts \cup {Innermost + 1}
      /\ \A i \in DOMAIN contexts : contexts'[i] = contexts[i]
      /\ contexts'[Innermost + 1] = NoTable
      /\ memory' = memory
  BY NewContextStep DEF NewContext
<1>2. \A i \in DOMAIN contexts', n \in Names :
         Owner(i, n)' => i \in DOMAIN contexts /\ Owner(i, n) /\ contexts'[i] = contexts[i]
  BY <1>1 DEF Owner, NoTable
<1>3. \A i \in DOMAIN contexts, n \in Names : Owner(i, n) => Owner(i, n)'
  BY <1>1 DEF Owner
<1>4. Alive'
  BY <1>1, <1>2 DEF Alive
<1>5. NoLeak'
  BY <1>1, <1>3 DEF NoLeak
<1>6. Once'
  BY <1>2 DEF Once
<1> QED BY <1>4, <1>5, <1>6

(* The cells of the frame that is left are freed and no others.            *)
LEMMA ExitLocalMemory ==
    ASSUME contexts \in Seq(Tables), Alive, ExitLocal
    PROVE  /\ ub' = FALSE
           /\ \A x : x \in DOMAIN memory' <=>
                 /\ x \in DOMAIN memory
                 /\ ~\E n \in Names : Owner(Innermost, n) /\ contexts[Innermost][n].payload = x
           /\ \A x \in DOMAIN memory' : memory'[x] = memory[x]
<1>1. Last(contexts) = contexts[Innermost] /\ Innermost \in DOMAIN contexts
  BY ExitLocalStep
<1>2. ub' = (\E n \in Names : Owner(Innermost, n)
                /\ contexts[Innermost][n].payload \notin DOMAIN memory)
  BY <1>1 DEF ExitLocal, Owner, Dangling
<1>3. ub' = FALSE
  BY <1>1, <1>2 DEF Alive
<1>4. \A x : x \in Payloads(Last(contexts)) <=>
         \E n \in Names : Owner(Innermost, n) /\ contexts[Innermost][n].payload = x
  BY <1>1 DEF Payloads, Owner
<1>5. memory' = [x \in DOMAIN memory \ Payloads(Last(contexts)) |-> memory[x]]
  BY DEF ExitLocal, Restricted
<1> QED BY <1>3, <1>4, <1>5

LEMMA ExitLocalOwned ==
    ASSUME contexts \in Seq(Tables), Alive, NoLeak, Once, ExitLocal
    PROVE  Alive' /\ NoLeak' /\ Once'
<1> DEFINE top == Innermost
<1>1. /\ DOMAIN contexts = DOMAIN contexts' \cup {top} /\ top \notin DOMAIN contexts'
      /\ \A i \in DOMAIN contexts' : contexts'[i] = contexts[i]
  BY ExitLocalStep
<1>2. \A i \in DOMAIN contexts', n \in Names : Owner(i, n)' <=> Owner(i, n)
  BY <1>1 DEF Owner
<1>3. \A x : x \in DOMAIN memory' <=>
         /\ x \in DOMAIN memory
         /\ ~\E n \in Names : Owner(top, n) /\ contexts[top][n].payload = x
  BY ExitLocalMemory
<1> HIDE DEF top
<1>4. Alive'
  <2> SUFFICES ASSUME NEW i \in DOMAIN contexts', NEW n \in Names, Owner(i, n)
               PROVE  contexts[i][n].payload \in DOMAIN memory'
    BY <1>1, <1>2 DEF Alive
  <2>1. contexts[i][n].payload \in DOMAIN memory
    BY <1>1 DEF Alive
  <2>2. \A m \in Names : Owner(top, m) => contexts[top][m].payload # contexts[i][n].payload
    BY <1>1 DEF Once
  <2> QED BY <1>3, <2>1, <2>2
<1>5. NoLeak'
  <2> SUFFICES ASSUME NEW x \in DOMAIN memory'
               PROVE  \E i \in DOMAIN contexts', n \in Names :
                         Owner(i, n) /\ contexts[i][n].payload = x
    BY <1>1, <1>2 DEF NoLeak
  <2>1. PICK i \in DOMAIN contexts, n \in Names : Owner(i, n) /\ contexts[i][n].payload = x
    BY <1>3 DEF NoLeak
  <2> QED BY <1>1, <1>3, <2>1
<1>6. Once'
  BY <1>1, <1>2 DEF Once
<1> QED BY <1>4, <1>5, <1>6

(* When the shell ends everything that is allocated is freed, once.        *)
LEMMA FreeOwned ==
    ASSUME contexts \in Seq(Tables), Alive, NoLeak, Free
    PROVE  /\ contexts' = <<>> /\ DOMAIN contexts' = {} /\ contexts' \in Seq(Tables)
           /\ ub' = FALSE /\ DOMAIN memory' = {} /\ memory' \in [DOMAIN memory' -> Values]
           /\ Alive' /\ NoLeak' /\ Once'
<1>1. contexts' = <<>> /\ DOMAIN contexts' = {} /\ contexts' \in Seq(Tables)
  BY DEF Free
<1>2. ub' = FALSE
  <2>1. ub' = (\E i \in DOMAIN contexts, n \in Names :
                  Owner(i, n) /\ contexts[i][n].payload \notin DOMAIN memory)
    BY DEF Free, Owner, Dangling
  <2> QED BY <2>1 DEF Alive
<1>3. DOMAIN memory \subseteq UNION {Payloads(t) : t \in Range(contexts)}
  <2> SUFFICES ASSUME NEW x \in DOMAIN memory
               PROVE  \E t \in Range(contexts) : x \in Payloads(t)
    OBVIOUS
  <2>1. PICK i \in DOMAIN contexts, n \in Names : Owner(i, n) /\ contexts[i][n].payload = x
    BY DEF NoLeak
  <2>2. contexts[i] \in Range(contexts)
    BY <2>1 DEF Range
  <2>3. x \in Payloads(contexts[i])
    BY <2>1 DEF Payloads, Owner
  <2> QED BY <2>2, <2>3
<1>4. memory' = [x \in {} |-> memory[x]]
  BY <1>3 DEF Free, Restricted
<1>5. DOMAIN memory' = {}
  BY <1>4
<1> QED BY <1>1, <1>2, <1>4, <1>5 DEF Alive, NoLeak, Once

-----------------------------------------------------------------------------
(* The invariant: beside what the theorems state, the frames fit the slots *)
(* there were at first, and no container is marked as unset.               *)
NothingMarked == \A i \in DOMAIN contexts, n \in Names :
                    contexts[i][n] # None => ~contexts[i][n].unset
FitSlots == slots = FirstSlots /\ Innermost <= FirstSlots
Owned == ~ub /\ Alive /\ NoLeak /\ Once

IInv == TypeOK /\ FitSlots /\ Owned /\ NothingMarked /\ EnvironIsExported

(* What a child finds under n, when the container of the outermost frame   *)
(* is c with the value v.                                                  *)
Inherits(n, c, v) == environ[n] = IF Exported(c) THEN v ELSE None

LEMMA EnvironParts ==
    EnvironIsExported <=>
        (contexts # <<>> => \A n \in Names :
            Inherits(n, contexts[1][n], Contents(contexts[1][n])))
BY DEF EnvironIsExported, Inherits

(* Every call is recorded as one.                                          *)
LEMMA DoneType == \A op \in {"enter", "leave", "destroy"} : Done(op) \in Calls
BY DEF Done, Returned, Calls

LEMMA CallType ==
    ASSUME NEW op \in {"get", "set", "unset"}, NEW n \in Names,
           NEW v \in Values \cup {None}, NEW l \in BOOLEAN, NEW e \in BOOLEAN,
           NEW ret \in Values \cup {None, 0, 1}
    PROVE  Returned(op, n, v, l, e, ret) \in Calls
BY DEF Returned, Calls

LEMMA ExportIsBoolean ==
    ASSUME NEW a \in Attributes \cup {NoUpdate}
    PROVE  a.export \in BOOLEAN
<1>1. CASE a = NoUpdate
  BY <1>1 DEF NoUpdate
<1>2. CASE a \in Attributes
  BY <1>2 DEF Attributes
<1> QED BY <1>1, <1>2

LEMMA InitInv == Init => IInv
<1> SUFFICES ASSUME Init PROVE IInv
  OBVIOUS
<1>1. /\ contexts = <<NoTable>> /\ NoTable \in Tables /\ memory = [c \in {} |-> None]
      /\ slots = FirstSlots /\ environ = [n \in Names |-> None] /\ ub = FALSE
  BY DEF Init, NoTable, Tables
<1>2. /\ contexts \in Seq(Tables) /\ DOMAIN contexts = {1} /\ Innermost = 1
      /\ contexts[1] = NoTable /\ contexts # <<>>
  BY <1>1 DEF Innermost
<1>3. TypeOK
  <2>1. res \in Calls
    BY DoneType DEF Init
  <2> QED BY <1>1, <1>2, <2>1, VariablesAssumption DEF TypeOK
<1>4. \A n \in Names : contexts[1][n] = None
  BY <1>2 DEF NoTable
<1>5. Owned
  <2>1. \A i \in DOMAIN contexts, n \in Names : ~Owner(i, n)
    BY <1>2, <1>4 DEF Owner
  <2>2. DOMAIN memory = {}
    BY <1>1
  <2> QED BY <1>1, <2>1, <2>2 DEF Owned, Alive, NoLeak, Once
<1>6. NothingMarked
  BY <1>2, <1>4 DEF NothingMarked
<1>7. EnvironIsExported
  BY <1>1, <1>4 DEF EnvironIsExported, Exported
<1>8. FitSlots
  BY <1>1, <1>2, VariablesAssumption DEF FitSlots
<1> QED BY <1>3, <1>5, <1>6, <1>7, <1>8 DEF IInv

(* What the replacement of a container in a frame leaves as it is.         *)
LEMMA ReplaceInv ==
    ASSUME IInv, NEW i, NEW n, NEW c, NEW v, Replace(i, n, c, v),
           UNCHANGED slots, environ' \in [Names -> Values \cup {None}], res' \in Calls,
           c # None => ~c.unset, ub' = FALSE
    PROVE  TypeOK' /\ FitSlots' /\ Owned' /\ NothingMarked'
<1>1. TypeOK'
  BY ReplaceType DEF IInv, TypeOK
<1>2. FitSlots'
  BY ReplacedAt DEF IInv, FitSlots, TypeOK
<1>3. Owned'
  BY ReplaceOwned DEF IInv, Owned
<1>4. NothingMarked'
  BY ReplacedAt DEF IInv, NothingMarked, TypeOK
<1> QED BY <1>1, <1>2, <1>3, <1>4

(* What children inherit follows from the container of the outermost frame *)
(* that changes, if any.                                                   *)
LEMMA ReplaceEnviron ==
    ASSUME IInv, contexts # <<>>,
           NEW i, NEW n, NEW c, NEW v, Replace(i, n, c, v),
           c # None /\ ~Owns(c) => c.payload = v,
           \A m \in Names \ {n} : environ'[m] = environ[m],
           i # 1 => environ'[n] = environ[n],
           i = 1 => environ'[n] = IF Exported(c) THEN v ELSE None
    PROVE  EnvironIsExported'
<1>1. /\ 1 \in DOMAIN contexts
      /\ \A j \in DOMAIN contexts, m \in Names :
            contexts'[j][m] = IF j = i /\ m = n THEN c ELSE contexts[j][m]
  BY Frames, ReplacedAt DEF IInv, TypeOK
<1>2. /\ \A j \in DOMAIN contexts, m \in Names :
            ~(j = i /\ m = n) /\ contexts[j][m] # None
               => Contents(contexts[j][m])' = Contents(contexts[j][m])
      /\ c # None => Contents(contexts[i][n])' = v
  BY ReplaceContents DEF IInv, Owned
<1>3. \A d : Exported(d) => d # None
  BY DEF Exported
<1>4. \A m \in Names : Inherits(m, contexts[1][m], Contents(contexts[1][m]))
  BY EnvironParts DEF IInv
<1>5. ASSUME NEW m \in Names
      PROVE  Inherits(m, contexts[1][m], Contents(contexts[1][m]))'
  <2>1. CASE i = 1 /\ m = n
    BY <2>1, <1>1, <1>2, <1>3 DEF Inherits, Exported
  <2>2. CASE ~(i = 1 /\ m = n)
    <3>1. environ'[m] = environ[m] /\ contexts'[1][m] = contexts[1][m]
      BY <2>2, <1>1
    <3>2. Exported(contexts[1][m]) => Contents(contexts[1][m])' = Contents(contexts[1][m])
      BY <2>2, <1>1, <1>2, <1>3
    <3>3. Exported(contexts[1][m])' <=> Exported(contexts[1][m])
      BY <3>1 DEF Exported
    <3> QED BY <1>4, <3>1, <3>2, <3>3 DEF Inherits
  <2> QED BY <2>1, <2>2
<1> QED BY <1>5 DEF EnvironIsExported, Inherits

(* An allocated payload that is read or freed is there.                    *)
LEMMA NotDangling ==
    ASSUME IInv, NEW i \in DOMAIN contexts, NEW n \in Names, contexts[i][n] # None
    PROVE  Dangling(contexts[i][n]) = FALSE
BY DEF IInv, Owned, Alive, Owner, Dangling

LEMMA SetInv ==
    ASSUME IInv, contexts # <<>>,
           NEW n \in Names, NEW a \in Attributes \cup {NoUpdate},
           NEW v \in Values, NEW l \in BOOLEAN,
           CarefulSet(n, a, l), Set(n, a, v, l)
    PROVE  IInv'
<1> DEFINE i == FrameOf(n, a, l)
           old == contexts[i][n]
           as == AttributesOf(a, old)
<1>1. PICK c \in Containers :
         /\ Replace(i, n, c, v)
         /\ c.type = as.type /\ c.export = as.export /\ c.unset = as.unset
         /\ ~Owns(c) => c.payload = v
         /\ a = NoUpdate => old # None
  BY SetStep DEF IInv
<1>2. /\ i \in DOMAIN contexts /\ contexts[i] \in Tables
      /\ old \in Containers \cup {None} /\ c # None /\ c.export \in BOOLEAN
  BY <1>1, Frames, ContainerFacts DEF Replace, IInv, TypeOK, Tables
<1>3. UNCHANGED slots /\ ub' = FALSE
  BY <1>2, NotDangling DEF Set
<1>4. /\ a.export => i = 1
      /\ Exported(old) => a.export /\ a.type # "PARSED"
  BY DEF CarefulSet
<1>5. environ \in [Names -> Values \cup {None}]
  BY DEF IInv, TypeOK
<1>6. environ' = IF a.export /\ a.type # "PARSED" THEN [environ EXCEPT ![n] = v]
                 ELSE environ
  BY DEF Set, PutToEnviron
<1>7. environ' \in [Names -> Values \cup {None}]
  BY <1>5, <1>6
<1>8. ~c.unset
  <2>1. CASE a = NoUpdate
    BY <1>1, <1>2, <2>1 DEF AttributesOf, IInv, NothingMarked
  <2>2. CASE a # NoUpdate
    BY <1>1, <2>2 DEF AttributesOf
  <2> QED BY <2>1, <2>2
<1>9. Exported(c) <=> a.export /\ a.type # "PARSED"
  <2>1. CASE a = NoUpdate
    <3>1. ~a.export /\ c.type = old.type /\ c.export = old.export /\ old # None
      BY <1>1, <2>1 DEF AttributesOf, NoUpdate
    <3>2. ~Exported(old)
      BY <1>4, <3>1
    <3> QED BY <1>2, <3>1, <3>2 DEF Exported
  <2>2. CASE a # NoUpdate
    <3>1. c.type = a.type /\ c.export = a.export
      BY <1>1, <2>2 DEF AttributesOf
    <3> QED BY <1>2, <3>1 DEF Exported
  <2> QED BY <2>1, <2>2
<1>10. /\ \A m \in Names \ {n} : environ'[m] = environ[m]
       /\ i # 1 => environ'[n] = environ[n]
  BY <1>4, <1>5, <1>6
<1>11. i = 1 => environ'[n] = IF Exported(c) THEN v ELSE None
  <2> SUFFICES ASSUME i = 1 PROVE environ'[n] = IF Exported(c) THEN v ELSE None
    OBVIOUS
  <2>1. CASE Exported(c)
    BY <2>1, <1>5, <1>6, <1>9
  <2>2. CASE ~Exported(c)
    <3>1. ~Exported(old) /\ environ' = environ
      BY <2>2, <1>4, <1>6, <1>9
    <3>2. environ[n] = None
      BY <3>1, EnvironParts DEF IInv, Inherits
    <3> QED BY <2>2, <3>1, <3>2
  <2> QED BY <2>1, <2>2
<1>14. res' \in Calls
  <2>1. res' = Returned("set", n, v, l, a.export, 0)
    BY DEF Set
  <2> QED BY <2>1, ExportIsBoolean, CallType
<1> HIDE DEF i, old, as
<1>12. TypeOK' /\ FitSlots' /\ Owned' /\ NothingMarked'
  BY <1>1, <1>3, <1>7, <1>8, <1>14, ReplaceInv
<1>13. EnvironIsExported'
  BY <1>1, <1>10, <1>11, ReplaceEnviron
<1> QED BY <1>12, <1>13 DEF IInv

LEMMA UnsetInv ==
    ASSUME IInv, contexts # <<>>,
           NEW n \in Names, Found(n, FALSE) = 1, Unset(n)
    PROVE  IInv'
<1> DEFINE old == contexts[1][n]
<1>1. Replace(1, n, None, None) /\ old # None /\ 1 \in DOMAIN contexts
  BY UnsetStep, Frames DEF IInv, TypeOK
<1>2. /\ UNCHANGED slots /\ ub' = Dangling(old)
      /\ environ' = IF old.export /\ old.type # "PARSED" /\ ~old.unset
                    THEN [environ EXCEPT ![n] = None] ELSE environ
  BY DEF Unset
<1>3. ub' = FALSE /\ ~old.unset
  BY <1>1, <1>2, NotDangling DEF IInv, NothingMarked
<1>4. environ \in [Names -> Values \cup {None}]
  BY DEF IInv, TypeOK
<1>5. environ' = IF Exported(old) THEN [environ EXCEPT ![n] = None] ELSE environ
  BY <1>1, <1>2, <1>3 DEF Exported
<1>6. environ' \in [Names -> Values \cup {None}]
  BY <1>4, <1>5
<1>7. /\ \A m \in Names \ {n} : environ'[m] = environ[m]
      /\ environ'[n] = None
  <2>1. ~Exported(old) => environ[n] = None
    BY EnvironParts DEF IInv, Inherits
  <2> QED BY <1>4, <1>5, <2>1
<1>8. ~Exported(None)
  BY DEF Exported
<1> HIDE DEF old
<1>11. res' \in Calls
  <2>1. res' = Returned("unset", n, None, FALSE, FALSE, 0)
    BY DEF Unset
  <2> QED BY <2>1, CallType
<1>9. TypeOK' /\ FitSlots' /\ Owned' /\ NothingMarked'
  BY <1>1, <1>2, <1>3, <1>6, <1>11, ReplaceInv
<1>10. EnvironIsExported'
  BY <1>1, <1>7, <1>8, ReplaceEnviron
<1> QED BY <1>9, <1>10 DEF IInv

LEMMA NewContextInv ==
    ASSUME IInv, contexts # <<>>, Innermost < FirstSlots, NewContext
    PROVE  IInv'
<1>1. /\ contexts' \in Seq(Tables) /\ Innermost' = Innermost + 1 /\ Innermost \in Nat
      /\ DOMAIN contexts' = DOMAIN contexts \cup {Innermost + 1}
      /\ \A i \in DOMAIN contexts : contexts'[i] = contexts[i]
      /\ contexts'[Innermost + 1] = NoTable /\ 1 \in DOMAIN contexts
  BY NewContextStep, Frames DEF IInv, TypeOK
<1>2. memory' = memory /\ environ' = environ
  BY DEF NewContext
<1>3. slots' = slots /\ slots = FirstSlots /\ FirstSlots \in Nat
  BY <1>1, VariablesAssumption DEF NewContext, IInv, FitSlots
<1>4. ub' = FALSE
  <2> DEFINE late == Innermost >= slots'
  <2>1. ub' = late
    BY DEF NewContext
  <2>2. ~late
    BY <1>1, <1>3
  <2> HIDE DEF late
  <2> QED BY <2>1, <2>2
<1>5. TypeOK' /\ FitSlots'
  <2>1. TypeOK'
    <3>1. res' \in Calls
      BY DoneType DEF NewContext
    <3> QED BY <1>1, <1>2, <1>3, <1>4, <3>1 DEF IInv, TypeOK
  <2>2. FitSlots'
    BY <1>1, <1>3 DEF FitSlots
  <2> QED BY <2>1, <2>2
<1>6. Owned'
  BY <1>4, NewContextOwned DEF IInv, TypeOK, Owned
<1>7. NothingMarked'
  BY <1>1 DEF IInv, NothingMarked, NoTable
<1>8. EnvironIsExported'
  BY <1>1, <1>2 DEF IInv, EnvironIsExported, Contents, Exported
<1> QED BY <1>5, <1>6, <1>7, <1>8 DEF IInv

LEMMA ExitLocalInv ==
    ASSUME IInv, ExitLocal
    PROVE  IInv'
<1>1. /\ contexts' \in Seq(Tables) /\ Innermost' = Innermost - 1
      /\ Innermost \in Nat /\ Innermost > 1
      /\ DOMAIN contexts' = 1..(Innermost - 1)
      /\ DOMAIN contexts = DOMAIN contexts' \cup {Innermost}
      /\ Innermost \notin DOMAIN contexts'
      /\ \A i \in DOMAIN contexts' : contexts'[i] = contexts[i]
  BY ExitLocalStep DEF IInv, TypeOK
<1>2. UNCHANGED <<slots, environ>>
  BY DEF ExitLocal
<1>3. /\ ub' = FALSE /\ DOMAIN memory' \subseteq DOMAIN memory
      /\ \A x \in DOMAIN memory' : memory'[x] = memory[x]
  BY ExitLocalMemory DEF IInv, TypeOK, Owned
<1>4. memory' \in [DOMAIN memory' -> Values]
  BY <1>3 DEF ExitLocal, Restricted, IInv, TypeOK
<1>5. TypeOK'
  <2>1. res' \in Calls
    BY DoneType DEF ExitLocal
  <2> QED BY <1>1, <1>2, <1>3, <1>4, <2>1 DEF IInv, TypeOK
<1>6. FitSlots'
  BY <1>1, <1>2, VariablesAssumption DEF IInv, FitSlots
<1>7. Owned'
  BY <1>3, ExitLocalOwned DEF IInv, TypeOK, Owned
<1>8. NothingMarked'
  BY <1>1 DEF IInv, NothingMarked
<1>9. EnvironIsExported'
  <2>1. 1 \in DOMAIN contexts' /\ 1 \in DOMAIN contexts /\ contexts'[1] = contexts[1]
    BY <1>1
  <2>2. ASSUME NEW n \in Names, Exported(contexts[1][n])
        PROVE  Contents(contexts[1][n])' = Contents(contexts[1][n])
    <3>1. contexts[1][n] # None
      BY <2>2 DEF Exported
    <3>2. CASE Owns(contexts[1][n])
      <4>1. Owner(1, n) /\ Owner(1, n)'
        BY <2>1, <3>1, <3>2 DEF Owner
      <4>2. contexts[1][n].payload \in DOMAIN memory'
        BY <1>7, <2>1, <4>1 DEF Owned, Alive
      <4> QED BY <1>3, <2>1, <3>2, <4>2 DEF Contents
    <3>3. CASE ~Owns(contexts[1][n])
      BY <2>1, <3>3 DEF Contents
    <3> QED BY <3>2, <3>3
  <2>3. \A n \in Names : Inherits(n, contexts[1][n], Contents(contexts[1][n]))
    BY <2>1, EnvironParts DEF IInv
  <2>4. ASSUME NEW n \in Names
        PROVE  Inherits(n, contexts[1][n], Contents(contexts[1][n]))'
    BY <1>2, <2>1, <2>2, <2>3 DEF Inherits, Exported
  <2> QED BY <2>4 DEF EnvironIsExported, Inherits
<1> QED BY <1>5, <1>6, <1>7, <1>8, <1>9 DEF IInv

LEMMA FreeInv ==
    ASSUME IInv, Free
    PROVE  IInv'
<1>1. /\ contexts' = <<>> /\ DOMAIN contexts' = {} /\ contexts' \in Seq(Tables)
      /\ ub' = FALSE /\ DOMAIN memory' = {} /\ memory' \in [DOMAIN memory' -> Values]
      /\ Alive' /\ NoLeak' /\ Once'
  BY FreeOwned DEF IInv, TypeOK, Owned
<1>2. UNCHANGED <<slots, environ>>
  BY DEF Free
<1>3. TypeOK'
  <2>1. res' \in Calls
    BY DoneType DEF Free
  <2> QED BY <1>1, <1>2, <2>1 DEF IInv, TypeOK
<1>4. FitSlots'
  <2>1. Innermost' = 0
    BY <1>1 DEF Innermost
  <2> QED BY <1>2, <2>1, VariablesAssumption DEF IInv, FitSlots
<1>5. Owned'
  BY <1>1 DEF Owned
<1>6. NothingMarked' /\ EnvironIsExported'
  BY <1>1 DEF NothingMarked, EnvironIsExported
<1> QED BY <1>3, <1>4, <1>5, <1>6 DEF IInv

(* What the frames hold are values, and what is looked up is one of them.  *)
LEMMA ContentsAt ==
    ASSUME IInv, NEW i \in DOMAIN contexts, NEW n \in Names, contexts[i][n] # None
    PROVE  Contents(contexts[i][n]) \in Values
<1> DEFINE c == contexts[i][n]
<1>1. c \in Containers
  BY Frames DEF IInv, TypeOK, Tables
<1>2. c.payload \in IF Owns(c) THEN Cells ELSE Values
  BY <1>1, ContainerFacts
<1>3. CASE Owns(c)
  <2>1. Owner(i, n)
    BY <1>3 DEF Owner
  <2>2. c.payload \in DOMAIN memory
    BY <2>1 DEF IInv, Owned, Alive
  <2> QED BY <1>3, <2>2 DEF Contents, IInv, TypeOK
<1>4. CASE ~Owns(c)
  BY <1>2, <1>4 DEF Contents
<1> QED BY <1>3, <1>4

LEMMA FoundHolds ==
    ASSUME IInv, NEW n \in Names, NEW l \in BOOLEAN, Found(n, l) # 0
    PROVE  Found(n, l) \in DOMAIN contexts /\ contexts[Found(n, l)][n] # None
<1>1. Found(n, l) \in IF l THEN Holding(n) \cap {Innermost} ELSE Holding(n)
  BY FoundInnermost DEF IInv, TypeOK
<1> QED BY <1>1 DEF Holding

(* A lookup returns the value of the container it finds, if any.           *)
LEMMA GetStep ==
    ASSUME IInv, NEW n \in Names, NEW l \in BOOLEAN, Get(n, l)
    PROVE  /\ ub' = FALSE
           /\ res' = Returned("get", n, None, l, FALSE,
                       IF Found(n, l) = 0 THEN None ELSE Contents(contexts[Found(n, l)][n]))
           /\ UNCHANGED <<contexts, slots, memory, environ>>
<1> DEFINE i == Found(n, l)
           dangling == IF i = 0 THEN FALSE ELSE Dangling(contexts[i][n])
<1>1. dangling = FALSE
  BY FoundHolds, NotDangling
<1>2. /\ ub' = dangling
      /\ res' = Returned("get", n, None, l, FALSE,
                         IF i = 0 \/ dangling THEN None ELSE Contents(contexts[i][n]))
      /\ UNCHANGED <<contexts, slots, memory, environ>>
  BY DEF Get
<1> HIDE DEF dangling
<1> QED BY <1>1, <1>2

(* What changes nothing but the call that is recorded.                     *)
LEMMA RecordedInv ==
    ASSUME IInv, UNCHANGED <<contexts, slots, memory, environ>>, ub' = FALSE, res' \in Calls
    PROVE  IInv'
<1>1. TypeOK'
  BY DEF IInv, TypeOK
<1>2. FitSlots' /\ NothingMarked'
  BY DEF IInv, FitSlots, NothingMarked, Innermost
<1>3. Owned'
  BY DEF IInv, Owned, Alive, NoLeak, Once, Owner
<1>4. EnvironIsExported'
  BY DEF IInv, EnvironIsExported, Exported, Contents
<1> QED BY <1>1, <1>2, <1>3, <1>4 DEF IInv

LEMMA GetInv ==
    ASSUME IInv, NEW n \in Names, NEW l \in BOOLEAN, Get(n, l)
    PROVE  IInv'
<1>1. (IF Found(n, l) = 0 THEN None ELSE Contents(contexts[Found(n, l)][n]))
         \in Values \cup {None, 0, 1}
  BY FoundHolds, ContentsAt
<1>2. res' \in Calls
  BY <1>1, GetStep, CallType
<1> QED BY <1>2, GetStep, RecordedInv

LEMMA UnsetMissingInv ==
    ASSUME IInv, NEW n \in Names, UnsetMissing(n)
    PROVE  IInv'
<1>1. res' = Returned("unset", n, None, FALSE, FALSE, 1) /\ ub' = ub
  BY DEF UnsetMissing
<1>2. res' \in Calls
  BY <1>1, CallType
<1>3. ub' = FALSE
  BY <1>1 DEF IInv, Owned, TypeOK
<1> QED BY <1>2, <1>3, RecordedInv DEF UnsetMissing

LEMMA NextInv == IInv /\ [CarefulNext]_vars => IInv'
<1> SUFFICES ASSUME IInv, [CarefulNext]_vars PROVE IInv'
  OBVIOUS
<1>1. CASE UNCHANGED vars
  <2>1. TypeOK'
    BY <1>1 DEF vars, IInv, TypeOK
  <2>2. FitSlots' /\ NothingMarked'
    BY <1>1 DEF vars, IInv, FitSlots, NothingMarked, Innermost
  <2>3. Owned'
    BY <1>1 DEF vars, IInv, Owned, Alive, NoLeak, Once, Owner
  <2>4. EnvironIsExported'
    BY <1>1 DEF vars, IInv, EnvironIsExported, Exported, Contents
  <2> QED BY <2>1, <2>2, <2>3, <2>4 DEF IInv
<1>2. CASE CarefulNext
  <2>1. contexts # <<>>
    BY <1>2 DEF CarefulNext, Running
  <2>2. CASE Innermost < FirstSlots /\ NewContext
    BY <2>1, <2>2, NewContextInv
  <2>3. CASE ExitLocal
    BY <2>3, ExitLocalInv
  <2>4. CASE Free
    BY <2>4, FreeInv
  <2>5. ASSUME NEW n \in Names, Found(n, FALSE) = 1, Unset(n)
        PROVE  IInv'
    BY <2>1, <2>5, UnsetInv
  <2>6. ASSUME NEW n \in Names, NEW a \in Attributes \cup {NoUpdate},
               NEW v \in Values, NEW l \in BOOLEAN, CarefulSet(n, a, l), Set(n, a, v, l)
        PROVE  IInv'
    BY <2>1, <2>6, SetInv
  <2>7. ASSUME NEW n \in Names, UnsetMissing(n) PROVE IInv'
    BY <2>7, UnsetMissingInv
  <2>8. ASSUME NEW n \in Names, NEW l \in BOOLEAN, Get(n, l) PROVE IInv'
    BY <2>8, GetInv
  <2> QED BY <1>2, <2>2, <2>3, <2>4, <2>5, <2>6, <2>7, <2>8 DEF CarefulNext
<1> QED BY <1>1, <1>2

(* The state of the variables keeps its type: every container of every     *)
(* frame holds a value or a cell as its type says, what is allocated holds *)
(* values, and the environment has a value or nothing for each name.       *)
THEOREM TypeCorrect == CarefulSpec => []TypeOK
<1>1. IInv => TypeOK
  BY DEF IInv
<1> QED BY <1>1, InitInv, NextInv, PTL DEF CarefulSpec

(* Over every sequence of sets, unsets and frames, whatever cells the      *)
(* memory allocator picks: no payload is leaked, freed twice, shared by    *)
(* two variables or used after it was freed by clear_single_var.           *)
THEOREM PayloadsCorrect == CarefulSpec => []PayloadsOwnedOnce
<1>1. IInv => PayloadsOwnedOnce
  BY OwnershipParts DEF IInv, Owned
<1> QED BY <1>1, InitInv, NextInv, PTL DEF CarefulSpec

(* A child that is started at any time inherits exactly the exported       *)
(* variables of the outermost frame with the values they have.             *)
THEOREM EnvironCorrect == CarefulSpec => []EnvironIsExported
<1>1. IInv => EnvironIsExported
  BY DEF IInv
<1> QED BY <1>1, InitInv, NextInv, PTL DEF CarefulSpec

-----------------------------------------------------------------------------
(* The scopes of variable.h                                                *)

Scope == [Names -> Values \cup {None}]

LEMMA ValuesAt ==
    ASSUME IInv
    PROVE  /\ ValuesByFrame \in Seq(Scope)
           /\ DOMAIN ValuesByFrame = DOMAIN contexts /\ Len(ValuesByFrame) = Innermost
           /\ \A i \in DOMAIN contexts : ValuesByFrame[i] \in Scope
           /\ \A i \in DOMAIN contexts, n \in Names :
                 ValuesByFrame[i][n] = IF contexts[i][n] = None THEN None
                                       ELSE Contents(contexts[i][n])
           /\ \A i \in DOMAIN contexts, n \in Names :
                 contexts[i][n] # None => Contents(contexts[i][n]) \in Values
<1>1. \A i \in DOMAIN contexts, n \in Names :
         contexts[i][n] # None => Contents(contexts[i][n]) \in Values
  BY ContentsAt
<1>2. \A i \in DOMAIN contexts :
         /\ ValuesByFrame[i] = [n \in Names |-> IF contexts[i][n] = None THEN None
                                               ELSE Contents(contexts[i][n])]
         /\ ValuesByFrame[i] \in Scope
  BY <1>1 DEF ValuesByFrame, Scope
<1>3. DOMAIN contexts = 1..Innermost /\ Innermost \in Nat
  BY Frames DEF IInv, TypeOK
<1>4. ValuesByFrame \in [1..Innermost -> Scope]
  BY <1>2, <1>3 DEF ValuesByFrame
<1>5. ValuesByFrame \in Seq(Scope) /\ Len(ValuesByFrame) = Innermost
  BY <1>3, <1>4
<1> QED BY <1>1, <1>2, <1>3, <1>4, <1>5

(* A variable is in a frame when its value is.                             *)
LEMMA SameHolding ==
    ASSUME IInv, NEW n \in Names
    PROVE  Scoped!Holding(n) = Holding(n)
<1>1. \A i \in DOMAIN contexts : ValuesByFrame[i][n] # None <=> contexts[i][n] # None
  BY ValuesAt, VariablesAssumption
<1> QED BY <1>1, ValuesAt DEF Scoped!Holding, Holding

(* A container that is replaced is a value that is set.                    *)
LEMMA ValuesReplaced ==
    ASSUME IInv, NEW i, NEW n, NEW c, NEW v, Replace(i, n, c, v),
           c # None /\ ~Owns(c) => c.payload = v
    PROVE  Scoped!SetAt(i, n, IF c = None THEN None ELSE v)
<1> DEFINE w == IF c = None THEN None ELSE v
           frame == [ValuesByFrame[i] EXCEPT ![n] = w]
<1>1. i \in DOMAIN contexts /\ n \in Names
  BY DEF Replace
<1>2. /\ DOMAIN contexts' = DOMAIN contexts
      /\ \A j \in DOMAIN contexts, m \in Names :
            contexts'[j][m] = IF j = i /\ m = n THEN c ELSE contexts[j][m]
  BY ReplacedAt DEF IInv, TypeOK
<1>3. /\ \A j \in DOMAIN contexts, m \in Names :
            ~(j = i /\ m = n) /\ contexts[j][m] # None
               => Contents(contexts[j][m])' = Contents(contexts[j][m])
      /\ c # None => Contents(contexts[i][n])' = v
  BY ReplaceContents DEF IInv, Owned
<1>4. /\ ValuesByFrame' = [j \in DOMAIN contexts' |-> [m \in Names |->
                              IF contexts'[j][m] = None THEN None
                              ELSE Contents(contexts[j][m])']]
  BY DEF ValuesByFrame
<1>5. ASSUME NEW j \in DOMAIN contexts, j # i
      PROVE  ValuesByFrame'[j] = ValuesByFrame[j]
  BY <1>2, <1>3, <1>4, <1>5 DEF ValuesByFrame
<1>6. ValuesByFrame'[i] = frame
  <2>1. frame = [m \in Names |-> IF m = n THEN w
                                 ELSE IF contexts[i][m] = None THEN None
                                 ELSE Contents(contexts[i][m])]
    BY <1>1 DEF ValuesByFrame
  <2>2. ValuesByFrame'[i] = [m \in Names |-> IF contexts'[i][m] = None THEN None
                                             ELSE Contents(contexts[i][m])']
    BY <1>1, <1>2, <1>4
  <2> QED BY <1>1, <1>2, <1>3, <2>1, <2>2
<1>7. ValuesByFrame' = [ValuesByFrame EXCEPT ![i] = frame]
  <2> DEFINE f == ValuesByFrame
             g == ValuesByFrame'
  <2>1. f = [j \in DOMAIN contexts |-> f[j]] /\ g = [j \in DOMAIN contexts |-> g[j]]
    BY <1>2, <1>4 DEF ValuesByFrame
  <2>2. \A j \in DOMAIN contexts : g[j] = IF j = i THEN frame ELSE f[j]
    BY <1>5, <1>6
  <2> HIDE DEF f, g, frame
  <2>3. g = [f EXCEPT ![i] = frame]
    BY <1>1, <2>1, <2>2
  <2> QED BY <2>3 DEF f, g
<1> QED BY <1>7 DEF Scoped!SetAt

-----------------------------------------------------------------------------
(* The frame a call works in is the one variable.h names.                  *)
LEMMA HomeIs ==
    ASSUME IInv, NEW n \in Names, NEW l \in BOOLEAN
    PROVE  Scoped!Home(n, l) = IF Found(n, l) # 0 THEN Found(n, l)
                               ELSE IF l THEN Innermost ELSE 1
<1> DEFINE found == Found(n, l)
           home == Scoped!Home(n, l)
<1>1. Holding(n) \subseteq 1..Innermost
  BY Frames DEF Holding, IInv, TypeOK
<1>2. CASE l
  <2>1. home = Innermost
    BY <1>2, ValuesAt DEF Scoped!Home
  <2>2. IF Holding(n) \cap {Innermost} = {} THEN found = 0
        ELSE found \in Holding(n) \cap {Innermost}
    BY <1>2, FoundInnermost DEF IInv, TypeOK
  <2> HIDE DEF found, home
  <2>3. home = IF found # 0 THEN found ELSE Innermost
    BY <2>1, <2>2
  <2> QED BY <1>2, <2>3 DEF found, home
<1>3. CASE ~l
  <2>1. home = IF Holding(n) = {} THEN 1 ELSE Max(Holding(n))
    <3>1. home = IF Scoped!Holding(n) = {} THEN 1 ELSE Scoped!Max(Scoped!Holding(n))
      BY <1>3 DEF Scoped!Home
    <3>2. Scoped!Max(Holding(n)) = Max(Holding(n))
      BY DEF Scoped!Max, Max
    <3> QED BY <3>1, <3>2, SameHolding
  <2>2. IF Holding(n) = {} THEN found = 0
        ELSE found = Max(Holding(n)) /\ found \in Holding(n)
    BY <1>3, FoundInnermost DEF IInv, TypeOK
  <2> HIDE DEF found, home
  <2>3. home = IF found # 0 THEN found ELSE 1
    BY <1>1, <2>1, <2>2
  <2> QED BY <1>3, <2>3 DEF found, home
<1> QED BY <1>2, <1>3

LEMMA InitScoped == IInv /\ Init => Scoped!Init
<1> SUFFICES ASSUME IInv, Init PROVE Scoped!Init
  OBVIOUS
<1>1. contexts = <<NoTable>>
  BY DEF Init
<1>2. DOMAIN contexts = {1} /\ contexts[1] = NoTable
  BY <1>1
<1>3. ValuesByFrame = [i \in {1} |-> [n \in Names |-> None]]
  BY <1>2 DEF ValuesByFrame, NoTable
<1>4. res = Scoped!Done("enter")
  BY DEF Init, Done, Returned, Scoped!Done, Scoped!Returned
<1> QED BY <1>3, <1>4 DEF Scoped!Init, Scoped!Empty

LEMMA NewContextScoped ==
    ASSUME IInv, contexts # <<>>, NewContext
    PROVE  Scoped!Enter
<1>1. /\ DOMAIN contexts' = DOMAIN contexts \cup {Innermost + 1}
      /\ Innermost + 1 \notin DOMAIN contexts
      /\ \A i \in DOMAIN contexts : contexts'[i] = contexts[i]
      /\ contexts'[Innermost + 1] = NoTable
      /\ memory' = memory
      /\ Innermost \in Nat /\ DOMAIN contexts = 1..Innermost
  BY NewContextStep, Frames DEF NewContext, IInv, TypeOK
<1>2. ValuesByFrame' = [j \in DOMAIN contexts' |-> [m \in Names |->
                              IF contexts'[j][m] = None THEN None
                              ELSE Contents(contexts[j][m])']]
  BY DEF ValuesByFrame
<1>3. \A j \in DOMAIN contexts : ValuesByFrame'[j] = ValuesByFrame[j]
  BY <1>1, <1>2 DEF ValuesByFrame, Contents
<1>4. ValuesByFrame'[Innermost + 1] = [m \in Names |-> None]
  BY <1>1, <1>2 DEF NoTable
<1>5. ValuesByFrame \in Seq(Scope) /\ Len(ValuesByFrame) = Innermost
  BY ValuesAt
<1>6. [m \in Names |-> None] \in Scope
  BY DEF Scope
<1>7. ValuesByFrame' = Append(ValuesByFrame, [m \in Names |-> None])
  <2> DEFINE f == ValuesByFrame
             g == ValuesByFrame'
             e == [m \in Names |-> None]
  <2>1. g = [j \in 1..(Innermost + 1) |-> g[j]]
    BY <1>1, <1>2
  <2>2. \A j \in 1..(Innermost + 1) : g[j] = IF j = Innermost + 1 THEN e ELSE f[j]
    BY <1>1, <1>3, <1>4
  <2>3. /\ Append(f, e) = [j \in 1..(Innermost + 1) |-> Append(f, e)[j]]
        /\ \A j \in 1..(Innermost + 1) :
              Append(f, e)[j] = IF j = Innermost + 1 THEN e ELSE f[j]
    BY <1>1, <1>5, <1>6
  <2> HIDE DEF f, g, e
  <2>4. g = Append(f, e)
    BY <2>1, <2>2, <2>3
  <2> QED BY <2>4 DEF f, g, e
<1>8. res' = Scoped!Done("enter")
  BY DEF NewContext, Done, Returned, Scoped!Done, Scoped!Returned
<1> QED BY <1>7, <1>8 DEF Scoped!Enter, Scoped!Empty

LEMMA FreeScoped ==
    ASSUME Free
    PROVE  Scoped!Destroy
<1>1. contexts' = <<>>
  BY DEF Free
<1>2. DOMAIN contexts' = {}
  BY <1>1
<1>3. ValuesByFrame' = <<>>
  BY <1>2 DEF ValuesByFrame
<1>4. res' = Scoped!Done("destroy")
  BY DEF Free, Done, Returned, Scoped!Done, Scoped!Returned
<1> QED BY <1>3, <1>4 DEF Scoped!Destroy

LEMMA ExitLocalScoped ==
    ASSUME IInv, ExitLocal
    PROVE  Scoped!Leave
<1> DEFINE f == ValuesByFrame
           g == ValuesByFrame'
<1>1. /\ Innermost \in Nat /\ Innermost > 1
      /\ DOMAIN contexts' = 1..(Innermost - 1)
      /\ DOMAIN contexts = DOMAIN contexts' \cup {Innermost}
      /\ Innermost \notin DOMAIN contexts'
      /\ \A i \in DOMAIN contexts' : contexts'[i] = contexts[i]
  BY ExitLocalStep DEF IInv, TypeOK
<1>2. g = [j \in DOMAIN contexts' |-> [m \in Names |->
                IF contexts'[j][m] = None THEN None ELSE Contents(contexts[j][m])']]
  BY DEF ValuesByFrame
<1>3. ASSUME NEW j \in DOMAIN contexts', NEW m \in Names, contexts[j][m] # None
      PROVE  Contents(contexts[j][m])' = Contents(contexts[j][m])
  <2>1. j \in DOMAIN contexts /\ j # Innermost /\ contexts'[j] = contexts[j]
    BY <1>1
  <2>2. CASE ~Owns(contexts[j][m])
    BY <2>1, <2>2 DEF Contents
  <2>3. CASE Owns(contexts[j][m])
    <3>1. Owner(j, m) /\ contexts[j][m].payload \in DOMAIN memory
      BY <1>3, <2>1, <2>3 DEF Owner, IInv, Owned, Alive
    <3>2. \A n \in Names : Owner(Innermost, n) =>
             contexts[Innermost][n].payload # contexts[j][m].payload
      BY <1>1, <2>1, <3>1 DEF IInv, Owned, Once
    <3>3. contexts[j][m].payload \in DOMAIN memory'
      BY <3>1, <3>2, ExitLocalMemory DEF IInv, TypeOK, Owned
    <3>4. memory'[contexts[j][m].payload] = memory[contexts[j][m].payload]
      BY <3>3, ExitLocalMemory DEF IInv, TypeOK, Owned
    <3> QED BY <2>1, <2>3, <3>4 DEF Contents
  <2> QED BY <2>2, <2>3
<1>4. \A j \in DOMAIN contexts' : g[j] = f[j]
  BY <1>1, <1>2, <1>3 DEF ValuesByFrame
<1>5. f \in Seq(Scope) /\ Len(f) = Innermost
  BY ValuesAt
<1>6. g = [j \in 1..(Innermost - 1) |-> g[j]]
  BY <1>1, <1>2
<1> HIDE DEF f, g
<1>7. /\ SubSeq(f, 1, Innermost - 1) = [j \in 1..(Innermost - 1) |-> f[j]]
  BY <1>1, <1>5
<1>8. g = SubSeq(f, 1, Len(f) - 1) /\ Len(f) > 1
  BY <1>1, <1>4, <1>5, <1>6, <1>7
<1>9. res' = Scoped!Done("leave")
  BY DEF ExitLocal, Done, Returned, Scoped!Done, Scoped!Returned
<1> QED BY <1>8, <1>9 DEF Scoped!Leave, Scoped!Front, f, g

LEMMA UnsetScoped ==
    ASSUME IInv, NEW n \in Names, Found(n, FALSE) = 1, Unset(n)
    PROVE  Scoped!Unset(n)
<1>1. Replace(1, n, None, None) /\ contexts[1][n] # None
  BY UnsetStep DEF IInv
<1>2. Scoped!SetAt(1, n, None)
  BY <1>1, ValuesReplaced
<1>3. Scoped!Home(n, FALSE) = 1
  <2>1. FALSE \in BOOLEAN
    OBVIOUS
  <2> QED BY <2>1, HomeIs
<1>4. Scoped!Holding(n) # {}
  <2>1. 1 \in Holding(n)
    BY <1>1 DEF Holding, Replace
  <2> QED BY <2>1, SameHolding
<1>5. res' = Scoped!Returned("unset", n, None, FALSE, FALSE, 0)
  BY DEF Unset, Returned, Scoped!Returned
<1> QED BY <1>2, <1>3, <1>4, <1>5 DEF Scoped!Unset

LEMMA UnsetMissingScoped ==
    ASSUME IInv, contexts # <<>>, NEW n \in Names, UnsetMissing(n)
    PROVE  Scoped!Unset(n)
<1> DEFINE f == ValuesByFrame
<1>1. Found(n, FALSE) = 0 /\ UNCHANGED <<contexts, memory>>
  BY DEF UnsetMissing
<1>2. Holding(n) = {}
  <2> DEFINE found == Found(n, FALSE)
  <2>1. found = 0 /\ (Holding(n) # {} => found \in Holding(n))
    BY <1>1, FoundAnywhere DEF IInv, TypeOK
  <2>2. 0 \notin Holding(n)
    BY Frames DEF Holding, IInv, TypeOK
  <2> HIDE DEF found
  <2> QED BY <2>1, <2>2
<1>3. Scoped!Home(n, FALSE) = 1
  <2>1. FALSE \in BOOLEAN
    OBVIOUS
  <2> QED BY <1>1, <2>1, HomeIs
<1>4. 1 \in DOMAIN f /\ f[1] \in Scope /\ f[1][n] = None /\ f \in Seq(Scope)
  <2>1. 1 \in DOMAIN contexts
    BY Frames DEF IInv, TypeOK
  <2>2. contexts[1][n] = None
    BY <1>2, <2>1 DEF Holding
  <2> QED BY <2>1, <2>2, ValuesAt
<1>5. f' = f
  BY <1>1 DEF ValuesByFrame, Contents
<1> HIDE DEF f
<1>6. [f EXCEPT ![1] = [f[1] EXCEPT ![n] = None]] = f
  <2>1. [f[1] EXCEPT ![n] = None] = f[1]
    BY <1>4 DEF Scope
  <2> QED BY <1>4, <2>1
<1>7. Scoped!SetAt(1, n, None)
  BY <1>5, <1>6 DEF Scoped!SetAt, f
<1>8. res' = Scoped!Returned("unset", n, None, FALSE, FALSE, 1)
  BY DEF UnsetMissing, Returned, Scoped!Returned
<1> QED BY <1>2, <1>3, <1>7, <1>8, SameHolding DEF Scoped!Unset

LEMMA GetScoped ==
    ASSUME IInv, contexts # <<>>, NEW n \in Names, NEW l \in BOOLEAN, Get(n, l)
    PROVE  Scoped!Get(n, l)
<1> DEFINE i == Found(n, l)
           home == Scoped!Home(n, l)
           ret == IF i = 0 THEN None ELSE Contents(contexts[i][n])
<1>1. res' = Returned("get", n, None, l, FALSE, ret) /\ UNCHANGED <<contexts, memory>>
  BY GetStep
<1>2. home = IF i # 0 THEN i ELSE IF l THEN Innermost ELSE 1
  BY HomeIs
<1>3. ValuesByFrame[home][n] = ret
  <2>1. CASE i # 0
    BY <1>2, <2>1, FoundHolds, ValuesAt
  <2>2. CASE i = 0
    <3>1. home \in DOMAIN contexts /\ home = IF l THEN Innermost ELSE 1
      BY <1>2, <2>2, Frames DEF IInv, TypeOK
    <3>2. (IF l THEN Holding(n) \cap {Innermost} ELSE Holding(n)) = {}
      <4> DEFINE where == IF l THEN Holding(n) \cap {Innermost} ELSE Holding(n)
      <4>1. where # {} => i \in where
        BY FoundInnermost DEF IInv, TypeOK
      <4>2. 0 \notin where
        BY Frames DEF Holding, IInv, TypeOK
      <4> QED BY <2>2, <4>1, <4>2
    <3>3. contexts[home][n] = None
      BY <3>1, <3>2 DEF Holding
    <3> QED BY <2>2, <3>1, <3>3, ValuesAt
  <2> QED BY <2>1, <2>2
<1>4. ValuesByFrame' = ValuesByFrame
  BY <1>1 DEF ValuesByFrame, Contents
<1> HIDE DEF ret, home
<1>5. res' = Scoped!Returned("get", n, None, l, FALSE, ValuesByFrame[home][n])
  BY <1>1, <1>3 DEF Returned, Scoped!Returned
<1> QED BY <1>4, <1>5 DEF Scoped!Get, home

LEMMA SetScoped ==
    ASSUME IInv, contexts # <<>>,
           NEW n \in Names, NEW a \in Attributes \cup {NoUpdate},
           NEW v \in Values, NEW l \in BOOLEAN, Set(n, a, v, l)
    PROVE  Scoped!Set(n, v, l, a.export)
<1> DEFINE i == FrameOf(n, a, l)
           inner == l /\ ~a.export
<1>1. Scoped!SetAt(i, n, v)
  <2>1. PICK c \in Containers : Replace(i, n, c, v) /\ (~Owns(c) => c.payload = v)
    BY SetStep DEF IInv
  <2>2. c # None
    BY ContainerFacts
  <2> QED BY <2>1, <2>2, ValuesReplaced
<1>2. i = IF Found(n, inner) # 0 THEN Found(n, inner) ELSE IF inner THEN Innermost ELSE 1
  BY DEF FrameOf
<1>3. inner \in BOOLEAN
  OBVIOUS
<1>4. i = Scoped!Home(n, inner)
  BY <1>2, <1>3, HomeIs
<1>5. res' = Scoped!Returned("set", n, v, l, a.export, 0)
  BY DEF Set, Returned, Scoped!Returned
<1> HIDE DEF i
<1> QED BY <1>1, <1>4, <1>5 DEF Scoped!Set

LEMMA NextScoped ==
    IInv /\ [CarefulNext]_vars => [Scoped!Next]_<<ValuesByFrame, res>>
<1> SUFFICES ASSUME IInv, [CarefulNext]_vars
             PROVE  Scoped!Next \/ UNCHANGED <<ValuesByFrame, res>>
  OBVIOUS
<1>1. CASE UNCHANGED vars
  BY <1>1 DEF vars, ValuesByFrame, Contents
<1>2. CASE CarefulNext
  <2>1. contexts # <<>> /\ ValuesByFrame # <<>>
    <3>1. contexts # <<>>
      BY <1>2 DEF CarefulNext, Running
    <3>2. 1 \in DOMAIN ValuesByFrame
      BY <3>1, ValuesAt, Frames DEF IInv, TypeOK
    <3> QED BY <3>1, <3>2
  <2>2. CASE NewContext
    BY <2>1, <2>2, NewContextScoped DEF Scoped!Next
  <2>3. CASE ExitLocal
    BY <2>1, <2>3, ExitLocalScoped DEF Scoped!Next
  <2>4. CASE Free
    BY <2>1, <2>4, FreeScoped DEF Scoped!Next
  <2>5. ASSUME NEW n \in Names, Found(n, FALSE) = 1, Unset(n)
        PROVE  Scoped!Next
    BY <2>1, <2>5, UnsetScoped DEF Scoped!Next
  <2>6. ASSUME NEW n \in Names, NEW a \in Attributes \cup {NoUpdate},
               NEW v \in Values, NEW l \in BOOLEAN, Set(n, a, v, l)
        PROVE  Scoped!Next
    <3>1. a.export \in BOOLEAN
      BY ExportIsBoolean
    <3>2. Scoped!Set(n, v, l, a.export)
      BY <2>1, <2>6, SetScoped
    <3> QED BY <2>1, <3>1, <3>2 DEF Scoped!Next
  <2>7. ASSUME NEW n \in Names, UnsetMissing(n)
        PROVE  Scoped!Next
    BY <2>1, <2>7, UnsetMissingScoped DEF Scoped!Next
  <2>8. ASSUME NEW n \in Names, NEW l \in BOOLEAN, Get(n, l)
        PROVE  Scoped!Next
    BY <2>1, <2>8, GetScoped DEF Scoped!Next
  <2> QED BY <1>2, <2>2, <2>3, <2>4, <2>5, <2>6, <2>7, <2>8 DEF CarefulNext
<1> QED BY <1>1, <1>2

(* Every behaviour of the variables, with their containers, payloads and   *)
(* frames, is one of the scopes that variable.h describes: each call works *)
(* in the frame it says for the is_local it was given, and each lookup     *)
(* returns what was set there.                                             *)
THEOREM ScopesCorrect == CarefulSpec => IsScoped
<1>1. IInv /\ Init => Scoped!Init
  BY InitScoped
<1>2. IInv /\ [CarefulNext]_vars => [Scoped!Next]_<<ValuesByFrame, res>>
  BY NextScoped
<1> QED BY <1>1, <1>2, InitInv, NextInv, PTL DEF CarefulSpec, IsScoped, Scoped!Spec
=============================================================================
