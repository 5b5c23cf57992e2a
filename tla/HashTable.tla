------------------------------ MODULE HashTable ------------------------------
(***************************************************************************)
(* psh_hash (src/lib/hash.c): an array of buckets, each a count with the   *)
(* head and the tail of a singly linked list of malloc()ed items.  The     *)
(* heap is modelled: items are cells, freed cells may be handed out again, *)
(* and a step that follows or writes through a pointer that is not to a    *)
(* live cell is undefined behaviour, after which nothing is said.          *)
(***************************************************************************)
EXTENDS SequencesExt

CONSTANTS
    Keys, Values, None,
    Cells,      \* addresses an item may have
    Null,       \* the null pointer
    HashOf,     \* hasher(): a hash value for every key
    InitLen     \* length given to psh_hash_create, a power of two

ASSUME HashAssumption ==
    /\ None \notin Values /\ Cells \subseteq Nat /\ Null \notin Cells
    /\ HashOf \in [Keys -> Nat]
    /\ InitLen \in {1, 2, 4, 8, 16, 32, 64}

VARIABLES
    h,      \* the table and the heap
    res     \* the last call and what it returned
vars == <<h, res>>

Item == [key : Keys \cup {None}, value : Values \cup {None}, next : Cells \cup {Null}]
NoItem == [key |-> None, value |-> None, next |-> Null]
EmptyBucket == [used |-> 0, head |-> Null, tail |-> Null]

(* ub: undefined behaviour has happened                                    *)
Create(len) == [len |-> len, used |-> 0,
                table |-> [b \in 0..len - 1 |-> EmptyBucket],
                item |-> [c \in Cells |-> NoItem], live |-> {}, ub |-> FALSE]

Returned(op, k, v, ret) == [op |-> op, key |-> k, value |-> v, ret |-> ret]

Init == h = Create(InitLen) /\ res = Returned("create", None, None, None)

Slot(t, k) == HashOf[k] % t.len

(* The pointers `this` takes in the loops over a bucket, which are bounded *)
(* by the count and never look for a null next.                            *)
Walk(t, b) ==
    LET this[n \in 1..t.table[b].used] ==
            IF n = 1 THEN t.table[b].head
            ELSE LET last == this[n - 1]
                 IN  IF last \in Cells THEN t.item[last].next ELSE Null
    IN  this

(* The loop stops at position n with an item of key k; it ends without     *)
(* one; it runs into a pointer that is no item's.                          *)
Match(t, k, n) ==
    LET this == Walk(t, Slot(t, k)) IN
    /\ n \in DOMAIN this /\ this[n] \in t.live /\ t.item[this[n]].key = k
    /\ \A m \in 1..n - 1 : this[m] \in t.live /\ t.item[this[m]].key # k
Missing(t, k) ==
    LET this == Walk(t, Slot(t, k)) IN
    \A n \in DOMAIN this : this[n] \in t.live /\ t.item[this[n]].key # k
Stray(t, k) == ~Missing(t, k) /\ \A n \in DOMAIN Walk(t, Slot(t, k)) : ~Match(t, k, n)

Undefined(t) == [t EXCEPT !.ub = TRUE]

(* Mutant of the next operator: the item goes to the head of the list.     *)
AppendAtHead(t, c) ==
    LET b == Slot(t, t.item[c].key)
        chain == t.table[b]
    IN  IF chain.used = 0
        THEN [t EXCEPT !.table[b] = [used |-> 1, head |-> c, tail |-> c], !.used = @ + 1]
        ELSE [t EXCEPT !.table[b] = [used |-> chain.used + 1, head |-> c, tail |-> c],
                       !.used = @ + 1, !.item[c].next = chain.head]

(* add__psh_hash_item: the cell c becomes the last of its bucket.          *)
Append1(t, c) ==
    LET b == Slot(t, t.item[c].key)
        chain == t.table[b]
    IN  IF chain.used = 0
        THEN [t EXCEPT !.table[b] = [used |-> 1, head |-> c, tail |-> c], !.used = @ + 1]
        ELSE IF chain.tail \notin t.live THEN Undefined(t)
        ELSE [t EXCEPT !.table[b] = [used |-> chain.used + 1, head |-> chain.head, tail |-> c],
                       !.used = @ + 1, !.item[chain.tail].next = c]

Settled(t, items) == FoldLeft(Append1, t, items)
ListsOf(t) == [i \in 1..t.len |-> Walk(t, i - 1)]
AllLive(t) == \A i \in 1..t.len : Range(ListsOf(t)[i]) \subseteq t.live

(* Mutant: keeps the count of the old table.                               *)
ReallocKeepsUsed(t, newlen) ==
    LET empty == [t EXCEPT !.len = newlen, !.table = Create(newlen).table]
    IN  IF AllLive(t) THEN FoldLeft(Settled, empty, ListsOf(t)) ELSE Undefined(t)

(* psh_hash_realloc: the items, bucket by bucket, are settled in a new     *)
(* array; the next of an item that ends up last is left as it was.         *)
Realloc(t, newlen) ==
    LET empty == [t EXCEPT !.len = newlen, !.used = 0, !.table = Create(newlen).table]
    IN  IF AllLive(t) THEN FoldLeft(Settled, empty, ListsOf(t)) ELSE Undefined(t)

(* malloc(): which cell that is not in use makes no difference.            *)
Fresh(t) == {c \in Cells \ t.live : \A d \in Cells \ t.live : c <= d}

(* Mutant: the new item is appended without looking for the key.           *)
AddedBlind(t, k, v) ==
    { Append1([t EXCEPT !.item[c] = [key |-> k, value |-> v, next |-> Null],
                        !.live = @ \cup {c}], c) : c \in Fresh(t) }

(* psh_hash_add: edit the item of the key, or append one malloc() gives.   *)
Added(t, k, v) ==
    IF Stray(t, k) THEN {Undefined(t)}
    ELSE IF Missing(t, k)
    THEN { Append1([t EXCEPT !.item[c] = [key |-> k, value |-> v, next |-> Null],
                             !.live = @ \cup {c}], c) : c \in Fresh(t) }
    ELSE LET this == Walk(t, Slot(t, k)) IN
         { [t EXCEPT !.item[this[n]].value = v] : n \in {m \in DOMAIN this : Match(t, k, m)} }

(* FULL_RATE (0.7) of the length                                           *)
Full(t) == 7 * t.len <= 10 * t.used

Add(k, v) ==
    /\ ~h.ub
    /\ h' \in Added(h, k, v) /\ res' = Returned("add", k, v, 0)

AddChk(k, v) ==
    /\ ~h.ub
    /\ h' \in Added(IF Full(h) THEN Realloc(h, 2 * h.len) ELSE h, k, v)
    /\ res' = Returned("add", k, v, 0)

Get(k) ==
    /\ ~h.ub
    /\ IF Stray(h, k) THEN h' = Undefined(h) /\ UNCHANGED res
       ELSE /\ UNCHANGED h
            /\ \/ Missing(h, k) /\ res' = Returned("get", k, None, None)
               \/ \E n \in DOMAIN Walk(h, Slot(h, k)) :
                     /\ Match(h, k, n)
                     /\ res' = Returned("get", k, None,
                                        h.item[Walk(h, Slot(h, k))[n]].value)

(* Mutant: the count of the bucket is not decreased.                       *)
UnlinkedKeepsCount(t, b, n) ==
    LET this == Walk(t, b)
        after == t.item[this[n]].next
        free == [t EXCEPT !.item[this[n]] = NoItem, !.live = @ \ {this[n]},
                          !.used = @ - 1]
    IN  IF n = 1 THEN [free EXCEPT !.table[b].head = after]
        ELSE [free EXCEPT !.item[this[n - 1]].next = after]

(* Mutant: the count of the table is decreased twice.                      *)
UnlinkedCountsTwice(t, b, n) ==
    LET this == Walk(t, b)
        after == t.item[this[n]].next
        free == [t EXCEPT !.item[this[n]] = NoItem, !.live = @ \ {this[n]},
                          !.used = @ - 2, !.table[b].used = @ - 1]
    IN  IF n = 1 THEN [free EXCEPT !.table[b].head = after]
        ELSE [free EXCEPT !.item[this[n - 1]].next = after]

(* The n-th item of bucket b is taken out of the list and freed: "No       *)
(* modification to tail needed" is said of the first, and done for none.   *)
Unlinked(t, b, n) ==
    LET this == Walk(t, b)
        after == t.item[this[n]].next
        free == [t EXCEPT !.item[this[n]] = NoItem, !.live = @ \ {this[n]},
                          !.used = @ - 1, !.table[b].used = @ - 1]
    IN  IF n = 1 THEN [free EXCEPT !.table[b].head = after]
        ELSE [free EXCEPT !.item[this[n - 1]].next = after]

Rm(k) ==
    /\ ~h.ub
    /\ IF Stray(h, k) THEN h' = Undefined(h) /\ UNCHANGED res
       ELSE \/ Missing(h, k) /\ UNCHANGED h /\ res' = Returned("rm", k, None, 1)
            \/ \E n \in DOMAIN Walk(h, Slot(h, k)) :
                  /\ Match(h, k, n) /\ h' = Unlinked(h, Slot(h, k), n)
                  /\ res' = Returned("rm", k, None, 0)

(* psh_hash_free and psh_hash_create with the old length                   *)
Clear == ~h.ub /\ h' = Create(h.len) /\ res' = Returned("create", None, None, None)

Update == \E k \in Keys, v \in Values : Add(k, v) \/ AddChk(k, v)
Next == Update \/ (\E k \in Keys : Get(k) \/ Rm(k)) \/ Clear

Spec == Init /\ [][Next]_vars

(* The callers' steps that keep clear of the one thing psh_hash_rm gets    *)
(* wrong: they never remove the last item of a list that has others.       *)
LastOfSeveral(k) ==
    LET used == h.table[Slot(h, k)].used IN used > 1 /\ Match(h, k, used)

CarefulNext ==
    \/ Update \/ Clear
    \/ \E k \in Keys : Get(k) \/ (~LastOfSeveral(k) /\ Rm(k))

CarefulSpec == Init /\ [][CarefulNext]_vars

-----------------------------------------------------------------------------
TypeOK ==
    /\ h.len \in Nat \ {0} /\ h.used \in Nat
    /\ h.table \in [0..h.len - 1 -> [used : Nat, head : Cells \cup {Null},
                                     tail : Cells \cup {Null}]]
    /\ h.item \in [Cells -> Item]
    /\ h.live \subseteq Cells /\ h.ub \in BOOLEAN
    /\ res \in [op : {"create", "add", "get", "rm"}, key : Keys \cup {None},
               value : Values \cup {None}, ret : Values \cup {None, 0, 1}]

(* tail is the "Pointer to the last item" of every list that has items:    *)
(* the next insertion writes through it.                                   *)
TailIsLast ==
    \A b \in 0..h.len - 1 :
       h.table[b].used > 0 => h.table[b].tail = Walk(h, b)[h.table[b].used]

(* The lists share no item and hold every allocated one, each in the       *)
(* bucket of its key: nothing is leaked or lost by the stale next pointers *)
(* that resizing and removal leave behind the last items.                  *)
ListsExact ==
    LET place == UNION {{b} \X (1..h.table[b].used) : b \in 0..h.len - 1}
        At(p) == Walk(h, p[1])[p[2]]
    IN  /\ {At(p) : p \in place} = h.live
        /\ \A p, q \in place : At(p) = At(q) => p = q
        /\ \A p \in place : Slot(h, h.item[At(p)].key) = p[1]
        /\ Cardinality(place) = h.used

(* No call follows or writes through a dangling pointer.                   *)
NoBadPointer == ~h.ub

(* The table is the map its header promises: what is found for a key is    *)
(* what was last added and not removed, through edits, resizes and         *)
(* collisions.                                                             *)
Lookup(t, k) ==
    LET this == Walk(t, Slot(t, k)) IN
    IF \E n \in DOMAIN this : Match(t, k, n)
    THEN t.item[this[CHOOSE n \in DOMAIN this : Match(t, k, n)]].value
    ELSE None

Map == INSTANCE KVMap WITH dict <- [k \in Keys |-> Lookup(h, k)]
IsMap == Map!Spec
=============================================================================
