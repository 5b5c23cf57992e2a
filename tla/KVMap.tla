-------------------------------- MODULE KVMap --------------------------------
(***************************************************************************)
(* What a psh_hash promises its callers (src/include/libpsh/hash.h): a     *)
(* partial map from keys to values, whatever the table does to keep it.    *)
(***************************************************************************)
CONSTANTS Keys, Values, None

VARIABLES
    dict,   \* the value of every key, None for a key that is not there
    res     \* the last call and what it returned

Returned(op, k, v, ret) == [op |-> op, key |-> k, value |-> v, ret |-> ret]

Init ==
    /\ dict = [k \in Keys |-> None]
    /\ res = Returned("create", None, None, None)

Add(k, v) ==
    /\ res' = Returned("add", k, v, 0)
    /\ dict' = [dict EXCEPT ![k] = v]

(* NULL when there is no such key                                          *)
Get(k) == res' = Returned("get", k, None, dict[k]) /\ UNCHANGED dict

(* 0 if success, 1 if the key is not found                                 *)
Rm(k) ==
    /\ res' = Returned("rm", k, None, IF dict[k] = None THEN 1 ELSE 0)
    /\ dict' = [dict EXCEPT ![k] = None]

(* hash -r, unalias -a: the table is freed and another one created         *)
Clear ==
    /\ res' = Returned("create", None, None, None)
    /\ dict' = [k \in Keys |-> None]

Next ==
    \/ \E k \in Keys : Get(k) \/ Rm(k) \/ \E v \in Values : Add(k, v)
    \/ Clear

Spec == Init /\ [][Next]_<<dict, res>>
=============================================================================
