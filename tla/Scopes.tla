-------------------------------- MODULE Scopes --------------------------------
(***************************************************************************)
(* What src/variable.h promises of variables: every context frame has      *)
(* variables of its own; one is set in the innermost frame when it is      *)
(* local, otherwise where it is found or else in the outermost frame; it   *)
(* is looked up from the innermost frame outwards; and the variables of a  *)
(* frame go when it is left.                                               *)
(***************************************************************************)
EXTENDS Integers, SequencesExt

CONSTANTS Names, Values, None

VARIABLES
    scopes,     \* the values by frame, the outermost first
    res         \* the last call and what it returned

Empty == [n \in Names |-> None]

Returned(op, n, value, local, export, ret) ==
    [op |-> op, name |-> n, value |-> value, local |-> local, export |-> export, ret |-> ret]
Done(op) == Returned(op, None, None, FALSE, FALSE, 0)

Init == scopes = <<Empty>> /\ res = Done("enter")

Enter == scopes' = Append(scopes, Empty) /\ res' = Done("enter")
Leave == Len(scopes) > 1 /\ scopes' = Front(scopes) /\ res' = Done("leave")
Destroy == scopes' = <<>> /\ res' = Done("destroy")

(* The frame where a name stands for a variable.                           *)
Holding(n) == {i \in DOMAIN scopes : scopes[i][n] # None}
Home(n, local) ==
    IF local THEN Len(scopes) ELSE IF Holding(n) = {} THEN 1 ELSE Max(Holding(n))

SetAt(i, n, value) == scopes' = [scopes EXCEPT ![i][n] = value]

(* An exported variable is never made local.                               *)
Set(n, value, local, export) ==
    /\ SetAt(Home(n, local /\ ~export), n, value)
    /\ res' = Returned("set", n, value, local, export, 0)

Get(n, local) ==
    /\ res' = Returned("get", n, None, local, FALSE, scopes[Home(n, local)][n])
    /\ UNCHANGED scopes

(* 0 if something is removed, 1 if not found                               *)
Unset(n) ==
    /\ SetAt(Home(n, FALSE), n, None)
    /\ res' = Returned("unset", n, None, FALSE, FALSE, IF Holding(n) = {} THEN 1 ELSE 0)

Next ==
    /\ scopes # <<>>
    /\ \/ Enter \/ Leave \/ Destroy
       \/ \E n \in Names :
            \/ Unset(n)
            \/ \E local \in BOOLEAN :
                 \/ Get(n, local)
                 \/ \E value \in Values, export \in BOOLEAN : Set(n, value, local, export)

Spec == Init /\ [][Next]_<<scopes, res>>
=============================================================================
