------------------------------ MODULE Variables ------------------------------
(***************************************************************************)
(* Variables: src/variable.c, with the containers and attributes of        *)
(* src/include/variable.h.  The hash tables of a frame are HashTable, here *)
(* the maps (KVMap) they implement; the table of the functions of a frame  *)
(* is handled by the same code as that of its variables and is left out.   *)
(*                                                                         *)
(* A payload is an integer in the container or memory that the container   *)
(* owns, which the caller of psh_vf_set allocated.  After an access to     *)
(* memory that is not allocated anything may happen (ub).                  *)
(***************************************************************************)
EXTENDS Integers, SequencesExt

CONSTANTS
    Names, Values, None,
    Cells,          \* bound: the memory for payloads
    FirstSlots,     \* the slots for frames at first: 4
    MaxSlots        \* bound: no more frames than that are ever tried

(* What the attributes tell apart.  PARSED stands for what put_to_environ  *)
(* leaves out, 0xc0a: code, references and associative arrays.  Nothing in *)
(* psh makes an array yet, so the array types are not here: an indexed one *)
(* would be put to the environment, since 0xc0a lacks its bit 0x001, as if *)
(* the array were a string, and an array of integers as if it were one.    *)
Types == {"INTEGER", "STRING", "PARSED"}
NoUpdate == [type |-> "NO_UPDATE", export |-> FALSE]
Attributes == [type : Types, export : BOOLEAN]

(* A container has its payload in itself or in a cell that it owns.        *)
Owns(container) == container.type # "INTEGER"
Containers ==
    {c \in [type : Types, export : BOOLEAN, unset : BOOLEAN, payload : Cells \cup Values] :
        c.payload \in IF Owns(c) THEN Cells ELSE Values}
Tables == [Names -> Containers \cup {None}]

ASSUME VariablesAssumption ==
    /\ FirstSlots \in Nat \ {0} /\ MaxSlots \in Nat /\ FirstSlots <= MaxSlots
    /\ None \notin Values /\ None \notin Containers

VARIABLES
    contexts,       \* the frames that are open, the outermost first
    slots,          \* state->context_slots
    memory,         \* the contents of the cells that are allocated
    environ,        \* the environment that children inherit
    ub,             \* memory that is not allocated was accessed
    res             \* the last call and what it returned

vars == <<contexts, slots, memory, environ, ub, res>>

Returned(op, n, value, local, export, ret) ==
    [op |-> op, name |-> n, value |-> value, local |-> local, export |-> export, ret |-> ret]
Done(op) == Returned(op, None, None, FALSE, FALSE, 0)

Calls == [op : {"enter", "leave", "destroy", "get", "set", "unset"},
          name : Names \cup {None}, value : Values \cup {None},
          local : BOOLEAN, export : BOOLEAN, ret : Values \cup {None, 0, 1}]

NoTable == [n \in Names |-> None]
Innermost == Len(contexts)

Init ==
    /\ contexts = <<NoTable>> /\ slots = FirstSlots
    /\ memory = [c \in {} |-> None] /\ environ = [n \in Names |-> None]
    /\ ub = FALSE /\ res = Done("enter")

-----------------------------------------------------------------------------
(* The value behind a container.                                           *)
Dangling(container) == Owns(container) /\ container.payload \notin DOMAIN memory
Contents(container) ==
    IF Owns(container) THEN memory[container.payload] ELSE container.payload

(* Mutant: the payload of an integer is freed and nothing else is.         *)
ClearedNot(cells, container) == cells

(* clear_single_var: the cells left allocated.                             *)
Cleared(cells, container) ==
    IF Owns(container) THEN cells \ {container.payload} ELSE cells

Restricted(cells) == [c \in cells |-> memory[c]]

(* psh_vf_get: the frames that have the variable, and the innermost of     *)
(* them; with force_local only the innermost frame is searched.  The mark  *)
(* of a local variable that was unset is not looked at.                    *)
Holding(n) == {i \in DOMAIN contexts : contexts[i][n] # None}
Found(n, forceLocal) ==
    LET where == IF forceLocal THEN Holding(n) \cap {Innermost} ELSE Holding(n)
    IN  IF where = {} THEN 0 ELSE Max(where)

(* Mutant: put to the environment only what is new there.                  *)
PutToEnvironOnce(attrib, n, value) ==
    IF attrib.type = "PARSED" \/ environ[n] # None THEN environ
    ELSE [environ EXCEPT ![n] = value]

(* put_to_environ                                                          *)
PutToEnviron(attrib, n, value) ==
    IF attrib.type = "PARSED" THEN environ ELSE [environ EXCEPT ![n] = value]

FreeCells == Cells \ DOMAIN memory

-----------------------------------------------------------------------------
(* psh_vfa_new_context: the array grows when the index is one more than    *)
(* the slots, when the frame before was already written past its end.      *)
NewContext ==
    /\ Innermost < MaxSlots
    /\ slots' = IF Innermost = slots + 1 THEN 2 * slots ELSE slots
    /\ ub' = (Innermost >= slots')
    /\ contexts' = Append(contexts, NoTable)
    /\ res' = Done("enter")
    /\ UNCHANGED <<memory, environ>>

(* psh_vf_get, and the payload that the caller reads.                      *)
Get(n, forceLocal) ==
    LET i == Found(n, forceLocal)
        dangling == IF i = 0 THEN FALSE ELSE Dangling(contexts[i][n])
    IN  /\ ub' = dangling
        /\ res' = Returned("get", n, None, forceLocal, FALSE,
                           IF i = 0 \/ dangling THEN None ELSE Contents(contexts[i][n]))
        /\ UNCHANGED <<contexts, slots, memory, environ>>

(* Mutants: nothing is local, or everything is.                            *)
FrameOfNotLocal(n, attrib, local) == IF Found(n, FALSE) # 0 THEN Found(n, FALSE) ELSE 1
FrameOfAllLocal(n, attrib, local) == Innermost

(* The frame psh_vf_set updates a variable in or psh_vf_add_raw adds it    *)
(* to.  Exported variables are not made local.                             *)
FrameOf(n, attrib, local) ==
    LET innermost == local /\ ~attrib.export
    IN  IF Found(n, innermost) # 0 THEN Found(n, innermost)
        ELSE IF innermost THEN Innermost ELSE 1

(* Mutant: NO_UPDATE is stored like any other attribute.                   *)
AttributesOfNew(attrib, old) ==
    [type |-> attrib.type, export |-> attrib.export, unset |-> FALSE]

(* The attributes a variable gets: NO_UPDATE leaves those it has.          *)
AttributesOf(attrib, old) ==
    IF attrib = NoUpdate THEN [type |-> old.type, export |-> old.export, unset |-> old.unset]
    ELSE [type |-> attrib.type, export |-> attrib.export, unset |-> FALSE]

(* psh_vf_set with a payload of its own; a new variable without attributes *)
(* is a code_fault().                                                      *)
Set(n, attrib, value, local) ==
    LET i == FrameOf(n, attrib, local)
        old == contexts[i][n]
        a == AttributesOf(attrib, old)
        New(payload) == [type |-> a.type, export |-> a.export, unset |-> a.unset,
                         payload |-> payload]
        kept == IF old = None THEN DOMAIN memory ELSE Cleared(DOMAIN memory, old)
    IN  /\ ~(attrib = NoUpdate /\ old = None)
        /\ ub' = IF old = None THEN FALSE ELSE Dangling(old)
        /\ res' = Returned("set", n, value, local, attrib.export, 0)
        /\ environ' = IF attrib.export THEN PutToEnviron(attrib, n, value) ELSE environ
        /\ IF a.type = "INTEGER"
           THEN /\ memory' = Restricted(kept)
                /\ contexts' = [contexts EXCEPT ![i][n] = New(value)]
           ELSE \E cell \in FreeCells :
                   /\ memory' = [c \in kept \cup {cell} |->
                                    IF c = cell THEN value ELSE memory[c]]
                   /\ contexts' = [contexts EXCEPT ![i][n] = New(cell)]
        /\ UNCHANGED slots

(* The cells a table owns.                                                 *)
Payloads(table) ==
    {table[n].payload : n \in {n \in Names : table[n] # None /\ Owns(table[n])}}

(* psh_vf_exit_local                                                       *)
ExitLocal ==
    /\ Innermost > 1
    /\ ub' = (\E n \in Names : Last(contexts)[n] # None /\ Dangling(Last(contexts)[n]))
    /\ memory' = Restricted(DOMAIN memory \ Payloads(Last(contexts)))
    /\ contexts' = Front(contexts)
    /\ res' = Done("leave")
    /\ UNCHANGED <<slots, environ>>

(* psh_vf_unset: a local variable is only marked, with its payload freed.  *)
Unset(n) ==
    LET i == Found(n, FALSE)
        old == contexts[i][n]
    IN  /\ i # 0
        /\ res' = Returned("unset", n, None, FALSE, FALSE, 0)
        /\ ub' = Dangling(old)
        /\ memory' = Restricted(Cleared(DOMAIN memory, old))
        /\ environ' = IF old.export /\ old.type # "PARSED" /\ ~old.unset
                      THEN [environ EXCEPT ![n] = None] ELSE environ
        /\ contexts' = [contexts EXCEPT ![i][n] =
                           IF i = 1 THEN None ELSE [old EXCEPT !.unset = TRUE]]
        /\ UNCHANGED slots

(* psh_vf_unset of a variable that is in no frame.                         *)
UnsetMissing(n) ==
    /\ Found(n, FALSE) = 0
    /\ res' = Returned("unset", n, None, FALSE, FALSE, 1)
    /\ UNCHANGED <<contexts, slots, memory, environ, ub>>

(* psh_vfa_free                                                            *)
Free ==
    /\ ub' = (\E i \in DOMAIN contexts, n \in Names :
                 contexts[i][n] # None /\ Dangling(contexts[i][n]))
    /\ memory' = Restricted(DOMAIN memory \ UNION {Payloads(t) : t \in Range(contexts)})
    /\ contexts' = <<>>
    /\ res' = Done("destroy")
    /\ UNCHANGED <<slots, environ>>

Running == contexts # <<>> /\ ~ub

Next ==
    /\ Running
    /\ \/ NewContext \/ ExitLocal \/ Free
       \/ \E n \in Names :
            \/ Unset(n) \/ UnsetMissing(n)
            \/ \E forceLocal \in BOOLEAN : Get(n, forceLocal)
            \/ \E a \in Attributes \cup {NoUpdate}, v \in Values, l \in BOOLEAN :
                  Set(n, a, v, l)

Spec == Init /\ [][Next]_vars

-----------------------------------------------------------------------------
(* What the shell keeps to, and the ways in which the code fails who does  *)
(* not: no more frames than there are slots at first; only variables of    *)
(* the outermost frame are unset; a variable is exported only where no     *)
(* local one hides it; and one that children inherit is only set as such.  *)
Exported(c) == IF c = None THEN FALSE ELSE c.export /\ c.type # "PARSED"

CarefulSet(n, attrib, local) ==
    LET i == FrameOf(n, attrib, local) IN
    /\ attrib.export => i = 1
    /\ Exported(contexts[i][n]) => attrib.export /\ attrib.type # "PARSED"

CarefulNext ==
    /\ Running
    /\ \/ Innermost < FirstSlots /\ NewContext
       \/ ExitLocal \/ Free
       \/ \E n \in Names :
            \/ Found(n, FALSE) = 1 /\ Unset(n)
            \/ UnsetMissing(n)
            \/ \E forceLocal \in BOOLEAN : Get(n, forceLocal)
            \/ \E a \in Attributes \cup {NoUpdate}, v \in Values, l \in BOOLEAN :
                  CarefulSet(n, a, l) /\ Set(n, a, v, l)

CarefulSpec == Init /\ [][CarefulNext]_vars

-----------------------------------------------------------------------------
TypeOK ==
    /\ contexts \in Seq(Tables)
    /\ slots \in Nat /\ ub \in BOOLEAN
    /\ DOMAIN memory \subseteq Cells /\ memory \in [DOMAIN memory -> Values]
    /\ environ \in [Names -> Values \cup {None}]
    /\ res \in Calls

(* Every payload that is allocated belongs to exactly one variable, and    *)
(* every variable has its payload: none is leaked, none is freed twice or  *)
(* used after it was freed, and nothing is left when the shell ends.       *)
PayloadsOwnedOnce ==
    LET at(o) == contexts[o[1]][o[2]]
        owners == {o \in (DOMAIN contexts) \X Names : at(o) # None /\ Owns(at(o))}
    IN  /\ ~ub
        /\ {at(o).payload : o \in owners} = DOMAIN memory
        /\ \A o, q \in owners : at(o).payload = at(q).payload => o = q

(* A child inherits the exported variables with the values they have.      *)
EnvironIsExported ==
    contexts # <<>> => \A n \in Names :
        environ[n] = IF Exported(contexts[1][n]) THEN Contents(contexts[1][n]) ELSE None

(* What the frames hold, behind the containers.                            *)
ValuesByFrame ==
    [i \in DOMAIN contexts |-> [n \in Names |->
        IF contexts[i][n] = None THEN None ELSE Contents(contexts[i][n])]]

Scoped == INSTANCE Scopes WITH scopes <- ValuesByFrame

(* Sets, lookups and frames keep what variable.h says of scopes: every     *)
(* call works in the frame that it says for the is_local and the exporting *)
(* it was given, and a lookup returns the value that was set there.        *)
IsScoped == Scoped!Spec
=============================================================================
