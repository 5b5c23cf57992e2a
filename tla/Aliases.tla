------------------------------- MODULE Aliases -------------------------------
(***************************************************************************)
(* Aliases: builtin_alias, builtin_unalias and expand_alias of             *)
(* src/builtins/alias.c.  The alias table is the hash table HashTable      *)
(* models, here the map KVMap that it implements.                          *)
(*                                                                         *)
(* A text is a sequence of words and of the characters that end a word.    *)
(***************************************************************************)
EXTENDS Integers, SequencesExt

CONSTANTS
    AliasNames,
    Definitions,    \* argument name=value -> [name, value]
    NoAlias         \* nothing is found

Ending == {" ", ";", "&", "|", ")"}

ASSUME DefinitionsAssumption ==
    /\ "" \notin AliasNames /\ AliasNames \cap Ending = {}
    /\ \A a \in DOMAIN Definitions : Definitions[a].name \in AliasNames

VARIABLES
    aliases,        \* state->alias_table
    text            \* result of expand_alias

aliasVars == <<aliases, text>>

(* psh_hash_get, for any word                                              *)
AliasOf(w) == IF w \in AliasNames THEN aliases[w] ELSE NoAlias

FirstWord(t) == IF t = <<>> \/ t[1] \in Ending THEN "" ELSE t[1]

(* Mutant: what follows the first word is lost.                            *)
ExpandLosesRest ==
    /\ AliasOf(FirstWord(text)) # NoAlias
    /\ text' = AliasOf(FirstWord(text))
    /\ UNCHANGED aliases

(* Mutant: the first word is not taken away.                               *)
ExpandKeepsWord ==
    /\ AliasOf(FirstWord(text)) # NoAlias
    /\ text' = AliasOf(FirstWord(text)) \o text
    /\ UNCHANGED aliases

(* One turn of the loop: the value takes the place of the first word.      *)
ExpandOnce ==
    /\ AliasOf(FirstWord(text)) # NoAlias
    /\ text' = AliasOf(FirstWord(text)) \o Tail(text)
    /\ UNCHANGED aliases

Expanded == AliasOf(FirstWord(text)) = NoAlias

(* Every argument defines an alias or is looked up: 1 if one is not found. *)
AliasArgument(r, a) ==
    CASE a \in DOMAIN Definitions ->
             [r EXCEPT !.table[Definitions[a].name] = Definitions[a].value]
      [] a \notin DOMAIN Definitions /\ a \in AliasNames /\ r.table[a] # NoAlias -> r
      [] OTHER -> [r EXCEPT !.status = 1]
AliasStart == [table |-> aliases, status |-> 0]
AliasResult(args) == FoldLeft(AliasArgument, AliasStart, args)

BuiltinAlias(args, status) ==
    LET result == AliasResult(args)
    IN  /\ aliases' = result.table
        /\ status = IF args = <<"-p">> THEN 1 ELSE result.status

BuiltinUnalias(args, status) ==
    /\ status = IF args = <<>> THEN 2 ELSE 0
    /\ aliases' =
           IF args # <<>> /\ args[1] = "-a" THEN [n \in AliasNames |-> NoAlias]
           ELSE [n \in AliasNames |-> IF n \in Range(args) THEN NoAlias ELSE aliases[n]]

-----------------------------------------------------------------------------
(* No chain of aliases, each the first word of the one before, comes back  *)
(* to where it began.                                                      *)
Acyclic ==
    \A S \in SUBSET AliasNames \ {{}} :
        \E n \in S : aliases[n] = NoAlias \/ FirstWord(aliases[n]) \notin S
=============================================================================
