----------------------------- MODULE MCRedirect -----------------------------
(* The redirection lists Redirect is model-checked on.                     *)
EXTENDS Redirect

(* Redirections of and to standard descriptors.                            *)
Standard ==
    {r \in Redirection : r.fd \in 0..2 /\ (r.type = "fd2fd" => r.rhs \in 0..2)}

(* All the orderly lists but the empty one: of three redirections at most. *)
MCOrderlyLists ==
    LET One == {<<r>> : r \in Standard}
        Two == {l \in Standard \X Standard : Orderly({l})}
        Three == {l \in Standard \X Standard \X Standard : Orderly({l})}
    IN  One \cup Two \cup Three

ASSUME OrderlyAssumption == Orderly(MCOrderlyLists)

(* cmd >&n, as the parser stores it: a duplicate of 0 on 0.                *)
MCParserLists == {<<[type |-> "fd2fd", fd |-> 0, rhs |-> 0]>>}
=============================================================================
