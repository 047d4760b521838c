---------------------------- MODULE MCIndexStore ----------------------------
(* IndexStore with two versions of one file: a symbol changes, a symbol comes. *)
EXTENDS IndexStore

TwoVersions == <<<<[name |-> "s", text |-> 11, body |-> 21]>>,
                 <<[name |-> "s", text |-> 12, body |-> 22], [name |-> "t", text |-> 13, body |-> 23]>>>>
=============================================================================
