------------------------------ MODULE MCMetadata ------------------------------
(***************************************************************************)
(* A pod and four objects that own it or one another, in any way, one of   *)
(* them of a kind that is not looked up.                                   *)
(***************************************************************************)
EXTENDS Metadata, TLC

Tag(key) == [key |-> key, ok |-> TRUE]
TooLong(key) == [key |-> key, ok |-> FALSE]

Owners == {"a", "b", "c", "node"}
MCOwnerLists ==
    {<<>>} \cup {<<o>> : o \in Owners} \cup {l \in Owners \X Owners : l[1] # l[2]}

MCAnnotations ==
    [pod |-> {TooLong(1)}, a |-> {Tag(1), Tag(3)}, b |-> {Tag(1), Tag(2)},
     c |-> {Tag(1), Tag(2), Tag(4)}, node |-> {Tag(5)}]
MCRisks == [pod |-> {}, a |-> {"r1"}, b |-> {"r2"}, c |-> {}, node |-> {"r3"}]
=============================================================================
