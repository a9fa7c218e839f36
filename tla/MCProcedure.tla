---------------------------- MODULE MCProcedure -----------------------------
(* An instance of Procedure for TLC.                                         *)
EXTENDS Procedure

CONSTANT v1

MCValue == {Empty, v1}
MCSize == [v \in MCValue |-> IF v = Empty THEN 0 ELSE 3]

\* TINYINT, FLOAT, STRING: one byte, the short reservation, a length.
MCType == {3, 8, 9}
MCSignature == {<<>>, <<[type |-> 3, array |-> FALSE]>>,
                <<[type |-> 9, array |-> FALSE], [type |-> 8, array |-> TRUE]>>,
                <<[type |-> 9, array |-> TRUE], [type |-> 3, array |-> TRUE]>>}
=============================================================================
