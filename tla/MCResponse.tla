----------------------------- MODULE MCResponse -----------------------------
(* An instance of Response for TLC.                                          *)
EXTENDS Response

CONSTANTS v1, v2

MCValue == {Empty, v1, v2}
MCLeast == [t \in WireTypes \ Sized |-> <<IF t = WIRE_TYPE_FLOAT THEN "double" ELSE "least", Width(t)>>]
MCSize == [v \in MCValue |-> IF v = Empty THEN 0 ELSE IF v = v1 THEN 1 ELSE 3]

\* Every type of column, strings in the middle, a table without rows.
MCWide == [columns |-> <<[name |-> v1, type |-> 3], [name |-> v2, type |-> 9],
                         [name |-> Empty, type |-> 4], [name |-> v1, type |-> 25],
                         [name |-> v2, type |-> 5]>>,
           rows |-> <<<<v1, NullValue, v2, v2, NullValue>>, <<NullValue, v2, NullValue, NullValue, v1>>>>]
MCLong == [columns |-> <<[name |-> v2, type |-> 6], [name |-> v1, type |-> 11],
                         [name |-> v1, type |-> 22], [name |-> v2, type |-> 8]>>,
           rows |-> <<<<v1, NullValue, v2, v1>>, <<NullValue, v1, NullValue, NullValue>>>>]
MCNone == [columns |-> <<[name |-> v1, type |-> 9]>>, rows |-> <<>>]

MCMessage ==
  {[clientData |-> 0, status |-> None, appStatus |-> None, error |-> None,
    tables |-> <<MCWide>>],
   [clientData |-> 1, status |-> v2, appStatus |-> Empty, error |-> v2,
    tables |-> <<MCNone, MCLong>>],
   [clientData |-> 2, status |-> None, appStatus |-> v1, error |-> v1,
    tables |-> <<>>],
   [clientData |-> 3, status |-> v2, appStatus |-> None, error |-> None,
    tables |-> <<MCLong, MCNone, MCWide>>]}
=============================================================================
