------------------------------ MODULE WireType ------------------------------
(* include/WireType.h: the types of values on the wire, and their widths.    *)
EXTENDS Integers

WIRE_TYPE_ARRAY == -99
WIRE_TYPE_NULL == 1
WIRE_TYPE_TINYINT == 3
WIRE_TYPE_FLOAT == 8
WIRE_TYPE_STRING == 9
WIRE_TYPE_DECIMAL == 22
WIRE_TYPE_VARBINARY == 25
Sized == {WIRE_TYPE_STRING, WIRE_TYPE_VARBINARY}

WireTypes == {3, 4, 5, 6, 8, 11, 22} \cup Sized

\* TINYINT, SMALLINT, INTEGER, BIGINT, FLOAT, TIMESTAMP, DECIMAL.
Width(t) == CASE t = 3 -> 1 [] t = 4 -> 2 [] t = 5 -> 4
              [] t \in {6, 8, 11} -> 8 [] t = 22 -> 16
=============================================================================
